--------------------------- MODULE MCPartRequest ---------------------------
(***************************************************************************)
(* Small instances of PartRequest: what the calls are made with.           *)
(***************************************************************************)
EXTENDS PartRequest, TLC

AnyWarehouse == CHOOSE w \in Warehouses : TRUE

In(ops, quantities) ==
  [op: ops, qty: quantities, wh: {AnyWarehouse}, good: {TRUE}]
Create == In({"create"}, {Requested})

\* Approvals, withdrawals and issues that compete for one request, and what
\* else happens to its stock, its line and its job.
DecideAndIssue ==
  Create \cup In({"approve", "issue"}, 1..Requested)
         \cup In({"approveFinance", "stockOut"}, {Requested})
         \cup In({"reject", "cancel", "cancelJob", "close", "use", "receive"},
                  {1})

\* Good and damaged parts that come back at the same time.
Returns ==
  Create \cup In({"issue"}, {Requested}) \cup In({"confirmReturn"}, 1..Requested)
         \cup [op: {"requestReturn"}, qty: {1}, wh: {AnyWarehouse}, good: BOOLEAN]

\* Goods come into a warehouse between two issues, and make it the fullest.
IssueFromStores ==
  Create \cup In({"issue"}, {Requested})
         \cup [op: {"receive"}, qty: {Requested}, wh: Warehouses, good: {TRUE}]

\* One unit more than the request: two issues fit in the stock together, an
\* issue and a stock-out do not.
SpareStock == [w \in Warehouses |-> Requested + 1]
FullStock == [w \in Warehouses |-> Requested]
UnevenStock ==
  [w \in Warehouses |-> IF w = AnyWarehouse THEN Requested ELSE Requested - 1]
Interchangeable == Permutations(Calls \ {Creator})
=============================================================================
