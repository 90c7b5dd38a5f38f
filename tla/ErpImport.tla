----------------------------- MODULE ErpImport -----------------------------
(***************************************************************************)
(* The import of one ERP stock workbook, and the synchronisation with the  *)
(* ERP beside it: upload, validation (which stores the rows that differ    *)
(* from the stock), and application, which brings the stock to the         *)
(* quantities of the workbook.  Every statement is one action.  Calls run  *)
(* on several processes; the applications of one process wait for each     *)
(* other, those of two processes do not.  A process may die at any time.   *)
(*                                                                         *)
(* Stock is kept in one store.  Its balance is what a workbook is compared *)
(* with; the total of the part, from which the adjustment is computed, is  *)
(* written after the balance by every movement and may lag behind it.  A   *)
(* part that has no balance yet counts with the one it will be given.  The *)
(* stock engine is modelled by what StockPromise says of it: an adjustment *)
(* claims its key, changes the balance at once and stores its result.      *)
(***************************************************************************)
EXTENDS Integers, FiniteSets

CONSTANTS Calls, Processes, Nobody,
          host,         \* the process each call runs on
          Parts,
          Initial,      \* the stock when the workbook is uploaded
          Snapshot,     \* the quantities of the workbook
          Feed,         \* the quantities the ERP answers a synchronisation with
          MaxMoves      \* bound on the other movements of a part

ASSUME CallAssumption ==
  IsFiniteSet(Calls) /\ host \in [Calls -> Processes] /\ Nobody \notin Calls
ASSUME StockAssumption ==
  /\ Initial \in [Parts -> Nat] /\ Snapshot \in [Parts -> Nat]
  /\ Feed \in [Parts -> Nat]
ASSUME BoundAssumption == MaxMoves \in Nat

VARIABLES
  status, appliedAt,    \* columns of InventoryImportRun ("none": no run yet)
  rows,                 \* InventoryImportRow: the CHANGE rows of each part
  onHand,               \* WarehouseItemBalance.onHand
  total,                \* SparePart.quantityInStock
  unread, sums,         \* other movements of a part that have changed the
                        \* balance: how many have not summed up the balances,
                        \* and the sums that are not written to the part
  key,                  \* the engine's record for the import's key of a part
  applyLocks,           \* who holds the lock of each process
  call,                 \* the calls
  moves,                \* history: changes of a balance by anything else
  adjustments,          \* history: adjustments the import made to a part
  result                \* history: the rows of the last result, and those it
                        \* had no adjustment to make for

run == <<status, appliedAt>>
movement == <<unread, sums, moves>>
stock == <<onHand, total, movement>>
history == <<adjustments, result>>
vars == <<run, rows, stock, key, applyLocks, call, history>>

Applied == {"COMPLETED", "PARTIAL"}
Status == Applied \cup {"none", "UPLOADED", "VALIDATED", "BLOCKED", "APPLYING", "FAILED"}
Steps == {"idle", "parts", "delete", "create", "validated", "wait", "reclaim", "ready",
          "claim", "lock", "compare", "row", "key", "adjust", "sum", "total", "commit",
          "finish", "blocked", "end"}
Free == [quantity |-> 0, done |-> FALSE]

\* A sum and, to tell the readings apart, when it was read.
SumRead == [sum: Nat, after: Nat, of: Nat]

Idle == [step |-> "idle", kind |-> "none", read |-> [p \in Parts |-> 0],
         todo |-> {}, skipped |-> {}, part |-> Nobody, quantity |-> 0, sum |-> 0,
         failed |-> FALSE]

Init ==
  /\ status = "none" /\ appliedAt = FALSE
  /\ rows = [p \in Parts |-> 0]
  /\ onHand = Initial /\ total = Initial
  /\ unread = [p \in Parts |-> 0] /\ sums = [p \in Parts |-> {}]
  /\ key = [p \in Parts |-> Free]
  /\ applyLocks = [x \in Processes |-> Nobody]
  /\ call = [c \in Calls |-> Idle]
  /\ moves = [p \in Parts |-> 0]
  /\ adjustments = [p \in Parts |-> 0]
  /\ result = [rows |-> {}, skipped |-> {}]

At(c, step) == call[c].step = step
Goto(c, step) == call' = [call EXCEPT ![c].step = step]
Begin(c, kind, step) ==
  /\ At(c, "idle")
  /\ call' = [call EXCEPT ![c].kind = kind, ![c].step = step]
Ended == [Idle EXCEPT !.step = "end"]
End(c) == call' = [call EXCEPT ![c] = Ended]

----------------------------------------------------------------------------
(* Upload and validation.                                                  *)

\* The same workbook again finds the run it has.
upload ==
  /\ status = "none" /\ status' = "UPLOADED"
  /\ UNCHANGED <<appliedAt, rows, stock, key, applyLocks, call, history>>

validate(c) ==
  /\ status \notin {"none"} \cup Applied
  /\ Begin(c, "validate", "parts")
  /\ UNCHANGED <<run, rows, stock, key, applyLocks, history>>

\* Several warehouses and none chosen.
WAREHOUSE_SCOPE_REQUIRED(c) ==
  /\ At(c, "parts")
  /\ status' = "BLOCKED" /\ End(c)
  /\ UNCHANGED <<appliedAt, rows, stock, key, applyLocks, history>>

\* Which items differ from the total of their part; an item that is mapped to
\* no active part gets no row to change anything.
ReadParts(c) ==
  /\ At(c, "parts")
  /\ \E unmapped \in SUBSET Parts :
       call' = [call EXCEPT ![c].step = "delete",
         ![c].todo = {p \in Parts \ unmapped : total[p] # Snapshot[p]}]
  /\ UNCHANGED <<run, rows, stock, key, applyLocks, history>>

DeleteRows(c) ==
  /\ At(c, "delete")
  /\ rows' = [p \in Parts |-> 0]
  /\ Goto(c, "create")
  /\ UNCHANGED <<run, stock, key, applyLocks, history>>

CreateRows(c) ==
  /\ At(c, "create")
  /\ rows' = [p \in Parts |-> rows[p] + IF p \in call[c].todo THEN 1 ELSE 0]
  /\ Goto(c, "validated")
  /\ UNCHANGED <<run, stock, key, applyLocks, history>>

\* Duplicate or invalid rows block the import.
WriteValidated(c) ==
  /\ At(c, "validated")
  /\ status' \in {"VALIDATED", "BLOCKED"} /\ End(c)
  /\ UNCHANGED <<appliedAt, rows, stock, key, applyLocks, history>>

----------------------------------------------------------------------------
(* Application.                                                            *)

apply(c) ==
  /\ status \notin {"none"} \cup Applied
  /\ Begin(c, "apply", IF status = "APPLYING" THEN "wait" ELSE "ready")
  /\ UNCHANGED <<run, rows, stock, key, applyLocks, history>>

\* Another call is applying: its result is returned when it comes, and when
\* it does not come in time the run is taken over.
waitForApplyTerminal(c) ==
  /\ At(c, "wait")
  /\ IF status \in Applied \cup {"FAILED"} THEN End(c) ELSE Goto(c, "reclaim")
  /\ UNCHANGED <<run, rows, stock, key, applyLocks, history>>

Reclaim(c) ==
  /\ At(c, "reclaim")
  /\ status' = IF status = "APPLYING" /\ ~ appliedAt THEN "VALIDATED" ELSE status
  /\ Goto(c, "ready")
  /\ UNCHANGED <<appliedAt, rows, stock, key, applyLocks, history>>

ReadReady(c) ==
  /\ At(c, "ready")
  /\ IF status = "VALIDATED"
     THEN call' = [call EXCEPT ![c].step = "claim", ![c].read = rows]
     ELSE End(c)
  /\ UNCHANGED <<run, rows, stock, key, applyLocks, history>>

\* Only one application goes from VALIDATED to APPLYING; another one waits
\* and returns what comes of it.
Claim(c) ==
  /\ At(c, "claim")
  /\ IF status = "VALIDATED"
     THEN status' = "APPLYING" /\ Goto(c, "lock")
     ELSE End(c) /\ UNCHANGED status
  /\ UNCHANGED <<appliedAt, rows, stock, key, applyLocks, history>>

applyStockSnapshot(c) ==
  /\ Begin(c, "sync", "lock")
  /\ UNCHANGED <<run, rows, stock, key, applyLocks, history>>

withApplyLock(c) ==
  /\ At(c, "lock") /\ applyLocks[host[c]] = Nobody
  /\ applyLocks' = [applyLocks EXCEPT ![host[c]] = c]
  /\ Goto(c, "compare")
  /\ UNCHANGED <<run, rows, stock, key, history>>

Release(c) ==
  applyLocks' = [x \in Processes |-> IF applyLocks[x] = c THEN Nobody ELSE applyLocks[x]]

\* Rows with the same item and warehouse add up.
Target(c, p) ==
  IF call[c].kind = "sync" THEN Feed[p] ELSE call[c].read[p] * Snapshot[p]

InSnapshot(c) ==
  IF call[c].kind = "sync" THEN Parts ELSE {p \in Parts : call[c].read[p] > 0}

\* The items of a snapshot that differ from the balance.  One that no balance
\* of an active part matches is only reported.
compareStockBalances(c) ==
  /\ At(c, "compare")
  /\ \E unmatched \in SUBSET InSnapshot(c) :
       LET changed == {p \in InSnapshot(c) \ unmatched : onHand[p] # Target(c, p)}
       IN call' = [call EXCEPT ![c].step = "row", ![c].todo = changed,
                               ![c].skipped = InSnapshot(c) \ changed]
  /\ UNCHANGED <<run, rows, stock, key, applyLocks, history>>

\* Part of the rows lack the warehouse the others have: nothing is applied.
MappingIncomplete(c) ==
  /\ At(c, "compare")
  /\ \E p \in InSnapshot(c) : onHand[p] # Target(c, p)
  /\ Release(c)
  /\ IF call[c].kind = "sync" THEN End(c) ELSE Goto(c, "blocked")
  /\ UNCHANGED <<run, rows, stock, key, history>>

Skip(c, p) ==
  call' = [call EXCEPT ![c].todo = @ \ {p}, ![c].skipped = @ \cup {p}]

\* The part of each row is read again: it may be gone, or its total may be the
\* one of the snapshot; else the total says how much to adjust by.
ReadPart(c, p) ==
  /\ At(c, "row") /\ p \in call[c].todo
  /\ \/ Skip(c, p)
     \/ /\ total[p] # Target(c, p)
        /\ call' = [call EXCEPT ![c].todo = @ \ {p}, ![c].part = p,
             ![c].quantity = Target(c, p) - total[p],
             ![c].step = IF call[c].kind = "sync" THEN "adjust" ELSE "key"]
  /\ UNCHANGED <<run, rows, stock, key, applyLocks, history>>

NextRow(c, failed) ==
  call' = [call EXCEPT ![c].step = "row", ![c].failed = @ \/ failed,
             ![c].part = Nobody, ![c].quantity = 0, ![c].sum = 0]

\* Faulty variant: every application has keys of its own.
beginIdempotency_KeyPerCall(c) ==
  /\ At(c, "key")
  /\ key' = [key EXCEPT ![call[c].part] =
               [quantity |-> call[c].quantity, done |-> FALSE]]
  /\ Goto(c, "adjust")
  /\ UNCHANGED <<run, rows, stock, applyLocks, history>>

\* The engine: a free key is claimed, a used one is replayed when the
\* quantity is the same and refused when it is not.
beginIdempotency(c) ==
  LET k == key[call[c].part] IN
  /\ At(c, "key")
  /\ \/ /\ k = Free
        /\ key' = [key EXCEPT ![call[c].part] =
                     [quantity |-> call[c].quantity, done |-> FALSE]]
        /\ Goto(c, "adjust")
     \/ /\ k.done /\ NextRow(c, k.quantity # call[c].quantity)
        /\ UNCHANGED key
  /\ UNCHANGED <<run, rows, stock, applyLocks, history>>

\* Faulty variant: what is taken out need not be there.
applyAdjustOut_Unchecked(c) == TRUE

applyAdjustOut(c) == onHand[call[c].part] + call[c].quantity >= 0

\* Each synchronisation has keys of its own.
adjust(c) ==
  LET p == call[c].part IN
  /\ At(c, "adjust") /\ applyAdjustOut(c)
  /\ onHand' = [onHand EXCEPT ![p] = @ + call[c].quantity]
  /\ Goto(c, "sum")
  /\ IF call[c].kind = "sync"
     THEN moves' = [moves EXCEPT ![p] = @ + 1] /\ UNCHANGED adjustments
     ELSE adjustments' = [adjustments EXCEPT ![p] = @ + 1] /\ UNCHANGED moves
  /\ UNCHANGED <<run, rows, total, unread, sums, key, applyLocks, result>>

ReadBalances(c) ==
  /\ At(c, "sum")
  /\ call' = [call EXCEPT ![c].step = "total", ![c].sum = onHand[call[c].part]]
  /\ UNCHANGED <<run, rows, stock, key, applyLocks, history>>

WritePart(c) ==
  /\ At(c, "total")
  /\ total' = [total EXCEPT ![call[c].part] = call[c].sum]
  /\ IF call[c].kind = "sync" THEN NextRow(c, FALSE) ELSE Goto(c, "commit")
  /\ UNCHANGED <<run, rows, onHand, movement, key, applyLocks, history>>

commitIdempotency(c) ==
  /\ At(c, "commit")
  /\ key' = [key EXCEPT ![call[c].part].done = TRUE]
  /\ NextRow(c, FALSE)
  /\ UNCHANGED <<run, rows, stock, applyLocks, history>>

\* The catch of the loop: too many reserved, a key claimed and never finished,
\* too little stock, a failed statement.  What was written stays.
RowFails(c) ==
  /\ \/ /\ call[c].step \in {"key", "adjust", "sum", "total", "commit"}
        /\ NextRow(c, TRUE)
     \/ \E p \in call[c].todo :
          /\ At(c, "row")
          /\ call' = [call EXCEPT ![c].todo = @ \ {p}, ![c].failed = TRUE]
  /\ UNCHANGED <<run, rows, stock, key, applyLocks, history>>

EndOfRows(c) ==
  /\ At(c, "row") /\ call[c].todo = {}
  /\ Release(c)
  /\ IF call[c].kind = "sync" THEN End(c) ELSE Goto(c, "finish")
  /\ UNCHANGED <<run, rows, stock, key, history>>

Result(c) == [rows |-> {p \in Parts : call[c].read[p] > 0},
              skipped |-> call[c].skipped]

\* Faulty variant: the result does not count the rows that failed.
WriteResult_FailuresIgnored(c) ==
  /\ At(c, "finish")
  /\ status' = "COMPLETED" /\ appliedAt' = TRUE /\ End(c)
  /\ result' = Result(c)
  /\ UNCHANGED <<rows, stock, key, applyLocks, adjustments>>

WriteResult(c) ==
  /\ At(c, "finish")
  /\ status' = IF call[c].failed THEN "PARTIAL" ELSE "COMPLETED"
  /\ appliedAt' = TRUE /\ End(c)
  /\ result' = Result(c)
  /\ UNCHANGED <<rows, stock, key, applyLocks, adjustments>>

WriteFailed(c) ==
  /\ At(c, "blocked")
  /\ status' = "FAILED" /\ End(c)
  /\ UNCHANGED <<appliedAt, rows, stock, key, applyLocks, history>>

----------------------------------------------------------------------------
\* An error nobody catches ends the call; its lock is released.
Throw(c) ==
  /\ call[c].step \notin {"idle", "end"}
  /\ Release(c) /\ End(c)
  /\ UNCHANGED <<run, rows, stock, key, history>>

ProcessDies(x) ==
  /\ \E c \in Calls : host[c] = x /\ call[c].step \notin {"idle", "end"}
  /\ call' = [c \in Calls |->
       IF host[c] = x /\ call[c].step # "idle" THEN Ended ELSE call[c]]
  /\ applyLocks' = [applyLocks EXCEPT ![x] = Nobody]
  /\ UNCHANGED <<run, rows, stock, key, history>>

\* Issues and receipts of one unit.  Like an adjustment, each then sums up the
\* balances and writes the sum to the part; an issue of stock the ERP owns
\* does not, which is to say that it stops here.
Move(p, n) ==
  /\ onHand[p] + n >= 0 /\ moves[p] < MaxMoves
  /\ onHand' = [onHand EXCEPT ![p] = @ + n]
  /\ moves' = [moves EXCEPT ![p] = @ + 1]
  /\ unread' = [unread EXCEPT ![p] = @ + 1]
  /\ UNCHANGED <<run, rows, total, sums, key, applyLocks, call, history>>

MoveReadsBalances(p) ==
  /\ unread[p] > 0
  /\ unread' = [unread EXCEPT ![p] = @ - 1]
  /\ sums' = [sums EXCEPT
       ![p] = @ \cup {[sum |-> onHand[p], after |-> moves[p], of |-> unread[p]]}]
  /\ UNCHANGED <<run, rows, onHand, total, moves, key, applyLocks, call, history>>

MoveWritesPart(p) ==
  /\ \E n \in sums[p] : /\ total' = [total EXCEPT ![p] = n.sum]
                        /\ sums' = [sums EXCEPT ![p] = @ \ {n}]
  /\ UNCHANGED <<run, rows, onHand, unread, moves, key, applyLocks, call, history>>

Step(c) ==
  \/ validate(c) \/ WAREHOUSE_SCOPE_REQUIRED(c) \/ ReadParts(c) \/ DeleteRows(c)
  \/ CreateRows(c) \/ WriteValidated(c)
  \/ apply(c) \/ waitForApplyTerminal(c) \/ Reclaim(c) \/ ReadReady(c) \/ Claim(c)
  \/ applyStockSnapshot(c) \/ withApplyLock(c) \/ compareStockBalances(c)
  \/ MappingIncomplete(c) \/ (\E p \in Parts : ReadPart(c, p))
  \/ beginIdempotency(c) \/ adjust(c) \/ ReadBalances(c) \/ WritePart(c)
  \/ commitIdempotency(c) \/ RowFails(c) \/ EndOfRows(c) \/ WriteResult(c) \/ WriteFailed(c)

Next ==
  \/ upload
  \/ \E c \in Calls : Step(c) \/ Throw(c)
  \/ \E x \in Processes : ProcessDies(x)
  \/ \E p \in Parts, n \in {-1, 1} : Move(p, n)
  \/ \E p \in Parts : MoveReadsBalances(p) \/ MoveWritesPart(p)

Spec == Init /\ [][Next]_vars

----------------------------------------------------------------------------
(* Properties.                                                             *)

\* Every variable has its type.  The balance stays a natural number although
\* each adjustment is computed from an older reading of another number.
TypeOK ==
  /\ status \in Status /\ appliedAt \in BOOLEAN
  /\ rows \in [Parts -> 0 .. Cardinality(Calls)]
  /\ onHand \in [Parts -> Nat] /\ total \in [Parts -> Nat]
  /\ unread \in [Parts -> Nat] /\ sums \in [Parts -> SUBSET SumRead]
  /\ key \in [Parts -> [quantity: Int, done: BOOLEAN]]
  /\ applyLocks \in [Processes -> Calls \cup {Nobody}]
  /\ moves \in [Parts -> Nat] /\ adjustments \in [Parts -> Nat]
  /\ result \in [rows: SUBSET Parts, skipped: SUBSET Parts]
  /\ \A c \in Calls : /\ call[c].step \in Steps
                     /\ call[c].todo \subseteq Parts /\ call[c].skipped \subseteq Parts

\* However often the import is applied, taken over from a call that died or
\* is only slow, or validated again, it changes a part at most once: the key
\* of the adjustment is that of the import (erp-stock-sync.service.ts).
ImportAdjustsOnce == \A p \in Parts : adjustments[p] <= 1

\* A workbook that counts as COMPLETED was applied row by row: each row its
\* result came from was adjusted, in this application or in an earlier one that
\* it replayed, exactly once, unless the application found nothing to adjust in
\* it.  A row that failed, or whose key a dead or slower application holds, is
\* never passed over (erp-stock-sync.service.ts runApplyAbsoluteStockBalances,
\* erp-excel-import.service.ts apply).
CompletedDidItsRows ==
  status = "COMPLETED" =>
    \A p \in result.rows \ result.skipped : adjustments[p] = 1

----------------------------------------------------------------------------
(* What the repository says and the code does not do.                      *)

\* "Sets MaintainPro qty = snapshot qty (never +=)"
\* (erp-stock-sync.service.ts): a part that the import has adjusted, and
\* nothing else has moved, has the quantity of the workbook.
SetsToSnapshot ==
  \A p \in Parts :
    adjustments[p] = 1 /\ moves[p] = 0 => onHand[p] = Snapshot[p]
=============================================================================
