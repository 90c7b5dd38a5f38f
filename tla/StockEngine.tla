---------------------------- MODULE StockEngine ----------------------------
(***************************************************************************)
(* The stock of ONE spare part of ONE tenant as InventoryTransactionEngine *)
(* changes it: one balance row per warehouse, the totals kept on the part, *)
(* the movement ledger and the idempotency claims.  A call of the engine   *)
(* is a sequence of separate database statements (the engine opens no      *)
(* transaction of its own), so every statement that reads or writes shared *)
(* state is one action here and calls interleave between them.  A call     *)
(* made inside the caller's transaction (owned-stock.ts) is seen by others *)
(* only when it commits, which is one action.                              *)
(***************************************************************************)
EXTENDS Integers, FiniteSetsExt

CONSTANTS Requests,          \* calls of the engine, a retry being another call
          Warehouses,        \* active warehouses of the tenant
          DefaultWarehouse,  \* the one with isDefault
          InitialRows,       \* warehouses that have a balance row at the start
          InitialOnHand,     \* what each of those rows holds
          Keys,              \* idempotency keys
          NoKey,             \* the call passes no idempotencyKey
          NoRequest,         \* no idempotency row
          Inputs             \* the argument records calls are made with

SimpleOps == {"receive", "returnStock", "adjustIn", "issue", "adjustOut",
              "reserve", "releaseReservation", "issueReserved"}
Ops == SimpleOps \cup {"transfer", "reverse"}

MovementIds == Requests \X {"main", "paired"}

\* A call that passes the argument checks: a positive quantity, which only a
\* reversal may leave out (0), and then means all that is left to reverse.
InputType == [op: Ops, qty: Nat, wh: Warehouses, dest: Warehouses,
              key: Keys \cup {NoKey}, target: MovementIds, tx: BOOLEAN]

ASSUME InputAssumption ==
  /\ Inputs \subseteq InputType
  /\ \A c \in Inputs : /\ c.op # "reverse" => c.qty > 0
                       /\ c.tx => c.op \in {"issue", "returnStock"}
ASSUME RequestAssumption == NoRequest \notin Requests /\ NoKey \notin Keys
ASSUME WarehouseAssumption ==
  /\ DefaultWarehouse \in Warehouses
  /\ InitialRows \subseteq Warehouses
  /\ InitialOnHand \in [Warehouses -> Nat]
  /\ \A w \in Warehouses \ InitialRows : InitialOnHand[w] = 0

VARIABLES
  pc, status, call, amount,              \* the calls and how far each one got
  partSeen, rowsSeen, reversedSeen,      \* what a call read and still holds
  rows, onHand, reserved, available,     \* WarehouseItemBalance
  part,                                  \* the totals on SparePart
  ledger, quantityReversed,              \* StockMovement
  claim, resultJson                      \* InventoryIdempotency

balances == <<rows, onHand, reserved, available>>
movements == <<ledger, quantityReversed>>
claims == <<claim, resultJson>>
locals == <<partSeen, rowsSeen, reversedSeen, amount>>
vars == <<pc, status, call, locals, balances, part, movements, claims>>

Stages == {"start", "tx", "create", "poll", "original", "part", "ensure", "load",
           "update", "dest", "mark", "syncRead", "syncWrite", "move",
           "movePaired", "commit", "end"}
\* A call at one of these stages has changed a balance.
AppliedStages == {"dest", "mark", "syncRead", "syncWrite", "move",
                  "movePaired", "commit", "end"}

----------------------------------------------------------------------------
(* Quantities: inventory-invariants.ts and the deltas of each operation.   *)

deriveAvailable(h, r) == h - r

assertStockInvariants(h, r, a) ==
  h >= 0 /\ r >= 0 /\ a = deriveAvailable(h, r) /\ a >= 0 /\ r <= h

Inbound == {"receive", "returnStock", "adjustIn"}
Outbound == {"issue", "issueReserved", "adjustOut"}

\* Is the movement an inbound one?  A transfer records an outbound main
\* movement and an inbound paired one.
isInbound(m) ==
  \/ call[m[1]].op \in Inbound
  \/ call[m[1]].op = "transfer" /\ m[2] = "paired"

MovementWarehouse(m) ==
  IF m[2] = "paired" THEN call[m[1]].dest ELSE call[m[1]].wh

\* The warehouse whose balance a call changes (first, for a transfer).
TargetWarehouse(r) ==
  IF call[r].op = "reverse" THEN MovementWarehouse(call[r].target) ELSE call[r].wh

\* The deltas of each operation; a reversal undoes the movement it names.
PutsIn(r) ==
  \/ call[r].op \in Inbound
  \/ call[r].op = "reverse" /\ ~ isInbound(call[r].target)
TakesOut(r) ==
  \/ call[r].op \in Outbound \cup {"transfer"}
  \/ call[r].op = "reverse" /\ isInbound(call[r].target)

OnHandDelta(r) ==
  IF PutsIn(r) THEN amount[r] ELSE IF TakesOut(r) THEN -amount[r] ELSE 0

ReservedDelta(r) ==
  IF call[r].op = "reserve" THEN amount[r]
  ELSE IF call[r].op \in {"releaseReservation", "issueReserved"} THEN -amount[r] ELSE 0

AvailableDelta(r) ==
  IF call[r].op = "issueReserved" THEN 0
  ELSE IF call[r].op = "releaseReservation" \/ PutsIn(r) THEN amount[r]
  ELSE -amount[r]

Sum(f, S) == MapThenSumSet(LAMBDA w : f[w], S)

\* What the totals of the part become when they are computed from rows.
TotalsOf(S, h, r) ==
  [onHand |-> Sum(h, S), reserved |-> Sum(r, S),
   available |-> deriveAvailable(Sum(h, S), Sum(r, S))]

----------------------------------------------------------------------------
Init ==
  /\ call \in [Requests -> Inputs]
  /\ pc = [r \in Requests |-> "start"]
  /\ status = [r \in Requests |-> "running"]
  /\ amount = [r \in Requests |-> call[r].qty]
  /\ rows = InitialRows
  /\ onHand = InitialOnHand
  /\ reserved = [w \in Warehouses |-> 0]
  /\ available = InitialOnHand
  /\ part = TotalsOf(InitialRows, onHand, reserved)
  /\ partSeen = [r \in Requests |-> part]
  /\ rowsSeen = [r \in Requests |-> part]
  /\ reversedSeen = [r \in Requests |-> 0]
  /\ ledger = {}
  /\ quantityReversed = [m \in MovementIds |-> 0]
  /\ claim = [k \in Keys |-> NoRequest]
  /\ resultJson = [k \in Keys |-> FALSE]

At(r, stage) == pc[r] = stage /\ status[r] = "running"
GoTo(r, stage) == pc' = [pc EXCEPT ![r] = stage] /\ UNCHANGED status
EndWith(r, outcome) == status' = [status EXCEPT ![r] = outcome] /\ UNCHANGED pc

\* The stage after the idempotency check.
AfterClaim(r) == IF call[r].op = "reverse" THEN "original" ELSE "part"

\* Fault: the payload hash forgets the quantity.
Payload_NoQuantity(c) == [op |-> c.op, wh |-> c.wh, dest |-> c.dest, target |-> c.target]

(* payloadHash covers operation, item, quantity, warehouses and reversed   *)
(* movement, neither the key nor the transaction.                          *)
Payload(c) == [op |-> c.op, qty |-> c.qty, wh |-> c.wh, dest |-> c.dest,
               target |-> c.target]

(* replayFromIdempotency: the stored result, or a refusal when the key was *)
(* spent on another payload.                                               *)
Replay(r) ==
  EndWith(r, IF Payload(call[r]) = Payload(call[claim[call[r].key]])
             THEN "replayed" ELSE "failed")

(* beginIdempotency, the lookup.                                           *)
FindClaim(r) ==
  LET k == call[r].key IN
  /\ At(r, "start") /\ ~ call[r].tx
  /\ IF k = NoKey THEN GoTo(r, AfterClaim(r))
     ELSE IF claim[k] = NoRequest THEN GoTo(r, "create")
     ELSE IF resultJson[k] THEN Replay(r)
     ELSE GoTo(r, "poll")
  /\ UNCHANGED <<call, locals, balances, part, movements, claims>>

\* Fault: the unique violation of the insert is swallowed.
CreateClaim_IgnoresConflict(r) ==
  LET k == call[r].key IN
  /\ At(r, "create")
  /\ claim' = [claim EXCEPT ![k] = IF @ = NoRequest THEN r ELSE @]
  /\ GoTo(r, AfterClaim(r))
  /\ UNCHANGED <<call, locals, balances, part, movements, resultJson>>

(* beginIdempotency, the insert.  Another call may have inserted the key   *)
(* since the lookup: P2002, and its row decides as the lookup would have.  *)
CreateClaim(r) ==
  LET k == call[r].key IN
  /\ At(r, "create")
  /\ IF claim[k] = NoRequest
     THEN claim' = [claim EXCEPT ![k] = r] /\ GoTo(r, AfterClaim(r))
     ELSE /\ UNCHANGED claim
          /\ IF resultJson[k] THEN Replay(r) ELSE GoTo(r, "poll")
  /\ UNCHANGED <<call, locals, balances, part, movements, resultJson>>

(* beginIdempotency, a poll that finds the result of the other call.       *)
PollResult(r) ==
  /\ At(r, "poll") /\ resultJson[call[r].key]
  /\ Replay(r)
  /\ UNCHANGED <<call, locals, balances, part, movements, claims>>

\* Fault: the poll loop has no bound.
PollTimeout_Never(r) == FALSE

(* beginIdempotency, the last of the 20 polls finds none: the call is      *)
(* refused as already in progress.                                         *)
PollTimeout(r) ==
  /\ At(r, "poll") /\ ~ resultJson[call[r].key]
  /\ EndWith(r, "inProgress")
  /\ UNCHANGED <<call, locals, balances, part, movements, claims>>

(* reverse: the original movement, what is left of it, and the quantity.   *)
ReadOriginal(r) ==
  LET m == call[r].target
      remaining == amount[m[1]] - quantityReversed[m]
      reverseQty == IF call[r].qty = 0 THEN remaining ELSE call[r].qty
  IN
  /\ At(r, "original")
  /\ IF /\ m \in ledger
        /\ quantityReversed[m] < amount[m[1]]
        /\ call[m[1]].op # "reverse"
        /\ reverseQty <= remaining
     THEN /\ GoTo(r, "part")
          /\ amount' = [amount EXCEPT ![r] = reverseQty]
          /\ reversedSeen' = [reversedSeen EXCEPT ![r] = quantityReversed[m]]
     ELSE /\ EndWith(r, "failed")
          /\ UNCHANGED <<amount, reversedSeen>>
  /\ UNCHANGED <<call, partSeen, rowsSeen, balances, part, movements, claims>>

(* resolveWarehouse and loadActivePart: the totals a new row is seeded     *)
(* from are read here.  A transfer to the same warehouse is refused.       *)
LoadPart(r) ==
  /\ At(r, "part")
  /\ IF call[r].op = "transfer" /\ call[r].wh = call[r].dest
     THEN EndWith(r, "failed") /\ UNCHANGED partSeen
     ELSE GoTo(r, "ensure") /\ partSeen' = [partSeen EXCEPT ![r] = part]
  /\ UNCHANGED <<call, rowsSeen, reversedSeen, amount, balances, part, movements, claims>>

(* The rows a call needs: both ends of a transfer, else the one it changes. *)
NeededRows(r) ==
  {TargetWarehouse(r)} \cup (IF call[r].op = "transfer" THEN {call[r].dest} ELSE {})

\* Fault: every new row is seeded from the part, not only the default one.
EnsuredOnHand_SeedsAll(r, seed) ==
  [w \in Warehouses |-> IF w \in NeededRows(r) \ rows THEN seed.onHand ELSE onHand[w]]

(* ensureBalances over the needed rows: an existing row is realigned       *)
(* (available recomputed), a missing one is inserted, the default          *)
(* warehouse's with the totals of the part, any other with zeros.          *)
EnsuredOnHand(r, seed) ==
  [w \in Warehouses |-> IF w \in NeededRows(r) \ rows
                        THEN IF w = DefaultWarehouse THEN seed.onHand ELSE 0
                        ELSE onHand[w]]
EnsuredReserved(r, seed) ==
  [w \in Warehouses |-> IF w \in NeededRows(r) \ rows
                        THEN IF w = DefaultWarehouse THEN seed.reserved ELSE 0
                        ELSE reserved[w]]
EnsuredAvailable(r, seed) ==
  [w \in Warehouses |-> IF w \in NeededRows(r)
                        THEN deriveAvailable(EnsuredOnHand(r, seed)[w],
                                             EnsuredReserved(r, seed)[w])
                        ELSE available[w]]

EnsureBalances(r) ==
  /\ At(r, "ensure")
  /\ rows' = rows \cup NeededRows(r)
  /\ onHand' = EnsuredOnHand(r, partSeen[r])
  /\ reserved' = EnsuredReserved(r, partSeen[r])
  /\ available' = EnsuredAvailable(r, partSeen[r])
  /\ GoTo(r, IF call[r].op = "reverse" THEN "update" ELSE "load")
  /\ UNCHANGED <<call, locals, part, movements, claims>>

(* The checks made on the balance a call has read, before it writes: an    *)
(* issue must fit in on hand less reserved, and the previewed quantities   *)
(* must satisfy the stock invariants (a transfer previews an issue).       *)
PreviewAllows(r, h, v) ==
  /\ call[r].op \in {"issue", "issueReserved"} => amount[r] <= h - v
  /\ assertStockInvariants(h + OnHandDelta(r), v + ReservedDelta(r),
                           deriveAvailable(h, v) + AvailableDelta(r))

(* loadBalance and the preview.                                            *)
LoadBalance(r) ==
  /\ At(r, "load")
  /\ IF PreviewAllows(r, onHand[call[r].wh], reserved[call[r].wh])
     THEN GoTo(r, "update") ELSE EndWith(r, "failed")
  /\ UNCHANGED <<call, locals, balances, part, movements, claims>>

\* Fault: the WHERE clause only names the row.
WhereHolds_Unconditional(w, dh, dr, da) == w \in rows

(* conditionalBalanceUpdate: one UPDATE whose WHERE repeats the lower      *)
(* bounds of whatever it decrements.                                       *)
WhereHolds(w, dh, dr, da) ==
  /\ w \in rows
  /\ dh < 0 => onHand[w] >= -dh
  /\ dr < 0 => reserved[w] >= -dr
  /\ da < 0 => available[w] >= -da

Increment(w, dh, dr, da) ==
  /\ onHand' = [onHand EXCEPT ![w] = @ + dh]
  /\ reserved' = [reserved EXCEPT ![w] = @ + dr]
  /\ available' = [available EXCEPT ![w] = @ + da]
  /\ UNCHANGED rows

UpdateBalance(r) ==
  LET w == TargetWarehouse(r) IN
  /\ At(r, "update")
  /\ IF WhereHolds(w, OnHandDelta(r), ReservedDelta(r), AvailableDelta(r))
     THEN /\ Increment(w, OnHandDelta(r), ReservedDelta(r), AvailableDelta(r))
          /\ GoTo(r, IF call[r].op = "transfer" THEN "dest"
                     ELSE IF call[r].op = "reverse" THEN "mark" ELSE "syncRead")
     ELSE EndWith(r, "failed") /\ UNCHANGED balances
  /\ UNCHANGED <<call, locals, part, movements, claims>>

(* transfer: the second update, of the destination row.                    *)
CreditDestination(r) ==
  /\ At(r, "dest")
  /\ WhereHolds(call[r].dest, amount[r], 0, amount[r])
  /\ Increment(call[r].dest, amount[r], 0, amount[r])
  /\ GoTo(r, "syncRead")
  /\ UNCHANGED <<call, locals, part, movements, claims>>

\* Fault: quantityReversed is incremented without comparing.
MarkReversed_NoCompare(r) ==
  /\ At(r, "mark")
  /\ quantityReversed' = [quantityReversed EXCEPT ![call[r].target] = @ + amount[r]]
  /\ GoTo(r, "syncRead")
  /\ UNCHANGED <<call, locals, balances, part, ledger, claims>>

(* reverse: the compare-and-set of quantityReversed, after the balance has *)
(* been changed.                                                           *)
MarkReversed(r) ==
  LET m == call[r].target IN
  /\ At(r, "mark")
  /\ IF quantityReversed[m] = reversedSeen[r]
     THEN /\ quantityReversed' = [quantityReversed EXCEPT ![m] = @ + amount[r]]
          /\ GoTo(r, "syncRead")
     ELSE EndWith(r, "failed") /\ UNCHANGED quantityReversed
  /\ UNCHANGED <<call, locals, balances, part, ledger, claims>>

(* syncPartFromBalances, the read of all rows.                             *)
ReadBalances(r) ==
  /\ At(r, "syncRead")
  /\ rowsSeen' = [rowsSeen EXCEPT ![r] = TotalsOf(rows, onHand, reserved)]
  /\ GoTo(r, "syncWrite")
  /\ UNCHANGED <<call, partSeen, reversedSeen, amount, balances, part, movements, claims>>

(* syncPartFromBalances, the write of the totals it read.  An issue from a *)
(* warehouse MaintainPro does not own leaves quantityInStock alone.        *)
SyncedPart(r, totals) ==
  IF call[r].op \in {"issue", "issueReserved"} /\ ~ call[r].tx
  THEN [totals EXCEPT !.onHand = part.onHand] ELSE totals

HasMovement(r) == call[r].op \notin {"reserve", "releaseReservation"}

WritePart(r) ==
  /\ At(r, "syncWrite")
  /\ part' = SyncedPart(r, rowsSeen[r])
  /\ GoTo(r, IF HasMovement(r) THEN "move" ELSE "commit")
  /\ UNCHANGED <<call, locals, balances, movements, claims>>

(* createMovement.                                                         *)
CreateMovement(r) ==
  /\ At(r, "move")
  /\ ledger' = ledger \cup {<<r, "main">>}
  /\ GoTo(r, IF call[r].op = "transfer" THEN "movePaired" ELSE "commit")
  /\ UNCHANGED <<call, locals, balances, part, quantityReversed, claims>>

(* createMovement for the TRANSFER_IN half.                                *)
CreatePairedMovement(r) ==
  /\ At(r, "movePaired")
  /\ ledger' = ledger \cup {<<r, "paired">>}
  /\ GoTo(r, "commit")
  /\ UNCHANGED <<call, locals, balances, part, quantityReversed, claims>>

(* commitIdempotency and the return.                                       *)
CommitIdempotency(r) ==
  /\ At(r, "commit")
  /\ resultJson' = IF call[r].key = NoKey THEN resultJson
                   ELSE [resultJson EXCEPT ![call[r].key] = TRUE]
  /\ pc' = [pc EXCEPT ![r] = "end"]
  /\ status' = [status EXCEPT ![r] = "ok"]
  /\ UNCHANGED <<call, locals, balances, part, movements, claim>>

(* applyOwnedStockIssue and applyOwnedStockReturn: the same call inside    *)
(* the caller's transaction, which is read committed and holds a lock on   *)
(* the row it changes.  Of the other rows the transaction syncs the totals *)
(* from, what it has read may be old when it commits.                      *)
ReadInTransaction(r) ==
  /\ At(r, "start") /\ call[r].tx
  /\ rowsSeen' = [rowsSeen EXCEPT
                    ![r] = TotalsOf(rows \ {call[r].wh}, onHand, reserved)]
  /\ GoTo(r, "tx")
  /\ UNCHANGED <<call, partSeen, reversedSeen, amount, balances, part, movements,
                 claims>>

TxAllows(r) ==
  LET w == call[r].wh
      h == EnsuredOnHand(r, part)[w]
      v == EnsuredReserved(r, part)[w]
  IN PreviewAllows(r, h, v)

(* The rows the transaction read before, and its own as it leaves it.      *)
TxTotals(r, h, v) ==
  LET allOnHand == rowsSeen[r].onHand + h
      allReserved == rowsSeen[r].reserved + v
  IN [onHand |-> allOnHand, reserved |-> allReserved,
      available |-> deriveAvailable(allOnHand, allReserved)]

(* The commit: the call claims, applies, syncs, records and stores its     *)
(* result at once.                                                         *)
RunInTransaction(r) ==
  LET k == call[r].key
      w == call[r].wh
  IN
  /\ At(r, "tx") /\ call[r].tx
  /\ (k # NoKey => claim[k] = NoRequest)
  /\ TxAllows(r)
  /\ claim' = IF k = NoKey THEN claim ELSE [claim EXCEPT ![k] = r]
  /\ resultJson' = IF k = NoKey THEN resultJson ELSE [resultJson EXCEPT ![k] = TRUE]
  /\ rows' = rows \cup {w}
  /\ onHand' = [EnsuredOnHand(r, part) EXCEPT ![w] = @ + OnHandDelta(r)]
  /\ reserved' = EnsuredReserved(r, part)
  /\ available' = [EnsuredAvailable(r, part) EXCEPT ![w] = @ + AvailableDelta(r)]
  /\ part' = SyncedPart(r, TxTotals(r, onHand'[w], reserved'[w]))
  /\ ledger' = ledger \cup {<<r, "main">>}
  /\ pc' = [pc EXCEPT ![r] = "end"]
  /\ status' = [status EXCEPT ![r] = "ok"]
  /\ UNCHANGED <<call, locals, quantityReversed>>

(* The transactional call that replays, is refused or polls in vain.       *)
RefuseInTransaction(r) ==
  LET k == call[r].key IN
  /\ At(r, "tx") /\ call[r].tx
  /\ IF k # NoKey /\ claim[k] # NoRequest
     THEN IF resultJson[k] THEN Replay(r) ELSE EndWith(r, "inProgress")
     ELSE ~ TxAllows(r) /\ EndWith(r, "failed")
  /\ UNCHANGED <<call, locals, balances, part, movements, claims>>

(* The process dies or the next statement throws (lost connection, query   *)
(* timeout): the call ends where it is, and what it wrote stays written.   *)
Abort(r) ==
  /\ status[r] = "running" /\ pc[r] # "start"
  /\ EndWith(r, "failed")
  /\ UNCHANGED <<call, locals, balances, part, movements, claims>>

Terminated ==
  /\ \A r \in Requests : status[r] # "running"
  /\ UNCHANGED vars

Step(r) ==
  \/ FindClaim(r) \/ CreateClaim(r) \/ PollResult(r) \/ PollTimeout(r)
  \/ ReadOriginal(r) \/ LoadPart(r) \/ EnsureBalances(r) \/ LoadBalance(r)
  \/ UpdateBalance(r) \/ CreditDestination(r) \/ MarkReversed(r)
  \/ ReadBalances(r) \/ WritePart(r) \/ CreateMovement(r)
  \/ CreatePairedMovement(r) \/ CommitIdempotency(r)
  \/ ReadInTransaction(r) \/ RunInTransaction(r) \/ RefuseInTransaction(r)

Next == (\E r \in Requests : Step(r) \/ Abort(r)) \/ Terminated

Spec == Init /\ [][Next]_vars

\* The event loop keeps running every call that is not aborted: a statement
\* that was sent returns, and a poll loop is bounded.
FairSpec == Spec /\ \A r \in Requests : WF_vars(Step(r))
----------------------------------------------------------------------------
(* Properties.                                                             *)

Applied(r) == pc[r] \in AppliedStages

\* The destination of a transfer has been credited.
Arrived(r) == call[r].op = "transfer" /\ Applied(r) /\ pc[r] # "dest"

(* Every variable has its type (part, partSeen and rowsSeen, sums of rows, *)
(* are records of integers and left out).  Quantities stay natural         *)
(* numbers although each UPDATE is an unchecked increment.                 *)
TypeOK ==
  /\ call \in [Requests -> Inputs]
  /\ pc \in [Requests -> Stages]
  /\ status \in [Requests -> {"running", "ok", "replayed", "inProgress", "failed"}]
  /\ amount \in [Requests -> Nat]
  /\ reversedSeen \in [Requests -> Nat]
  /\ rows \subseteq Warehouses
  /\ onHand \in [Warehouses -> Nat]
  /\ reserved \in [Warehouses -> Nat]
  /\ available \in [Warehouses -> Nat]
  /\ ledger \subseteq MovementIds
  /\ quantityReversed \in [MovementIds -> Nat]
  /\ claim \in [Keys -> Requests \cup {NoRequest}]
  /\ resultJson \in [Keys -> BOOLEAN]

(* Whatever calls interleave and wherever they are aborted, every balance  *)
(* row keeps available = on hand - reserved with none of them negative:    *)
(* the check of loadBalance is stale when the UPDATE runs, and the WHERE   *)
(* clause alone must make up for it.                                       *)
BalancesSound ==
  \A w \in Warehouses :
    assertStockInvariants(onHand[w], reserved[w], available[w])

(* An idempotency key buys one stock change: of the calls (retries,        *)
(* duplicates, concurrent or later) made with a key, at most one ever      *)
(* changes a balance, even when one of them dies half way.                 *)
AppliedOncePerKey ==
  \A r1, r2 \in Requests :
    (r1 # r2 /\ call[r1].key = call[r2].key /\ call[r1].key # NoKey)
      => ~ (Applied(r1) /\ Applied(r2))

(* A call answered with replayed: true stands for a call with the same     *)
(* payload that finished: its balance change and its movement are there.   *)
ReplayMeansDone ==
  \A r \in Requests : status[r] = "replayed" =>
    LET c == claim[call[r].key] IN
    /\ c \in Requests
    /\ \A f \in {"op", "qty", "wh", "dest", "target"} : call[c][f] = call[r][f]
    /\ Applied(c)
    /\ HasMovement(c) => <<c, "main">> \in ledger

(* Concurrent reversals of one movement never mark more of it reversed     *)
(* than it moved: the compare-and-set of quantityReversed protects the     *)
(* remaining quantity that was read some statements earlier.               *)
NeverOverReversed ==
  \A m \in MovementIds : m \in ledger => quantityReversed[m] <= amount[m[1]]

(* What the ledger knows of a call's change to the on-hand of w.           *)
LedgerEffect(r, w) ==
  (IF <<r, "main">> \in ledger /\ TargetWarehouse(r) = w THEN OnHandDelta(r) ELSE 0)
  + (IF <<r, "paired">> \in ledger /\ call[r].dest = w THEN amount[r] ELSE 0)

(* The movement ledger explains every unit on hand once the calls have     *)
(* ended, unless a call was cut off between changing the balance and       *)
(* recording the movement.                                                 *)
CutOff(r) == status[r] = "failed" /\ Applied(r)
LedgerExplainsStock ==
  (\A r \in Requests : status[r] # "running" /\ ~ CutOff(r)) =>
    \A w \in Warehouses :
      onHand[w] = InitialOnHand[w]
                  + MapThenSumSet(LAMBDA m : LedgerEffect(m[1], w),
                                  {m \in ledger : m[2] = "main"})

(* Every call comes to an end: no call waits for ever on a claim whose     *)
(* owner will never write a result.                                        *)
EveryCallEnds == \A r \in Requests : <>(status[r] # "running")

(* The engine implements its promise: statements, retries, races and       *)
(* aborted calls included, the balances only change by whole legal effects *)
(* of calls, one per call and one per key.                                 *)
Promise == INSTANCE StockPromise WITH
  Calls <- Requests, Opening <- InitialOnHand,
  hand <- onHand, held <- reserved,
  keyOf <- [r \in Requests |-> call[r].key],
  effect <- {r \in Requests : Applied(r)},
  arrived <- {r \in Requests : Arrived(r)}
ImplementsPromise == Promise!Spec

----------------------------------------------------------------------------
(* What the repository says of the engine and the code does not do.        *)

(* "already in progress. Retry shortly.": a call is refused with this      *)
(* answer only while another call is working on its key.                   *)
InProgressIsTrue ==
  [][\A r \in Requests : (status'[r] = "inProgress" /\ status[r] = "running")
       => status[claim[call[r].key]] = "running"]_vars
=============================================================================
