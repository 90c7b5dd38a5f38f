--------------------------- MODULE ErpImportProofs ---------------------------
(***************************************************************************)
(* The safety properties of ErpImport for any number of calls, processes   *)
(* and parts, and any quantities.                                          *)
(***************************************************************************)
EXTENDS ErpImport, FiniteSetTheorems, TLAPS

Kinds == {"none", "validate", "apply", "sync"}
Call == [step: Steps, kind: Kinds, read: [Parts -> Nat], todo: SUBSET Parts,
         skipped: SUBSET Parts, part: Parts \cup {Nobody}, quantity: Int,
         sum: Nat, failed: BOOLEAN]

\* The steps of other movements of a part.
Moves(p) ==
  \/ \E n \in {-1, 1} : Move(p, n)
  \/ MoveReadsBalances(p) \/ MoveWritesPart(p)

(* The parts of TypeOK, with all of a call.                                *)
RunType ==
  /\ status \in Status /\ appliedAt \in BOOLEAN
  /\ result \in [rows: SUBSET Parts, skipped: SUBSET Parts]
RowsType == rows \in [Parts -> Nat]
StockType ==
  /\ onHand \in [Parts -> Nat] /\ total \in [Parts -> Nat]
  /\ unread \in [Parts -> Nat] /\ sums \in [Parts -> SUBSET SumRead]
  /\ moves \in [Parts -> Nat] /\ adjustments \in [Parts -> Nat]
KeyType == key \in [Parts -> [quantity: Int, done: BOOLEAN]]
LockType == applyLocks \in [Processes -> Calls \cup {Nobody}]
CallType == call \in [Calls -> Call]

Types == RunType /\ RowsType /\ StockType /\ KeyType /\ LockType /\ CallType

\* What a call is, by the step it is at.
KindOf(c) ==
  /\ call[c].step \in {"idle", "end"} => call[c].kind = "none"
  /\ call[c].step \in {"parts", "delete", "create", "validated"} => call[c].kind = "validate"
  /\ call[c].step \in {"lock", "compare", "row", "adjust", "sum", "total"}
       => call[c].kind \in {"apply", "sync"}
  /\ call[c].step \in {"wait", "reclaim", "ready", "claim", "key", "commit", "finish",
                       "blocked"} => call[c].kind = "apply"
  /\ call[c].step \in {"key", "adjust", "sum", "total", "commit"} => call[c].part \in Parts
  /\ call[c].step = "key" => call[c].quantity # 0
KindInv == \A c \in Calls : KindOf(c)

\* Each call makes the rows once, so no part has more rows than calls did.
HaveMade == {c \in Calls : call[c].step \in {"validated", "end"}}
RowsInv == \A p \in Parts : rows[p] <= Cardinality(HaveMade)

\* Who adjusts a part for the import, until it has stored the result, has
\* claimed its key and is alone.  Nothing was adjusted as long as the key is
\* free, and when its owner has still to adjust; something was when the key has
\* its result, and when the owner has adjusted.
Owning == {"adjust", "sum", "total", "commit"}
Owns(c, p) ==
  call[c].kind = "apply" /\ call[c].step \in Owning /\ call[c].part = p
OwnerInv ==
  \A p \in Parts :
    /\ key[p] = Free => adjustments[p] = 0
    /\ key[p].done => adjustments[p] # 0
    /\ \A c \in Calls : Owns(c, p) => key[p] # Free
    /\ \A c, d \in Calls : Owns(c, p) /\ Owns(d, p) => c = d
    /\ \A c \in Calls : Owns(c, p) =>
         (call[c].step = "adjust" <=> adjustments[p] = 0)
OnceInv == OwnerInv /\ ImportAdjustsOnce

\* An application that nothing went wrong in has done each of its rows, except
\* those it has still to do and the one it is about to adjust.
Working == {"row", "key", "adjust", "sum", "total", "commit", "finish"}
DidRows(c) ==
  call[c].kind = "apply" /\ call[c].step \in Working /\ ~ call[c].failed =>
    \A p \in Parts : call[c].read[p] > 0 =>
      \/ p \in call[c].skipped \/ adjustments[p] # 0
      \/ p \in call[c].todo /\ call[c].step # "finish"
      \/ p = call[c].part /\ call[c].step \in {"key", "adjust"}
DidInv == \A c \in Calls : DidRows(c)

IInv == Types /\ KindInv /\ RowsInv /\ OnceInv /\ DidInv /\ CompletedDidItsRows

----------------------------------------------------------------------------
\* The calls other than c stay as they are.
Others(c) == \A d \in Calls \ {c} : call'[d] = call[d]

(* What becomes of the call that steps.                                    *)
LEMMA IdleType ==
  /\ Idle \in Call /\ Idle.step = "idle" /\ Idle.kind = "none"
  /\ Ended \in Call /\ Ended.step = "end" /\ Ended.kind = "none"
  /\ Idle.read = [p \in Parts |-> 0] /\ Ended.read = [p \in Parts |-> 0]
<1>1. Idle \in Call
  BY DEF Idle, Call, Steps, Kinds
<1> QED BY <1>1 DEF Ended, Idle, Call, Steps

LEMMA EndShape ==
  ASSUME CallType, NEW c \in Calls, End(c)
  PROVE  CallType' /\ call'[c] = Ended /\ Others(c)
BY IdleType DEF CallType, End, Others

LEMMA GotoShape ==
  ASSUME CallType, NEW c \in Calls, NEW step \in Steps, Goto(c, step)
  PROVE  /\ CallType' /\ Others(c)
         /\ call'[c].step = step /\ call'[c].kind = call[c].kind
         /\ call'[c].read = call[c].read /\ call'[c].todo = call[c].todo
         /\ call'[c].part = call[c].part /\ call'[c].quantity = call[c].quantity
         /\ call'[c].skipped = call[c].skipped /\ call'[c].failed = call[c].failed
<1> DEFINE x == [call[c] EXCEPT !.step = step]
<1>1. call[c] \in Call
  BY DEF CallType
<1>2. x \in Call
  BY <1>1 DEF Call
<1>3. call' = [call EXCEPT ![c] = x]
  BY DEF Goto
<1>4. /\ x.step = step /\ x.kind = call[c].kind
      /\ x.read = call[c].read /\ x.todo = call[c].todo
      /\ x.part = call[c].part /\ x.quantity = call[c].quantity
      /\ x.skipped = call[c].skipped /\ x.failed = call[c].failed
  BY <1>1 DEF Call
<1> HIDE DEF x
<1> QED BY <1>2, <1>3, <1>4 DEF CallType, Others

LEMMA BeginShape ==
  ASSUME CallType, NEW c \in Calls, NEW kind \in Kinds, NEW step \in Steps,
         Begin(c, kind, step)
  PROVE  /\ CallType' /\ Others(c)
         /\ call'[c].step = step /\ call'[c].kind = kind /\ call'[c].read = call[c].read
<1> DEFINE x == [call[c] EXCEPT !.kind = kind, !.step = step]
<1>1. call[c] \in Call
  BY DEF CallType
<1>2. x \in Call
  BY <1>1 DEF Call
<1>3. call' = [call EXCEPT ![c] = x]
  BY DEF Begin
<1>4. x.step = step /\ x.kind = kind /\ x.read = call[c].read
  BY <1>1 DEF Call
<1> HIDE DEF x
<1> QED BY <1>2, <1>3, <1>4 DEF CallType, Others

LEMMA NextRowShape ==
  ASSUME CallType, NEW c \in Calls, NEW failed \in BOOLEAN, NextRow(c, failed)
  PROVE  /\ CallType' /\ Others(c)
         /\ call'[c].step = "row" /\ call'[c].kind = call[c].kind
         /\ call'[c].read = call[c].read /\ call'[c].todo = call[c].todo
         /\ call'[c].skipped = call[c].skipped
         /\ ~ call'[c].failed => ~ call[c].failed /\ ~ failed
<1> DEFINE b == call[c].failed \/ failed
           x == [call[c] EXCEPT !.step = "row", !.failed = b, !.part = Nobody,
                                !.quantity = 0, !.sum = 0]
<1>1. call[c] \in Call
  BY DEF CallType
<1>2. b \in BOOLEAN
  BY Zenon DEF b
<1>3. call' = [call EXCEPT ![c] = x]
  BY DEF NextRow
<1>4. ~ b => ~ call[c].failed /\ ~ failed
  BY DEF b
<1> HIDE DEF b
<1>5. x \in Call
  <2>1. "row" \in Steps /\ Nobody \in Parts \cup {Nobody} /\ 0 \in Int
    BY DEF Steps
  <2> DEFINE y == [call[c] EXCEPT !.step = "row", !.failed = b, !.part = Nobody]
  <2>2. y \in Call
    BY <1>1, <1>2, <2>1 DEF Call
  <2>3. x = [y EXCEPT !.quantity = 0, !.sum = 0]
    OBVIOUS
  <2> HIDE DEF x, y
  <2> QED BY <2>1, <2>2, <2>3 DEF Call
<1>6. /\ x.step = "row" /\ x.kind = call[c].kind
      /\ x.read = call[c].read /\ x.todo = call[c].todo
      /\ x.skipped = call[c].skipped /\ x.failed = b
  BY <1>1 DEF Call
<1> HIDE DEF x
<1>7. call'[c] = x
  BY <1>3 DEF CallType
<1> QED BY <1>3, <1>4, <1>5, <1>6, <1>7 DEF CallType, Others

LEMMA RowFailsShape ==
  ASSUME CallType, NEW c \in Calls, RowFails(c)
  PROVE  /\ CallType' /\ Others(c)
         /\ call[c].step \in Working \ {"finish"}
         /\ call'[c].step = "row" /\ call'[c].kind = call[c].kind
         /\ call'[c].failed
<1>1. CASE call[c].step \in {"key", "adjust", "sum", "total", "commit"} /\ NextRow(c, TRUE)
  BY <1>1, NextRowShape DEF Working
<1>2. ASSUME NEW p \in call[c].todo, At(c, "row"),
             call' = [call EXCEPT ![c].todo = call[c].todo \ {p}, ![c].failed = TRUE]
      PROVE  /\ CallType' /\ Others(c)
             /\ call[c].step \in Working \ {"finish"}
             /\ call'[c].step = "row" /\ call'[c].kind = call[c].kind
             /\ call'[c].failed
  <2> DEFINE x == [call[c] EXCEPT !.todo = call[c].todo \ {p}, !.failed = TRUE]
  <2>1. call[c] \in Call
    BY DEF CallType
  <2>2. call' = [call EXCEPT ![c] = x]
    BY <1>2
  <2>3. x \in Call
    BY <2>1 DEF Call
  <2>4. x.step = "row" /\ x.kind = call[c].kind /\ x.failed
    BY <1>2, <2>1 DEF Call, At
  <2> HIDE DEF x
  <2> QED BY <1>2, <2>2, <2>3, <2>4 DEF CallType, Others, Working, At
<1> QED BY <1>1, <1>2 DEF RowFails

LEMMA ReadPartsShape ==
  ASSUME CallType, NEW c \in Calls, ReadParts(c)
  PROVE  /\ CallType' /\ Others(c)
         /\ call'[c].step = "delete" /\ call'[c].kind = call[c].kind
<1>1. PICK unmapped \in SUBSET Parts :
        call' = [call EXCEPT ![c].step = "delete",
          ![c].todo = {p \in Parts \ unmapped : total[p] # Snapshot[p]}]
  BY DEF ReadParts
<1> DEFINE S == {p \in Parts \ unmapped : total[p] # Snapshot[p]}
           x == [call[c] EXCEPT !.step = "delete", !.todo = S]
<1>2. call[c] \in Call /\ S \subseteq Parts
  BY DEF CallType
<1>3. call' = [call EXCEPT ![c] = x]
  BY <1>1
<1> HIDE DEF S
<1>4. x \in Call
  BY <1>2 DEF Call, Steps
<1>5. x.step = "delete" /\ x.kind = call[c].kind
  BY <1>2 DEF Call
<1> HIDE DEF x
<1> QED BY <1>3, <1>4, <1>5 DEF CallType, Others

LEMMA ReadReadyShape ==
  ASSUME CallType, RowsType, NEW c \in Calls, ReadReady(c), status = "VALIDATED"
  PROVE  /\ CallType' /\ Others(c)
         /\ call'[c].step = "claim" /\ call'[c].kind = call[c].kind
<1> DEFINE x == [call[c] EXCEPT !.step = "claim", !.read = rows]
<1>1. call[c] \in Call
  BY DEF CallType
<1>2. call' = [call EXCEPT ![c] = x]
  BY DEF ReadReady
<1>3. rows \in [Parts -> Nat]
  BY DEF RowsType
<1>4. x \in Call
  BY <1>1, <1>3 DEF Call, Steps
<1>5. x.step = "claim" /\ x.kind = call[c].kind
  BY <1>1 DEF Call
<1> HIDE DEF x
<1> QED BY <1>2, <1>4, <1>5 DEF CallType, Others

\* Of an application, what the comparison leaves to do and what it skips are
\* the parts it has rows of.
LEMMA CompareShape ==
  ASSUME CallType, NEW c \in Calls, compareStockBalances(c)
  PROVE  /\ CallType' /\ Others(c)
         /\ call'[c].step = "row" /\ call'[c].kind = call[c].kind
         /\ call'[c].read = call[c].read
         /\ InSnapshot(c) \subseteq call'[c].todo \cup call'[c].skipped
<1>1. PICK unmatched \in SUBSET InSnapshot(c) :
        LET changed == {p \in InSnapshot(c) \ unmatched : onHand[p] # Target(c, p)}
        IN call' = [call EXCEPT ![c].step = "row", ![c].todo = changed,
                                ![c].skipped = InSnapshot(c) \ changed]
  BY DEF compareStockBalances
<1> DEFINE S == {p \in InSnapshot(c) \ unmatched : onHand[p] # Target(c, p)}
           T == InSnapshot(c) \ S
           x == [call[c] EXCEPT !.step = "row", !.todo = S, !.skipped = T]
<1>2. call[c] \in Call /\ S \subseteq Parts /\ T \subseteq Parts
  BY DEF CallType, InSnapshot
<1>3. call' = [call EXCEPT ![c] = x]
  BY <1>1
<1>4. InSnapshot(c) \subseteq S \cup T
  OBVIOUS
<1> HIDE DEF S, T
<1>5. x \in Call
  BY <1>2 DEF Call, Steps
<1>6. /\ x.step = "row" /\ x.kind = call[c].kind /\ x.read = call[c].read
      /\ x.todo = S /\ x.skipped = T
  BY <1>2 DEF Call
<1> HIDE DEF x
<1>7. CallType' /\ Others(c) /\ call'[c] = x
  BY <1>3, <1>5 DEF CallType, Others
<1> QED BY <1>4, <1>6, <1>7

(* The target of a call is a number.                                       *)
LEMMA TargetType ==
  ASSUME CallType, NEW c \in Calls, NEW p \in Parts
  PROVE  Target(c, p) \in Nat
<1>1. Feed[p] \in Nat /\ Snapshot[p] \in Nat /\ call[c].read[p] \in Nat
  BY StockAssumption DEF CallType, Call
<1> QED BY <1>1 DEF Target

LEMMA ReadPartShape ==
  ASSUME CallType, StockType, NEW c \in Calls, NEW p \in Parts, ReadPart(c, p)
  PROVE  /\ CallType' /\ Others(c)
         /\ call'[c].kind = call[c].kind /\ call'[c].read = call[c].read
         /\ call'[c].failed = call[c].failed
         /\ call'[c].todo = call[c].todo \ {p}
         /\ \/ /\ call'[c].step = "row"
               /\ call'[c].skipped = call[c].skipped \cup {p}
            \/ /\ call'[c].step = IF call[c].kind = "sync" THEN "adjust" ELSE "key"
               /\ call'[c].part = p /\ call'[c].quantity # 0
               /\ call'[c].skipped = call[c].skipped
<1>1. call[c] \in Call /\ call[c].step = "row"
  BY DEF CallType, ReadPart, At
<1>2. CASE Skip(c, p)
  <2> DEFINE x == [call[c] EXCEPT !.todo = call[c].todo \ {p},
                                  !.skipped = call[c].skipped \cup {p}]
  <2>1. call' = [call EXCEPT ![c] = x]
    BY <1>2 DEF Skip
  <2>2. x \in Call
    BY <1>1 DEF Call
  <2>3. /\ x.step = "row" /\ x.kind = call[c].kind /\ x.read = call[c].read
        /\ x.failed = call[c].failed /\ x.todo = call[c].todo \ {p}
        /\ x.skipped = call[c].skipped \cup {p}
    BY <1>1 DEF Call
  <2> HIDE DEF x
  <2> QED BY <2>1, <2>2, <2>3 DEF CallType, Others
<1>3. CASE ~ Skip(c, p)
  <2> DEFINE s == IF call[c].kind = "sync" THEN "adjust" ELSE "key"
             q == Target(c, p) - total[p]
             x == [call[c] EXCEPT !.todo = call[c].todo \ {p}, !.part = p, !.quantity = q,
                                  !.step = s]
  <2>1. call' = [call EXCEPT ![c] = x] /\ total[p] # Target(c, p)
    BY <1>3 DEF ReadPart
  <2>2. q \in Int /\ q # 0 /\ s \in Steps
    BY <2>1, TargetType DEF StockType, Steps
  <2> HIDE DEF q, s
  <2>3. x \in Call
    BY <1>1, <2>2 DEF Call
  <2>4. /\ x.step = s /\ x.kind = call[c].kind /\ x.read = call[c].read
        /\ x.failed = call[c].failed /\ x.skipped = call[c].skipped
        /\ x.todo = call[c].todo \ {p} /\ x.part = p /\ x.quantity = q
    BY <1>1 DEF Call
  <2> HIDE DEF x
  <2>5. CallType' /\ Others(c) /\ call'[c] = x
    BY <2>1, <2>3 DEF CallType, Others
  <2> QED BY <2>2, <2>4, <2>5 DEF s
<1> QED BY <1>2, <1>3

LEMMA ReadBalancesShape ==
  ASSUME CallType, StockType, KindInv, NEW c \in Calls, ReadBalances(c)
  PROVE  /\ CallType' /\ Others(c)
         /\ call'[c].step = "total" /\ call'[c].kind = call[c].kind
         /\ call'[c].read = call[c].read /\ call'[c].todo = call[c].todo
         /\ call'[c].part = call[c].part /\ call'[c].skipped = call[c].skipped
         /\ call'[c].failed = call[c].failed
<1> DEFINE n == onHand[call[c].part]
           x == [call[c] EXCEPT !.step = "total", !.sum = n]
<1>1. call[c] \in Call /\ n \in Nat
  BY DEF CallType, StockType, KindInv, KindOf, ReadBalances, At
<1>2. call' = [call EXCEPT ![c] = x]
  BY DEF ReadBalances
<1> HIDE DEF n
<1>3. x \in Call
  BY <1>1 DEF Call, Steps
<1>4. /\ x.step = "total" /\ x.kind = call[c].kind /\ x.read = call[c].read
      /\ x.todo = call[c].todo /\ x.part = call[c].part
      /\ x.skipped = call[c].skipped /\ x.failed = call[c].failed
  BY <1>1 DEF Call
<1> HIDE DEF x
<1> QED BY <1>2, <1>3, <1>4 DEF CallType, Others

(* Calls whose process dies end, the others stay as they are.              *)
LEMMA DiesShape ==
  ASSUME CallType, NEW x \in Processes, ProcessDies(x)
  PROVE  CallType' /\ \A d \in Calls : call'[d] = Ended \/ call'[d] = call[d]
BY IdleType DEF CallType, ProcessDies

(* Every step keeps the types.                                             *)
LEMMA RunTypes ==
  ASSUME RunType, CallType, [Next]_vars
  PROVE  RunType'
<1> USE DEF run, movement, stock, history, RunType, Status, Applied
<1>1. CASE upload
  BY <1>1 DEF upload
<1>2. ASSUME NEW c \in Calls, WAREHOUSE_SCOPE_REQUIRED(c) PROVE RunType'
  BY <1>2 DEF WAREHOUSE_SCOPE_REQUIRED
<1>3. ASSUME NEW c \in Calls, DeleteRows(c) PROVE RunType'
  BY <1>3 DEF DeleteRows
<1>4. ASSUME NEW c \in Calls, CreateRows(c) PROVE RunType'
  BY <1>4 DEF CreateRows
<1>5. ASSUME NEW c \in Calls, WriteValidated(c) PROVE RunType'
  BY <1>5 DEF WriteValidated
<1>6. ASSUME NEW c \in Calls, Reclaim(c) PROVE RunType'
  BY <1>6 DEF Reclaim
<1>7. ASSUME NEW c \in Calls, Claim(c) PROVE RunType'
  BY <1>7 DEF Claim
<1>8. ASSUME NEW c \in Calls, WriteResult(c) PROVE RunType'
  <2>1. Result(c) \in [rows: SUBSET Parts, skipped: SUBSET Parts]
    BY DEF CallType, Call, Result
  <2> QED BY <1>8, <2>1 DEF WriteResult
<1>9. ASSUME NEW c \in Calls, WriteFailed(c) PROVE RunType'
  BY <1>9 DEF WriteFailed
<1>10. ASSUME NEW c \in Calls,
             \/ validate(c) \/ ReadParts(c) \/ apply(c)
             \/ waitForApplyTerminal(c) \/ ReadReady(c)
             \/ applyStockSnapshot(c) \/ withApplyLock(c)
             \/ compareStockBalances(c) \/ MappingIncomplete(c)
             \/ beginIdempotency(c) \/ adjust(c) \/ commitIdempotency(c)
             \/ ReadBalances(c) \/ WritePart(c) \/ RowFails(c) \/ EndOfRows(c) \/ Throw(c)
      PROVE  RunType'
  BY <1>10 DEF validate, ReadParts, apply, waitForApplyTerminal, ReadReady,
    applyStockSnapshot, withApplyLock, compareStockBalances,
    MappingIncomplete, beginIdempotency, adjust, commitIdempotency, ReadBalances, WritePart, RowFails,
    EndOfRows, Throw
<1>11. ASSUME NEW c \in Calls, NEW p \in Parts, ReadPart(c, p) PROVE RunType'
  BY <1>11 DEF ReadPart
<1>12. ASSUME NEW x \in Processes, ProcessDies(x) PROVE RunType'
  BY <1>12 DEF ProcessDies
<1>13. ASSUME NEW p \in Parts, Moves(p) PROVE RunType'
  BY <1>13 DEF Moves, Move, MoveReadsBalances, MoveWritesPart
<1>14. CASE UNCHANGED vars
  BY <1>14 DEF vars
<1> QED BY <1>1, <1>2, <1>3, <1>4, <1>5, <1>6, <1>7, <1>8, <1>9, <1>10, <1>11,
  <1>12, <1>13, <1>14 DEF Next, Step, Moves

(* The same for the rows.                                                  *)
LEMMA RowsTypes ==
  ASSUME RowsType, [Next]_vars
  PROVE  RowsType'
<1> USE DEF run, movement, stock, history, RowsType
<1>1. ASSUME NEW c \in Calls, DeleteRows(c) PROVE RowsType'
  BY <1>1 DEF DeleteRows
<1>2. ASSUME NEW c \in Calls, CreateRows(c) PROVE RowsType'
  BY <1>2 DEF CreateRows
<1>3. CASE upload
  BY <1>3 DEF upload
<1>4. ASSUME NEW c \in Calls,
             \/ validate(c) \/ WAREHOUSE_SCOPE_REQUIRED(c) \/ ReadParts(c)
             \/ WriteValidated(c) \/ apply(c) \/ waitForApplyTerminal(c)
             \/ Reclaim(c) \/ ReadReady(c) \/ Claim(c)
             \/ applyStockSnapshot(c) \/ withApplyLock(c)
             \/ compareStockBalances(c) \/ MappingIncomplete(c)
             \/ beginIdempotency(c) \/ adjust(c) \/ commitIdempotency(c)
             \/ ReadBalances(c) \/ WritePart(c) \/ RowFails(c) \/ EndOfRows(c) \/ WriteResult(c)
             \/ WriteFailed(c) \/ Throw(c)
      PROVE  RowsType'
  BY <1>4 DEF validate, WAREHOUSE_SCOPE_REQUIRED, ReadParts, WriteValidated,
    apply, waitForApplyTerminal, Reclaim, ReadReady, Claim,
    applyStockSnapshot, withApplyLock, compareStockBalances,
    MappingIncomplete, beginIdempotency, adjust, commitIdempotency, ReadBalances, WritePart, RowFails,
    EndOfRows, WriteResult, WriteFailed, Throw
<1>5. ASSUME NEW c \in Calls, NEW p \in Parts, ReadPart(c, p) PROVE RowsType'
  BY <1>5 DEF ReadPart
<1>6. ASSUME NEW x \in Processes, ProcessDies(x) PROVE RowsType'
  BY <1>6 DEF ProcessDies
<1>7. ASSUME NEW p \in Parts, Moves(p) PROVE RowsType'
  BY <1>7 DEF Moves, Move, MoveReadsBalances, MoveWritesPart
<1>8. CASE UNCHANGED vars
  BY <1>8 DEF vars
<1> QED BY <1>1, <1>2, <1>3, <1>4, <1>5, <1>6, <1>7, <1>8 DEF Next, Step, Moves

(* The same for the stock: the balance is never taken below nothing, so    *)
(* neither is a total that was summed up from it.                          *)
LEMMA StockTypes ==
  ASSUME StockType, CallType, KindInv, [Next]_vars
  PROVE  StockType'
<1> USE DEF run, movement, stock, history, StockType
<1>1. ASSUME NEW c \in Calls, adjust(c) PROVE StockType'
  <2>1. call[c].quantity \in Int /\ call[c].part \in Parts
    BY <1>1 DEF CallType, Call, KindInv, KindOf, adjust, At
  <2>2. onHand[call[c].part] + call[c].quantity \in Nat
    BY <1>1, <2>1 DEF adjust, applyAdjustOut
  <2>3. onHand' \in [Parts -> Nat]
    BY <1>1, <2>1, <2>2 DEF adjust
  <2>4. moves' \in [Parts -> Nat] /\ adjustments' \in [Parts -> Nat]
    <3>1. moves[call[c].part] + 1 \in Nat /\ adjustments[call[c].part] + 1 \in Nat
      BY <2>1
    <3>2. CASE call[c].kind = "sync"
      BY <1>1, <3>1, <3>2 DEF adjust
    <3>3. CASE call[c].kind # "sync"
      BY <1>1, <3>1, <3>3 DEF adjust
    <3> QED BY <3>2, <3>3
  <2> QED BY <1>1, <2>3, <2>4 DEF adjust
<1>2. ASSUME NEW c \in Calls, WritePart(c) PROVE StockType'
  <2>1. call[c].sum \in Nat
    BY DEF CallType, Call
  <2> QED BY <1>2, <2>1 DEF WritePart
<1>3. ASSUME NEW p \in Parts, NEW n \in {-1, 1}, Move(p, n) PROVE StockType'
  <2>1. onHand[p] + n \in Nat /\ moves[p] + 1 \in Nat /\ unread[p] + 1 \in Nat
    BY <1>3 DEF Move
  <2> QED BY <1>3, <2>1 DEF Move
<1>4. ASSUME NEW p \in Parts, MoveReadsBalances(p) PROVE StockType'
  <2> DEFINE n == [sum |-> onHand[p], after |-> moves[p], of |-> unread[p]]
  <2>1. unread[p] - 1 \in Nat BY <1>4 DEF MoveReadsBalances
  <2>2. n \in SumRead BY DEF SumRead
  <2>3. sums[p] \cup {n} \in SUBSET SumRead BY <2>2
  <2>4. /\ unread' = [unread EXCEPT ![p] = unread[p] - 1]
        /\ sums' = [sums EXCEPT ![p] = sums[p] \cup {n}]
        /\ UNCHANGED <<onHand, total, moves, adjustments>>
    BY <1>4 DEF MoveReadsBalances, history
  <2> HIDE DEF n
  <2> QED BY <2>1, <2>3, <2>4
<1>5. ASSUME NEW p \in Parts, MoveWritesPart(p) PROVE StockType'
  <2>1. PICK n \in sums[p] : /\ total' = [total EXCEPT ![p] = n.sum]
                             /\ sums' = [sums EXCEPT ![p] = sums[p] \ {n}]
    BY <1>5 DEF MoveWritesPart
  <2>2. n.sum \in Nat /\ sums[p] \ {n} \in SUBSET SumRead
    BY DEF SumRead
  <2> QED BY <1>5, <2>1, <2>2 DEF MoveWritesPart
<1>6. CASE upload
  BY <1>6 DEF upload
<1>7. ASSUME NEW c \in Calls,
             \/ validate(c) \/ WAREHOUSE_SCOPE_REQUIRED(c) \/ ReadParts(c)
             \/ DeleteRows(c) \/ CreateRows(c) \/ WriteValidated(c)
             \/ apply(c) \/ waitForApplyTerminal(c) \/ Reclaim(c)
             \/ ReadReady(c) \/ Claim(c) \/ applyStockSnapshot(c)
             \/ withApplyLock(c) \/ compareStockBalances(c)
             \/ MappingIncomplete(c) \/ beginIdempotency(c)
             \/ ReadBalances(c) \/ commitIdempotency(c) \/ RowFails(c)
             \/ EndOfRows(c) \/ WriteResult(c) \/ WriteFailed(c) \/ Throw(c)
      PROVE  StockType'
  BY <1>7 DEF validate, WAREHOUSE_SCOPE_REQUIRED, ReadParts, DeleteRows,
    CreateRows, WriteValidated, apply, waitForApplyTerminal, Reclaim,
    ReadReady, Claim, applyStockSnapshot, withApplyLock, compareStockBalances,
    MappingIncomplete, beginIdempotency, ReadBalances, commitIdempotency,
    RowFails, EndOfRows, WriteResult, WriteFailed, Throw
<1>8. ASSUME NEW c \in Calls, NEW p \in Parts, ReadPart(c, p) PROVE StockType'
  BY <1>8 DEF ReadPart
<1>9. ASSUME NEW x \in Processes, ProcessDies(x) PROVE StockType'
  BY <1>9 DEF ProcessDies
<1>10. CASE UNCHANGED vars
  BY <1>10 DEF vars
<1> QED BY <1>1, <1>2, <1>3, <1>4, <1>5, <1>6, <1>7, <1>8, <1>9, <1>10 DEF
  Next, Step

(* The same for the keys.                                                  *)
LEMMA KeyTypes ==
  ASSUME KeyType, CallType, [Next]_vars
  PROVE  KeyType'
<1> USE DEF run, movement, stock, history, KeyType
<1>1. ASSUME NEW c \in Calls, beginIdempotency(c) PROVE KeyType'
  <2>1. call[c].quantity \in Int
    BY DEF CallType, Call
  <2>2. [quantity |-> call[c].quantity, done |-> FALSE] \in [quantity: Int, done: BOOLEAN]
    BY <2>1
  <2>3. CASE key' = [key EXCEPT ![call[c].part] =
                      [quantity |-> call[c].quantity, done |-> FALSE]]
    BY <2>2, <2>3
  <2> QED BY <1>1, <2>3 DEF beginIdempotency
<1>2. ASSUME NEW c \in Calls, commitIdempotency(c) PROVE KeyType'
  BY <1>2 DEF commitIdempotency
<1>3. CASE upload
  BY <1>3 DEF upload
<1>4. ASSUME NEW c \in Calls,
             \/ validate(c) \/ WAREHOUSE_SCOPE_REQUIRED(c) \/ ReadParts(c)
             \/ DeleteRows(c) \/ CreateRows(c) \/ WriteValidated(c)
             \/ apply(c) \/ waitForApplyTerminal(c) \/ Reclaim(c)
             \/ ReadReady(c) \/ Claim(c) \/ applyStockSnapshot(c)
             \/ withApplyLock(c) \/ compareStockBalances(c)
             \/ MappingIncomplete(c) \/ adjust(c) \/ ReadBalances(c)
             \/ WritePart(c) \/ RowFails(c)
             \/ EndOfRows(c) \/ WriteResult(c) \/ WriteFailed(c) \/ Throw(c)
      PROVE  KeyType'
  BY <1>4 DEF validate, WAREHOUSE_SCOPE_REQUIRED, ReadParts, DeleteRows,
    CreateRows, WriteValidated, apply, waitForApplyTerminal, Reclaim,
    ReadReady, Claim, applyStockSnapshot, withApplyLock, compareStockBalances,
    MappingIncomplete, adjust, ReadBalances, WritePart, RowFails, EndOfRows, WriteResult, WriteFailed,
    Throw
<1>5. ASSUME NEW c \in Calls, NEW p \in Parts, ReadPart(c, p) PROVE KeyType'
  BY <1>5 DEF ReadPart
<1>6. ASSUME NEW x \in Processes, ProcessDies(x) PROVE KeyType'
  BY <1>6 DEF ProcessDies
<1>7. ASSUME NEW p \in Parts, Moves(p) PROVE KeyType'
  BY <1>7 DEF Moves, Move, MoveReadsBalances, MoveWritesPart
<1>8. CASE UNCHANGED vars
  BY <1>8 DEF vars
<1> QED BY <1>1, <1>2, <1>3, <1>4, <1>5, <1>6, <1>7, <1>8 DEF Next, Step, Moves

(* The same for the locks.                                                 *)
LEMMA LockTypes ==
  ASSUME LockType, [Next]_vars
  PROVE  LockType'
<1> USE DEF run, movement, stock, history, LockType
<1>1. ASSUME NEW c \in Calls, withApplyLock(c) PROVE LockType'
  BY <1>1 DEF withApplyLock
<1>2. ASSUME NEW c \in Calls, MappingIncomplete(c) PROVE LockType'
  BY <1>2 DEF MappingIncomplete, Release
<1>3. ASSUME NEW c \in Calls, EndOfRows(c) PROVE LockType'
  BY <1>3 DEF EndOfRows, Release
<1>4. ASSUME NEW c \in Calls, Throw(c) PROVE LockType'
  BY <1>4 DEF Throw, Release
<1>5. ASSUME NEW x \in Processes, ProcessDies(x) PROVE LockType'
  BY <1>5 DEF ProcessDies
<1>6. CASE upload
  BY <1>6 DEF upload
<1>7. ASSUME NEW c \in Calls,
             \/ validate(c) \/ WAREHOUSE_SCOPE_REQUIRED(c) \/ ReadParts(c)
             \/ DeleteRows(c) \/ CreateRows(c) \/ WriteValidated(c)
             \/ apply(c) \/ waitForApplyTerminal(c) \/ Reclaim(c)
             \/ ReadReady(c) \/ Claim(c) \/ applyStockSnapshot(c)
             \/ compareStockBalances(c) \/ beginIdempotency(c) \/ adjust(c)
             \/ commitIdempotency(c) \/ ReadBalances(c) \/ WritePart(c) \/ RowFails(c) \/ WriteResult(c)
             \/ WriteFailed(c)
      PROVE  LockType'
  BY <1>7 DEF validate, WAREHOUSE_SCOPE_REQUIRED, ReadParts, DeleteRows,
    CreateRows, WriteValidated, apply, waitForApplyTerminal, Reclaim,
    ReadReady, Claim, applyStockSnapshot, compareStockBalances,
    beginIdempotency, adjust, commitIdempotency, ReadBalances, WritePart, RowFails, WriteResult,
    WriteFailed
<1>8. ASSUME NEW c \in Calls, NEW p \in Parts, ReadPart(c, p) PROVE LockType'
  BY <1>8 DEF ReadPart
<1>9. ASSUME NEW p \in Parts, Moves(p) PROVE LockType'
  BY <1>9 DEF Moves, Move, MoveReadsBalances, MoveWritesPart
<1>10. CASE UNCHANGED vars
  BY <1>10 DEF vars
<1> QED BY <1>1, <1>2, <1>3, <1>4, <1>5, <1>6, <1>7, <1>8, <1>9, <1>10 DEF
  Next, Step, Moves

(* The same for the calls.                                                 *)
LEMMA CallTypes ==
  ASSUME RowsType, StockType, CallType, KindInv, [Next]_vars
  PROVE  CallType'
<1> USE DEF run, movement, stock, history
<1>1. CASE upload
  BY <1>1 DEF upload, CallType
<1>2. ASSUME NEW c \in Calls, validate(c) PROVE CallType'
  BY <1>2, BeginShape DEF validate, Kinds, Steps
<1>3. ASSUME NEW c \in Calls, WAREHOUSE_SCOPE_REQUIRED(c) PROVE CallType'
  BY <1>3, EndShape DEF WAREHOUSE_SCOPE_REQUIRED
<1>4. ASSUME NEW c \in Calls, ReadParts(c) PROVE CallType'
  BY <1>4, ReadPartsShape
<1>5. ASSUME NEW c \in Calls, DeleteRows(c) PROVE CallType'
  BY <1>5, GotoShape DEF DeleteRows, Steps
<1>6. ASSUME NEW c \in Calls, CreateRows(c) PROVE CallType'
  BY <1>6, GotoShape DEF CreateRows, Steps
<1>7. ASSUME NEW c \in Calls, WriteValidated(c) PROVE CallType'
  BY <1>7, EndShape DEF WriteValidated
<1>8. ASSUME NEW c \in Calls, apply(c) PROVE CallType'
  BY <1>8, BeginShape DEF apply, Kinds, Steps
<1>9. ASSUME NEW c \in Calls, waitForApplyTerminal(c) PROVE CallType'
  BY <1>9, GotoShape, EndShape DEF waitForApplyTerminal, Steps
<1>10. ASSUME NEW c \in Calls, Reclaim(c) PROVE CallType'
  BY <1>10, GotoShape DEF Reclaim, Steps
<1>11. ASSUME NEW c \in Calls, ReadReady(c) PROVE CallType'
  BY <1>11, ReadReadyShape, EndShape DEF ReadReady
<1>12. ASSUME NEW c \in Calls, Claim(c) PROVE CallType'
  BY <1>12, GotoShape, EndShape DEF Claim, Steps
<1>13. ASSUME NEW c \in Calls, applyStockSnapshot(c) PROVE CallType'
  BY <1>13, BeginShape DEF applyStockSnapshot, Kinds, Steps
<1>14. ASSUME NEW c \in Calls, withApplyLock(c) PROVE CallType'
  BY <1>14, GotoShape DEF withApplyLock, Steps
<1>15. ASSUME NEW c \in Calls, compareStockBalances(c) PROVE CallType'
  BY <1>15, CompareShape
<1>16. ASSUME NEW c \in Calls, NEW p \in Parts, ReadPart(c, p) PROVE CallType'
  BY <1>16, ReadPartShape
<1>17. ASSUME NEW c \in Calls, MappingIncomplete(c) PROVE CallType'
  BY <1>17, GotoShape, EndShape DEF MappingIncomplete, Steps
<1>18. ASSUME NEW c \in Calls, beginIdempotency(c) PROVE CallType'
  <2>1. CASE Goto(c, "adjust")
    BY <2>1, GotoShape DEF Steps
  <2>2. CASE NextRow(c, key[call[c].part].quantity # call[c].quantity)
    <3>1. (key[call[c].part].quantity # call[c].quantity) \in BOOLEAN
      OBVIOUS
    <3> QED BY <2>2, <3>1, NextRowShape
  <2> QED BY <1>18, <2>1, <2>2 DEF beginIdempotency
<1>19. ASSUME NEW c \in Calls, adjust(c) PROVE CallType'
  BY <1>19, GotoShape DEF adjust, Steps
<1>20. ASSUME NEW c \in Calls, commitIdempotency(c) PROVE CallType'
  BY <1>20, NextRowShape DEF commitIdempotency
<1>21. ASSUME NEW c \in Calls, RowFails(c) PROVE CallType'
  BY <1>21, RowFailsShape
<1>22. ASSUME NEW c \in Calls, EndOfRows(c) PROVE CallType'
  BY <1>22, GotoShape, EndShape DEF EndOfRows, Steps
<1>23. ASSUME NEW c \in Calls, WriteResult(c) PROVE CallType'
  BY <1>23, EndShape DEF WriteResult
<1>24. ASSUME NEW c \in Calls, WriteFailed(c) PROVE CallType'
  BY <1>24, EndShape DEF WriteFailed
<1>25. ASSUME NEW c \in Calls, Throw(c) PROVE CallType'
  BY <1>25, EndShape DEF Throw
<1>26. ASSUME NEW x \in Processes, ProcessDies(x) PROVE CallType'
  BY <1>26, DiesShape
<1>27. ASSUME NEW p \in Parts, Moves(p) PROVE CallType'
  BY <1>27 DEF Moves, Move, MoveReadsBalances, MoveWritesPart, CallType
<1>28. CASE UNCHANGED vars
  BY <1>28 DEF vars, CallType
<1>29. ASSUME NEW c \in Calls, ReadBalances(c) PROVE CallType'
  BY <1>29, ReadBalancesShape
<1>30. ASSUME NEW c \in Calls, WritePart(c) PROVE CallType'
  BY <1>30, NextRowShape, GotoShape DEF WritePart, Steps
<1> QED BY <1>1, <1>2, <1>3, <1>4, <1>5, <1>6, <1>7, <1>8, <1>9, <1>10, <1>11,
  <1>12, <1>13, <1>14, <1>15, <1>16, <1>17, <1>18, <1>19, <1>20, <1>21, <1>22,
  <1>23, <1>24, <1>25, <1>26, <1>27, <1>28, <1>29, <1>30 DEF Next, Step, Moves

(* The calls keep their kinds when those that step do.                      *)
LEMMA KindsStay ==
  ASSUME KindInv, NEW c \in Calls, Others(c), KindOf(c)'
  PROVE  KindInv'
BY DEF KindInv, Others, KindOf

(* Every step keeps what the calls are.                                    *)
LEMMA KindsKept ==
  ASSUME RowsType, StockType, CallType, KindInv, [Next]_vars
  PROVE  KindInv'
<1> USE DEF run, movement, stock, history
<1>1. CASE upload
  BY <1>1 DEF upload, KindInv, KindOf
<1>2. ASSUME NEW c \in Calls, validate(c) PROVE KindInv'
  <2>1. PICK step \in {"parts"} : Begin(c, "validate", step)
    BY <1>2 DEF validate
  <2>2. step \in Steps /\ "validate" \in Kinds
    BY <2>1 DEF Steps, Kinds
  <2> QED BY <2>1, <2>2, BeginShape, KindsStay DEF KindOf
<1>3. ASSUME NEW c \in Calls, WAREHOUSE_SCOPE_REQUIRED(c) PROVE KindInv'
  <2>1. End(c)
    BY <1>3 DEF WAREHOUSE_SCOPE_REQUIRED
  <2> QED BY <2>1, EndShape, IdleType, KindsStay DEF KindOf
<1>4. ASSUME NEW c \in Calls, ReadParts(c) PROVE KindInv'
  <2>1. call[c].kind = "validate"
    BY <1>4 DEF ReadParts, At, KindInv, KindOf
  <2> QED BY <1>4, <2>1, ReadPartsShape, KindsStay DEF KindOf
<1>5. ASSUME NEW c \in Calls, DeleteRows(c) PROVE KindInv'
  <2>1. call[c].step \in Steps /\ KindOf(c)
    BY DEF CallType, Call, KindInv, KindOf
  <2>2. CASE Goto(c, "create")
    <3>1. "create" \in Steps
      BY DEF Steps
    <3> QED BY <1>5, <2>1, <2>2, <3>1, GotoShape, KindsStay DEF DeleteRows, At, KindOf
  <2> QED BY <1>5, <2>2 DEF DeleteRows
<1>6. ASSUME NEW c \in Calls, CreateRows(c) PROVE KindInv'
  <2>1. call[c].step \in Steps /\ KindOf(c)
    BY DEF CallType, Call, KindInv, KindOf
  <2>2. CASE Goto(c, "validated")
    <3>1. "validated" \in Steps
      BY DEF Steps
    <3> QED BY <1>6, <2>1, <2>2, <3>1, GotoShape, KindsStay DEF CreateRows, At, KindOf
  <2> QED BY <1>6, <2>2 DEF CreateRows
<1>7. ASSUME NEW c \in Calls, WriteValidated(c) PROVE KindInv'
  <2>1. End(c)
    BY <1>7 DEF WriteValidated
  <2> QED BY <2>1, EndShape, IdleType, KindsStay DEF KindOf
<1>8. ASSUME NEW c \in Calls, apply(c) PROVE KindInv'
  <2>1. PICK step \in {"wait", "ready"} : Begin(c, "apply", step)
    BY <1>8 DEF apply
  <2>2. step \in Steps /\ "apply" \in Kinds
    BY <2>1 DEF Steps, Kinds
  <2> QED BY <2>1, <2>2, BeginShape, KindsStay DEF KindOf
<1>9. ASSUME NEW c \in Calls, waitForApplyTerminal(c) PROVE KindInv'
  <2>1. call[c].step \in Steps /\ KindOf(c)
    BY DEF CallType, Call, KindInv, KindOf
  <2>2. CASE Goto(c, "reclaim")
    <3>1. "reclaim" \in Steps
      BY DEF Steps
    <3> QED BY <1>9, <2>1, <2>2, <3>1, GotoShape, KindsStay DEF waitForApplyTerminal, At, KindOf
  <2>3. CASE End(c)
    BY <2>3, EndShape, IdleType, KindsStay DEF KindOf
  <2> QED BY <1>9, <2>2, <2>3 DEF waitForApplyTerminal
<1>10. ASSUME NEW c \in Calls, Reclaim(c) PROVE KindInv'
  <2>1. call[c].step \in Steps /\ KindOf(c)
    BY DEF CallType, Call, KindInv, KindOf
  <2>2. CASE Goto(c, "ready")
    <3>1. "ready" \in Steps
      BY DEF Steps
    <3> QED BY <1>10, <2>1, <2>2, <3>1, GotoShape, KindsStay DEF Reclaim, At, KindOf
  <2> QED BY <1>10, <2>2 DEF Reclaim
<1>11. ASSUME NEW c \in Calls, ReadReady(c) PROVE KindInv'
  <2>1. call[c].kind = "apply"
    BY <1>11 DEF ReadReady, At, KindInv, KindOf
  <2>2. CASE status = "VALIDATED"
    BY <1>11, <2>1, <2>2, ReadReadyShape, KindsStay DEF KindOf
  <2>3. CASE status # "VALIDATED"
    BY <1>11, <2>3, EndShape, IdleType, KindsStay DEF ReadReady, KindOf
  <2> QED BY <2>2, <2>3
<1>12. ASSUME NEW c \in Calls, Claim(c) PROVE KindInv'
  <2>1. call[c].step \in Steps /\ KindOf(c)
    BY DEF CallType, Call, KindInv, KindOf
  <2>2. CASE Goto(c, "lock")
    <3>1. "lock" \in Steps
      BY DEF Steps
    <3> QED BY <1>12, <2>1, <2>2, <3>1, GotoShape, KindsStay DEF Claim, At, KindOf
  <2>3. CASE End(c)
    BY <2>3, EndShape, IdleType, KindsStay DEF KindOf
  <2> QED BY <1>12, <2>2, <2>3 DEF Claim
<1>13. ASSUME NEW c \in Calls, applyStockSnapshot(c) PROVE KindInv'
  <2>1. PICK step \in {"lock"} : Begin(c, "sync", step)
    BY <1>13 DEF applyStockSnapshot
  <2>2. step \in Steps /\ "sync" \in Kinds
    BY <2>1 DEF Steps, Kinds
  <2> QED BY <2>1, <2>2, BeginShape, KindsStay DEF KindOf
<1>14. ASSUME NEW c \in Calls, withApplyLock(c) PROVE KindInv'
  <2>1. call[c].step \in Steps /\ KindOf(c)
    BY DEF CallType, Call, KindInv, KindOf
  <2>2. CASE Goto(c, "compare")
    <3>1. "compare" \in Steps
      BY DEF Steps
    <3> QED BY <1>14, <2>1, <2>2, <3>1, GotoShape, KindsStay DEF withApplyLock, At, KindOf
  <2> QED BY <1>14, <2>2 DEF withApplyLock
<1>15. ASSUME NEW c \in Calls, compareStockBalances(c) PROVE KindInv'
  <2>1. call[c].kind \in {"apply", "sync"}
    BY <1>15 DEF compareStockBalances, At, KindInv, KindOf
  <2> QED BY <1>15, <2>1, CompareShape, KindsStay DEF KindOf
<1>16. ASSUME NEW c \in Calls, NEW p \in Parts, ReadPart(c, p) PROVE KindInv'
  <2>1. call[c].kind \in {"apply", "sync"}
    BY <1>16 DEF ReadPart, At, KindInv, KindOf
  <2> QED BY <1>16, <2>1, ReadPartShape, KindsStay DEF KindOf
<1>17. ASSUME NEW c \in Calls, MappingIncomplete(c) PROVE KindInv'
  <2>1. call[c].step \in Steps /\ KindOf(c)
    BY DEF CallType, Call, KindInv, KindOf
  <2>2. CASE call[c].kind = "sync"
    <3>1. End(c)
      BY <1>17, <2>2 DEF MappingIncomplete
    <3> QED BY <3>1, EndShape, IdleType, KindsStay DEF KindOf
  <2>3. CASE call[c].kind # "sync"
    <3>1. Goto(c, "blocked") /\ "blocked" \in Steps
      BY <1>17, <2>3 DEF MappingIncomplete, Steps
    <3>2. call[c].kind = "apply"
      BY <1>17, <2>1, <2>3 DEF MappingIncomplete, At, KindOf
    <3> QED BY <2>1, <3>1, <3>2, GotoShape, KindsStay DEF KindOf
  <2> QED BY <2>2, <2>3
<1>18. ASSUME NEW c \in Calls, beginIdempotency(c) PROVE KindInv'
  <2>1. call[c].kind = "apply" /\ call[c].part \in Parts
    BY <1>18 DEF beginIdempotency, At, KindInv, KindOf
  <2>2. CASE Goto(c, "adjust")
    <3>1. "adjust" \in Steps
      BY DEF Steps
    <3> QED BY <2>1, <2>2, <3>1, GotoShape, KindsStay DEF KindOf
  <2>3. CASE NextRow(c, key[call[c].part].quantity # call[c].quantity)
    <3>1. (key[call[c].part].quantity # call[c].quantity) \in BOOLEAN
      OBVIOUS
    <3> QED BY <2>1, <2>3, <3>1, NextRowShape, KindsStay DEF KindOf
  <2> QED BY <1>18, <2>2, <2>3 DEF beginIdempotency
<1>19. ASSUME NEW c \in Calls, adjust(c) PROVE KindInv'
  <2>1. call[c].kind \in {"apply", "sync"} /\ call[c].part \in Parts
    BY <1>19 DEF adjust, At, KindInv, KindOf
  <2>2. Goto(c, "sum") /\ "sum" \in Steps
    BY <1>19 DEF adjust, Steps
  <2> QED BY <2>1, <2>2, GotoShape, KindsStay DEF KindOf
<1>20. ASSUME NEW c \in Calls, commitIdempotency(c) PROVE KindInv'
  <2>1. call[c].kind = "apply" /\ NextRow(c, FALSE)
    BY <1>20 DEF commitIdempotency, At, KindInv, KindOf
  <2> QED BY <2>1, NextRowShape, KindsStay DEF KindOf
<1>21. ASSUME NEW c \in Calls, RowFails(c) PROVE KindInv'
  <2>1. call[c].kind \in {"apply", "sync"}
    BY <1>21, RowFailsShape DEF Working, KindInv, KindOf
  <2> QED BY <1>21, <2>1, RowFailsShape, KindsStay DEF KindOf
<1>22. ASSUME NEW c \in Calls, EndOfRows(c) PROVE KindInv'
  <2>1. call[c].kind \in {"apply", "sync"} /\ "finish" \in Steps
    BY <1>22 DEF EndOfRows, At, KindInv, KindOf, Steps
  <2>2. CASE call[c].kind = "sync"
    BY <1>22, <2>2, EndShape, IdleType, KindsStay DEF EndOfRows, KindOf
  <2>3. CASE call[c].kind = "apply"
    <3>1. Goto(c, "finish")
      BY <1>22, <2>3 DEF EndOfRows
    <3> QED BY <2>1, <2>3, <3>1, GotoShape, KindsStay DEF KindOf
  <2> QED BY <2>1, <2>2, <2>3
<1>23. ASSUME NEW c \in Calls, WriteResult(c) PROVE KindInv'
  <2>1. End(c)
    BY <1>23 DEF WriteResult
  <2> QED BY <2>1, EndShape, IdleType, KindsStay DEF KindOf
<1>24. ASSUME NEW c \in Calls, WriteFailed(c) PROVE KindInv'
  <2>1. End(c)
    BY <1>24 DEF WriteFailed
  <2> QED BY <2>1, EndShape, IdleType, KindsStay DEF KindOf
<1>25. ASSUME NEW c \in Calls, Throw(c) PROVE KindInv'
  <2>1. End(c)
    BY <1>25 DEF Throw
  <2> QED BY <2>1, EndShape, IdleType, KindsStay DEF KindOf
<1>26. ASSUME NEW x \in Processes, ProcessDies(x) PROVE KindInv'
  <2>1. ASSUME NEW d \in Calls PROVE KindOf(d)'
    BY <1>26, DiesShape, IdleType DEF KindInv, KindOf
  <2> QED BY <2>1 DEF KindInv
<1>27. ASSUME NEW p \in Parts, Moves(p) PROVE KindInv'
  BY <1>27 DEF Moves, Move, MoveReadsBalances, MoveWritesPart, KindInv, KindOf
<1>28. CASE UNCHANGED vars
  BY <1>28 DEF vars, KindInv, KindOf
<1>29. ASSUME NEW c \in Calls, ReadBalances(c) PROVE KindInv'
  <2>1. call[c].kind \in {"apply", "sync"} /\ call[c].part \in Parts
    BY <1>29 DEF ReadBalances, At, KindInv, KindOf
  <2> QED BY <1>29, <2>1, ReadBalancesShape, KindsStay DEF KindOf
<1>30. ASSUME NEW c \in Calls, WritePart(c) PROVE KindInv'
  <2>1. /\ call[c].kind \in {"apply", "sync"} /\ call[c].part \in Parts
        /\ "commit" \in Steps
    BY <1>30 DEF WritePart, At, KindInv, KindOf, Steps
  <2>2. CASE call[c].kind = "apply"
    <3>1. Goto(c, "commit")
      BY <1>30, <2>2 DEF WritePart
    <3> QED BY <2>1, <2>2, <3>1, GotoShape, KindsStay DEF KindOf
  <2>3. CASE call[c].kind = "sync"
    <3>1. NextRow(c, FALSE)
      BY <1>30, <2>3 DEF WritePart
    <3> QED BY <2>3, <3>1, NextRowShape, KindsStay DEF KindOf
  <2> QED BY <2>1, <2>2, <2>3
<1> QED BY <1>1, <1>2, <1>3, <1>4, <1>5, <1>6, <1>7, <1>8, <1>9, <1>10, <1>11,
  <1>12, <1>13, <1>14, <1>15, <1>16, <1>17, <1>18, <1>19, <1>20, <1>21, <1>22,
  <1>23, <1>24, <1>25, <1>26, <1>27, <1>28, <1>29, <1>30 DEF Next, Step, Moves

(* A call that has made the rows does not make them again.                 *)
LEMMA HaveMadeGrows ==
  ASSUME RowsType, StockType, CallType, KindInv, [Next]_vars
  PROVE  HaveMade \subseteq HaveMade'
<1> USE DEF run, movement, stock, history, HaveMade
<1>1. ASSUME NEW c \in Calls, validate(c) PROVE HaveMade \subseteq HaveMade'
  <2>1. call[c].step \notin {"validated", "end"} /\ Others(c)
    BY <1>1, BeginShape DEF validate, Begin, At, Steps, Kinds
  <2> QED BY <2>1 DEF Others
<1>2. ASSUME NEW c \in Calls, WAREHOUSE_SCOPE_REQUIRED(c) PROVE HaveMade
      \subseteq HaveMade'
  <2>1. call'[c] = Ended /\ Others(c)
    BY <1>2, EndShape DEF WAREHOUSE_SCOPE_REQUIRED
  <2> QED BY <2>1, IdleType DEF Others
<1>3. ASSUME NEW c \in Calls, ReadParts(c) PROVE HaveMade \subseteq HaveMade'
  <2>1. call[c].step \notin {"validated", "end"} /\ Others(c)
    BY <1>3, ReadPartsShape DEF ReadParts, At
  <2> QED BY <2>1 DEF Others
<1>4. ASSUME NEW c \in Calls, DeleteRows(c) PROVE HaveMade \subseteq HaveMade'
  <2>1. call[c].step \notin {"validated", "end"} /\ Others(c)
    BY <1>4, GotoShape DEF DeleteRows, At, Steps
  <2> QED BY <2>1 DEF Others
<1>5. ASSUME NEW c \in Calls, CreateRows(c) PROVE HaveMade \subseteq HaveMade'
  <2>1. call[c].step \notin {"validated", "end"} /\ Others(c)
    BY <1>5, GotoShape DEF CreateRows, At, Steps
  <2> QED BY <2>1 DEF Others
<1>6. ASSUME NEW c \in Calls, WriteValidated(c) PROVE HaveMade \subseteq
      HaveMade'
  <2>1. call'[c] = Ended /\ Others(c)
    BY <1>6, EndShape DEF WriteValidated
  <2> QED BY <2>1, IdleType DEF Others
<1>7. ASSUME NEW c \in Calls, apply(c) PROVE HaveMade \subseteq HaveMade'
  <2>1. call[c].step \notin {"validated", "end"} /\ Others(c)
    BY <1>7, BeginShape DEF apply, Begin, At, Steps, Kinds
  <2> QED BY <2>1 DEF Others
<1>8. ASSUME NEW c \in Calls, waitForApplyTerminal(c) PROVE HaveMade \subseteq
      HaveMade'
  <2>1. call[c].step \notin {"validated", "end"} /\ Others(c)
    BY <1>8, GotoShape, EndShape DEF waitForApplyTerminal, At, Steps
  <2> QED BY <2>1 DEF Others
<1>9. ASSUME NEW c \in Calls, Reclaim(c) PROVE HaveMade \subseteq HaveMade'
  <2>1. call[c].step \notin {"validated", "end"} /\ Others(c)
    BY <1>9, GotoShape DEF Reclaim, At, Steps
  <2> QED BY <2>1 DEF Others
<1>10. ASSUME NEW c \in Calls, ReadReady(c) PROVE HaveMade \subseteq HaveMade'
  <2>1. call[c].step \notin {"validated", "end"} /\ Others(c)
    BY <1>10, ReadReadyShape, EndShape DEF ReadReady, At
  <2> QED BY <2>1 DEF Others
<1>11. ASSUME NEW c \in Calls, Claim(c) PROVE HaveMade \subseteq HaveMade'
  <2>1. call[c].step \notin {"validated", "end"} /\ Others(c)
    BY <1>11, GotoShape, EndShape DEF Claim, At, Steps
  <2> QED BY <2>1 DEF Others
<1>12. ASSUME NEW c \in Calls, applyStockSnapshot(c) PROVE HaveMade \subseteq
      HaveMade'
  <2>1. call[c].step \notin {"validated", "end"} /\ Others(c)
    BY <1>12, BeginShape DEF applyStockSnapshot, Begin, At, Steps, Kinds
  <2> QED BY <2>1 DEF Others
<1>13. ASSUME NEW c \in Calls, withApplyLock(c) PROVE HaveMade \subseteq
      HaveMade'
  <2>1. call[c].step \notin {"validated", "end"} /\ Others(c)
    BY <1>13, GotoShape DEF withApplyLock, At, Steps
  <2> QED BY <2>1 DEF Others
<1>14. ASSUME NEW c \in Calls, compareStockBalances(c) PROVE HaveMade
      \subseteq HaveMade'
  <2>1. call[c].step \notin {"validated", "end"} /\ Others(c)
    BY <1>14, CompareShape DEF compareStockBalances, At
  <2> QED BY <2>1 DEF Others
<1>15. ASSUME NEW c \in Calls, NEW p \in Parts, ReadPart(c, p) PROVE HaveMade
      \subseteq HaveMade'
  <2>1. call[c].step \notin {"validated", "end"} /\ Others(c)
    BY <1>15, ReadPartShape DEF ReadPart, At
  <2> QED BY <2>1 DEF Others
<1>16. ASSUME NEW c \in Calls, MappingIncomplete(c) PROVE HaveMade \subseteq
      HaveMade'
  <2>1. call[c].step \notin {"validated", "end"} /\ Others(c)
    BY <1>16, GotoShape, EndShape DEF MappingIncomplete, At, Steps
  <2> QED BY <2>1 DEF Others
<1>17. ASSUME NEW c \in Calls, beginIdempotency(c) PROVE HaveMade \subseteq
      HaveMade'
  <2>1. (key[call[c].part].quantity # call[c].quantity) \in BOOLEAN
    OBVIOUS
  <2>2. call[c].step \notin {"validated", "end"} /\ Others(c)
    BY <1>17, <2>1, GotoShape, NextRowShape DEF beginIdempotency, At, Steps
  <2> QED BY <2>2 DEF Others
<1>18. ASSUME NEW c \in Calls, adjust(c) PROVE HaveMade \subseteq HaveMade'
  <2>1. call[c].step \notin {"validated", "end"} /\ Others(c)
    BY <1>18, GotoShape DEF adjust, At, Steps
  <2> QED BY <2>1 DEF Others
<1>19. ASSUME NEW c \in Calls, commitIdempotency(c) PROVE HaveMade \subseteq
      HaveMade'
  <2>1. call[c].step \notin {"validated", "end"} /\ Others(c)
    BY <1>19, NextRowShape DEF commitIdempotency, At
  <2> QED BY <2>1 DEF Others
<1>20. ASSUME NEW c \in Calls, RowFails(c) PROVE HaveMade \subseteq HaveMade'
  <2>1. call[c].step \notin {"validated", "end"} /\ Others(c)
    BY <1>20, RowFailsShape DEF Working
  <2> QED BY <2>1 DEF Others
<1>21. ASSUME NEW c \in Calls, EndOfRows(c) PROVE HaveMade \subseteq HaveMade'
  <2>1. call[c].step \notin {"validated", "end"} /\ Others(c)
    BY <1>21, GotoShape, EndShape DEF EndOfRows, At, Steps
  <2> QED BY <2>1 DEF Others
<1>22. ASSUME NEW c \in Calls, WriteResult(c) PROVE HaveMade \subseteq
      HaveMade'
  <2>1. call'[c] = Ended /\ Others(c)
    BY <1>22, EndShape DEF WriteResult
  <2> QED BY <2>1, IdleType DEF Others
<1>23. ASSUME NEW c \in Calls, WriteFailed(c) PROVE HaveMade \subseteq
      HaveMade'
  <2>1. call'[c] = Ended /\ Others(c)
    BY <1>23, EndShape DEF WriteFailed
  <2> QED BY <2>1, IdleType DEF Others
<1>24. ASSUME NEW c \in Calls, Throw(c) PROVE HaveMade \subseteq HaveMade'
  <2>1. call'[c] = Ended /\ Others(c)
    BY <1>24, EndShape DEF Throw
  <2> QED BY <2>1, IdleType DEF Others
<1>25. ASSUME NEW x \in Processes, ProcessDies(x) PROVE HaveMade \subseteq
      HaveMade'
  <2>1. \A d \in Calls : call'[d] = Ended \/ call'[d] = call[d]
    BY <1>25, DiesShape
  <2> QED BY <2>1, IdleType
<1>26. CASE upload
  BY <1>26 DEF upload
<1>27. ASSUME NEW p \in Parts, Moves(p)
      PROVE  HaveMade \subseteq HaveMade'
  BY <1>27 DEF Moves, Move, MoveReadsBalances, MoveWritesPart
<1>29. ASSUME NEW c \in Calls, ReadBalances(c) PROVE HaveMade \subseteq HaveMade'
  <2>1. call[c].step \notin {"validated", "end"} /\ Others(c)
    BY <1>29, ReadBalancesShape DEF ReadBalances, At
  <2> QED BY <2>1 DEF Others
<1>30. ASSUME NEW c \in Calls, WritePart(c) PROVE HaveMade \subseteq HaveMade'
  <2>1. call[c].step \notin {"validated", "end"} /\ Others(c)
    BY <1>30, GotoShape, NextRowShape DEF WritePart, At, Steps
  <2> QED BY <2>1 DEF Others
<1>28. CASE UNCHANGED vars
  BY <1>28 DEF vars
<1> QED BY <1>1, <1>2, <1>3, <1>4, <1>5, <1>6, <1>7, <1>8, <1>9, <1>10, <1>11,
  <1>12, <1>13, <1>14, <1>15, <1>16, <1>17, <1>18, <1>19, <1>20, <1>21, <1>22,
  <1>23, <1>24, <1>25, <1>26, <1>27, <1>28, <1>29, <1>30 DEF Next, Step, Moves

(* The calls that have made the rows are finitely many, and no fewer than  *)
(* before.                                                                 *)
LEMMA CountGrows ==
  ASSUME RowsType, StockType, CallType, KindInv, [Next]_vars
  PROVE  /\ Cardinality(HaveMade) \in Nat /\ Cardinality(HaveMade)' \in Nat
         /\ Cardinality(HaveMade) <= Cardinality(HaveMade)'
         /\ IsFiniteSet(HaveMade)
<1>1. HaveMade \subseteq Calls /\ HaveMade' \subseteq Calls
  BY DEF HaveMade
<1>2. IsFiniteSet(HaveMade) /\ IsFiniteSet(HaveMade')
  BY <1>1, CallAssumption, FS_Subset
<1>3. HaveMade \subseteq HaveMade'
  BY HaveMadeGrows
<1>4. Cardinality(HaveMade) \in Nat /\ Cardinality(HaveMade') \in Nat
  BY <1>2, FS_CardinalityType
<1>5. Cardinality(HaveMade) <= Cardinality(HaveMade')
  BY <1>2, <1>3, FS_Subset
<1> QED BY <1>2, <1>4, <1>5

(* No part has more rows than calls have made them.                        *)
LEMMA RowsKept ==
  ASSUME RowsType, StockType, CallType, KindInv, RowsInv, [Next]_vars
  PROVE  RowsInv'
<1> USE CountGrows DEF run, movement, stock, history, RowsType, RowsInv
<1>1. ASSUME NEW c \in Calls, DeleteRows(c) PROVE RowsInv'
  BY <1>1 DEF DeleteRows
<1>2. ASSUME NEW c \in Calls, CreateRows(c) PROVE RowsInv'
  <2>1. c \notin HaveMade
    BY <1>2 DEF CreateRows, At, HaveMade
  <2>2. call'[c].step = "validated" /\ Others(c)
    BY <1>2, GotoShape DEF CreateRows, Steps
  <2>3. HaveMade' = HaveMade \cup {c}
    BY <1>2, <2>2 DEF HaveMade, Others, CreateRows, At
  <2>4. Cardinality(HaveMade)' = Cardinality(HaveMade) + 1
    BY <2>1, <2>3, FS_AddElement
  <2>5. \A p \in Parts : rows'[p] <= rows[p] + 1
    BY <1>2 DEF CreateRows
  <2>6. \A p \in Parts : rows[p] \in Nat /\ rows'[p] \in Nat
    BY RowsTypes
  <2> QED BY <2>4, <2>5, <2>6
<1>3. CASE upload
  <2>1. rows' = rows
    BY <1>3 DEF upload
  <2> QED BY <2>1
<1>4. ASSUME NEW c \in Calls,
             \/ validate(c) \/ WAREHOUSE_SCOPE_REQUIRED(c) \/ ReadParts(c)
             \/ WriteValidated(c) \/ apply(c) \/ waitForApplyTerminal(c)
             \/ Reclaim(c) \/ ReadReady(c) \/ Claim(c)
             \/ applyStockSnapshot(c) \/ withApplyLock(c)
             \/ compareStockBalances(c) \/ MappingIncomplete(c)
             \/ beginIdempotency(c) \/ adjust(c) \/ commitIdempotency(c)
             \/ ReadBalances(c) \/ WritePart(c) \/ RowFails(c) \/ EndOfRows(c) \/ WriteResult(c)
             \/ WriteFailed(c) \/ Throw(c)
      PROVE  RowsInv'
  <2>1. rows' = rows
    BY <1>4 DEF validate, WAREHOUSE_SCOPE_REQUIRED, ReadParts, WriteValidated,
      apply, waitForApplyTerminal, Reclaim, ReadReady, Claim,
      applyStockSnapshot, withApplyLock, compareStockBalances,
      MappingIncomplete, beginIdempotency, adjust, commitIdempotency, ReadBalances, WritePart,
      RowFails, EndOfRows, WriteResult, WriteFailed, Throw
  <2> QED BY <2>1
<1>5. ASSUME NEW c \in Calls, NEW p \in Parts, ReadPart(c, p) PROVE RowsInv'
  <2>1. rows' = rows
    BY <1>5 DEF ReadPart
  <2> QED BY <2>1
<1>6. ASSUME NEW x \in Processes, ProcessDies(x) PROVE RowsInv'
  <2>1. rows' = rows
    BY <1>6 DEF ProcessDies
  <2> QED BY <2>1
<1>7. ASSUME NEW p \in Parts, Moves(p) PROVE RowsInv'
  <2>1. rows' = rows
    BY <1>7 DEF Moves, Move, MoveReadsBalances, MoveWritesPart
  <2> QED BY <2>1
<1>8. CASE UNCHANGED vars
  BY <1>8 DEF vars
<1> QED BY <1>1, <1>2, <1>3, <1>4, <1>5, <1>6, <1>7, <1>8 DEF Next, Step, Moves

(* Who owns the key of a part still does when others step.                 *)
LEMMA OwnersStay ==
  ASSUME OwnerInv, UNCHANGED <<key, adjustments>>,
         \A d \in Calls : call'[d].kind = "apply" /\ call'[d].step \in Owning
                           => call'[d] = call[d]
  PROVE  OwnerInv'
BY DEF OwnerInv, Owns

(* So it does when one call steps to where it owns nothing.                *)
LEMMA OthersOwn ==
  ASSUME OwnerInv, UNCHANGED <<key, adjustments>>, NEW c \in Calls, Others(c),
         call'[c].kind = "apply" => call'[c].step \notin Owning
  PROVE  OwnerInv'
<1>1. \A d \in Calls : call'[d].kind = "apply" /\ call'[d].step \in Owning
                        => call'[d] = call[d]
  BY DEF Others
<1> QED BY <1>1, OwnersStay

(* And when the owner goes on after its adjustment.                        *)
LEMMA SameOwner ==
  ASSUME OwnerInv, UNCHANGED <<key, adjustments>>, NEW c \in Calls, Others(c),
         call[c].step \in Owning \ {"adjust"}, call'[c].step \in Owning \ {"adjust"},
         call'[c].kind = call[c].kind, call'[c].part = call[c].part
  PROVE  OwnerInv'
<1>1. \A d \in Calls, p \in Parts : Owns(d, p)' <=> Owns(d, p)
  BY DEF Owns, Others
<1>2. \A d \in Calls : call'[d].step = "adjust" <=> call[d].step = "adjust"
  BY DEF Others
<1> QED BY <1>1, <1>2 DEF OwnerInv

(* Every step keeps the owners of the keys.                                *)
LEMMA OwnersKept ==
  ASSUME RowsType, StockType, KeyType, CallType, KindInv, OwnerInv,
         [Next]_vars
  PROVE  OwnerInv'
<1> USE DEF run, movement, stock, history, Owning
<1>1. CASE upload
  <2>1. UNCHANGED <<key, adjustments, call>>
    BY <1>1 DEF upload
  <2> QED BY <2>1, OwnersStay
<1>2. ASSUME NEW c \in Calls, validate(c) PROVE OwnerInv'
  <2>1. /\ call'[c].step \notin Owning /\ Others(c)
        /\ UNCHANGED <<key, adjustments>>
    BY <1>2, BeginShape DEF validate, Steps, Kinds
  <2> QED BY <2>1, OthersOwn
<1>3. ASSUME NEW c \in Calls, WAREHOUSE_SCOPE_REQUIRED(c) PROVE OwnerInv'
  <2>1. /\ call'[c].step \notin Owning /\ Others(c)
        /\ UNCHANGED <<key, adjustments>>
    BY <1>3, EndShape, IdleType DEF WAREHOUSE_SCOPE_REQUIRED
  <2> QED BY <2>1, OthersOwn
<1>4. ASSUME NEW c \in Calls, ReadParts(c) PROVE OwnerInv'
  <2>1. /\ call'[c].step \notin Owning /\ Others(c)
        /\ UNCHANGED <<key, adjustments>>
    BY <1>4, ReadPartsShape DEF ReadParts
  <2> QED BY <2>1, OthersOwn
<1>5. ASSUME NEW c \in Calls, DeleteRows(c) PROVE OwnerInv'
  <2>1. /\ call'[c].step \notin Owning /\ Others(c)
        /\ UNCHANGED <<key, adjustments>>
    BY <1>5, GotoShape DEF DeleteRows, Steps
  <2> QED BY <2>1, OthersOwn
<1>6. ASSUME NEW c \in Calls, CreateRows(c) PROVE OwnerInv'
  <2>1. /\ call'[c].step \notin Owning /\ Others(c)
        /\ UNCHANGED <<key, adjustments>>
    BY <1>6, GotoShape DEF CreateRows, Steps
  <2> QED BY <2>1, OthersOwn
<1>7. ASSUME NEW c \in Calls, WriteValidated(c) PROVE OwnerInv'
  <2>1. /\ call'[c].step \notin Owning /\ Others(c)
        /\ UNCHANGED <<key, adjustments>>
    BY <1>7, EndShape, IdleType DEF WriteValidated
  <2> QED BY <2>1, OthersOwn
<1>8. ASSUME NEW c \in Calls, apply(c) PROVE OwnerInv'
  <2>1. /\ call'[c].step \notin Owning /\ Others(c)
        /\ UNCHANGED <<key, adjustments>>
    BY <1>8, BeginShape DEF apply, Steps, Kinds
  <2> QED BY <2>1, OthersOwn
<1>9. ASSUME NEW c \in Calls, waitForApplyTerminal(c) PROVE OwnerInv'
  <2>1. /\ call'[c].step \notin Owning /\ Others(c)
        /\ UNCHANGED <<key, adjustments>>
    BY <1>9, GotoShape, EndShape, IdleType DEF waitForApplyTerminal, Steps
  <2> QED BY <2>1, OthersOwn
<1>10. ASSUME NEW c \in Calls, Reclaim(c) PROVE OwnerInv'
  <2>1. /\ call'[c].step \notin Owning /\ Others(c)
        /\ UNCHANGED <<key, adjustments>>
    BY <1>10, GotoShape DEF Reclaim, Steps
  <2> QED BY <2>1, OthersOwn
<1>11. ASSUME NEW c \in Calls, ReadReady(c) PROVE OwnerInv'
  <2>1. /\ call'[c].step \notin Owning /\ Others(c)
        /\ UNCHANGED <<key, adjustments>>
    BY <1>11, ReadReadyShape, EndShape, IdleType DEF ReadReady
  <2> QED BY <2>1, OthersOwn
<1>12. ASSUME NEW c \in Calls, Claim(c) PROVE OwnerInv'
  <2>1. /\ call'[c].step \notin Owning /\ Others(c)
        /\ UNCHANGED <<key, adjustments>>
    BY <1>12, GotoShape, EndShape, IdleType DEF Claim, Steps
  <2> QED BY <2>1, OthersOwn
<1>13. ASSUME NEW c \in Calls, applyStockSnapshot(c) PROVE OwnerInv'
  <2>1. /\ call'[c].step \notin Owning /\ Others(c)
        /\ UNCHANGED <<key, adjustments>>
    BY <1>13, BeginShape DEF applyStockSnapshot, Steps, Kinds
  <2> QED BY <2>1, OthersOwn
<1>14. ASSUME NEW c \in Calls, withApplyLock(c) PROVE OwnerInv'
  <2>1. /\ call'[c].step \notin Owning /\ Others(c)
        /\ UNCHANGED <<key, adjustments>>
    BY <1>14, GotoShape DEF withApplyLock, Steps
  <2> QED BY <2>1, OthersOwn
<1>15. ASSUME NEW c \in Calls, compareStockBalances(c) PROVE OwnerInv'
  <2>1. /\ call'[c].step \notin Owning /\ Others(c)
        /\ UNCHANGED <<key, adjustments>>
    BY <1>15, CompareShape DEF compareStockBalances
  <2> QED BY <2>1, OthersOwn
<1>16. ASSUME NEW c \in Calls, NEW p \in Parts, ReadPart(c, p) PROVE OwnerInv'
  <2>1. UNCHANGED <<key, adjustments>>
    BY <1>16 DEF ReadPart
  <2>2. Others(c) /\ (call'[c].kind = "apply" => call'[c].step \notin Owning)
    BY <1>16, ReadPartShape
  <2> QED BY <2>1, <2>2, OthersOwn
<1>17. ASSUME NEW c \in Calls, MappingIncomplete(c) PROVE OwnerInv'
  <2>1. /\ call'[c].step \notin Owning /\ Others(c)
        /\ UNCHANGED <<key, adjustments>>
    BY <1>17, GotoShape, EndShape, IdleType DEF MappingIncomplete, Steps
  <2> QED BY <2>1, OthersOwn
<1>18. ASSUME NEW c \in Calls, beginIdempotency(c) PROVE OwnerInv'
  <2>1. PICK p \in Parts : /\ p = call[c].part /\ call[c].kind = "apply"
                           /\ call[c].quantity # 0 /\ call[c].quantity \in Int
    BY <1>18 DEF beginIdempotency, At, KindInv, KindOf, CallType, Call
  <2>2. UNCHANGED adjustments
    BY <1>18 DEF beginIdempotency
  <2>3. CASE key[p] = Free /\ Goto(c, "adjust")
            /\ key' = [key EXCEPT ![p] = [quantity |-> call[c].quantity, done |-> FALSE]]
    <3>1. /\ call'[c].step = "adjust" /\ call'[c].kind = "apply" /\ call'[c].part = p
          /\ Others(c)
      BY <2>1, <2>3, GotoShape DEF Steps
    <3>2. /\ key'[p] # Free /\ ~ key'[p].done
          /\ \A q \in Parts \ {p} : key'[q] = key[q]
      BY <2>1, <2>3 DEF KeyType, Free
    <3>3. \A d \in Calls : ~ Owns(d, p)
      BY <2>1, <2>3 DEF OwnerInv
    <3>4. adjustments[p] = 0
      BY <2>1, <2>3 DEF OwnerInv
    <3>5. Owns(c, p)' /\ \A q \in Parts \ {p} : ~ Owns(c, q)'
      BY <3>1 DEF Owns
    <3>6. \A d \in Calls \ {c}, q \in Parts : Owns(d, q)' <=> Owns(d, q)
      BY <3>1 DEF Owns, Others
    <3>7. ASSUME NEW q \in Parts
          PROVE  /\ key'[q] = Free => adjustments'[q] = 0
                 /\ key'[q].done => adjustments'[q] # 0
                 /\ \A d \in Calls : Owns(d, q)' => key'[q] # Free
                 /\ \A d, e \in Calls : Owns(d, q)' /\ Owns(e, q)' => d = e
                 /\ \A d \in Calls : Owns(d, q)' =>
                      (call'[d].step = "adjust" <=> adjustments'[q] = 0)
      <4>1. CASE q = p
        <5>1. \A d \in Calls : Owns(d, p)' => d = c
          BY <3>3, <3>6, <2>1 DEF Others
        <5> QED BY <2>1, <2>2, <3>1, <3>2, <3>4, <5>1, <4>1
      <4>2. CASE q # p
        <5>1. key'[q] = key[q] /\ adjustments'[q] = adjustments[q]
          BY <2>2, <3>2, <4>2
        <5>2. \A d \in Calls : Owns(d, q)' => d # c /\ Owns(d, q) /\ call'[d] = call[d]
          BY <3>1, <3>5, <3>6, <4>2 DEF Others
        <5> QED BY <5>1, <5>2 DEF OwnerInv
      <4> QED BY <4>1, <4>2
    <3> QED BY <3>7 DEF OwnerInv
  <2>4. CASE NextRow(c, key[p].quantity # call[c].quantity) /\ UNCHANGED key
    <3>1. (key[p].quantity # call[c].quantity) \in BOOLEAN
      OBVIOUS
    <3>2. call'[c].step = "row" /\ Others(c)
      BY <2>4, <3>1, NextRowShape
    <3> QED BY <2>2, <2>4, <3>2, OthersOwn
  <2> QED BY <1>18, <2>1, <2>3, <2>4 DEF beginIdempotency
<1>19. ASSUME NEW c \in Calls, adjust(c) PROVE OwnerInv'
  <2>1. PICK p \in Parts : /\ p = call[c].part /\ call[c].step = "adjust"
                           /\ call[c].kind \in {"apply", "sync"}
    BY <1>19 DEF adjust, At, KindInv, KindOf
  <2>2. UNCHANGED key /\ Goto(c, "sum") /\ "sum" \in Steps
    BY <1>19 DEF adjust, Steps
  <2>3. /\ call'[c].step = "sum" /\ call'[c].kind = call[c].kind /\ call'[c].part = p
        /\ Others(c)
    BY <2>1, <2>2, GotoShape
  <2>4. CASE call[c].kind = "sync"
    <3>1. UNCHANGED adjustments
      BY <1>19, <2>4 DEF adjust
    <3> QED BY <2>2, <2>3, <2>4, <3>1, OthersOwn
  <2>5. CASE call[c].kind = "apply"
    <3>1. adjustments' = [adjustments EXCEPT ![p] = adjustments[p] + 1]
      BY <1>19, <2>1, <2>5 DEF adjust
    <3>2. adjustments'[p] = adjustments[p] + 1 /\ adjustments[p] \in Nat
      BY <3>1 DEF StockType
    <3>3. Owns(c, p)
      BY <2>1, <2>5 DEF Owns
    <3>4. \A q \in Parts, d \in Calls :
            Owns(d, q)' => Owns(d, q) /\ (d # c => call'[d] = call[d])
      BY <2>1, <2>3, <2>5 DEF Owns, Others
    <3>5. \A q \in Parts \ {p} : adjustments'[q] = adjustments[q]
      BY <3>1 DEF StockType
    <3>6. ASSUME NEW q \in Parts
          PROVE  /\ key'[q] = Free => adjustments'[q] = 0
                 /\ key'[q].done => adjustments'[q] # 0
                 /\ \A d \in Calls : Owns(d, q)' => key'[q] # Free
                 /\ \A d, e \in Calls : Owns(d, q)' /\ Owns(e, q)' => d = e
                 /\ \A d \in Calls : Owns(d, q)' =>
                      (call'[d].step = "adjust" <=> adjustments'[q] = 0)
      <4>1. CASE q = p
        <5>1. key[p] # Free /\ \A d \in Calls : Owns(d, p)' => d = c
          BY <2>1, <3>3, <3>4 DEF OwnerInv
        <5>2. adjustments'[p] # 0
          BY <3>2
        <5> QED BY <2>2, <2>3, <4>1, <5>1, <5>2
      <4>2. CASE q # p
        <5>1. key'[q] = key[q] /\ adjustments'[q] = adjustments[q]
          BY <2>2, <3>5, <4>2
        <5>2. \A d \in Calls : Owns(d, q)' => d # c /\ Owns(d, q) /\ call'[d] = call[d]
          BY <2>3, <3>4, <4>2 DEF Owns
        <5> QED BY <5>1, <5>2 DEF OwnerInv
      <4> QED BY <4>1, <4>2
    <3> QED BY <3>6 DEF OwnerInv
  <2> QED BY <2>1, <2>4, <2>5
<1>20. ASSUME NEW c \in Calls, commitIdempotency(c) PROVE OwnerInv'
  <2>1. PICK p \in Parts : /\ p = call[c].part /\ call[c].kind = "apply"
                           /\ call[c].step = "commit"
    BY <1>20 DEF commitIdempotency, At, KindInv, KindOf
  <2>2. UNCHANGED adjustments /\ NextRow(c, FALSE) /\ key' = [key EXCEPT ![p].done = TRUE]
    BY <1>20, <2>1 DEF commitIdempotency
  <2>3. call'[c].step = "row" /\ Others(c)
    BY <2>2, NextRowShape
  <2>4. key'[p] # Free /\ \A q \in Parts \ {p} : key'[q] = key[q]
    <3>1. key'[p].done = TRUE
      BY <2>1, <2>2 DEF KeyType
    <3> QED BY <2>1, <2>2, <3>1 DEF Free, KeyType
  <2>5. \A q \in Parts, d \in Calls : Owns(d, q)' => Owns(d, q) /\ call'[d] = call[d]
    BY <2>3 DEF Owns, Others
  <2>6. adjustments[p] # 0
    <3>1. Owns(c, p)
      BY <2>1 DEF Owns
    <3> QED BY <2>1, <3>1 DEF OwnerInv
  <2> QED BY <2>1, <2>2, <2>4, <2>5, <2>6 DEF OwnerInv
<1>21. ASSUME NEW c \in Calls, RowFails(c) PROVE OwnerInv'
  <2>1. /\ call'[c].step \notin Owning /\ Others(c)
        /\ UNCHANGED <<key, adjustments>>
    BY <1>21, RowFailsShape DEF RowFails
  <2> QED BY <2>1, OthersOwn
<1>22. ASSUME NEW c \in Calls, EndOfRows(c) PROVE OwnerInv'
  <2>1. /\ call'[c].step \notin Owning /\ Others(c)
        /\ UNCHANGED <<key, adjustments>>
    BY <1>22, GotoShape, EndShape, IdleType DEF EndOfRows, Steps
  <2> QED BY <2>1, OthersOwn
<1>23. ASSUME NEW c \in Calls, WriteResult(c) PROVE OwnerInv'
  <2>1. /\ call'[c].step \notin Owning /\ Others(c)
        /\ UNCHANGED <<key, adjustments>>
    BY <1>23, EndShape, IdleType DEF WriteResult
  <2> QED BY <2>1, OthersOwn
<1>24. ASSUME NEW c \in Calls, WriteFailed(c) PROVE OwnerInv'
  <2>1. /\ call'[c].step \notin Owning /\ Others(c)
        /\ UNCHANGED <<key, adjustments>>
    BY <1>24, EndShape, IdleType DEF WriteFailed
  <2> QED BY <2>1, OthersOwn
<1>25. ASSUME NEW c \in Calls, Throw(c) PROVE OwnerInv'
  <2>1. /\ call'[c].step \notin Owning /\ Others(c)
        /\ UNCHANGED <<key, adjustments>>
    BY <1>25, EndShape, IdleType DEF Throw
  <2> QED BY <2>1, OthersOwn
<1>26. ASSUME NEW x \in Processes, ProcessDies(x) PROVE OwnerInv'
  <2>1. UNCHANGED <<key, adjustments>>
    BY <1>26 DEF ProcessDies
  <2>2. \A d \in Calls : call'[d] = Ended \/ call'[d] = call[d]
    BY <1>26, DiesShape
  <2> QED BY <2>1, <2>2, IdleType, OwnersStay
<1>27. ASSUME NEW p \in Parts, Moves(p) PROVE OwnerInv'
  <2>1. UNCHANGED <<key, adjustments, call>>
    BY <1>27 DEF Moves, Move, MoveReadsBalances, MoveWritesPart
  <2> QED BY <2>1, OwnersStay
<1>29. ASSUME NEW c \in Calls, ReadBalances(c) PROVE OwnerInv'
  <2>1. /\ call[c].step = "sum" /\ UNCHANGED <<key, adjustments>>
        /\ call'[c].step = "total" /\ call'[c].kind = call[c].kind
        /\ call'[c].part = call[c].part /\ Others(c)
    BY <1>29, ReadBalancesShape DEF ReadBalances, At
  <2> QED BY <2>1, SameOwner
<1>30. ASSUME NEW c \in Calls, WritePart(c) PROVE OwnerInv'
  <2>1. call[c].step = "total" /\ UNCHANGED <<key, adjustments>> /\ "commit" \in Steps
    BY <1>30 DEF WritePart, At, Steps
  <2>2. CASE call[c].kind = "sync"
    <3>1. call'[c].step = "row" /\ Others(c)
      BY <1>30, <2>2, NextRowShape DEF WritePart
    <3> QED BY <2>1, <3>1, OthersOwn
  <2>3. CASE call[c].kind # "sync"
    <3>1. Goto(c, "commit")
      BY <1>30, <2>3 DEF WritePart
    <3>2. /\ call'[c].step = "commit" /\ call'[c].kind = call[c].kind
          /\ call'[c].part = call[c].part /\ Others(c)
      BY <2>1, <3>1, GotoShape
    <3> QED BY <2>1, <3>2, SameOwner
  <2> QED BY <2>2, <2>3
<1>28. CASE UNCHANGED vars
  BY <1>28, OwnersStay DEF vars
<1> QED BY <1>1, <1>2, <1>3, <1>4, <1>5, <1>6, <1>7, <1>8, <1>9, <1>10, <1>11,
  <1>12, <1>13, <1>14, <1>15, <1>16, <1>17, <1>18, <1>19, <1>20, <1>21, <1>22,
  <1>23, <1>24, <1>25, <1>26, <1>27, <1>28, <1>29, <1>30 DEF Next, Step, Moves

(* The import adjusts a part once: who adjusts it is the first to do so.   *)
LEMMA OnceKept ==
  ASSUME StockType, CallType, KindInv, OwnerInv, ImportAdjustsOnce,
         [Next]_vars
  PROVE  ImportAdjustsOnce'
<1> USE DEF run, movement, stock, history, ImportAdjustsOnce
<1>1. ASSUME NEW c \in Calls, adjust(c) PROVE ImportAdjustsOnce'
  <2>1. CASE call[c].kind = "apply"
    <3>1. call[c].part \in Parts /\ Owns(c, call[c].part) /\ call[c].step = "adjust"
      BY <1>1, <2>1 DEF adjust, At, KindInv, KindOf, Owns, Owning
    <3>2. adjustments[call[c].part] = 0
      BY <3>1 DEF OwnerInv
    <3> QED BY <1>1, <2>1, <3>1, <3>2 DEF adjust, StockType
  <2>2. CASE call[c].kind = "sync"
    BY <1>1, <2>2 DEF adjust
  <2> QED BY <1>1, <2>1, <2>2 DEF adjust, At, KindInv, KindOf
<1>2. CASE upload
  BY <1>2 DEF upload
<1>3. ASSUME NEW c \in Calls,
             \/ validate(c) \/ WAREHOUSE_SCOPE_REQUIRED(c) \/ ReadParts(c)
             \/ DeleteRows(c) \/ CreateRows(c) \/ WriteValidated(c)
             \/ apply(c) \/ waitForApplyTerminal(c) \/ Reclaim(c)
             \/ ReadReady(c) \/ Claim(c) \/ applyStockSnapshot(c)
             \/ withApplyLock(c) \/ compareStockBalances(c)
             \/ MappingIncomplete(c) \/ beginIdempotency(c)
             \/ commitIdempotency(c) \/ ReadBalances(c) \/ WritePart(c) \/ RowFails(c) \/ EndOfRows(c)
             \/ WriteResult(c) \/ WriteFailed(c) \/ Throw(c)
      PROVE  ImportAdjustsOnce'
  BY <1>3 DEF validate, WAREHOUSE_SCOPE_REQUIRED, ReadParts, DeleteRows,
    CreateRows, WriteValidated, apply, waitForApplyTerminal, Reclaim,
    ReadReady, Claim, applyStockSnapshot, withApplyLock, compareStockBalances,
    MappingIncomplete, beginIdempotency, commitIdempotency, ReadBalances, WritePart, RowFails,
    EndOfRows, WriteResult, WriteFailed, Throw
<1>4. ASSUME NEW c \in Calls, NEW p \in Parts,
             ReadPart(c, p)
      PROVE  ImportAdjustsOnce'
  BY <1>4 DEF ReadPart
<1>5. ASSUME NEW x \in Processes, ProcessDies(x) PROVE ImportAdjustsOnce'
  BY <1>5 DEF ProcessDies
<1>6. ASSUME NEW p \in Parts, Moves(p)
      PROVE  ImportAdjustsOnce'
  BY <1>6 DEF Moves, Move, MoveReadsBalances, MoveWritesPart
<1>7. CASE UNCHANGED vars
  BY <1>7 DEF vars
<1> QED BY <1>1, <1>2, <1>3, <1>4, <1>5, <1>6, <1>7 DEF Next, Step, Moves

(* What the import has adjusted stays adjusted.                            *)
LEMMA AdjustmentsStay ==
  ASSUME StockType, CallType, KindInv, [Next]_vars
  PROVE  \A p \in Parts : adjustments[p] # 0 => adjustments'[p] # 0
<1> USE DEF run, movement, stock, history
<1>1. ASSUME NEW c \in Calls, adjust(c)
      PROVE  \A p \in Parts : adjustments[p] # 0 => adjustments'[p] # 0
  <2>1. call[c].part \in Parts /\ \A p \in Parts : adjustments[p] \in Nat
    BY <1>1 DEF adjust, At, KindInv, KindOf, StockType
  <2>2. CASE call[c].kind = "sync"
    BY <1>1, <2>2 DEF adjust
  <2>3. CASE call[c].kind # "sync"
    <3>1. adjustments' = [adjustments EXCEPT ![call[c].part] = adjustments[call[c].part] + 1]
      BY <1>1, <2>3 DEF adjust
    <3> QED BY <2>1, <3>1 DEF StockType
  <2> QED BY <2>2, <2>3
<1>2. ASSUME UNCHANGED adjustments
      PROVE  \A p \in Parts : adjustments[p] # 0 => adjustments'[p] # 0
  BY <1>2
<1>3. CASE upload
  BY <1>2, <1>3 DEF upload
<1>4. ASSUME NEW c \in Calls,
             \/ validate(c) \/ WAREHOUSE_SCOPE_REQUIRED(c) \/ ReadParts(c)
             \/ DeleteRows(c) \/ CreateRows(c) \/ WriteValidated(c)
             \/ apply(c) \/ waitForApplyTerminal(c) \/ Reclaim(c)
             \/ ReadReady(c) \/ Claim(c) \/ applyStockSnapshot(c)
             \/ withApplyLock(c) \/ compareStockBalances(c)
             \/ MappingIncomplete(c) \/ beginIdempotency(c)
             \/ ReadBalances(c) \/ WritePart(c) \/ commitIdempotency(c)
             \/ RowFails(c) \/ EndOfRows(c) \/ WriteResult(c)
             \/ WriteFailed(c) \/ Throw(c)
      PROVE  UNCHANGED adjustments
  BY <1>4 DEF validate, WAREHOUSE_SCOPE_REQUIRED, ReadParts, DeleteRows,
    CreateRows, WriteValidated, apply, waitForApplyTerminal, Reclaim,
    ReadReady, Claim, applyStockSnapshot, withApplyLock, compareStockBalances,
    MappingIncomplete, beginIdempotency, ReadBalances, WritePart,
    commitIdempotency, RowFails, EndOfRows, WriteResult, WriteFailed, Throw
<1>5. ASSUME NEW c \in Calls, NEW p \in Parts, ReadPart(c, p)
      PROVE  UNCHANGED adjustments
  BY <1>5 DEF ReadPart
<1>6. ASSUME NEW x \in Processes, ProcessDies(x) PROVE UNCHANGED adjustments
  BY <1>6 DEF ProcessDies
<1>7. ASSUME NEW p \in Parts, Moves(p) PROVE UNCHANGED adjustments
  BY <1>7 DEF Moves, Move, MoveReadsBalances, MoveWritesPart
<1>8. CASE UNCHANGED vars
  BY <1>2, <1>8 DEF vars
<1> QED BY <1>1, <1>2, <1>3, <1>4, <1>5, <1>6, <1>7, <1>8 DEF Next, Step, Moves

(* The rows of a call that does not step are as much done as before.       *)
LEMMA DidStays ==
  ASSUME DidInv, \A p \in Parts : adjustments[p] # 0 => adjustments'[p] # 0,
         NEW c \in Calls, call'[c] = call[c]
  PROVE  DidRows(c)'
BY DEF DidInv, DidRows

(* So all are, when the call that steps has done its own.                  *)
LEMMA DidOthers ==
  ASSUME DidInv, \A p \in Parts : adjustments[p] # 0 => adjustments'[p] # 0,
         NEW c \in Calls, Others(c), DidRows(c)'
  PROVE  DidInv'
<1>1. ASSUME NEW d \in Calls \ {c} PROVE DidRows(d)'
  BY DidStays DEF Others
<1> QED BY <1>1 DEF DidInv

(* Or is not at work on any.                                               *)
LEMMA DidElse ==
  ASSUME DidInv, \A p \in Parts : adjustments[p] # 0 => adjustments'[p] # 0,
         NEW c \in Calls, Others(c),
         call'[c].kind = "apply" => call'[c].step \notin Working
  PROVE  DidInv'
<1>1. DidRows(c)'
  BY DEF DidRows
<1> QED BY <1>1, DidOthers

(* Or goes on with the same row.                                           *)
LEMMA DidGoesOn ==
  ASSUME DidInv, \A p \in Parts : adjustments[p] # 0 => adjustments'[p] # 0,
         NEW c \in Calls, Others(c), call[c].step \in Working \ {"finish"},
         call'[c].step \in Working \ {"finish"},
         call'[c].kind = call[c].kind, call'[c].read = call[c].read,
         call'[c].todo = call[c].todo, call'[c].skipped = call[c].skipped,
         ~ call'[c].failed => ~ call[c].failed,
         call[c].kind = "apply" /\ ~ call'[c].failed /\ call[c].step \in {"key", "adjust"} =>
           \/ call'[c].step \in {"key", "adjust"} /\ call'[c].part = call[c].part
           \/ call[c].part \in Parts /\ adjustments'[call[c].part] # 0
  PROVE  DidInv'
<1>1. ASSUME call'[c].kind = "apply", ~ call'[c].failed, NEW p \in Parts,
             call'[c].read[p] > 0
      PROVE  \/ p \in call'[c].skipped \/ adjustments'[p] # 0
             \/ p \in call'[c].todo /\ call'[c].step # "finish"
             \/ p = call'[c].part /\ call'[c].step \in {"key", "adjust"}
  <2>1. \/ p \in call[c].skipped \/ adjustments[p] # 0
        \/ p \in call[c].todo
        \/ p = call[c].part /\ call[c].step \in {"key", "adjust"}
    BY <1>1 DEF DidInv, DidRows
  <2> QED BY <1>1, <2>1 DEF Working
<1>2. DidRows(c)'
  BY <1>1 DEF DidRows
<1> QED BY <1>2, DidOthers

(* Every step keeps what the applications have done.                       *)
LEMMA DidKept ==
  ASSUME RowsType, StockType, KeyType, CallType, KindInv, OwnerInv, DidInv,
         [Next]_vars
  PROVE  DidInv'
<1> USE AdjustmentsStay DEF run, movement, stock, history
<1>1. CASE upload
  <2>1. UNCHANGED call
    BY <1>1 DEF upload
  <2>2. ASSUME NEW d \in Calls PROVE DidRows(d)'
    BY <2>1, DidStays
  <2> QED BY <2>2 DEF DidInv
<1>2. ASSUME NEW c \in Calls,
             \/ validate(c) \/ WAREHOUSE_SCOPE_REQUIRED(c) \/ ReadParts(c)
             \/ DeleteRows(c) \/ CreateRows(c) \/ WriteValidated(c)
      PROVE  DidInv'
  <2>1. Others(c) /\ call'[c].step \notin Working
    <3>1. CASE validate(c)
      BY <3>1, BeginShape DEF validate, Kinds, Steps, Working
    <3>2. CASE WAREHOUSE_SCOPE_REQUIRED(c) \/ WriteValidated(c)
      BY <3>2, EndShape, IdleType DEF WAREHOUSE_SCOPE_REQUIRED, WriteValidated, Working
    <3>3. CASE ReadParts(c)
      BY <3>3, ReadPartsShape DEF Working
    <3>4. CASE DeleteRows(c) \/ CreateRows(c)
      BY <3>4, GotoShape DEF DeleteRows, CreateRows, Steps, Working
    <3> QED BY <1>2, <3>1, <3>2, <3>3, <3>4
  <2> QED BY <2>1, DidElse
<1>3. ASSUME NEW c \in Calls,
             \/ apply(c) \/ waitForApplyTerminal(c) \/ Reclaim(c)
             \/ ReadReady(c) \/ Claim(c) \/ applyStockSnapshot(c)
             \/ withApplyLock(c) \/ MappingIncomplete(c)
      PROVE  DidInv'
  <2>1. Others(c) /\ call'[c].step \notin Working
    <3>1. CASE apply(c) \/ applyStockSnapshot(c)
      BY <3>1, BeginShape DEF apply, applyStockSnapshot, Kinds, Steps, Working
    <3>2. CASE waitForApplyTerminal(c) \/ Reclaim(c) \/ Claim(c)
      BY <3>2, GotoShape, EndShape, IdleType
      DEF waitForApplyTerminal, Reclaim, Claim, Steps, Working
    <3>3. CASE ReadReady(c)
      BY <3>3, ReadReadyShape, EndShape, IdleType DEF ReadReady, Working
    <3>4. CASE withApplyLock(c) \/ MappingIncomplete(c)
      BY <3>4, GotoShape, EndShape, IdleType
      DEF withApplyLock, MappingIncomplete, Steps, Working
    <3> QED BY <1>3, <3>1, <3>2, <3>3, <3>4
  <2> QED BY <2>1, DidElse
<1>4. ASSUME NEW c \in Calls, compareStockBalances(c) PROVE DidInv'
  <2>1. /\ Others(c) /\ call'[c].step = "row" /\ call'[c].kind = call[c].kind
        /\ call'[c].read = call[c].read
        /\ InSnapshot(c) \subseteq call'[c].todo \cup call'[c].skipped
    BY <1>4, CompareShape
  <2>2. ASSUME call'[c].kind = "apply", NEW p \in Parts, call'[c].read[p] > 0
        PROVE  p \in call'[c].todo \cup call'[c].skipped
    BY <2>1, <2>2 DEF InSnapshot
  <2>3. DidRows(c)'
    BY <2>1, <2>2 DEF DidRows
  <2> QED BY <2>1, <2>3, DidOthers
<1>5. ASSUME NEW c \in Calls, NEW p \in Parts, ReadPart(c, p) PROVE DidInv'
  <2>1. call[c].step = "row"
    BY <1>5 DEF ReadPart, At
  <2>2. /\ Others(c) /\ call'[c].kind = call[c].kind /\ call'[c].read = call[c].read
        /\ call'[c].failed = call[c].failed /\ call'[c].todo = call[c].todo \ {p}
        /\ call[c].skipped \subseteq call'[c].skipped
        /\ call'[c].kind = "apply" => call'[c].step \in {"row", "key"}
        /\ call'[c].kind = "apply" =>
             p \in call'[c].skipped \/ (call'[c].step = "key" /\ call'[c].part = p)
    BY <1>5, ReadPartShape
  <2>3. ASSUME call'[c].kind = "apply", ~ call'[c].failed, NEW q \in Parts,
               call'[c].read[q] > 0
        PROVE  \/ q \in call'[c].skipped \/ adjustments'[q] # 0
               \/ q \in call'[c].todo /\ call'[c].step # "finish"
               \/ q = call'[c].part /\ call'[c].step \in {"key", "adjust"}
    <3>1. q \in call[c].skipped \/ adjustments[q] # 0 \/ q \in call[c].todo
      BY <2>1, <2>2, <2>3 DEF DidInv, DidRows, Working
    <3> QED BY <2>2, <2>3, <3>1
  <2>4. DidRows(c)'
    BY <2>3 DEF DidRows
  <2> QED BY <2>2, <2>4, DidOthers
<1>6. ASSUME NEW c \in Calls, beginIdempotency(c) PROVE DidInv'
  <2>1. /\ call[c].step = "key" /\ call[c].part \in Parts
        /\ call[c].step \in Working \ {"finish"}
    BY <1>6 DEF beginIdempotency, At, KindInv, KindOf, Working
  <2>2. CASE Goto(c, "adjust")
    <3>1. /\ Others(c) /\ call'[c].step = "adjust" /\ call'[c].kind = call[c].kind
          /\ call'[c].read = call[c].read /\ call'[c].todo = call[c].todo
          /\ call'[c].part = call[c].part /\ call'[c].skipped = call[c].skipped
          /\ call'[c].failed = call[c].failed
      BY <2>2, GotoShape DEF Steps
    <3> QED BY <2>1, <3>1, DidGoesOn DEF Working
  <2>3. CASE /\ key[call[c].part].done
             /\ NextRow(c, key[call[c].part].quantity # call[c].quantity)
    <3>1. (key[call[c].part].quantity # call[c].quantity) \in BOOLEAN
      OBVIOUS
    <3>2. /\ Others(c) /\ call'[c].step = "row" /\ call'[c].kind = call[c].kind
          /\ call'[c].read = call[c].read /\ call'[c].todo = call[c].todo
          /\ call'[c].skipped = call[c].skipped
          /\ ~ call'[c].failed => ~ call[c].failed
      BY <2>3, <3>1, NextRowShape
    <3>3. adjustments'[call[c].part] # 0
      BY <2>1, <2>3 DEF OwnerInv
    <3> QED BY <2>1, <3>2, <3>3, DidGoesOn DEF Working
  <2> QED BY <1>6, <2>2, <2>3 DEF beginIdempotency
<1>7. ASSUME NEW c \in Calls, adjust(c) PROVE DidInv'
  <2>1. /\ call[c].step = "adjust" /\ call[c].part \in Parts
        /\ call[c].kind \in {"apply", "sync"}
    BY <1>7 DEF adjust, At, KindInv, KindOf
  <2>2. /\ Others(c) /\ call'[c].step = "sum" /\ call'[c].kind = call[c].kind
        /\ call'[c].read = call[c].read /\ call'[c].todo = call[c].todo
        /\ call'[c].skipped = call[c].skipped /\ call'[c].failed = call[c].failed
    BY <1>7, GotoShape DEF adjust, Steps
  <2>3. call[c].kind = "apply" => adjustments'[call[c].part] # 0
    <3>1. adjustments[call[c].part] \in Nat
      BY <2>1 DEF StockType
    <3> QED BY <1>7, <2>1, <3>1 DEF adjust, StockType
  <2> QED BY <2>1, <2>2, <2>3, DidGoesOn DEF Working
<1>8. ASSUME NEW c \in Calls, ReadBalances(c) PROVE DidInv'
  <2>1. call[c].step = "sum"
    BY <1>8 DEF ReadBalances, At
  <2> QED BY <1>8, <2>1, ReadBalancesShape, DidGoesOn DEF Working
<1>9. ASSUME NEW c \in Calls, WritePart(c) PROVE DidInv'
  <2>1. call[c].step = "total" /\ "commit" \in Steps
    BY <1>9 DEF WritePart, At, Steps
  <2>2. CASE Goto(c, "commit")
    BY <2>1, <2>2, GotoShape, DidGoesOn DEF Working
  <2>3. CASE NextRow(c, FALSE)
    BY <2>1, <2>3, NextRowShape, DidGoesOn DEF Working
  <2> QED BY <1>9, <2>2, <2>3 DEF WritePart
<1>10. ASSUME NEW c \in Calls, commitIdempotency(c) PROVE DidInv'
  <2>1. call[c].step = "commit" /\ NextRow(c, FALSE)
    BY <1>10 DEF commitIdempotency, At
  <2> QED BY <2>1, NextRowShape, DidGoesOn DEF Working
<1>11. ASSUME NEW c \in Calls, RowFails(c) PROVE DidInv'
  <2>1. Others(c) /\ DidRows(c)'
    BY <1>11, RowFailsShape DEF DidRows
  <2> QED BY <2>1, DidOthers
<1>12. ASSUME NEW c \in Calls, EndOfRows(c) PROVE DidInv'
  <2>1. call[c].step = "row" /\ call[c].todo = {} /\ "finish" \in Steps
    BY <1>12 DEF EndOfRows, At, Steps
  <2>2. CASE End(c)
    BY <2>2, EndShape, IdleType, DidElse DEF Working
  <2>3. CASE Goto(c, "finish")
    <3>1. /\ Others(c) /\ call'[c].step = "finish" /\ call'[c].kind = call[c].kind
          /\ call'[c].read = call[c].read /\ call'[c].skipped = call[c].skipped
          /\ call'[c].failed = call[c].failed
      BY <2>1, <2>3, GotoShape
    <3>2. ASSUME call'[c].kind = "apply", ~ call'[c].failed, NEW q \in Parts,
                 call'[c].read[q] > 0
          PROVE  q \in call'[c].skipped \/ adjustments'[q] # 0
      <4>1. q \in call[c].skipped \/ adjustments[q] # 0
        BY <2>1, <3>1, <3>2 DEF DidInv, DidRows, Working
      <4> QED BY <3>1, <4>1
    <3>3. DidRows(c)'
      BY <3>2 DEF DidRows
    <3> QED BY <3>1, <3>3, DidOthers
  <2> QED BY <1>12, <2>2, <2>3 DEF EndOfRows
<1>13. ASSUME NEW c \in Calls, WriteResult(c) \/ WriteFailed(c) \/ Throw(c) PROVE DidInv'
  <2>1. Others(c) /\ call'[c].step \notin Working
    BY <1>13, EndShape, IdleType DEF WriteResult, WriteFailed, Throw, Working
  <2> QED BY <2>1, DidElse
<1>14. ASSUME NEW x \in Processes, ProcessDies(x) PROVE DidInv'
  <2>1. ASSUME NEW d \in Calls PROVE DidRows(d)'
    <3>1. CASE call'[d] = Ended
      BY <3>1, IdleType DEF DidRows
    <3>2. CASE call'[d] = call[d]
      BY <3>2, DidStays
    <3> QED BY <1>14, <3>1, <3>2, DiesShape
  <2> QED BY <2>1 DEF DidInv
<1>15. ASSUME NEW p \in Parts, Moves(p) PROVE DidInv'
  <2>1. UNCHANGED call
    BY <1>15 DEF Moves, Move, MoveReadsBalances, MoveWritesPart
  <2>2. ASSUME NEW d \in Calls PROVE DidRows(d)'
    BY <2>1, DidStays
  <2> QED BY <2>2 DEF DidInv
<1>16. CASE UNCHANGED vars
  <2>1. ASSUME NEW d \in Calls PROVE DidRows(d)'
    BY <1>16, DidStays DEF vars
  <2> QED BY <2>1 DEF DidInv
<1> QED BY <1>1, <1>2, <1>3, <1>4, <1>5, <1>6, <1>7, <1>8, <1>9, <1>10, <1>11,
  <1>12, <1>13, <1>14, <1>15, <1>16 DEF Next, Step, Moves

(* A result stays as true as it was.                                       *)
LEMMA CompletedStays ==
  ASSUME StockType, CallType, KindInv, CompletedDidItsRows, [Next]_vars,
         RunType', StockType', ImportAdjustsOnce',
         status' = "COMPLETED" => status = "COMPLETED" /\ UNCHANGED result
  PROVE  CompletedDidItsRows'
<1>1. ASSUME status' = "COMPLETED", NEW p \in result'.rows \ result'.skipped
      PROVE  adjustments'[p] = 1
  <2>1. adjustments[p] = 1
    BY <1>1 DEF CompletedDidItsRows
  <2>2. p \in Parts
    BY DEF RunType
  <2>3. adjustments'[p] # 0
    BY <2>1, <2>2, AdjustmentsStay
  <2> QED BY <2>2, <2>3 DEF StockType, ImportAdjustsOnce
<1> QED BY <1>1 DEF CompletedDidItsRows

(* A result is stored when it is true, and stays true.                     *)
LEMMA CompletedKept ==
  ASSUME RunType, StockType, CallType, KindInv, DidInv, CompletedDidItsRows,
         [Next]_vars, RunType', StockType', ImportAdjustsOnce'
  PROVE  CompletedDidItsRows'
<1> USE DEF run, movement, stock, history
<1>1. ASSUME status' = "COMPLETED" => status = "COMPLETED" /\ UNCHANGED result
      PROVE  CompletedDidItsRows'
  BY <1>1, CompletedStays
<1>2. ASSUME NEW c \in Calls, WriteResult(c) PROVE CompletedDidItsRows'
  <2>1. call[c].kind = "apply" /\ call[c].step = "finish"
    BY <1>2 DEF WriteResult, At, KindInv, KindOf
  <2>2. UNCHANGED adjustments /\ result' = Result(c)
    BY <1>2 DEF WriteResult
  <2>3. ASSUME status' = "COMPLETED", NEW p \in result'.rows \ result'.skipped
        PROVE  adjustments'[p] = 1
    <3>1. ~ call[c].failed
      BY <1>2, <2>3 DEF WriteResult
    <3>2. p \in Parts /\ call[c].read[p] > 0 /\ p \notin call[c].skipped
      BY <2>2, <2>3 DEF Result
    <3>3. adjustments[p] # 0
      BY <2>1, <3>1, <3>2 DEF DidInv, DidRows, Working
    <3> QED BY <2>2, <3>2, <3>3 DEF StockType, ImportAdjustsOnce
  <2> QED BY <2>3 DEF CompletedDidItsRows
<1>3. ASSUME NEW c \in Calls,
             \/ WAREHOUSE_SCOPE_REQUIRED(c) \/ WriteValidated(c) \/ Reclaim(c)
             \/ Claim(c) \/ WriteFailed(c)
      PROVE  status' = "COMPLETED" => status = "COMPLETED" /\ UNCHANGED result
  BY <1>3 DEF WAREHOUSE_SCOPE_REQUIRED, WriteValidated, Reclaim, Claim, WriteFailed
<1>4. CASE upload
  BY <1>1, <1>4 DEF upload
<1>5. ASSUME NEW c \in Calls,
             \/ validate(c) \/ ReadParts(c) \/ DeleteRows(c) \/ CreateRows(c)
             \/ apply(c) \/ waitForApplyTerminal(c) \/ ReadReady(c)
             \/ applyStockSnapshot(c) \/ withApplyLock(c)
             \/ compareStockBalances(c) \/ MappingIncomplete(c)
             \/ beginIdempotency(c) \/ adjust(c) \/ ReadBalances(c)
             \/ WritePart(c) \/ commitIdempotency(c) \/ RowFails(c)
             \/ EndOfRows(c) \/ Throw(c)
      PROVE  UNCHANGED <<status, result>>
  BY <1>5 DEF validate, ReadParts, DeleteRows, CreateRows, apply,
    waitForApplyTerminal, ReadReady, applyStockSnapshot, withApplyLock,
    compareStockBalances, MappingIncomplete, beginIdempotency, adjust,
    ReadBalances, WritePart, commitIdempotency, RowFails, EndOfRows, Throw
<1>6. ASSUME NEW c \in Calls, NEW p \in Parts, ReadPart(c, p)
      PROVE  UNCHANGED <<status, result>>
  BY <1>6 DEF ReadPart
<1>7. ASSUME NEW x \in Processes, ProcessDies(x) PROVE UNCHANGED <<status, result>>
  BY <1>7 DEF ProcessDies
<1>8. ASSUME NEW p \in Parts, Moves(p) PROVE UNCHANGED <<status, result>>
  BY <1>8 DEF Moves, Move, MoveReadsBalances, MoveWritesPart
<1>9. CASE UNCHANGED vars
  BY <1>1, <1>9 DEF vars
<1> QED BY <1>1, <1>2, <1>3, <1>4, <1>5, <1>6, <1>7, <1>8, <1>9 DEF Next,
  Step, Moves

----------------------------------------------------------------------------
(* Initially everything holds.                                             *)
LEMMA InitIInv ==
  ASSUME Init
  PROVE  IInv
<1> USE DEF Init
<1>1. Types
  <2>1. RunType
    BY DEF RunType, Status, Applied
  <2>2. RowsType /\ StockType
    BY StockAssumption DEF RowsType, StockType
  <2>3. KeyType
    BY DEF KeyType, Free
  <2>4. LockType
    BY DEF LockType
  <2>5. CallType
    BY IdleType DEF CallType
  <2> QED BY <2>1, <2>2, <2>3, <2>4, <2>5 DEF Types
<1>2. KindInv
  BY IdleType DEF KindInv, KindOf
<1>3. RowsInv
  <2>1. HaveMade = {}
    BY IdleType DEF HaveMade
  <2>2. Cardinality(HaveMade) = 0
    BY <2>1, FS_EmptySet
  <2> QED BY <2>2 DEF RowsInv
<1>4. OnceInv
  <2>1. \A c \in Calls : call[c].step = "idle"
    BY IdleType
  <2> QED BY <2>1 DEF OnceInv, OwnerInv, Owns, Owning, Free, ImportAdjustsOnce
<1>5. DidInv /\ CompletedDidItsRows
  BY IdleType DEF DidInv, DidRows, CompletedDidItsRows
<1> QED BY <1>1, <1>2, <1>3, <1>4, <1>5 DEF IInv

(* Every step keeps everything.                                            *)
LEMMA NextIInv ==
  ASSUME IInv, [Next]_vars
  PROVE  IInv'
<1> USE DEF IInv, Types, OnceInv
<1>1. RunType' /\ RowsType' /\ StockType' /\ KeyType' /\ LockType' /\ CallType'
  BY RunTypes, RowsTypes, StockTypes, KeyTypes, LockTypes, CallTypes
<1>2. KindInv' /\ RowsInv'
  BY KindsKept, RowsKept
<1>3. OwnerInv' /\ ImportAdjustsOnce'
  BY OwnersKept, OnceKept
<1>4. DidInv'
  BY DidKept
<1>5. CompletedDidItsRows'
  BY <1>1, <1>3, CompletedKept
<1> QED BY <1>1, <1>2, <1>3, <1>4, <1>5

LEMMA Invariance == Spec => []IInv
<1>1. Init => IInv
  BY InitIInv
<1>2. IInv /\ [Next]_vars => IInv'
  BY NextIInv
<1> QED BY <1>1, <1>2, PTL DEF Spec

----------------------------------------------------------------------------
(* Every variable of the import has its type, whatever interleaving,       *)
(* failure or crash: no adjustment of erp-stock-sync.service.ts takes a    *)
(* balance below nothing, although it is computed from an older reading of *)
(* the total of the part, and validations never make more rows of a part   *)
(* than there were calls.                                                  *)
THEOREM TypeCorrect == Spec => []TypeOK
<1>1. IInv => TypeOK
  <2> SUFFICES ASSUME IInv PROVE TypeOK
    OBVIOUS
  <2>1. RunType /\ RowsType /\ StockType /\ KeyType /\ LockType /\ CallType /\ RowsInv
    BY DEF IInv, Types
  <2>2. rows \in [Parts -> 0 .. Cardinality(Calls)]
    <3>1. HaveMade \subseteq Calls
      BY DEF HaveMade
    <3>2. /\ Cardinality(Calls) \in Nat /\ Cardinality(HaveMade) \in Nat
          /\ Cardinality(HaveMade) <= Cardinality(Calls)
      BY <3>1, CallAssumption, FS_Subset, FS_CardinalityType
    <3>3. ASSUME NEW p \in Parts PROVE rows[p] \in 0 .. Cardinality(Calls)
      BY <2>1, <3>2 DEF RowsType, RowsInv
    <3> QED BY <2>1, <3>3 DEF RowsType
  <2>3. \A c \in Calls : /\ call[c].step \in Steps
                         /\ call[c].todo \subseteq Parts /\ call[c].skipped \subseteq Parts
    BY <2>1 DEF CallType, Call
  <2> QED BY <2>1, <2>2, <2>3 DEF TypeOK, RunType, StockType, KeyType, LockType
<1> QED BY <1>1, Invariance, PTL

(* However often an import is applied, taken over, or validated again, by  *)
(* however many calls on however many processes, it adjusts each part at   *)
(* most once: the key of the adjustment in erp-stock-sync.service.ts names *)
(* the import and the part, and who claims it is the only one to adjust.   *)
THEOREM AdjustsOnce == Spec => []ImportAdjustsOnce
<1>1. IInv => ImportAdjustsOnce
  BY DEF IInv, OnceInv
<1> QED BY <1>1, Invariance, PTL

(* An import that apply of erp-excel-import.service.ts has marked COMPLETED *)
(* has adjusted every row its result came from, exactly once however often *)
(* it was applied, except the rows the application found nothing to adjust *)
(* in: no failed row and no key that another application holds is passed   *)
(* over.                                                                   *)
THEOREM CompletedRowsAreDone == Spec => []CompletedDidItsRows
<1>1. IInv => CompletedDidItsRows
  BY DEF IInv
<1> QED BY <1>1, Invariance, PTL
=============================================================================
