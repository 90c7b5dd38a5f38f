------------------------- MODULE PartRequestProofs -------------------------
(***************************************************************************)
(* PartRequest for every set of calls, every quantity and every number of  *)
(* warehouses, unless a theorem asks for one.                              *)
(***************************************************************************)
EXTENDS PartRequest, FiniteSetTheorems, TLAPS

----------------------------------------------------------------------------
(* The inductive invariants.                                               *)

\* A confirmation on its way to the line is covered by the line it has read.
ConfirmInv ==
  \A c \in Calls : pc[c] = "write" /\ call[c].op = "confirmReturn" =>
                     call[c].qty <= seenLine[c].pending

\* Who is past the check of the stock holds the row it has checked.
LockInv ==
  \A c \in Calls : pc[c] \in {"fresh", "commit"} =>
                     lock[wh[c]] = c /\ call[c].qty <= stock[wh[c]]

\* Every returned quantity a line has shown is the units restocked, or names
\* an event.
SpentInv ==
  /\ StaleReturnIsSpent
  /\ \A c \in Calls : \/ seenLine[c].returned = restocked
                      \/ seenLine[c].returned \in returnEvents

IInv == TypeOK /\ ConfirmInv /\ LockInv /\ NeverOverIssued /\ SpentInv

\* With one warehouse the row lock makes the second read of the request final.
IssueInv ==
  /\ approved <= Requested
  /\ \A c \in Calls : pc[c] = "line" => call[c].op = "create"
  /\ \A c \in Calls : pc[c] = "approve" => call[c].qty <= Requested
  /\ \A c \in Calls : pc[c] = "commit" =>
       seenIssued[c] = issued /\ issued + call[c].qty <= Requested
  /\ IssuedWithinRequested

(* What is on the line, and what was handed out.                           *)
Syncing == {c \in Calls : pc[c] \in {"syncRead", "syncWrite"}}
UnitsOf(c) == {c} \X (1 .. call[c].qty)

\* The units that were handed out and are still to be written to the line.
Owed == UNION {UnitsOf(c) : c \in Syncing}

\* A line, also one that was read a while ago, leaves room for all of them; a
\* confirmation has read a line that accounts for what it was issued.
AheadInv ==
  /\ IsFiniteSet(Owed)
  /\ line.issued + Cardinality(Owed) <= handedOut
  /\ \A c \in Calls :
       /\ pc[c] = "syncWrite" => seenLine[c].issued + Cardinality(Owed) <= handedOut
       /\ pc[c] = "write" => seenLine[c].issued <= handedOut
       /\ pc[c] = "write" /\ call[c].op = "confirmReturn" =>
            Consumed(seenLine[c]) <= seenLine[c].issued

----------------------------------------------------------------------------
(* The fields of a call.                                                   *)
LEMMA CallFields ==
  ASSUME TypeOK, NEW c \in Calls
  PROVE  /\ call[c].op \in Ops /\ call[c].qty \in Nat \ {0}
         /\ call[c].wh \in Warehouses /\ call[c].good \in BOOLEAN
         /\ call[c].op = "create" => call[c].qty = Requested
BY PartRequestAssumption DEF TypeOK, InputType

LEMMA UnlockedType ==
  ASSUME TypeOK, NEW c \in Calls
  PROVE  Unlocked(c) \in [Warehouses -> Calls \cup {NoCall}]
BY DEF TypeOK, Unlocked

LEMMA LineType == NewLine \in Line
BY DEF NewLine, Line

(* Lines after a return is requested, and after it is confirmed.           *)
LEMMA LineRequested ==
  ASSUME NEW l \in Line, NEW p \in Nat, NEW g \in BOOLEAN
  PROVE  [l EXCEPT !.pending = p, !.good = g] \in Line
BY Zenon DEF Line

LEMMA LineConfirmed ==
  ASSUME NEW l \in Line, NEW p \in Nat, NEW r \in Nat, NEW d \in Nat
  PROVE  [l EXCEPT !.pending = p, !.returned = r, !.damaged = d] \in Line
BY DEF Line

(* A step keeps the types and what a confirmation has read.                *)
LEMMA TypesKept ==
  ASSUME TypeOK, ConfirmInv, NEW c \in Calls, Step(c) \/ Die(c)
  PROVE  TypeOK' /\ ConfirmInv'
<1> USE DEF TypeOK, ConfirmInv, GoTo, Stages, Over, seenVars, requestVars,
        lineVars, stockVars, history
<1>c. /\ call[c].op \in Ops /\ call[c].qty \in Nat \ {0}
      /\ call[c].wh \in Warehouses /\ call[c].good \in BOOLEAN
  BY CallFields
<1>1. CASE CreateRequest(c) BY <1>1 DEF CreateRequest, Statuses
<1>2. CASE CreateLine(c) BY <1>2 DEF CreateLine
<1>3. CASE ReadRequest(c)
  <2>1. ApprovedQuantity \in Nat BY PartRequestAssumption DEF ApprovedQuantity
  <2>2. AfterRead(call[c].op) \in {"approve", "issueLine", "withdraw"} BY DEF AfterRead
  <2> QED BY <1>3, <2>1, <2>2 DEF ReadRequest
<1>4. CASE Approve(c) BY <1>4, <1>c DEF Approve, Statuses
<1>5. CASE Reserve(c) BY <1>5, <1>c, SMTT(30) DEF Reserve, Line
<1>6. CASE Withdraw(c) BY <1>6 DEF Withdraw, Statuses, WithdrawnStatuses
<1>7. CASE Release(c) BY <1>7 DEF Release, DropReservation, Line
<1>8. CASE CloseLine(c) BY <1>8, SMTT(30) DEF CloseLine, Line
<1>9. CASE ReadReservation(c) BY <1>9 DEF ReadReservation
<1>10. CASE ChooseWarehouse(c) BY <1>10 DEF ChooseWarehouse
<1>11. CASE LockBalance(c) BY <1>11 DEF LockBalance
<1>12. CASE ReadFresh(c) BY <1>12, UnlockedType DEF ReadFresh
<1>13. CASE CommitIssue(c)
  <2>1. line' \in Line BY <1>13, <1>c, SMTT(30) DEF CommitIssue, Line
  <2>2. stock' \in [Warehouses -> Int] BY <1>13, <1>c DEF CommitIssue
  <2>3. /\ issued' \in Nat /\ handedOut' \in Nat /\ status' \in Statuses
        /\ lastFrom' \in Warehouses
    BY <1>13, <1>c DEF CommitIssue, Statuses, IssuedStatuses
  <2> QED BY <1>13, <2>1, <2>2, <2>3, UnlockedType DEF CommitIssue
<1>14. CASE ReadIssuedLine(c) BY <1>14 DEF ReadIssuedLine
<1>15. CASE WriteIssuedLine(c) BY <1>15, <1>c, SMTT(30) DEF WriteIssuedLine, Line
<1>16. CASE ReadLine(c) BY <1>16 DEF ReadLine, LineAllows, MayConfirm
<1>17. CASE markUsed(c) BY <1>17, <1>c, SMTT(30) DEF markUsed, Line
<1>18. CASE requestReturn(c)
  <2>1. seenLine[c].pending + call[c].qty \in Nat BY <1>c DEF Line
  <2>2. line' \in Line BY <1>18, <1>c, <2>1, LineRequested DEF requestReturn
  <2>3. goodIn' \in Nat BY <1>18, <1>c DEF requestReturn
  <2> QED BY <1>18, <2>2, <2>3 DEF requestReturn
<1>19. CASE confirmReturn(c)
  <2>1. line' \in Line
    <3> DEFINE p == seenLine[c].pending - call[c].qty
               r == seenLine[c].returned + (IF seenLine[c].good THEN call[c].qty ELSE 0)
               d == seenLine[c].damaged + (IF seenLine[c].good THEN 0 ELSE call[c].qty)
    <3>1. p \in Nat /\ r \in Nat /\ d \in Nat
      BY <1>19, <1>c DEF confirmReturn, Line
    <3>2. line' = line \/ line' = [line EXCEPT !.pending = p, !.returned = r, !.damaged = d]
      BY <1>19, Zenon DEF confirmReturn
    <3> HIDE DEF p, r, d
    <3>3. line \in Line OBVIOUS
    <3>4. [line EXCEPT !.pending = p, !.returned = r, !.damaged = d] \in Line
      BY <3>1, <3>3, LineConfirmed, Zenon
    <3> QED BY <3>2, <3>3, <3>4, Zenon
  <2>2. /\ stock' \in [Warehouses -> Int] /\ returnEvents' \subseteq Nat
        /\ restocked' \in Nat
    BY <1>19, <1>c DEF confirmReturn, Line
  <2> QED BY <1>19, <2>1, <2>2 DEF confirmReturn
<1>20. CASE closeWorkOrder(c) \/ remove(c) BY <1>20 DEF closeWorkOrder, remove
<1>21. CASE ExitJob(c) BY <1>21 DEF ExitJob
<1>22. CASE ReleaseJob(c) BY <1>22 DEF ReleaseJob, DropReservation, Line
<1>23. CASE Receive(c) BY <1>23, <1>c DEF Receive
<1>24. CASE StockOut(c) BY <1>24, <1>c DEF StockOut
<1>25. CASE Die(c) BY <1>25, UnlockedType DEF Die
<1> QED
  BY <1>1, <1>2, <1>3, <1>4, <1>5, <1>6, <1>7, <1>8, <1>9, <1>10, <1>11, <1>12,
     <1>13, <1>14, <1>15, <1>16, <1>17, <1>18, <1>19, <1>20, <1>21, <1>22, <1>23,
     <1>24, <1>25
  DEF Step

(* The steps that touch neither stock nor locks, and go to no stage of the *)
(* transaction of an issue.                                                *)
Outside(c) ==
  \/ CreateRequest(c) \/ CreateLine(c) \/ ReadRequest(c) \/ Approve(c)
  \/ Reserve(c) \/ Withdraw(c) \/ Release(c) \/ CloseLine(c)
  \/ ReadReservation(c) \/ ChooseWarehouse(c) \/ ReadIssuedLine(c)
  \/ WriteIssuedLine(c) \/ ReadLine(c) \/ markUsed(c) \/ requestReturn(c)
  \/ closeWorkOrder(c) \/ remove(c) \/ ExitJob(c) \/ ReleaseJob(c)

LEMMA OutsideSteps ==
  ASSUME TypeOK, NEW c \in Calls, Outside(c)
  PROVE  /\ UNCHANGED <<call, stock, lock, issued, handedOut, restocked,
                        returnEvents, seenIssued>>
         /\ pc'[c] \notin {"fresh", "commit"}
         /\ \A d \in Calls : d # c => pc'[d] = pc[d] /\ wh'[d] = wh[d]
<1> USE DEF TypeOK, GoTo, Over, seenVars, requestVars, lineVars, stockVars, history
<1>1. CASE CreateRequest(c) \/ CreateLine(c) \/ Approve(c)
  BY <1>1 DEF CreateRequest, CreateLine, Approve
<1>2. CASE ReadRequest(c)
  BY <1>2 DEF ReadRequest, AfterRead
<1>3. CASE Reserve(c) \/ Withdraw(c) \/ Release(c) \/ CloseLine(c)
  BY <1>3 DEF Reserve, Withdraw, Release, CloseLine
<1>4. CASE ReadReservation(c) \/ ChooseWarehouse(c) \/ ReadIssuedLine(c)
  BY <1>4 DEF ReadReservation, ChooseWarehouse, ReadIssuedLine
<1>5. CASE ReadLine(c)
  BY <1>5 DEF ReadLine
<1>6. CASE WriteIssuedLine(c) \/ markUsed(c) \/ requestReturn(c)
  BY <1>6 DEF WriteIssuedLine, markUsed, requestReturn
<1>7. CASE closeWorkOrder(c) \/ remove(c) \/ ExitJob(c) \/ ReleaseJob(c)
  BY <1>7 DEF closeWorkOrder, remove, ExitJob, ReleaseJob
<1> QED BY <1>1, <1>2, <1>3, <1>4, <1>5, <1>6, <1>7 DEF Outside

(* The check under the row lock holds until the issue commits.             *)
LEMMA LockKept ==
  ASSUME TypeOK, LockInv, NeverOverIssued, NEW c \in Calls, Step(c) \/ Die(c)
  PROVE  LockInv' /\ NeverOverIssued'
<1> USE DEF TypeOK, LockInv, NeverOverIssued, GoTo, Over, seenVars, requestVars,
        lineVars, stockVars, history
<1>c. call[c].qty \in Nat \ {0} /\ call[c].wh \in Warehouses BY CallFields
<1>d. \A d \in Calls : call[d].qty \in Nat BY CallFields
<1>n. NoCall \notin Calls BY PartRequestAssumption
<1>1. CASE Outside(c)
  BY <1>1, OutsideSteps
<1>2. CASE LockBalance(c)
  BY <1>2, <1>n DEF LockBalance
<1>3. CASE ReadFresh(c)
  BY <1>3, <1>n DEF ReadFresh, Unlocked
<1>4. CASE CommitIssue(c)
  <2>1. lock[wh[c]] = c /\ call[c].qty <= stock[wh[c]] BY <1>4 DEF CommitIssue
  <2>2. NeverOverIssued' BY <1>4, <1>c, <2>1 DEF CommitIssue
  <2>3. LockInv'
    <3> SUFFICES ASSUME NEW d \in Calls, pc'[d] \in {"fresh", "commit"}
                 PROVE  lock'[wh'[d]] = d /\ call'[d].qty <= stock'[wh'[d]]
      OBVIOUS
    <3>1. d # c /\ pc'[d] = pc[d] /\ wh' = wh /\ call' = call BY <1>4 DEF CommitIssue
    <3>2. wh[d] # wh[c] /\ lock[wh[d]] = d BY <2>1, <3>1
    <3>3. stock'[wh[d]] = stock[wh[d]] /\ lock'[wh[d]] = d
      BY <1>4, <3>1, <3>2 DEF CommitIssue, Unlocked
    <3> QED BY <3>1, <3>3
  <2> QED BY <2>2, <2>3
<1>5. CASE confirmReturn(c)
  BY <1>5, <1>c, <1>d DEF confirmReturn
<1>6. CASE Receive(c)
  BY <1>6, <1>c, <1>d DEF Receive
<1>7. CASE StockOut(c)
  BY <1>7, <1>c, <1>d, <1>n DEF StockOut
<1>8. CASE Die(c)
  BY <1>8, <1>n DEF Die, Unlocked
<1> QED BY <1>1, <1>2, <1>3, <1>4, <1>5, <1>6, <1>7, <1>8 DEF Step, Outside

(* A line written back late shows a returned quantity that is spent.       *)
LEMMA SpentKept ==
  ASSUME TypeOK, SpentInv, NEW c \in Calls, Step(c) \/ Die(c)
  PROVE  SpentInv'
<1> USE DEF TypeOK, SpentInv, StaleReturnIsSpent, GoTo, Over, seenVars, requestVars,
        lineVars, stockVars, history
<1>c. call[c].qty \in Nat \ {0} BY CallFields
<1>1. CASE Reserve(c) \/ Release(c) \/ CloseLine(c) \/ ReleaseJob(c)
  <2>1. line'.returned = line.returned
    BY <1>1 DEF Reserve, Release, CloseLine, ReleaseJob, DropReservation, Line
  <2>2. UNCHANGED <<seenLine, restocked, returnEvents>>
    BY <1>1 DEF Reserve, Release, CloseLine, ReleaseJob
  <2> QED BY <2>1, <2>2
<1>2. CASE CommitIssue(c)
  <2>1. line'.returned = line.returned BY <1>2 DEF CommitIssue, Line
  <2>2. UNCHANGED <<seenLine, restocked, returnEvents>> BY <1>2 DEF CommitIssue
  <2> QED BY <2>1, <2>2
<1>3. CASE WriteIssuedLine(c) \/ markUsed(c) \/ requestReturn(c)
  <2>1. line'.returned = line.returned
    BY <1>3 DEF WriteIssuedLine, markUsed, requestReturn, Line
  <2>2. UNCHANGED <<seenLine, restocked, returnEvents>>
    BY <1>3 DEF WriteIssuedLine, markUsed, requestReturn
  <2> QED BY <2>1, <2>2
<1>4. CASE ReadIssuedLine(c) \/ ReadLine(c)
  BY <1>4 DEF ReadIssuedLine, ReadLine
<1>5. CASE confirmReturn(c)
  <2>1. CASE UNCHANGED <<line, returnEvents, restocked>>
    BY <1>5, <2>1 DEF confirmReturn
  <2>2. CASE seenLine[c].good /\ ~EventTaken(c)
    <3>1. /\ seenLine' = seenLine
          /\ returnEvents' = returnEvents \cup {seenLine[c].returned}
          /\ restocked' = restocked + call[c].qty
      BY <1>5, <2>2, Zenon DEF confirmReturn
    <3>2. seenLine[c].returned = restocked BY <2>2 DEF EventTaken
    <3>3. line'.returned = seenLine[c].returned + call[c].qty
      BY <1>5, <2>2 DEF confirmReturn, Line
    <3> QED BY <3>1, <3>2, <3>3
  <2>3. CASE ~seenLine[c].good
    <3>1. UNCHANGED <<seenLine, returnEvents, restocked>>
      BY <1>5, <2>3, Zenon DEF confirmReturn
    <3>2. line'.returned = seenLine[c].returned + 0
      BY <1>5, <2>3 DEF confirmReturn, Line
    <3>3. seenLine[c].returned \in Nat BY DEF Line
    <3> QED BY <3>1, <3>2, <3>3
  <2> QED BY <1>5, <2>1, <2>2, <2>3, Zenon DEF confirmReturn
<1>6. CASE \/ CreateRequest(c) \/ CreateLine(c) \/ ReadRequest(c) \/ Approve(c)
           \/ Withdraw(c) \/ ReadReservation(c) \/ ChooseWarehouse(c)
           \/ LockBalance(c) \/ ReadFresh(c) \/ closeWorkOrder(c) \/ remove(c)
           \/ ExitJob(c) \/ Receive(c) \/ StockOut(c) \/ Die(c)
  <2>1. UNCHANGED <<line, seenLine, returnEvents, restocked>>
    BY <1>6 DEF CreateRequest, CreateLine, ReadRequest, Approve, Withdraw,
      ReadReservation, ChooseWarehouse, LockBalance, ReadFresh, closeWorkOrder,
      remove, ExitJob, Receive, StockOut, Die
  <2> QED BY <2>1
<1> QED BY <1>1, <1>2, <1>3, <1>4, <1>5, <1>6 DEF Step

(* What the second read of the request saw is still true at the commit.    *)
LEMMA IssueKept ==
  ASSUME \A v, w \in Warehouses : v = w,
         TypeOK, LockInv, IssueInv, NEW c \in Calls, Step(c) \/ Die(c)
  PROVE  IssueInv'
<1> USE DEF TypeOK, IssueInv, IssuedWithinRequested, GoTo, Over, seenVars,
        requestVars, lineVars, stockVars, history
<1>c. /\ call[c].qty \in Nat \ {0}
      /\ call[c].op = "create" => call[c].qty = Requested
  BY CallFields
<1>r. Requested \in Nat \ {0} BY PartRequestAssumption
<1>1. CASE CreateRequest(c)
  BY <1>1 DEF CreateRequest
<1>2. CASE CreateLine(c)
  BY <1>2, <1>c, <1>r DEF CreateLine
<1>3. CASE ReadRequest(c)
  <2>1. pc'[c] = "approve" => call[c].op \in {"approve", "approveFinance"} /\ RequestAllows(c)
    BY <1>3 DEF ReadRequest, AfterRead
  <2>2. pc'[c] = "approve" => call[c].qty <= Requested
    BY <2>1 DEF RequestAllows, MayApprove, MayApproveFinance
  <2>3. pc'[c] \in {"approve", "issueLine", "withdraw", "refused"}
    BY <1>3 DEF ReadRequest, AfterRead
  <2> QED BY <1>3, <2>2, <2>3 DEF ReadRequest
<1>4. CASE Approve(c)
  BY <1>4 DEF Approve
<1>5. CASE ReadFresh(c)
  <2>1. ApprovedQuantity <= Requested /\ ApprovedQuantity \in Nat
    BY <1>r DEF ApprovedQuantity
  <2>2. pc'[c] = "commit" => seenIssued'[c] = issued /\ issued + call[c].qty <= Requested
    BY <1>5, <1>c, <1>r, <2>1 DEF ReadFresh
  <2>3. UNCHANGED <<call, approved, issued, handedOut>> BY <1>5 DEF ReadFresh
  <2>4. /\ pc'[c] \in {"commit", "refused"}
        /\ \A d \in Calls : d # c => pc'[d] = pc[d] /\ seenIssued'[d] = seenIssued[d]
    BY <1>5 DEF ReadFresh
  <2> QED BY <2>2, <2>3, <2>4
<1>6. CASE CommitIssue(c)
  <2>1. \A d \in Calls : d # c => pc[d] # "commit"
    BY <1>6 DEF CommitIssue, LockInv
  <2>2. /\ issued' = issued + call[c].qty /\ handedOut' = handedOut + call[c].qty
        /\ issued + call[c].qty <= Requested
    BY <1>6 DEF CommitIssue
  <2>3. /\ UNCHANGED <<call, approved>> /\ pc'[c] = "syncRead"
        /\ \A d \in Calls : d # c => pc'[d] = pc[d]
    BY <1>6 DEF CommitIssue
  <2> QED BY <1>c, <2>1, <2>2, <2>3
<1>7. CASE \/ Reserve(c) \/ Withdraw(c) \/ Release(c) \/ CloseLine(c)
           \/ ReadReservation(c) \/ ChooseWarehouse(c) \/ LockBalance(c)
           \/ ReadIssuedLine(c) \/ WriteIssuedLine(c) \/ ReadLine(c) \/ markUsed(c)
           \/ requestReturn(c) \/ confirmReturn(c) \/ closeWorkOrder(c)
           \/ remove(c) \/ ExitJob(c) \/ ReleaseJob(c) \/ Receive(c) \/ StockOut(c) \/ Die(c)
  <2>1. UNCHANGED <<call, approved, issued, handedOut, seenIssued>>
    BY <1>7 DEF Reserve, Withdraw, Release, CloseLine, ReadReservation,
      ChooseWarehouse, LockBalance, ReadIssuedLine, WriteIssuedLine, ReadLine,
      markUsed, requestReturn, confirmReturn, closeWorkOrder, remove, ExitJob,
      ReleaseJob, Receive,
      StockOut, Die
  <2>2. \E s : pc' = [pc EXCEPT ![c] = s] /\ s \notin {"line", "approve", "commit"}
    BY <1>7 DEF Reserve, Withdraw, Release, CloseLine, ReadReservation,
      ChooseWarehouse, LockBalance, ReadIssuedLine, WriteIssuedLine, ReadLine,
      markUsed, requestReturn, confirmReturn, closeWorkOrder, remove, ExitJob,
      ReleaseJob, Receive,
      StockOut, Die
  <2> QED BY <2>1, <2>2
<1> QED BY <1>1, <1>2, <1>3, <1>4, <1>5, <1>6, <1>7 DEF Step

(* As many units as the call's quantity.                                   *)
LEMMA UnitsCount ==
  ASSUME TypeOK, NEW c \in Calls
  PROVE  IsFiniteSet(UnitsOf(c)) /\ Cardinality(UnitsOf(c)) = call[c].qty
<1> DEFINE n == call[c].qty
           f == [i \in 1 .. n |-> <<c, i>>]
<1>1. n \in Nat
  BY CallFields
<1>2. f \in Bijection(1 .. n, UnitsOf(c))
  <2>1. f \in [1 .. n -> UnitsOf(c)]
    BY DEF UnitsOf
  <2>2. \A i, j \in 1 .. n : f[i] = f[j] => i = j
    OBVIOUS
  <2>3. ASSUME NEW u \in UnitsOf(c) PROVE \E i \in 1 .. n : f[i] = u
    <3>1. PICK i \in 1 .. n : u = <<c, i>>
      BY DEF UnitsOf
    <3> QED BY <3>1
  <2> HIDE DEF f
  <2> QED BY <2>1, <2>2, <2>3 DEF Bijection, Injection, IsInjective, Surjection
<1>3. ExistsBijection(1 .. n, UnitsOf(c))
  BY <1>2 DEF ExistsBijection
<1> QED BY <1>1, <1>3, FS_CountingElements, FS_NatBijection

(* Only a step that makes a call owe units, or owe them no longer, changes *)
(* them, and by as many as the call has handed out.                        *)
LEMMA OwedSame ==
  ASSUME call' = call, Syncing' = Syncing
  PROVE  Owed' = Owed
BY DEF Owed, UnitsOf

LEMMA OwedMore ==
  ASSUME TypeOK, IsFiniteSet(Owed), NEW c \in Calls, c \notin Syncing,
         call' = call, Syncing' = Syncing \cup {c}
  PROVE  /\ IsFiniteSet(Owed') /\ Cardinality(Owed) \in Nat
         /\ Cardinality(Owed') = Cardinality(Owed) + call[c].qty
<1>1. Owed' = Owed \cup UnitsOf(c) /\ Owed \cap UnitsOf(c) = {}
  BY DEF Owed, UnitsOf
<1>2. /\ IsFiniteSet(UnitsOf(c)) /\ Cardinality(UnitsOf(c)) = call[c].qty
      /\ call[c].qty \in Nat /\ Cardinality(Owed) \in Nat
  BY UnitsCount, CallFields, FS_CardinalityType
<1>3. Cardinality(Owed \cap UnitsOf(c)) = 0
  BY <1>1, FS_EmptySet
<1>4. IsFiniteSet(Owed') /\ Cardinality(Owed') = Cardinality(Owed) + call[c].qty - 0
  BY <1>1, <1>2, <1>3, FS_Union
<1> QED BY <1>2, <1>4

LEMMA OwedLess ==
  ASSUME TypeOK, IsFiniteSet(Owed), NEW c \in Calls, c \in Syncing,
         call' = call, Syncing' = Syncing \ {c}
  PROVE  /\ IsFiniteSet(Owed') /\ Cardinality(Owed') \in Nat /\ Cardinality(Owed) \in Nat
         /\ Cardinality(Owed') = Cardinality(Owed) - call[c].qty
<1>1. Owed = Owed' \cup UnitsOf(c) /\ Owed' \cap UnitsOf(c) = {}
  BY DEF Owed, UnitsOf
<1>2. IsFiniteSet(Owed') /\ Cardinality(Owed') \in Nat /\ Cardinality(Owed) \in Nat
  BY <1>1, FS_Subset, FS_CardinalityType
<1>3. /\ IsFiniteSet(UnitsOf(c)) /\ Cardinality(UnitsOf(c)) = call[c].qty
      /\ call[c].qty \in Nat
  BY UnitsCount, CallFields
<1>4. Cardinality(Owed' \cap UnitsOf(c)) = 0
  BY <1>1, FS_EmptySet
<1>5. Cardinality(Owed) = Cardinality(Owed') + call[c].qty - 0
  BY <1>1, <1>2, <1>3, <1>4, FS_Union
<1> QED BY <1>2, <1>3, <1>5

(* A step that makes nobody owe units leaves the room.                     *)
LEMMA AheadStays ==
  ASSUME TypeOK, TypeOK', AheadInv, NEW c \in Calls, call' = call, handedOut' = handedOut,
         line'.issued = line.issued,
         Syncing' = Syncing \/ (c \in Syncing /\ Syncing' = Syncing \ {c}),
         \A d \in Calls : pc'[d] \in {"syncWrite", "write"} =>
           \/ pc'[d] = pc[d] /\ seenLine'[d] = seenLine[d]
           \/ /\ seenLine'[d] = line
              /\ pc'[d] = "write" /\ call[d].op = "confirmReturn" =>
                   Consumed(line) <= line.issued
  PROVE  AheadInv'
<1> DEFINE k == Cardinality(Owed)
           m == Cardinality(Owed)'
<1>1. IsFiniteSet(Owed') /\ k \in Nat /\ m \in Nat /\ m <= k
  <2>1. CASE Syncing' = Syncing
    BY <2>1, OwedSame, FS_CardinalityType DEF AheadInv
  <2>2. CASE c \in Syncing /\ Syncing' = Syncing \ {c}
    <3>1. call[c].qty \in Nat
      BY CallFields
    <3> QED BY <2>2, <3>1, OwedLess DEF AheadInv
  <2> QED BY <2>1, <2>2
<1>2. /\ line.issued \in Nat /\ handedOut \in Nat
      /\ \A d \in Calls : seenLine[d].issued \in Nat /\ seenLine'[d].issued \in Nat
  BY DEF TypeOK, Line
<1>3. line.issued + k <= handedOut
  BY DEF AheadInv
<1> HIDE DEF k, m
<1>4. line'.issued + m <= handedOut'
  BY <1>1, <1>2, <1>3
<1>5. ASSUME NEW d \in Calls
      PROVE  /\ pc'[d] = "syncWrite" => seenLine'[d].issued + m <= handedOut'
             /\ pc'[d] = "write" => seenLine'[d].issued <= handedOut'
             /\ pc'[d] = "write" /\ call'[d].op = "confirmReturn" =>
                  Consumed(seenLine'[d]) <= seenLine'[d].issued
  <2>1. CASE pc'[d] = pc[d] /\ seenLine'[d] = seenLine[d]
    BY <1>1, <1>2, <2>1 DEF AheadInv, k
  <2>2. CASE /\ seenLine'[d] = line
             /\ pc'[d] = "write" /\ call[d].op = "confirmReturn" =>
                  Consumed(line) <= line.issued
    BY <1>1, <1>2, <1>3, <2>2
  <2> QED BY <2>1, <2>2
<1> QED BY <1>1, <1>4, <1>5 DEF AheadInv, m

(* No step shows more on the line than was handed out.                     *)
LEMMA AheadKept ==
  ASSUME TypeOK, TypeOK', AheadInv, NEW c \in Calls, Step(c) \/ Die(c)
  PROVE  AheadInv'
<1> USE DEF GoTo, Over, seenVars, requestVars, lineVars, stockVars, history
<1>t. /\ pc \in [Calls -> Stages] /\ call \in [Calls -> Inputs]
      /\ seenLine \in [Calls -> Line] /\ line \in Line
  BY DEF TypeOK
<1>1. CASE CommitIssue(c)
  <2>1. /\ call' = call /\ seenLine' = seenLine /\ line'.issued = line.issued
        /\ handedOut' = handedOut + call[c].qty
        /\ pc[c] = "commit" /\ pc' = [pc EXCEPT ![c] = "syncRead"]
    BY <1>t, <1>1 DEF CommitIssue, Line
  <2>2. c \notin Syncing /\ Syncing' = Syncing \cup {c}
    BY <1>t, <2>1 DEF Syncing
  <2>3. /\ IsFiniteSet(Owed') /\ Cardinality(Owed) \in Nat
        /\ Cardinality(Owed)' = Cardinality(Owed) + call[c].qty
    BY <2>1, <2>2, OwedMore DEF AheadInv
  <2>4. /\ line.issued \in Nat /\ handedOut \in Nat /\ call[c].qty \in Nat
        /\ \A d \in Calls : seenLine[d].issued \in Nat
    BY CallFields DEF TypeOK, Line
  <2>5. line'.issued + Cardinality(Owed)' <= handedOut'
    BY <2>1, <2>3, <2>4 DEF AheadInv
  <2>6. ASSUME NEW d \in Calls
        PROVE  /\ pc'[d] = "syncWrite" =>
                    seenLine'[d].issued + Cardinality(Owed)' <= handedOut'
               /\ pc'[d] = "write" => seenLine'[d].issued <= handedOut'
               /\ pc'[d] = "write" /\ call'[d].op = "confirmReturn" =>
                    Consumed(seenLine'[d]) <= seenLine'[d].issued
    <3>1. pc'[d] \in {"syncWrite", "write"} => pc[d] = pc'[d]
      BY <1>t, <2>1
    <3> QED BY <2>1, <2>3, <2>4, <3>1 DEF AheadInv
  <2> QED BY <2>3, <2>5, <2>6 DEF AheadInv
<1>2. CASE WriteIssuedLine(c)
  <2>1. /\ call' = call /\ seenLine' = seenLine /\ handedOut' = handedOut
        /\ line'.issued = seenLine[c].issued + call[c].qty
        /\ pc[c] = "syncWrite" /\ pc' = [pc EXCEPT ![c] = "done"]
    BY <1>t, <1>2 DEF WriteIssuedLine, Line
  <2>2. c \in Syncing /\ Syncing' = Syncing \ {c}
    BY <1>t, <2>1 DEF Syncing
  <2>3. /\ IsFiniteSet(Owed') /\ Cardinality(Owed) \in Nat /\ Cardinality(Owed)' \in Nat
        /\ Cardinality(Owed)' = Cardinality(Owed) - call[c].qty
    BY <2>1, <2>2, OwedLess DEF AheadInv
  <2>4. /\ handedOut \in Nat /\ call[c].qty \in Nat
        /\ \A d \in Calls : seenLine[d].issued \in Nat
    BY CallFields DEF TypeOK, Line
  <2>5. line'.issued + Cardinality(Owed)' <= handedOut'
    BY <2>1, <2>3, <2>4 DEF AheadInv
  <2>6. ASSUME NEW d \in Calls
        PROVE  /\ pc'[d] = "syncWrite" =>
                    seenLine'[d].issued + Cardinality(Owed)' <= handedOut'
               /\ pc'[d] = "write" => seenLine'[d].issued <= handedOut'
               /\ pc'[d] = "write" /\ call'[d].op = "confirmReturn" =>
                    Consumed(seenLine'[d]) <= seenLine'[d].issued
    <3>1. pc'[d] \in {"syncWrite", "write"} => pc[d] = pc'[d]
      BY <1>t, <2>1
    <3> QED BY <2>1, <2>3, <2>4, <3>1 DEF AheadInv
  <2> QED BY <2>3, <2>5, <2>6 DEF AheadInv
<1>3. CASE ReadIssuedLine(c)
  <2>1. /\ call' = call /\ handedOut' = handedOut /\ line' = line
        /\ seenLine' = [seenLine EXCEPT ![c] = line] /\ pc[c] = "syncRead"
        /\ pc' = [pc EXCEPT ![c] = "syncWrite"] \/ pc' = [pc EXCEPT ![c] = "done"]
    BY <1>3 DEF ReadIssuedLine
  <2>2. Syncing' = Syncing \/ (c \in Syncing /\ Syncing' = Syncing \ {c})
    BY <1>t, <2>1 DEF Syncing
  <2>3. \A d \in Calls : pc'[d] \in {"syncWrite", "write"} =>
          \/ pc'[d] = pc[d] /\ seenLine'[d] = seenLine[d]
          \/ seenLine'[d] = line /\ pc'[d] # "write"
    BY <1>t, <2>1
  <2> QED BY <2>1, <2>2, <2>3, AheadStays
<1>4. CASE ReadLine(c)
  <2>1. /\ call' = call /\ handedOut' = handedOut /\ line' = line
        /\ seenLine' = [seenLine EXCEPT ![c] = line] /\ pc[c] = "start"
        /\ \/ pc' = [pc EXCEPT ![c] = "write"] /\ LineAllows(c)
           \/ pc' = [pc EXCEPT ![c] = "refused"]
    BY <1>4 DEF ReadLine
  <2>2. Syncing' = Syncing
    BY <1>t, <2>1 DEF Syncing
  <2>3. \A d \in Calls : pc'[d] \in {"syncWrite", "write"} =>
          \/ pc'[d] = pc[d] /\ seenLine'[d] = seenLine[d]
          \/ seenLine'[d] = line /\ Consumed(line) <= line.issued
    BY <1>t, <2>1 DEF LineAllows
  <2> QED BY <2>1, <2>2, <2>3, AheadStays
<1>5. CASE Die(c)
  <2>1. /\ call' = call /\ handedOut' = handedOut /\ line' = line
        /\ seenLine' = seenLine /\ pc' = [pc EXCEPT ![c] = "dead"]
    BY <1>5 DEF Die
  <2>2. Syncing' = Syncing \/ (c \in Syncing /\ Syncing' = Syncing \ {c})
    BY <1>t, <2>1 DEF Syncing
  <2>3. \A d \in Calls : pc'[d] \in {"syncWrite", "write"} =>
          pc'[d] = pc[d] /\ seenLine'[d] = seenLine[d]
    BY <1>t, <2>1
  <2> QED BY <2>1, <2>2, <2>3, AheadStays
<1>6. CASE \/ CreateRequest(c) \/ CreateLine(c) \/ ReadRequest(c) \/ Approve(c)
           \/ Reserve(c) \/ Withdraw(c) \/ Release(c) \/ CloseLine(c)
           \/ ReadReservation(c) \/ ChooseWarehouse(c) \/ LockBalance(c)
           \/ ReadFresh(c) \/ markUsed(c) \/ requestReturn(c) \/ confirmReturn(c)
           \/ closeWorkOrder(c) \/ remove(c) \/ ExitJob(c) \/ ReleaseJob(c)
           \/ Receive(c) \/ StockOut(c)
  <2>1. UNCHANGED <<call, handedOut, seenLine>>
    BY <1>6 DEF CreateRequest, CreateLine, ReadRequest, Approve, Reserve, Withdraw,
      Release, CloseLine, ReadReservation, ChooseWarehouse, LockBalance, ReadFresh,
      markUsed, requestReturn, confirmReturn, closeWorkOrder, remove, ExitJob,
      ReleaseJob, Receive, StockOut
  <2>2. line'.issued = line.issued
    BY <1>t, <1>6 DEF CreateRequest, CreateLine, ReadRequest, Approve, Reserve,
      Withdraw, Release, CloseLine, DropReservation, ReadReservation, ChooseWarehouse,
      LockBalance, ReadFresh, markUsed, requestReturn, confirmReturn, closeWorkOrder,
      remove, ExitJob, ReleaseJob, Receive, StockOut, Line
  <2>3. /\ pc[c] \notin {"syncRead", "syncWrite"}
        /\ \E s : /\ pc' = [pc EXCEPT ![c] = s]
                  /\ s \notin {"syncRead", "syncWrite", "write"}
    BY <1>6 DEF CreateRequest, CreateLine, ReadRequest, AfterRead, Approve, Reserve,
      Withdraw, Release, CloseLine, ReadReservation, ChooseWarehouse, LockBalance,
      ReadFresh, markUsed, requestReturn, confirmReturn, closeWorkOrder, remove,
      ExitJob, ReleaseJob, Receive, StockOut
  <2>4. Syncing' = Syncing
    BY <1>t, <2>3 DEF Syncing
  <2>5. \A d \in Calls : pc'[d] \in {"syncWrite", "write"} =>
          pc'[d] = pc[d] /\ seenLine'[d] = seenLine[d]
    BY <1>t, <2>1, <2>3
  <2> QED BY <2>1, <2>2, <2>4, <2>5, AheadStays
<1> QED BY <1>1, <1>2, <1>3, <1>4, <1>5, <1>6 DEF Step

(* What a confirmation brings back is part of what its line was issued.    *)
LEMMA RestockKept ==
  ASSUME TypeOK, ConfirmInv, SpentInv, AheadInv, RestockedWithinIssued,
         NEW c \in Calls, Step(c) \/ Die(c)
  PROVE  RestockedWithinIssued'
<1> USE DEF GoTo, Over, seenVars, requestVars, lineVars, stockVars, history
<1>1. CASE confirmReturn(c)
  <2>1. handedOut' = handedOut
    BY <1>1 DEF confirmReturn
  <2>2. CASE seenLine[c].good /\ ~ EventTaken(c)
    <3>1. restocked' = restocked + call[c].qty
      BY <1>1, <2>2, Zenon DEF confirmReturn
    <3>2. seenLine[c].returned = restocked
      BY <2>2 DEF EventTaken, SpentInv
    <3>3. /\ call[c].qty <= seenLine[c].pending
          /\ Consumed(seenLine[c]) <= seenLine[c].issued
          /\ seenLine[c].issued <= handedOut
      BY <1>1 DEF confirmReturn, ConfirmInv, AheadInv
    <3>4. /\ seenLine[c] \in Line /\ call[c].qty \in Nat /\ handedOut \in Nat
          /\ restocked \in Nat
      BY CallFields DEF TypeOK
    <3> QED BY <2>1, <3>1, <3>2, <3>3, <3>4 DEF RestockedWithinIssued, Consumed, Line
  <2>3. CASE ~ (seenLine[c].good /\ ~ EventTaken(c))
    BY <1>1, <2>1, <2>3, Zenon DEF confirmReturn, RestockedWithinIssued
  <2> QED BY <2>2, <2>3
<1>2. CASE CommitIssue(c)
  <2>1. restocked' = restocked /\ handedOut' = handedOut + call[c].qty
    BY <1>2 DEF CommitIssue
  <2>2. call[c].qty \in Nat /\ restocked \in Nat /\ handedOut \in Nat
    BY CallFields DEF TypeOK
  <2> QED BY <2>1, <2>2 DEF RestockedWithinIssued
<1>3. CASE ~ confirmReturn(c) /\ ~ CommitIssue(c)
  <2>1. UNCHANGED <<restocked, handedOut>>
    BY <1>3 DEF Step, CreateRequest, CreateLine, ReadRequest, Approve, Reserve, Withdraw,
      Release, CloseLine, ReadReservation, ChooseWarehouse, LockBalance, ReadFresh,
      ReadIssuedLine, WriteIssuedLine, ReadLine, markUsed, requestReturn,
      closeWorkOrder, remove, ExitJob, ReleaseJob, Receive, StockOut, Die
  <2> QED BY <2>1 DEF RestockedWithinIssued
<1> QED BY <1>1, <1>2, <1>3

----------------------------------------------------------------------------
(* The theorems.                                                           *)

LEMMA InitHolds == Init => IInv
<1> SUFFICES ASSUME Init PROVE IInv OBVIOUS
<1>1. TypeOK
  <2>1. call \in [Calls -> Inputs] /\ Inputs \subseteq InputType /\ Creator \in Calls
    BY PartRequestAssumption DEF Init
  <2>2. \A c \in Calls : call[c].wh \in Warehouses BY <2>1 DEF InputType
  <2>3. wh \in [Calls -> Warehouses] /\ lastFrom \in Warehouses
    BY <2>1, <2>2 DEF Init
  <2>4. seenLine \in [Calls -> Line] /\ line \in Line BY LineType DEF Init
  <2>5. stock \in [Warehouses -> Int] /\ lock \in [Warehouses -> Calls \cup {NoCall}]
    BY PartRequestAssumption DEF Init
  <2>6. /\ pc \in [Calls -> Stages] /\ seenApproved \in [Calls -> Nat]
        /\ seenIssued \in [Calls -> Nat] /\ consume \in [Calls -> BOOLEAN]
    BY DEF Init, Stages
  <2>7. /\ status \in Statuses /\ approved \in Nat /\ issued \in Nat
        /\ hasLine \in BOOLEAN /\ job \in {"open", "closed", "cancelled"}
        /\ returnEvents \subseteq Nat /\ handedOut \in Nat /\ goodIn \in Nat
        /\ restocked \in Nat
    BY DEF Init, Statuses
  <2> QED BY <2>1, <2>3, <2>4, <2>5, <2>6, <2>7 DEF TypeOK
<1>2. ConfirmInv /\ LockInv BY DEF Init, ConfirmInv, LockInv
<1>3. NeverOverIssued BY PartRequestAssumption DEF Init, NeverOverIssued
<1>4. SpentInv BY DEF Init, SpentInv, StaleReturnIsSpent, NewLine
<1> QED BY <1>1, <1>2, <1>3, <1>4 DEF IInv

LEMMA NextKeeps == IInv /\ [Next]_vars => IInv'
<1> SUFFICES ASSUME IInv, [Next]_vars PROVE IInv' OBVIOUS
<1> USE DEF IInv
<1>1. ASSUME NEW c \in Calls, Step(c) \/ Die(c) PROVE IInv'
  BY <1>1, TypesKept, LockKept, SpentKept
<1>2. CASE UNCHANGED vars
  <2> USE <1>2 DEF vars, seenVars, requestVars, lineVars, stockVars, history
  <2>1. TypeOK' /\ ConfirmInv' BY DEF TypeOK, ConfirmInv
  <2>2. LockInv' /\ NeverOverIssued' BY DEF LockInv, NeverOverIssued
  <2>3. SpentInv' BY DEF SpentInv, StaleReturnIsSpent
  <2> QED BY <2>1, <2>2, <2>3
<1> QED BY <1>1, <1>2 DEF Next, Terminated

(* Every reachable state satisfies the inductive invariant.                *)
THEOREM PartRequestInvariant == Spec => []IInv
<1> QED BY InitHolds, NextKeeps, PTL DEF Spec

(* The state of a request, its line and its stock is well formed; pending  *)
(* returns are never negative, because a confirmation has compared itself  *)
(* with the line it writes back (confirmReturn).                           *)
THEOREM PartRequestTypes == Spec => []TypeOK
<1>1. IInv => TypeOK BY DEF IInv
<1> QED BY <1>1, PartRequestInvariant, PTL

(* With any number of warehouses and calls, no verified balance goes below *)
(* zero: the UPDLOCK of assertVerifiedIssueAllowed covers the commit.      *)
THEOREM StockNeverOverIssued == Spec => []NeverOverIssued
<1>1. IInv => NeverOverIssued BY DEF IInv
<1> QED BY <1>1, PartRequestInvariant, PTL

(* No line that a late writer put back can restock its return again: the   *)
(* event named after the returned quantity exists (confirmReturn).         *)
THEOREM StaleReturnsAreSpent == Spec => []StaleReturnIsSpent
<1>1. IInv => StaleReturnIsSpent BY DEF IInv, SpentInv
<1> QED BY <1>1, PartRequestInvariant, PTL

(* With one warehouse, however many issues and approvals race, at most the *)
(* requested quantity is handed out and all of it is counted: the row lock *)
(* also orders the second reads of the request (issuePartRequest).         *)
THEOREM RequestNeverOverIssued ==
  ASSUME \A v, w \in Warehouses : v = w
  PROVE  Spec => []IssuedWithinRequested
<1>1. Init => IssueInv
  BY PartRequestAssumption DEF Init, IssueInv, IssuedWithinRequested
<1>2. IInv /\ IssueInv /\ [Next]_vars => IssueInv'
  <2> SUFFICES ASSUME IInv, IssueInv, [Next]_vars PROVE IssueInv' OBVIOUS
  <2>1. ASSUME NEW c \in Calls, Step(c) \/ Die(c) PROVE IssueInv'
    BY <2>1, IssueKept DEF IInv
  <2>2. CASE UNCHANGED vars
    BY <2>2 DEF vars, seenVars, requestVars, lineVars, stockVars, history,
      IssueInv, IssuedWithinRequested
  <2> QED BY <2>1, <2>2 DEF Next, Terminated
<1>3. IssueInv => IssuedWithinRequested BY DEF IssueInv
<1> QED BY <1>1, <1>2, <1>3, PartRequestInvariant, PTL DEF Spec

(* Initially nobody owes anything, and every step leaves the room.         *)
LEMMA AheadHolds == Spec => [](AheadInv /\ RestockedWithinIssued)
<1>1. Init => AheadInv /\ RestockedWithinIssued
  <2> SUFFICES ASSUME Init PROVE AheadInv /\ RestockedWithinIssued OBVIOUS
  <2>1. Owed = {}
    BY DEF Init, Owed, Syncing
  <2>2. IsFiniteSet(Owed) /\ Cardinality(Owed) = 0
    BY <2>1, FS_EmptySet
  <2> QED BY <2>2 DEF Init, AheadInv, NewLine, RestockedWithinIssued
<1>2. IInv /\ IInv' /\ AheadInv /\ RestockedWithinIssued /\ [Next]_vars
        => (AheadInv /\ RestockedWithinIssued)'
  <2> SUFFICES ASSUME IInv, IInv', AheadInv, RestockedWithinIssued, [Next]_vars
               PROVE  (AheadInv /\ RestockedWithinIssued)'
    OBVIOUS
  <2>1. ASSUME NEW c \in Calls, Step(c) \/ Die(c)
        PROVE  (AheadInv /\ RestockedWithinIssued)'
    BY <2>1, AheadKept, RestockKept DEF IInv
  <2>2. CASE UNCHANGED vars
    BY <2>2 DEF vars, seenVars, requestVars, lineVars, stockVars, history, AheadInv,
      Owed, UnitsOf, Syncing, Consumed, RestockedWithinIssued
  <2> QED BY <2>1, <2>2 DEF Next, Terminated
<1> QED BY <1>1, <1>2, PartRequestInvariant, PTL DEF Spec

(* With any number of issues in flight, each of which writes a sum of what *)
(* it read, the line never shows more units than the store handed out      *)
(* (syncIssuedLine): every reading left room for all the issues still to   *)
(* be written.                                                             *)
THEOREM LineStaysBehind == Spec => []LineNeverAhead
<1>1. IInv /\ AheadInv => LineNeverAhead
  <2> SUFFICES ASSUME IInv, AheadInv PROVE LineNeverAhead OBVIOUS
  <2>1. Cardinality(Owed) \in Nat /\ line.issued \in Nat /\ handedOut \in Nat
    BY FS_CardinalityType DEF IInv, TypeOK, Line, AheadInv
  <2> QED BY <2>1 DEF AheadInv, LineNeverAhead
<1> QED BY <1>1, AheadHolds, PartRequestInvariant, PTL

(* However many confirmations read the same line or write an old one back, *)
(* and whatever they race with, no more units come back to the shelves     *)
(* than were handed out (confirmReturn).                                   *)
THEOREM RestockedOnce == Spec => []RestockedWithinIssued
<1> QED BY AheadHolds, PTL
=============================================================================
