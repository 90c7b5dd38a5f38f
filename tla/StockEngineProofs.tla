------------------------- MODULE StockEngineProofs -------------------------
(***************************************************************************)
(* StockEngine for every set of calls, warehouses, keys and quantities,    *)
(* provided the default warehouse has its balance row: without it a row    *)
(* may be seeded with stock that other rows hold (NoPhantomStock).         *)
(***************************************************************************)
EXTENDS StockEngine, SumLemmas, TLAPS

----------------------------------------------------------------------------
(* The inductive invariant.                                                *)

\* A new row is never the default one, so it starts at zero, and warehouses
\* without a row hold nothing.
RowsInv ==
  /\ DefaultWarehouse \in rows
  /\ \A w \in Warehouses \ rows : onHand[w] = 0 /\ reserved[w] = 0 /\ available[w] = 0

\* Stages before the claim on the key is settled.
Unclaimed == {"start", "tx", "create", "poll"}

\* A keyed call past the claim owns it; a stored result belongs to a call
\* that reached its end; calls that wait on a key have one.
ClaimInv ==
  /\ \A r \in Requests :
       (call[r].key # NoKey /\ pc[r] \notin Unclaimed) => claim[call[r].key] = r
  /\ \A r \in Requests : pc[r] \in {"create", "poll"} => call[r].key # NoKey
  /\ \A k \in Keys : resultJson[k] => claim[k] \in Requests /\ pc[claim[k]] = "end"

\* Which operations pass which stage.
StageInv ==
  \A r \in Requests :
    /\ pc[r] \in {"dest", "movePaired"} => call[r].op = "transfer"
    /\ pc[r] \in {"original", "mark"} => call[r].op = "reverse"
    /\ pc[r] = "load" => call[r].op # "reverse"

\* Stages a call with a movement passes before it records it.
Unrecorded == Stages \ {"movePaired", "commit", "end"}

\* The ledger holds the movements of the calls that got past recording them.
LedgerInv ==
  /\ \A r \in Requests : (pc[r] \notin Unrecorded /\ HasMovement(r)) => <<r, "main">> \in ledger
  /\ \A m \in ledger : pc[m[1]] \in {"movePaired", "commit", "end"}

\* A reversal between its read and its compare-and-set works on a recorded
\* movement and on a quantity that fits what it read.
ReverseStages == {"part", "ensure", "load", "update", "mark"}
ReverseInv ==
  /\ \A m \in MovementIds : m \notin ledger => quantityReversed[m] = 0
  /\ \A r \in Requests :
       (call[r].op = "reverse" /\ pc[r] \in ReverseStages) =>
         /\ call[r].target \in ledger
         /\ reversedSeen[r] + amount[r] <= amount[call[r].target[1]]

\* The part of the invariant about control and claims, which stands alone.
ControlInv ==
  /\ call \in [Requests -> Inputs]
  /\ pc \in [Requests -> Stages]
  /\ status \in [Requests -> {"running", "ok", "replayed", "inProgress", "failed"}]
  /\ claim \in [Keys -> Requests \cup {NoRequest}]
  /\ resultJson \in [Keys -> BOOLEAN]
  /\ ClaimInv
  /\ StageInv

\* The part about the ledger and reversals, on top of ControlInv.
MovementInv ==
  /\ amount \in [Requests -> Nat]
  /\ reversedSeen \in [Requests -> Nat]
  /\ ledger \subseteq MovementIds
  /\ quantityReversed \in [MovementIds -> Nat]
  /\ LedgerInv
  /\ ReverseInv
  /\ NeverOverReversed

\* The part about the balance rows, on top of both.
BalanceInv ==
  /\ rows \subseteq Warehouses
  /\ onHand \in [Warehouses -> Nat]
  /\ reserved \in [Warehouses -> Nat]
  /\ available \in [Warehouses -> Nat]
  /\ RowsInv
  /\ BalancesSound

\* A replayed call was answered from a stored result of its own payload.
ReplayInv ==
  \A r \in Requests : status[r] = "replayed" =>
    /\ call[r].key \in Keys
    /\ resultJson[call[r].key]
    /\ Payload(call[r]) = Payload(call[claim[call[r].key]])

IInv == ControlInv /\ MovementInv /\ BalanceInv /\ ReplayInv

----------------------------------------------------------------------------
(* The fields of a call have their types.                                  *)
LEMMA CallFields ==
  ASSUME call \in [Requests -> Inputs], NEW r \in Requests
  PROVE  /\ call[r].op \in Ops /\ call[r].qty \in Nat
         /\ call[r].wh \in Warehouses /\ call[r].dest \in Warehouses
         /\ call[r].key \in Keys \cup {NoKey}
         /\ call[r].target \in MovementIds /\ call[r].tx \in BOOLEAN
         /\ call[r].op # "reverse" => call[r].qty > 0
         /\ call[r].tx => call[r].op \in {"issue", "returnStock"}
<1>1. call[r] \in Inputs OBVIOUS
<1>2. call[r] \in InputType BY <1>1, InputAssumption
<1> QED BY <1>1, <1>2, InputAssumption DEF InputType

(* Claims and control: a step of a call keeps ControlInv.                  *)
LEMMA ControlStep ==
  ASSUME ControlInv, NEW r \in Requests, Step(r) \/ Abort(r)
  PROVE  ControlInv'
<1> USE RequestAssumption DEF ControlInv, ClaimInv, StageInv, At, GoTo, EndWith,
        Unclaimed, Stages, locals, balances, movements, claims
<1>k. call[r].key \in Keys \cup {NoKey} /\ call[r].op \in Ops BY CallFields
<1>1. CASE FindClaim(r)
  BY <1>1, <1>k DEF FindClaim, Replay, AfterClaim
<1>2. CASE CreateClaim(r)
  <2>k. call[r].key \in Keys BY <1>2, <1>k DEF CreateClaim
  <2>1. CASE claim[call[r].key] = NoRequest
    <3>1. /\ claim' = [claim EXCEPT ![call[r].key] = r]
          /\ pc' = [pc EXCEPT ![r] = AfterClaim(r)]
          /\ UNCHANGED <<call, status, resultJson>>
      BY <1>2, <2>1 DEF CreateClaim
    <3>2. AfterClaim(r) \in {"original", "part"}
          /\ (AfterClaim(r) = "original" => call[r].op = "reverse")
      BY DEF AfterClaim
    <3>3. ~ resultJson[call[r].key] BY <2>1, <2>k
    <3>4. \A q \in Requests \ {r} :
            (call[q].key # NoKey /\ pc[q] \notin Unclaimed) => call[q].key # call[r].key
      BY <2>1
    <3>5. ClaimInv'
      <4>0. \A q \in Requests : call[q].key \in Keys \cup {NoKey} BY CallFields
      <4>1. ASSUME NEW q \in Requests, call'[q].key # NoKey, pc'[q] \notin Unclaimed
            PROVE  claim'[call'[q].key] = q
        <5>1. CASE q = r BY <5>1, <3>1, <2>k
        <5>2. CASE q # r
          <6>1. pc[q] \notin Unclaimed /\ call[q].key # NoKey /\ call[q].key \in Keys
            BY <5>2, <4>1, <4>0, <3>1
          <6> QED BY <6>1, <5>2, <3>1, <3>4, <2>k
        <5> QED BY <5>1, <5>2
      <4>2. \A q \in Requests : pc'[q] \in {"create", "poll"} => call'[q].key # NoKey
        BY <3>1, <3>2
      <4>3. \A k \in Keys : resultJson'[k] => claim'[k] \in Requests /\ pc'[claim'[k]] = "end"
        <5> SUFFICES ASSUME NEW k \in Keys, resultJson[k]
                     PROVE  claim'[k] \in Requests /\ pc'[claim'[k]] = "end"
          BY <3>1
        <5>1. k # call[r].key BY <3>3
        <5>2. claim'[k] = claim[k] /\ claim[k] \in Requests /\ pc[claim[k]] = "end"
          BY <5>1, <3>1
        <5>3. pc[r] = "create" BY <1>2 DEF CreateClaim
        <5> QED BY <5>2, <5>3, <3>1
      <4> QED BY <4>1, <4>2, <4>3
    <3> QED BY <2>k, <3>1, <3>2, <3>5
  <2>2. CASE claim[call[r].key] # NoRequest
    BY <1>2, <2>2, <2>k DEF CreateClaim, Replay
  <2> QED BY <2>1, <2>2
<1>3. CASE PollResult(r) BY <1>3, <1>k DEF PollResult, Replay
<1>4. CASE PollTimeout(r) BY <1>4, <1>k DEF PollTimeout
<1>5. CASE ReadOriginal(r) BY <1>5, <1>k DEF ReadOriginal
<1>6. CASE LoadPart(r) BY <1>6, <1>k DEF LoadPart
<1>7. CASE EnsureBalances(r) BY <1>7, <1>k DEF EnsureBalances
<1>8. CASE LoadBalance(r) BY <1>8, <1>k DEF LoadBalance
<1>9. CASE UpdateBalance(r) BY <1>9, <1>k DEF UpdateBalance
<1>10. CASE CreditDestination(r) BY <1>10, <1>k DEF CreditDestination
<1>11. CASE MarkReversed(r) BY <1>11, <1>k DEF MarkReversed
<1>12. CASE ReadBalances(r) BY <1>12, <1>k DEF ReadBalances
<1>13. CASE WritePart(r) BY <1>13, <1>k DEF WritePart
<1>14. CASE CreateMovement(r) BY <1>14, <1>k DEF CreateMovement
<1>15. CASE CreatePairedMovement(r) BY <1>15, <1>k DEF CreatePairedMovement
<1>16. CASE CommitIdempotency(r) BY <1>16, <1>k DEF CommitIdempotency
<1>17. CASE RunInTransaction(r) BY <1>17, <1>k DEF RunInTransaction
<1>18. CASE RefuseInTransaction(r) \/ ReadInTransaction(r) BY <1>18, <1>k DEF RefuseInTransaction, ReadInTransaction, Replay
<1>19. CASE Abort(r) BY <1>19, <1>k DEF Abort
<1> QED BY <1>1, <1>2, <1>3, <1>4, <1>5, <1>6, <1>7, <1>8, <1>9, <1>10, <1>11, <1>12,
           <1>13, <1>14, <1>15, <1>16, <1>17, <1>18, <1>19 DEF Step

(* The ledger and the reversals: a step of a call keeps MovementInv.       *)
LEMMA MovementStep ==
  ASSUME ControlInv, MovementInv, NEW r \in Requests, Step(r) \/ Abort(r)
  PROVE  MovementInv'
<1> USE DEF MovementInv, LedgerInv, ReverseInv, NeverOverReversed, HasMovement,
        Unrecorded, ReverseStages, Stages, At, GoTo, EndWith,
        locals, balances, movements, claims
<1>c. /\ call \in [Requests -> Inputs] /\ pc \in [Requests -> Stages] /\ StageInv
  BY DEF ControlInv
<1>t. \A q \in Requests : call[q].target \in MovementIds
  BY <1>c, CallFields
<1>m. \A m \in MovementIds : m[1] \in Requests BY DEF MovementIds
<1>k. <<r, "main">> \in MovementIds /\ <<r, "paired">> \in MovementIds
  BY DEF MovementIds
<1>1. CASE FindClaim(r) BY <1>1, <1>c, <1>t, <1>m DEF FindClaim, Replay, AfterClaim
<1>2. CASE CreateClaim(r) BY <1>2, <1>c, <1>t, <1>m DEF CreateClaim, Replay, AfterClaim
<1>3. CASE PollResult(r) BY <1>3, <1>c, <1>t, <1>m DEF PollResult, Replay
<1>4. CASE PollTimeout(r) BY <1>4, <1>c, <1>t, <1>m DEF PollTimeout
<1>5. CASE ReadOriginal(r)
  <2> DEFINE m == call[r].target
             remaining == amount[m[1]] - quantityReversed[m]
             reverseQty == IF call[r].qty = 0 THEN remaining ELSE call[r].qty
  <2>1. CASE status'[r] = "failed" BY <1>5, <2>1, <1>c, <1>t, <1>m DEF ReadOriginal
  <2>2. CASE status'[r] # "failed"
    <3>1. /\ m \in ledger /\ reverseQty <= remaining /\ quantityReversed[m] < amount[m[1]]
          /\ pc' = [pc EXCEPT ![r] = "part"]
          /\ amount' = [amount EXCEPT ![r] = reverseQty]
          /\ reversedSeen' = [reversedSeen EXCEPT ![r] = quantityReversed[m]]
          /\ UNCHANGED <<call, ledger, quantityReversed>> /\ pc[r] = "original"
      BY <1>5, <2>2, <1>c DEF ReadOriginal, ControlInv
    <3>2. m \in MovementIds /\ call[r].qty \in Nat BY <1>c, CallFields
    <3>3. \A i \in ledger : i[1] # r /\ i[1] \in Requests BY <3>1, <1>m
    <3>4. reverseQty \in Nat /\ quantityReversed[m] + reverseQty <= amount[m[1]]
      BY <3>1, <3>2, <1>m
    <3> HIDE DEF m, remaining, reverseQty
    <3>5. amount' \in [Requests -> Nat] /\ reversedSeen' \in [Requests -> Nat]
      BY <3>1, <3>2, <3>4
    <3>6. \A i \in ledger : amount'[i[1]] = amount[i[1]] BY <3>1, <3>3
    <3>7. LedgerInv' BY <3>1, <3>3, <1>c
    <3>8. NeverOverReversed' BY <3>1, <3>6
    <3>9. ReverseInv'
      <4>1. ASSUME NEW q \in Requests, call[q].op = "reverse", pc'[q] \in ReverseStages
            PROVE  call[q].target \in ledger
                   /\ reversedSeen'[q] + amount'[q] <= amount'[call[q].target[1]]
        <5>1. CASE q = r BY <5>1, <3>1, <3>4, <3>6 DEF m
        <5>2. CASE q # r BY <5>2, <4>1, <3>1, <3>6
        <5> QED BY <5>1, <5>2
      <4> QED BY <4>1, <3>1
    <3> QED BY <3>1, <3>5, <3>7, <3>8, <3>9
  <2> QED BY <2>1, <2>2
<1>6. CASE LoadPart(r) BY <1>6, <1>c, <1>t, <1>m DEF LoadPart
<1>7. CASE EnsureBalances(r) BY <1>7, <1>c, <1>t, <1>m DEF EnsureBalances
<1>8. CASE LoadBalance(r) BY <1>8, <1>c, <1>t, <1>m DEF LoadBalance
<1>9. CASE UpdateBalance(r) BY <1>9, <1>c, <1>t, <1>m DEF UpdateBalance
<1>10. CASE CreditDestination(r) BY <1>10, <1>c, <1>t, <1>m DEF CreditDestination
<1>11. CASE MarkReversed(r)
  BY <1>11, <1>c, <1>t, <1>m, SMTT(30) DEF MarkReversed, StageInv
<1>12. CASE ReadBalances(r) BY <1>12, <1>c, <1>t, <1>m DEF ReadBalances
<1>13. CASE WritePart(r) BY <1>13, <1>c, <1>t, <1>m DEF WritePart
<1>14. CASE CreateMovement(r) BY <1>14, <1>c, <1>t, <1>m, <1>k DEF CreateMovement
<1>15. CASE CreatePairedMovement(r) BY <1>15, <1>c, <1>t, <1>m, <1>k DEF CreatePairedMovement
<1>16. CASE CommitIdempotency(r) BY <1>16, <1>c, <1>t, <1>m DEF CommitIdempotency
<1>17. CASE RunInTransaction(r) BY <1>17, <1>c, <1>t, <1>m, <1>k DEF RunInTransaction
<1>18. CASE RefuseInTransaction(r) \/ ReadInTransaction(r) BY <1>18, <1>c, <1>t, <1>m DEF RefuseInTransaction, ReadInTransaction, Replay
<1>19. CASE Abort(r) BY <1>19, <1>c, <1>t, <1>m DEF Abort
<1> QED BY <1>1, <1>2, <1>3, <1>4, <1>5, <1>6, <1>7, <1>8, <1>9, <1>10, <1>11, <1>12,
           <1>13, <1>14, <1>15, <1>16, <1>17, <1>18, <1>19 DEF Step

(* Every operation moves available by what it moves on hand less what it   *)
(* moves reserved.                                                         *)
LEMMA DeltasAgree ==
  ASSUME call \in [Requests -> Inputs], amount \in [Requests -> Nat], NEW r \in Requests
  PROVE  /\ OnHandDelta(r) \in Int /\ ReservedDelta(r) \in Int
         /\ AvailableDelta(r) = OnHandDelta(r) - ReservedDelta(r)
<1>1. call[r].op \in Ops /\ amount[r] \in Nat BY CallFields
<1>2. call[r].op = "reverse" => PutsIn(r) \/ TakesOut(r) BY DEF PutsIn, TakesOut
<1> QED BY <1>1, <1>2 DEF Ops, SimpleOps, OnHandDelta, ReservedDelta, AvailableDelta,
           PutsIn, TakesOut, Inbound, Outbound

(* The warehouses a call works on are warehouses.                          *)
LEMMA RowsAreWarehouses ==
  ASSUME call \in [Requests -> Inputs], NEW r \in Requests
  PROVE  TargetWarehouse(r) \in Warehouses /\ NeededRows(r) \subseteq Warehouses
<1>1. call[r].wh \in Warehouses /\ call[r].dest \in Warehouses BY CallFields
<1>2. MovementWarehouse(call[r].target) \in Warehouses
  <2>1. call[r].target \in MovementIds BY CallFields
  <2>2. call[r].target[1] \in Requests BY <2>1 DEF MovementIds
  <2> QED BY <2>2, CallFields DEF MovementWarehouse
<1> QED BY <1>1, <1>2 DEF TargetWarehouse, NeededRows

(* The conditional UPDATE alone keeps a row sound, whatever was read       *)
(* before it.                                                              *)
LEMMA ConditionalUpdateSound ==
  ASSUME BalanceInv, NEW w \in Warehouses, NEW dh \in Int, NEW dr \in Int,
         WhereHolds(w, dh, dr, dh - dr), Increment(w, dh, dr, dh - dr)
  PROVE  BalanceInv'
<1> USE DEF BalanceInv, BalancesSound, RowsInv, assertStockInvariants, deriveAvailable
<1>1. /\ onHand[w] + dh \in Nat /\ reserved[w] + dr \in Nat
      /\ available[w] + (dh - dr) \in Nat
      /\ available[w] + (dh - dr) = (onHand[w] + dh) - (reserved[w] + dr)
  BY DEF WhereHolds
<1>2. w \in rows BY DEF WhereHolds
<1> QED BY <1>1, <1>2 DEF Increment

(* Opening rows keeps BalanceInv: only the default row would be seeded     *)
(* from the part, and it exists.                                           *)
LEMMA EnsuredRowsUnchanged ==
  ASSUME BalanceInv, NEW r, NEW seed, NeededRows(r) \subseteq Warehouses
  PROVE  /\ EnsuredOnHand(r, seed) = onHand
         /\ EnsuredReserved(r, seed) = reserved
         /\ EnsuredAvailable(r, seed) = available
<1> USE DEF BalanceInv, BalancesSound, RowsInv, assertStockInvariants, deriveAvailable
<1>1. EnsuredOnHand(r, seed) = onHand BY DEF EnsuredOnHand
<1>2. EnsuredReserved(r, seed) = reserved BY DEF EnsuredReserved
<1>3. EnsuredAvailable(r, seed) = available
  BY <1>1, <1>2 DEF EnsuredAvailable
<1> QED BY <1>1, <1>2, <1>3

(* The balance rows: a step of a call keeps BalanceInv.                    *)
LEMMA BalanceStep ==
  ASSUME ControlInv, MovementInv, BalanceInv, NEW r \in Requests, Step(r) \/ Abort(r)
  PROVE  BalanceInv'
<1>c. call \in [Requests -> Inputs] /\ amount \in [Requests -> Nat]
  BY DEF ControlInv, MovementInv
<1>w. TargetWarehouse(r) \in Warehouses /\ NeededRows(r) \subseteq Warehouses
  BY <1>c, RowsAreWarehouses
<1>u. UNCHANGED balances => BalanceInv'
  BY DEF balances, BalanceInv, BalancesSound, RowsInv
<1>7. CASE EnsureBalances(r)
  <2>1. UNCHANGED <<onHand, reserved, available>>
    BY <1>7, <1>w, EnsuredRowsUnchanged DEF EnsureBalances
  <2>2. rows' = rows \cup NeededRows(r) BY <1>7 DEF EnsureBalances
  <2> QED BY <2>1, <2>2, <1>w DEF BalanceInv, BalancesSound, RowsInv
<1>9. CASE UpdateBalance(r)
  <2> DEFINE w == TargetWarehouse(r)
             dh == OnHandDelta(r)
             dr == ReservedDelta(r)
             da == AvailableDelta(r)
  <2>1. CASE WhereHolds(w, dh, dr, da)
    <3>1. Increment(w, dh, dr, da) BY <1>9, <2>1 DEF UpdateBalance
    <3>2. dh \in Int /\ dr \in Int /\ da = dh - dr BY <1>c, DeltasAgree
    <3> HIDE DEF w, dh, dr, da
    <3>3. WhereHolds(w, dh, dr, dh - dr) /\ Increment(w, dh, dr, dh - dr)
      BY <2>1, <3>1, <3>2
    <3>4. w \in Warehouses BY <1>w DEF w
    <3> QED BY <3>2, <3>3, <3>4, ConditionalUpdateSound
  <2>2. CASE ~ WhereHolds(w, dh, dr, da) BY <1>9, <2>2, <1>u DEF UpdateBalance
  <2> QED BY <2>1, <2>2
<1>10. CASE CreditDestination(r)
  <2> DEFINE n == amount[r]
  <2>1. n \in Int /\ 0 \in Int /\ n - 0 = n BY <1>c
  <2>2. WhereHolds(call[r].dest, n, 0, n) /\ Increment(call[r].dest, n, 0, n)
    BY <1>10 DEF CreditDestination
  <2>3. call[r].dest \in Warehouses BY <1>c, CallFields
  <2> HIDE DEF n
  <2>4. WhereHolds(call[r].dest, n, 0, n - 0) /\ Increment(call[r].dest, n, 0, n - 0)
    BY <2>1, <2>2
  <2> QED BY <2>1, <2>3, <2>4, ConditionalUpdateSound
<1>17. CASE RunInTransaction(r)
  <2> DEFINE w == call[r].wh
  <2>1. w \in Warehouses /\ call[r].op \in {"issue", "returnStock"}
    BY <1>17, <1>c, CallFields DEF RunInTransaction
  <2>2. /\ EnsuredOnHand(r, part) = onHand /\ EnsuredReserved(r, part) = reserved
        /\ EnsuredAvailable(r, part) = available
    BY <1>w, EnsuredRowsUnchanged
  <2>3. /\ OnHandDelta(r) \in Int /\ ReservedDelta(r) = 0
        /\ AvailableDelta(r) = OnHandDelta(r)
    BY <1>c, <2>1, DeltasAgree DEF ReservedDelta
  <2>4. assertStockInvariants(onHand[w] + OnHandDelta(r), reserved[w],
                              deriveAvailable(onHand[w], reserved[w]) + OnHandDelta(r))
    <3>1. PreviewAllows(r, onHand[w], reserved[w])
      BY <1>17, <2>2 DEF RunInTransaction, TxAllows
    <3>2. reserved[w] + 0 = reserved[w] BY <2>1 DEF BalanceInv
    <3> QED BY <3>1, <3>2, <2>3 DEF PreviewAllows
  <2>5. /\ rows' = rows \cup {w}
        /\ onHand' = [onHand EXCEPT ![w] = @ + OnHandDelta(r)]
        /\ reserved' = reserved
        /\ available' = [available EXCEPT ![w] = @ + OnHandDelta(r)]
    BY <1>17, <2>2, <2>3 DEF RunInTransaction
  <2> QED BY <2>1, <2>3, <2>4, <2>5
          DEF BalanceInv, BalancesSound, RowsInv, assertStockInvariants, deriveAvailable
<1>o. CASE UNCHANGED balances BY <1>o, <1>u
<1> QED
  BY <1>7, <1>9, <1>10, <1>17, <1>o
     DEF Step, FindClaim, CreateClaim, PollResult, PollTimeout, ReadOriginal, LoadPart,
         LoadBalance, MarkReversed, ReadBalances, WritePart, CreateMovement,
         CreatePairedMovement, CommitIdempotency, RefuseInTransaction, ReadInTransaction, Abort

(* Replays: a step of a call keeps ReplayInv.                              *)
LEMMA ReplayStep ==
  ASSUME ControlInv, ReplayInv, NEW r \in Requests, Step(r) \/ Abort(r)
  PROVE  ReplayInv'
<1> USE DEF claims
<1>0. call[r].key \in Keys \cup {NoKey} BY CallFields DEF ControlInv
<1>1. /\ call' = call
      /\ \A k \in Keys : claim[k] \in Requests => claim'[k] = claim[k]
      /\ \A k \in Keys : resultJson[k] => resultJson'[k]
  BY <1>0, RequestAssumption
  DEF Step, FindClaim, CreateClaim, PollResult, PollTimeout, ReadOriginal, LoadPart,
      EnsureBalances, LoadBalance, UpdateBalance, CreditDestination, MarkReversed,
      ReadBalances, WritePart, CreateMovement, CreatePairedMovement, CommitIdempotency,
      RunInTransaction, RefuseInTransaction, ReadInTransaction, Abort, ControlInv
<1>2. ASSUME status'[r] = "replayed", status[r] # "replayed"
      PROVE  /\ call[r].key \in Keys /\ resultJson[call[r].key]
             /\ Payload(call[r]) = Payload(call[claim[call[r].key]])
  <2> USE <1>2, <1>0 DEF ControlInv, ClaimInv, At, GoTo, EndWith
  <2>1. FindClaim(r) \/ CreateClaim(r) \/ PollResult(r) \/ RefuseInTransaction(r) \/ ReadInTransaction(r)
    BY DEF Step, PollTimeout, ReadOriginal, LoadPart,
      EnsureBalances, LoadBalance, UpdateBalance, CreditDestination, MarkReversed,
      ReadBalances, WritePart, CreateMovement, CreatePairedMovement, CommitIdempotency,
      RunInTransaction, Abort
  <2> QED BY <2>1 DEF FindClaim, CreateClaim, PollResult, RefuseInTransaction, ReadInTransaction, Replay
<1>3. \A q \in Requests \ {r} : status'[q] = status[q]
  BY DEF At, GoTo, EndWith, Replay, ControlInv,
      Step, FindClaim, CreateClaim, PollResult, PollTimeout, ReadOriginal, LoadPart,
      EnsureBalances, LoadBalance, UpdateBalance, CreditDestination, MarkReversed,
      ReadBalances, WritePart, CreateMovement, CreatePairedMovement, CommitIdempotency,
      RunInTransaction, RefuseInTransaction, ReadInTransaction, Abort
<1>4. ASSUME NEW q \in Requests, status'[q] = "replayed"
      PROVE  /\ call[q].key \in Keys /\ resultJson[call[q].key]
             /\ Payload(call[q]) = Payload(call[claim[call[q].key]])
  <2>1. CASE status[q] = "replayed" BY <2>1 DEF ReplayInv
  <2>2. CASE status[q] # "replayed" BY <2>2, <1>2, <1>3, <1>4
  <2> QED BY <2>1, <2>2
<1>5. \A k \in Keys : resultJson[k] => claim[k] \in Requests BY DEF ControlInv, ClaimInv
<1> QED BY <1>1, <1>4, <1>5 DEF ReplayInv

(* A call answered as replayed stands for one that finished.               *)
LEMMA ReplayInvMeansDone ==
  ASSUME ControlInv, MovementInv, ReplayInv
  PROVE  ReplayMeansDone
<1> SUFFICES ASSUME NEW r \in Requests, status[r] = "replayed"
             PROVE  LET c == claim[call[r].key] IN
                    /\ c \in Requests
                    /\ \A f \in {"op", "qty", "wh", "dest", "target"} : call[c][f] = call[r][f]
                    /\ Applied(c)
                    /\ HasMovement(c) => <<c, "main">> \in ledger
  BY DEF ReplayMeansDone
<1> DEFINE c == claim[call[r].key]
<1>1. c \in Requests /\ pc[c] = "end" BY DEF ReplayInv, ControlInv, ClaimInv
<1>2. Payload(call[r]) = Payload(call[c]) BY DEF ReplayInv
<1>3. Applied(c) BY <1>1 DEF Applied, AppliedStages
<1>4. HasMovement(c) => <<c, "main">> \in ledger
  BY <1>1 DEF MovementInv, LedgerInv, Unrecorded
<1>5. /\ call[c]["op"] = call[r]["op"] /\ call[c]["qty"] = call[r]["qty"]
      /\ call[c]["wh"] = call[r]["wh"] /\ call[c]["dest"] = call[r]["dest"]
      /\ call[c]["target"] = call[r]["target"]
  BY <1>2 DEF Payload
<1> QED BY <1>1, <1>3, <1>4, <1>5

(* The invariant holds at the start and every step keeps it.               *)
LEMMA InitIInv ==
  ASSUME DefaultWarehouse \in InitialRows, Init
  PROVE  IInv
<1>1. ControlInv
  BY RequestAssumption DEF Init, ControlInv, ClaimInv, StageInv, Stages, Unclaimed
<1>2. MovementInv
  <2>1. amount \in [Requests -> Nat] BY <1>1, CallFields DEF Init, ControlInv
  <2> QED BY <2>1 DEF Init, MovementInv, LedgerInv, ReverseInv, NeverOverReversed,
             Unrecorded, ReverseStages, Stages, MovementIds
<1>3. BalanceInv
  BY WarehouseAssumption DEF Init, BalanceInv, BalancesSound, RowsInv,
     assertStockInvariants, deriveAvailable
<1>4. ReplayInv BY DEF Init, ReplayInv
<1> QED BY <1>1, <1>2, <1>3, <1>4 DEF IInv

LEMMA NextIInv ==
  ASSUME IInv, [Next]_vars
  PROVE  IInv'
<1> USE DEF IInv
<1>1. ASSUME NEW r \in Requests, Step(r) \/ Abort(r) PROVE IInv'
  BY <1>1, ControlStep, MovementStep, BalanceStep, ReplayStep
<1>2. CASE UNCHANGED vars
  <2> USE <1>2 DEF vars, locals, balances, movements, claims
  <2>1. ControlInv' BY DEF ControlInv, ClaimInv, StageInv
  <2>2. MovementInv'
    BY DEF MovementInv, LedgerInv, ReverseInv, NeverOverReversed, HasMovement
  <2>3. BalanceInv' BY DEF BalanceInv, BalancesSound, RowsInv
  <2>4. ReplayInv' BY DEF ReplayInv
  <2> QED BY <2>1, <2>2, <2>3, <2>4
<1> QED BY <1>1, <1>2 DEF Next, Terminated

(* The strengthened invariant of the engine, from which the rest follows.  *)
THEOREM EngineInvariant ==
  ASSUME DefaultWarehouse \in InitialRows
  PROVE  Spec => []IInv
<1>1. Init => IInv BY InitIInv
<1>2. IInv /\ [Next]_vars => IInv' BY NextIInv
<1> QED BY <1>1, <1>2, PTL DEF Spec

(* Types, and quantities that never go below zero.                         *)
THEOREM EngineTypes ==
  ASSUME DefaultWarehouse \in InitialRows
  PROVE  Spec => []TypeOK
<1>1. IInv => TypeOK
  BY DEF IInv, ControlInv, MovementInv, BalanceInv, TypeOK
<1> QED BY <1>1, EngineInvariant, PTL

(* Every balance row is sound in every reachable state.                    *)
THEOREM BalancesAlwaysSound ==
  ASSUME DefaultWarehouse \in InitialRows
  PROVE  Spec => []BalancesSound
<1>1. IInv => BalancesSound BY DEF IInv, BalanceInv
<1> QED BY <1>1, EngineInvariant, PTL

(* One stock change per idempotency key.                                   *)
THEOREM OneChangePerKey ==
  ASSUME DefaultWarehouse \in InitialRows
  PROVE  Spec => []AppliedOncePerKey
<1>1. IInv => AppliedOncePerKey
  BY DEF IInv, ControlInv, ClaimInv, AppliedOncePerKey, Applied, AppliedStages, Unclaimed
<1> QED BY <1>1, EngineInvariant, PTL

(* A replayed answer stands for a finished call with the same payload.     *)
THEOREM ReplaysAreHonest ==
  ASSUME DefaultWarehouse \in InitialRows
  PROVE  Spec => []ReplayMeansDone
<1>1. IInv => ReplayMeansDone BY ReplayInvMeansDone DEF IInv
<1> QED BY <1>1, EngineInvariant, PTL

(* No movement is marked reversed beyond its quantity.                     *)
THEOREM ReversalsBounded ==
  ASSUME DefaultWarehouse \in InitialRows
  PROVE  Spec => []NeverOverReversed
<1>1. IInv => NeverOverReversed BY DEF IInv, MovementInv
<1> QED BY <1>1, EngineInvariant, PTL

----------------------------------------------------------------------------
(* Refinement: the engine implements StockPromise.                         *)

\* The steps of a call that change no balance.
SilentStep(r) ==
  \/ FindClaim(r) \/ CreateClaim(r) \/ PollResult(r) \/ PollTimeout(r)
  \/ ReadOriginal(r) \/ LoadPart(r) \/ EnsureBalances(r) \/ LoadBalance(r)
  \/ MarkReversed(r) \/ ReadBalances(r) \/ WritePart(r) \/ CreateMovement(r)
  \/ CreatePairedMovement(r) \/ CommitIdempotency(r) \/ RefuseInTransaction(r) \/ ReadInTransaction(r)
  \/ Abort(r)

(* A step that changes no balance is a stuttering step of the promise.     *)
LEMMA SilentStutters ==
  ASSUME IInv, NEW r \in Requests, SilentStep(r)
  PROVE  UNCHANGED Promise!vars
<1>c. /\ call \in [Requests -> Inputs] /\ pc \in [Requests -> Stages] /\ StageInv
  BY DEF IInv, ControlInv
<1>1. call' = call /\ onHand' = onHand /\ reserved' = reserved
  <2>1. CASE EnsureBalances(r)
    <3>1. NeededRows(r) \subseteq Warehouses BY <1>c, RowsAreWarehouses
    <3> QED BY <2>1, <3>1, EnsuredRowsUnchanged DEF EnsureBalances, IInv
  <2>2. CASE ~ EnsureBalances(r)
    BY <2>2 DEF SilentStep, FindClaim, CreateClaim, PollResult, PollTimeout, ReadOriginal,
       LoadPart, LoadBalance, MarkReversed, ReadBalances, WritePart, CreateMovement,
       CreatePairedMovement, CommitIdempotency, RefuseInTransaction, ReadInTransaction, Abort, balances
  <2> QED BY <2>1, <2>2
<1>2. \E stage \in Stages :
        /\ pc' = [pc EXCEPT ![r] = stage]
        /\ stage \in AppliedStages <=> pc[r] \in AppliedStages
        /\ stage = "dest" <=> pc[r] = "dest"
  BY <1>c DEF SilentStep, FindClaim, CreateClaim, PollResult, PollTimeout, ReadOriginal,
     LoadPart, EnsureBalances, LoadBalance, MarkReversed, ReadBalances, WritePart,
     CreateMovement, CreatePairedMovement, CommitIdempotency, RefuseInTransaction, ReadInTransaction, Abort,
     Replay, AfterClaim, At, GoTo, EndWith, Stages, AppliedStages
<1>3. \A q \in Requests : (Applied(q)' <=> Applied(q)) /\ (Arrived(q)' <=> Arrived(q))
  BY <1>1, <1>2, <1>c DEF Applied, Arrived
<1>4. /\ {q \in Requests : Applied(q)}' = {q \in Requests : Applied(q)}
      /\ {q \in Requests : Arrived(q)}' = {q \in Requests : Arrived(q)}
      /\ [q \in Requests |-> call[q].key]' = [q \in Requests |-> call[q].key]
  BY <1>1, <1>3
<1> QED BY <1>1, <1>4 DEF Promise!vars

(* A call about to change a balance has not done so, and no call with its  *)
(* key has.                                                                *)
LEMMA KeyIsUnspent ==
  ASSUME IInv, NEW r \in Requests,
         \/ pc[r] = "update"
         \/ pc[r] = "tx" /\ (call[r].key # NoKey => claim[call[r].key] = NoRequest)
  PROVE  /\ r \notin {q \in Requests : Applied(q)}
         /\ \A d \in {q \in Requests : Applied(q)} :
              call[d].key = NoKey \/ call[d].key # call[r].key
  BY RequestAssumption
     DEF IInv, ControlInv, ClaimInv, Applied, AppliedStages, Unclaimed

(* Effects are covered: the rows after the step are sound.                 *)
LEMMA CoveredAfter ==
  ASSUME IInv', NEW w \in Warehouses
  PROVE  0 <= reserved'[w] /\ reserved'[w] <= onHand'[w]
  BY DEF IInv, BalanceInv, BalancesSound, assertStockInvariants

(* The update of a balance is the effect of the call.                      *)
LEMMA UpdateTakesEffect ==
  ASSUME IInv, IInv', NEW r \in Requests,
         UpdateBalance(r) \/ RunInTransaction(r)
  PROVE  [Promise!Next]_(Promise!vars)
<1>c. /\ call \in [Requests -> Inputs] /\ pc \in [Requests -> Stages]
      /\ amount \in [Requests -> Nat]
      /\ onHand \in [Warehouses -> Nat] /\ reserved \in [Warehouses -> Nat]
  BY DEF IInv, ControlInv, MovementInv, BalanceInv
<1>w. TargetWarehouse(r) \in Warehouses /\ NeededRows(r) \subseteq Warehouses
  BY <1>c, RowsAreWarehouses
<1>1. CASE UpdateBalance(r) /\ ~ WhereHolds(TargetWarehouse(r), OnHandDelta(r),
                                            ReservedDelta(r), AvailableDelta(r))
  <2>1. UNCHANGED <<call, pc, onHand, reserved>>
    BY <1>1 DEF UpdateBalance, EndWith, balances
  <2>2. /\ {q \in Requests : Applied(q)}' = {q \in Requests : Applied(q)}
        /\ {q \in Requests : Arrived(q)}' = {q \in Requests : Arrived(q)}
        /\ [q \in Requests |-> call[q].key]' = [q \in Requests |-> call[q].key]
    BY <2>1 DEF Applied, Arrived
  <2> QED BY <2>1, <2>2 DEF Promise!vars
<1>2. ASSUME NEW w \in Warehouses, NEW stage \in AppliedStages,
             call' = call, pc' = [pc EXCEPT ![r] = stage],
             call[r].op = "transfer" => stage = "dest",
             onHand' = [onHand EXCEPT ![w] = @ + OnHandDelta(r)],
             reserved' = [reserved EXCEPT ![w] = @ + ReservedDelta(r)],
             \/ pc[r] = "update"
             \/ pc[r] = "tx" /\ (call[r].key # NoKey => claim[call[r].key] = NoRequest)
      PROVE  Promise!Next
  <2> DEFINE effect == {q \in Requests : Applied(q)}
             arrived == {q \in Requests : Arrived(q)}
             keyOf == [q \in Requests |-> call[q].key]
  <2>1. r \notin effect /\ \A d \in effect : keyOf[d] = NoKey \/ keyOf[d] # keyOf[r]
    BY <1>2, KeyIsUnspent
  <2>2. \A q \in Requests : (Applied(q)' <=> Applied(q) \/ q = r)
    BY <1>2, <1>c DEF Applied
  <2>3. effect' = effect \cup {r} BY <2>2
  <2>4. \A q \in Requests : (Arrived(q)' <=> Arrived(q))
    BY <1>2, <1>c, <2>1, <2>2 DEF Arrived
  <2>5. arrived' = arrived /\ keyOf' = keyOf BY <2>4, <1>2
  <2>6. \A u \in Warehouses \ {w} : onHand'[u] = onHand[u] /\ reserved'[u] = reserved[u]
    BY <1>2, <1>c
  <2>7. 0 <= reserved'[w] /\ reserved'[w] <= onHand'[w] BY CoveredAfter
  <2>8. \/ reserved'[w] = reserved[w]
        \/ onHand'[w] = onHand[w]
        \/ onHand[w] - onHand'[w] = reserved[w] - reserved'[w] /\ onHand'[w] <= onHand[w]
    <3>1. /\ onHand'[w] = onHand[w] + OnHandDelta(r)
          /\ reserved'[w] = reserved[w] + ReservedDelta(r)
          /\ onHand[w] \in Nat /\ reserved[w] \in Nat /\ amount[r] \in Nat
      BY <1>2, <1>c
    <3>2. \/ ReservedDelta(r) = 0
          \/ OnHandDelta(r) = 0
          \/ OnHandDelta(r) = -amount[r] /\ ReservedDelta(r) = -amount[r]
      BY DEF OnHandDelta, ReservedDelta, PutsIn, TakesOut, Inbound, Outbound
    <3> QED BY <3>1, <3>2
  <2>9. Promise!TakeEffect(r)
    BY <2>1, <2>3, <2>5, <2>6, <2>7, <2>8
       DEF Promise!TakeEffect, Promise!KeyUnspent, Promise!OnlyChanges, Promise!Covered,
           Promise!PutOrTake, Promise!HoldOrFree, Promise!ConsumeHeld
  <2> QED BY <2>9 DEF Promise!Next
<1>3. CASE UpdateBalance(r) /\ WhereHolds(TargetWarehouse(r), OnHandDelta(r),
                                          ReservedDelta(r), AvailableDelta(r))
  <2> DEFINE stage == IF call[r].op = "transfer" THEN "dest"
                      ELSE IF call[r].op = "reverse" THEN "mark" ELSE "syncRead"
  <2>1. /\ pc' = [pc EXCEPT ![r] = stage] /\ call' = call /\ pc[r] = "update"
        /\ onHand' = [onHand EXCEPT ![TargetWarehouse(r)] = @ + OnHandDelta(r)]
        /\ reserved' = [reserved EXCEPT ![TargetWarehouse(r)] = @ + ReservedDelta(r)]
    BY <1>3 DEF UpdateBalance, Increment, At, GoTo
  <2>2. stage \in AppliedStages /\ (call[r].op = "transfer" => stage = "dest")
    BY DEF AppliedStages
  <2> HIDE DEF stage
  <2> QED BY <2>1, <2>2, <1>w, <1>2
<1>4. CASE RunInTransaction(r)
  <2>1. call[r].wh \in Warehouses /\ call[r].op \in {"issue", "returnStock"}
    BY <1>4, <1>c, CallFields DEF RunInTransaction
  <2>2. EnsuredOnHand(r, part) = onHand /\ EnsuredReserved(r, part) = reserved
    BY <1>w, EnsuredRowsUnchanged DEF IInv
  <2>3. ReservedDelta(r) = 0 BY <2>1 DEF ReservedDelta
  <2>4. /\ pc' = [pc EXCEPT ![r] = "end"] /\ call' = call /\ pc[r] = "tx"
        /\ call[r].key # NoKey => claim[call[r].key] = NoRequest
        /\ onHand' = [onHand EXCEPT ![call[r].wh] = @ + OnHandDelta(r)]
        /\ reserved' = reserved
    BY <1>4, <2>2 DEF RunInTransaction, At
  <2>5. reserved' = [reserved EXCEPT ![call[r].wh] = @ + ReservedDelta(r)]
    BY <2>1, <2>3, <2>4, <1>c
  <2>6. "end" \in AppliedStages /\ call[r].op # "transfer" BY <2>1 DEF AppliedStages
  <2> QED BY <2>1, <2>4, <2>5, <2>6, <1>2
<1> QED BY <1>1, <1>3, <1>4

(* The second update of a transfer is its arrival.                         *)
LEMMA CreditArrives ==
  ASSUME IInv, IInv', NEW r \in Requests, CreditDestination(r)
  PROVE  Promise!Next
<1> DEFINE effect == {q \in Requests : Applied(q)}
           arrived == {q \in Requests : Arrived(q)}
           keyOf == [q \in Requests |-> call[q].key]
           w == call[r].dest
<1>1. /\ call \in [Requests -> Inputs] /\ pc \in [Requests -> Stages]
      /\ amount[r] \in Nat
      /\ onHand \in [Warehouses -> Nat] /\ reserved \in [Warehouses -> Nat]
  BY DEF IInv, ControlInv, MovementInv, BalanceInv
<1>2. w \in Warehouses BY <1>1, CallFields
<1>3. /\ pc[r] = "dest" /\ pc' = [pc EXCEPT ![r] = "syncRead"] /\ call' = call
      /\ onHand' = [onHand EXCEPT ![w] = @ + amount[r]]
      /\ reserved' = [reserved EXCEPT ![w] = @ + 0]
  BY DEF CreditDestination, Increment, At, GoTo
<1>4. call[r].op = "transfer" BY <1>3 DEF IInv, ControlInv, StageInv
<1>5. \A q \in Requests : (Applied(q)' <=> Applied(q)) /\ (Arrived(q)' <=> Arrived(q) \/ q = r)
  BY <1>1, <1>3, <1>4 DEF Applied, Arrived, AppliedStages
<1>6. effect' = effect /\ arrived' = arrived \cup {r} /\ keyOf' = keyOf BY <1>3, <1>5
<1>7. r \in effect \ arrived BY <1>3 DEF Applied, Arrived, AppliedStages
<1>8. /\ \A u \in Warehouses \ {w} : onHand'[u] = onHand[u] /\ reserved'[u] = reserved[u]
      /\ reserved'[w] = reserved[w] /\ onHand'[w] >= onHand[w]
  BY <1>1, <1>2, <1>3
<1>9. 0 <= reserved'[w] /\ reserved'[w] <= onHand'[w] BY <1>2, CoveredAfter
<1>10. Promise!Arrive(r)
  BY <1>2, <1>6, <1>7, <1>8, <1>9
     DEF Promise!Arrive, Promise!OnlyChanges, Promise!Covered, Promise!PutOrTake
<1> QED BY <1>10 DEF Promise!Next

(* The engine implements its promise.                                      *)
THEOREM EngineImplementsPromise ==
  ASSUME DefaultWarehouse \in InitialRows
  PROVE  Spec => ImplementsPromise
<1>1. Init => Promise!Init
  <2> SUFFICES ASSUME Init PROVE Promise!Init OBVIOUS
  <2>1. ControlInv BY InitIInv DEF IInv
  <2>2. [r \in Requests |-> call[r].key] \in [Requests -> Keys \cup {NoKey}]
    BY <2>1, CallFields DEF ControlInv
  <2>3. {r \in Requests : Applied(r)} = {} /\ {r \in Requests : Arrived(r)} = {}
    BY DEF Init, Applied, Arrived, AppliedStages
  <2> QED BY <2>2, <2>3 DEF Init, Promise!Init
<1>2. IInv /\ IInv' /\ [Next]_vars => [Promise!Next]_(Promise!vars)
  <2> SUFFICES ASSUME IInv, IInv', [Next]_vars PROVE [Promise!Next]_(Promise!vars) OBVIOUS
  <2>1. ASSUME NEW r \in Requests, Step(r) \/ Abort(r) PROVE [Promise!Next]_(Promise!vars)
    <3>1. SilentStep(r) \/ UpdateBalance(r) \/ RunInTransaction(r) \/ CreditDestination(r)
      BY <2>1 DEF Step, SilentStep
    <3> QED BY <3>1, SilentStutters, UpdateTakesEffect, CreditArrives
  <2>2. CASE UNCHANGED vars
    BY <2>2 DEF vars, balances, Promise!vars, Applied, Arrived
  <2> QED BY <2>1, <2>2 DEF Next, Terminated
<1> QED BY <1>1, <1>2, EngineInvariant, PTL DEF Spec, ImplementsPromise, Promise!Spec
----------------------------------------------------------------------------
(* The accounts: what each call has changed on hand so far, summed over    *)
(* the calls that have changed a balance and will record a movement.       *)

\* Who has ended without an error ended in its place, and the movements on
\* the ledger are those of the calls that are past recording them.
RecordInv ==
  /\ \A r \in Requests : status[r] = "ok" => pc[r] = "end"
  /\ \A r \in Requests : status[r] \in {"replayed", "inProgress"} => pc[r] \in Unclaimed
  /\ \A r \in Requests : pc[r] \in {"move", "movePaired"} => HasMovement(r)
  /\ \A r \in Requests : <<r, "main">> \in ledger => HasMovement(r)
  /\ \A r \in Requests : (<<r, "paired">> \in ledger)
                          <=> (call[r].op = "transfer" /\ pc[r] \in {"commit", "end"})

Effect(r, w) ==
  (IF TargetWarehouse(r) = w THEN OnHandDelta(r) ELSE 0)
  + (IF Arrived(r) /\ call[r].dest = w THEN amount[r] ELSE 0)

\* The movements of these calls, recorded or not, and their effects on w.
Moves == {m \in MovementIds : m[2] = "main" /\ Applied(m[1]) /\ HasMovement(m[1])}
Effects(w) == [m \in MovementIds |-> Effect(m[1], w)]

AccountInv ==
  /\ IsFiniteSet(Moves)
  /\ \A w \in Warehouses : onHand[w] = InitialOnHand[w] + SumOver(Effects(w), Moves)

(* A call that takes a step records no more than its own movements.        *)
LEMMA RecordStep ==
  ASSUME ControlInv, MovementInv, RecordInv, NEW r \in Requests, Step(r) \/ Abort(r)
  PROVE  RecordInv'
<1> USE DEF RecordInv, Stages, Unclaimed, HasMovement, At, GoTo, EndWith, locals,
        balances, movements, claims
<1>c. /\ call \in [Requests -> Inputs] /\ pc \in [Requests -> Stages]
      /\ status \in [Requests -> {"running", "ok", "replayed", "inProgress", "failed"}]
  BY DEF ControlInv
<1>s. pc[r] = "movePaired" => call[r].op = "transfer"
  BY DEF ControlInv, StageInv
<1>1. CASE \/ FindClaim(r) \/ CreateClaim(r) \/ PollResult(r) \/ PollTimeout(r)
           \/ RefuseInTransaction(r) \/ ReadInTransaction(r)
  <2>1. /\ call' = call /\ ledger' = ledger
        /\ \/ /\ pc[r] \in Unclaimed /\ status' = status
              /\ \E s \in {"create", "poll", "tx", "original", "part"} : pc' = [pc EXCEPT ![r] = s]
           \/ /\ pc[r] \in Unclaimed /\ pc' = pc
              /\ \E s \in {"replayed", "failed", "inProgress"} :
                   status' = [status EXCEPT ![r] = s]
    BY <1>1 DEF FindClaim, CreateClaim, PollResult, PollTimeout, RefuseInTransaction,
       ReadInTransaction, Replay, AfterClaim
  <2>2. CASE pc[r] \in Unclaimed /\ status' = status /\
             \E s \in {"create", "poll", "tx", "original", "part"} : pc' = [pc EXCEPT ![r] = s]
    <3>1. pc'[r] \in {"create", "poll", "tx", "original", "part"}
          /\ \A q \in Requests : q # r => pc'[q] = pc[q]
      BY <1>c, <2>2
    <3>2. status[r] \notin {"ok", "replayed", "inProgress"}
      BY <1>1 DEF FindClaim, CreateClaim, PollResult, PollTimeout, RefuseInTransaction,
         ReadInTransaction
    <3> QED BY <1>c, <2>1, <2>2, <3>1, <3>2
  <2>3. CASE pc[r] \in Unclaimed /\ pc' = pc /\
             \E s \in {"replayed", "failed", "inProgress"} : status' = [status EXCEPT ![r] = s]
    BY <1>c, <2>1, <2>3
  <2> QED BY <2>1, <2>2, <2>3
<1>2. CASE \/ ReadOriginal(r) \/ LoadPart(r) \/ EnsureBalances(r) \/ LoadBalance(r)
           \/ UpdateBalance(r) \/ CreditDestination(r) \/ MarkReversed(r)
           \/ ReadBalances(r) \/ Abort(r)
  BY <1>2, <1>c DEF ReadOriginal, LoadPart, EnsureBalances, LoadBalance, UpdateBalance,
     CreditDestination, MarkReversed, ReadBalances, Abort
<1>3. CASE WritePart(r)
  BY <1>3, <1>c DEF WritePart
<1>4. CASE CreateMovement(r)
  BY <1>4, <1>c DEF CreateMovement
<1>5. CASE CreatePairedMovement(r)
  BY <1>5, <1>c, <1>s DEF CreatePairedMovement
<1>6. CASE CommitIdempotency(r)
  BY <1>6, <1>c DEF CommitIdempotency
<1>7. CASE RunInTransaction(r)
  <2>1. call[r].op \in {"issue", "returnStock"}
    BY <1>7, <1>c, CallFields DEF RunInTransaction
  <2>2. /\ ledger' = ledger \cup {<<r, "main">>} /\ call' = call
        /\ pc' = [pc EXCEPT ![r] = "end"] /\ status' = [status EXCEPT ![r] = "ok"]
    BY <1>7 DEF RunInTransaction
  <2> QED BY <1>c, <2>1, <2>2
<1> QED BY <1>1, <1>2, <1>3, <1>4, <1>5, <1>6, <1>7 DEF Step

LEMMA EffectInteger ==
  ASSUME ControlInv, MovementInv, NEW r \in Requests, NEW w
  PROVE  Effect(r, w) \in Int
<1>1. OnHandDelta(r) \in Int /\ amount[r] \in Nat
  BY DeltasAgree DEF ControlInv, MovementInv
<1> QED BY <1>1 DEF Effect

LEMMA EffectsInteger ==
  ControlInv /\ MovementInv => \A r \in Requests : \A w : Effect(r, w) \in Int
BY EffectInteger

LEMMA EffectsIntegerAfter ==
  ASSUME ControlInv', MovementInv'
  PROVE  \A r \in Requests : \A w : Effect(r, w)' \in Int
<1>1. (ControlInv /\ MovementInv => \A r \in Requests : \A w : Effect(r, w) \in Int)'
  BY EffectsInteger, PTL
<1> QED BY <1>1

(* An effect depends on nothing but the quantity of the call and on        *)
(* whether the destination has been credited.                              *)
LEMMA EffectKept ==
  ASSUME NEW r \in Requests, NEW w, call' = call, amount'[r] = amount[r],
         Arrived(r)' <=> Arrived(r)
  PROVE  Effect(r, w)' = Effect(r, w)
<1>1. OnHandDelta(r)' = OnHandDelta(r)
  BY DEF OnHandDelta, PutsIn, TakesOut, isInbound
<1>2. TargetWarehouse(r)' = TargetWarehouse(r)
  BY DEF TargetWarehouse, MovementWarehouse
<1> QED BY <1>1, <1>2 DEF Effect

(* Only the call that takes the step moves on.                             *)
LEMMA OthersWait ==
  ASSUME ControlInv, MovementInv, NEW r \in Requests, Step(r) \/ Abort(r)
  PROVE  /\ call' = call
         /\ \A q \in Requests : q # r => pc'[q] = pc[q] /\ amount'[q] = amount[q]
         /\ pc[r] # "original" => amount'[r] = amount[r]
BY DEF ControlInv, MovementInv, Step, Abort, FindClaim, CreateClaim, PollResult, PollTimeout,
   ReadOriginal, LoadPart, EnsureBalances, LoadBalance, UpdateBalance, CreditDestination,
   MarkReversed, ReadBalances, WritePart, CreateMovement, CreatePairedMovement,
   CommitIdempotency, ReadInTransaction, RunInTransaction, RefuseInTransaction, At, GoTo,
   EndWith, Replay, locals

LEMMA OthersKept ==
  ASSUME ControlInv, MovementInv, NEW r \in Requests, Step(r) \/ Abort(r)
  PROVE  \A m \in MovementIds : m[1] # r =>
           /\ m \in Moves' <=> m \in Moves
           /\ \A w : Effect(m[1], w)' = Effect(m[1], w)
<1> SUFFICES ASSUME NEW m \in MovementIds, m[1] # r
             PROVE  /\ m \in Moves' <=> m \in Moves
                    /\ \A w : Effect(m[1], w)' = Effect(m[1], w)
  OBVIOUS
<1>1. m[1] \in Requests BY DEF MovementIds
<1>2. call' = call /\ pc'[m[1]] = pc[m[1]] /\ amount'[m[1]] = amount[m[1]]
  BY <1>1, OthersWait
<1>3. /\ Applied(m[1])' <=> Applied(m[1])
      /\ Arrived(m[1])' <=> Arrived(m[1])
      /\ HasMovement(m[1])' <=> HasMovement(m[1])
  BY <1>2 DEF Applied, Arrived, HasMovement
<1> QED BY <1>1, <1>2, <1>3, EffectKept DEF Moves

(* The movement of the call that takes the step.                           *)
LEMMA OwnMove ==
  ASSUME NEW r \in Requests
  PROVE  /\ <<r, "main">> \in MovementIds
         /\ <<r, "main">> \in Moves <=> Applied(r) /\ HasMovement(r)
         /\ (<<r, "main">> \in Moves)' <=> (Applied(r) /\ HasMovement(r))'
         /\ \A m \in Moves : m \in MovementIds /\ (m[1] = r => m = <<r, "main">>)
         /\ \A m \in Moves' : m \in MovementIds /\ (m[1] = r => m = <<r, "main">>)
BY DEF Moves, MovementIds

(* The accounts stay as they are,                                          *)
LEMMA AccountSame ==
  ASSUME AccountInv, onHand' = onHand, Moves' = Moves,
         \A m \in Moves : m \in MovementIds /\ \A w : Effect(m[1], w)' = Effect(m[1], w)
  PROVE  AccountInv'
<1>1. ASSUME NEW w \in Warehouses
      PROVE  onHand'[w] = InitialOnHand[w] + SumOver(Effects(w)', Moves')
  <2>1. \A m \in Moves : Effects(w)[m] = Effects(w)'[m]
    BY DEF Effects
  <2>2. SumOver(Effects(w), Moves) = SumOver(Effects(w)', Moves)
    BY <2>1, SumSame DEF AccountInv
  <2> QED BY <2>2 DEF AccountInv
<1> QED BY <1>1 DEF AccountInv

(* or a call changes a balance for the first time,                         *)
LEMMA AccountOpened ==
  ASSUME AccountInv, NEW r \in Requests, <<r, "main">> \notin Moves,
         Moves' = Moves \cup {<<r, "main">>},
         \A m \in Moves : m \in MovementIds /\ \A w : Effect(m[1], w)' = Effect(m[1], w),
         \A m \in Moves' : \A w : Effect(m[1], w)' \in Int,
         onHand \in [Warehouses -> Nat],
         \A w \in Warehouses : onHand'[w] = onHand[w] + Effect(r, w)'
  PROVE  AccountInv'
<1> DEFINE x == <<r, "main">>
<1>0. x \in MovementIds BY DEF MovementIds
<1>1. ASSUME NEW w \in Warehouses
      PROVE  onHand'[w] = InitialOnHand[w] + SumOver(Effects(w)', Moves')
  <2>1. \A m \in Moves : Effects(w)[m] = Effects(w)'[m]
    BY DEF Effects
  <2>2. SumOver(Effects(w), Moves) = SumOver(Effects(w)', Moves)
    BY <2>1, SumSame DEF AccountInv
  <2>3. \A m \in Moves \cup {x} : Effects(w)'[m] \in Int
    <3>1. ASSUME NEW m \in Moves \cup {x}
          PROVE  m \in MovementIds /\ Effect(m[1], w)' \in Int
      <4>1. m \in Moves'
        OBVIOUS
      <4>2. m \in MovementIds
        BY <1>0
      <4> QED BY <4>1, <4>2
    <3> QED BY <3>1 DEF Effects
  <2>4. SumOver(Effects(w)', Moves \cup {x}) = SumOver(Effects(w)', Moves) + Effects(w)'[x]
    BY <2>3, SumAdd DEF AccountInv
  <2>5. Effects(w)'[x] = Effect(r, w)' /\ Effect(r, w)' \in Int
    <3>1. Effects(w)'[x] = Effect(x[1], w)' /\ x[1] = r
      BY <1>0 DEF Effects
    <3>2. Effects(w)'[x] \in Int
      BY <2>3
    <3> QED BY <3>1, <3>2
  <2>6. SumOver(Effects(w)', Moves) \in Int
    BY <2>3, SumInteger DEF AccountInv
  <2>7. onHand[w] = InitialOnHand[w] + SumOver(Effects(w)', Moves)
    BY <2>2 DEF AccountInv
  <2>8. InitialOnHand[w] \in Int BY WarehouseAssumption
  <2> QED BY <2>4, <2>5, <2>6, <2>7, <2>8
<1>2. IsFiniteSet(Moves') BY FS_AddElement DEF AccountInv
<1> QED BY <1>1, <1>2 DEF AccountInv

(* or what it has changed is changed.                                      *)
LEMMA AccountChanged ==
  ASSUME AccountInv, NEW r \in Requests, <<r, "main">> \in Moves, Moves' = Moves,
         \A m \in Moves : m \in MovementIds,
         \A m \in Moves : m # <<r, "main">> => \A w : Effect(m[1], w)' = Effect(m[1], w),
         \A m \in Moves : \A w : Effect(m[1], w) \in Int /\ Effect(m[1], w)' \in Int,
         \A w \in Warehouses : onHand'[w] = onHand[w] + (Effect(r, w)' - Effect(r, w))
  PROVE  AccountInv'
<1> DEFINE x == <<r, "main">>
<1>1. ASSUME NEW w \in Warehouses
      PROVE  onHand'[w] = InitialOnHand[w] + SumOver(Effects(w)', Moves')
  <2>1. \A m \in Moves : m # x => Effects(w)[m] = Effects(w)'[m]
    BY DEF Effects
  <2>2. \A m \in Moves : Effects(w)[m] \in Int /\ Effects(w)'[m] \in Int
    BY DEF Effects
  <2>3. SumOver(Effects(w)', Moves)
          = SumOver(Effects(w), Moves) + (Effects(w)'[x] - Effects(w)[x])
    <3>1. IsFiniteSet(Moves) /\ x \in Moves
      BY DEF AccountInv
    <3> HIDE DEF x
    <3> QED BY <2>1, <2>2, <3>1, SumChange
  <2>4. /\ Effects(w)'[x] = Effect(r, w)' /\ Effects(w)[x] = Effect(r, w)
        /\ Effect(r, w)' \in Int /\ Effect(r, w) \in Int
    BY DEF Effects
  <2>5. SumOver(Effects(w), Moves) \in Int
    BY <2>2, SumInteger DEF AccountInv
  <2>6. onHand[w] = InitialOnHand[w] + SumOver(Effects(w), Moves)
    BY DEF AccountInv
  <2>7. InitialOnHand[w] \in Int BY WarehouseAssumption
  <2> QED BY <2>3, <2>4, <2>5, <2>6, <2>7
<1> QED BY <1>1 DEF AccountInv

(* A call that changes no quantity on hand, and is as far or no further    *)
(* with its changes as before, leaves the accounts as they are.            *)
LEMMA AccountStutter ==
  ASSUME ControlInv, MovementInv, AccountInv, NEW r \in Requests, Step(r) \/ Abort(r),
         onHand' = onHand,
         (Applied(r) /\ HasMovement(r))' <=> (Applied(r) /\ HasMovement(r)),
         Applied(r) => (Arrived(r)' <=> Arrived(r)) /\ pc[r] # "original"
  PROVE  AccountInv'
<1>1. \A m \in MovementIds : m[1] # r =>
        /\ m \in Moves' <=> m \in Moves
        /\ \A w : Effect(m[1], w)' = Effect(m[1], w)
  BY OthersKept
<1>2. <<r, "main">> \in Moves' <=> <<r, "main">> \in Moves
  BY OwnMove
<1>3. \A m \in Moves : m \in MovementIds /\ (m[1] = r => m = <<r, "main">>)
  BY OwnMove
<1>4. \A m \in Moves' : m \in MovementIds /\ (m[1] = r => m = <<r, "main">>)
  BY OwnMove
<1>5. Moves' = Moves
  BY <1>1, <1>2, <1>3, <1>4
<1>6. ASSUME NEW m \in Moves PROVE \A w : Effect(m[1], w)' = Effect(m[1], w)
  <2>1. CASE m[1] # r BY <1>1, <1>3, <2>1
  <2>2. CASE m[1] = r
    <3>1. Applied(r) BY <1>3, <2>2, OwnMove
    <3>2. call' = call /\ amount'[r] = amount[r] BY <3>1, OthersWait
    <3>3. \A w : Effect(r, w)' = Effect(r, w) BY <3>1, <3>2, EffectKept
    <3> QED BY <2>2, <3>3
  <2> QED BY <2>1, <2>2
<1> QED BY <1>3, <1>5, <1>6, AccountSame

(* A call that changes a balance for the first time opens its account.     *)
LEMMA AccountStarts ==
  ASSUME ControlInv, MovementInv, BalanceInv, AccountInv, ControlInv', MovementInv',
         NEW r \in Requests, Step(r) \/ Abort(r),
         ~ Applied(r), Applied(r)', HasMovement(r), ~ Arrived(r)', pc[r] # "original",
         onHand' = [onHand EXCEPT ![TargetWarehouse(r)] = @ + OnHandDelta(r)]
  PROVE  AccountInv'
<1>1. \A m \in MovementIds : m[1] # r =>
        /\ m \in Moves' <=> m \in Moves
        /\ \A w : Effect(m[1], w)' = Effect(m[1], w)
  BY OthersKept
<1>2. call' = call /\ amount'[r] = amount[r]
  BY OthersWait
<1>3. HasMovement(r)' BY <1>2 DEF HasMovement
<1>4. <<r, "main">> \in Moves' /\ <<r, "main">> \notin Moves
  BY <1>3, OwnMove
<1>5. \A m \in Moves : m \in MovementIds /\ (m[1] = r => m = <<r, "main">>)
  BY OwnMove
<1>6. \A m \in Moves' : m \in MovementIds /\ (m[1] = r => m = <<r, "main">>)
  BY OwnMove
<1>7. Moves' = Moves \cup {<<r, "main">>}
  BY <1>1, <1>4, <1>5, <1>6
<1>8. \A m \in Moves : m \in MovementIds /\ \A w : Effect(m[1], w)' = Effect(m[1], w)
  BY <1>1, <1>4, <1>5
<1>9. \A m \in Moves' : \A w : Effect(m[1], w)' \in Int
  <2> SUFFICES ASSUME NEW m \in Moves', NEW w PROVE Effect(m[1], w)' \in Int
    OBVIOUS
  <2>1. m[1] \in Requests BY <1>6 DEF MovementIds
  <2> QED BY <2>1, EffectsIntegerAfter
<1>10. ASSUME NEW w \in Warehouses PROVE onHand'[w] = onHand[w] + Effect(r, w)'
  <2>1. /\ TargetWarehouse(r)' = TargetWarehouse(r)
        /\ OnHandDelta(r)' = OnHandDelta(r)
    BY <1>2 DEF TargetWarehouse, MovementWarehouse, OnHandDelta, PutsIn, TakesOut, isInbound
  <2>2. Effect(r, w)' = IF TargetWarehouse(r) = w THEN OnHandDelta(r) + 0 ELSE 0 + 0
    BY <2>1 DEF Effect
  <2>3. OnHandDelta(r) \in Int /\ TargetWarehouse(r) \in Warehouses
    BY DeltasAgree, RowsAreWarehouses DEF ControlInv, MovementInv
  <2>4. onHand \in [Warehouses -> Nat] BY DEF BalanceInv
  <2> HIDE DEF TargetWarehouse, OnHandDelta
  <2> QED BY <2>2, <2>3, <2>4
<1>11. onHand \in [Warehouses -> Nat] BY DEF BalanceInv
<1> QED BY <1>4, <1>7, <1>8, <1>9, <1>10, <1>11, AccountOpened

LEMMA AccountStep ==
  ASSUME ControlInv, MovementInv, BalanceInv, AccountInv, ControlInv', MovementInv',
         NEW r \in Requests, Step(r) \/ Abort(r)
  PROVE  AccountInv'
<1>c. /\ call \in [Requests -> Inputs] /\ pc \in [Requests -> Stages]
      /\ amount \in [Requests -> Nat] /\ onHand \in [Warehouses -> Nat]
  BY DEF ControlInv, MovementInv, BalanceInv
<1>t. TargetWarehouse(r) \in Warehouses /\ NeededRows(r) \subseteq Warehouses
  BY <1>c, RowsAreWarehouses
<1>k. call' = call BY OthersWait
<1>m. HasMovement(r)' <=> HasMovement(r) BY <1>k DEF HasMovement
<1> USE DEF At, GoTo, EndWith
<1>1. CASE \/ FindClaim(r) \/ CreateClaim(r) \/ PollResult(r) \/ PollTimeout(r)
           \/ ReadOriginal(r) \/ LoadPart(r) \/ LoadBalance(r)
           \/ ReadInTransaction(r) \/ RefuseInTransaction(r) \/ EnsureBalances(r)
  <2>1. onHand' = onHand
    <3>1. CASE EnsureBalances(r)
      BY <1>t, <3>1, EnsuredRowsUnchanged DEF EnsureBalances
    <3>2. CASE ~ EnsureBalances(r)
      BY <1>1, <3>2 DEF FindClaim, CreateClaim, PollResult, PollTimeout, ReadOriginal,
         LoadPart, LoadBalance, ReadInTransaction, RefuseInTransaction, balances
    <3> QED BY <3>1, <3>2
  <2>2. /\ pc[r] \in {"start", "create", "poll", "original", "part", "load", "tx", "ensure"}
        /\ pc'[r] \in {"start", "create", "poll", "original", "part", "load", "tx", "ensure",
                       "update"}
    BY <1>1, <1>c DEF FindClaim, CreateClaim, PollResult, PollTimeout, ReadOriginal,
       LoadPart, LoadBalance, ReadInTransaction, RefuseInTransaction, EnsureBalances,
       Replay, AfterClaim
  <2>3. ~ Applied(r) /\ ~ Applied(r)' BY <2>2 DEF Applied, AppliedStages
  <2> QED BY <2>1, <2>3, AccountStutter
<1>2. CASE Abort(r)
  <2>1. onHand' = onHand /\ pc' = pc BY <1>2 DEF Abort, balances
  <2>2. (Applied(r)' <=> Applied(r)) /\ (Arrived(r)' <=> Arrived(r))
    BY <1>k, <2>1 DEF Applied, Arrived
  <2>3. Applied(r) => pc[r] # "original" BY DEF Applied, AppliedStages
  <2> QED BY <1>m, <2>1, <2>2, <2>3, AccountStutter
<1>3. CASE \/ MarkReversed(r) \/ ReadBalances(r) \/ WritePart(r) \/ CreateMovement(r)
           \/ CreatePairedMovement(r) \/ CommitIdempotency(r)
  <2>1. onHand' = onHand
    BY <1>3 DEF MarkReversed, ReadBalances, WritePart, CreateMovement, CreatePairedMovement,
       CommitIdempotency, balances
  <2>2. /\ pc[r] \in AppliedStages \ {"dest"} /\ pc'[r] \in AppliedStages \ {"dest"}
        /\ pc[r] # "original"
    BY <1>3, <1>c DEF MarkReversed, ReadBalances, WritePart, CreateMovement,
       CreatePairedMovement, CommitIdempotency, AppliedStages
  <2>3. /\ Applied(r) /\ Applied(r)'
        /\ Arrived(r)' <=> Arrived(r)
    BY <1>k, <2>2 DEF Applied, Arrived
  <2> QED BY <1>m, <2>1, <2>2, <2>3, AccountStutter
<1>4. CASE UpdateBalance(r)
  <2>1. pc[r] = "update" /\ ~ Applied(r) BY <1>4 DEF UpdateBalance, Applied, AppliedStages
  <2>2. CASE ~ WhereHolds(TargetWarehouse(r), OnHandDelta(r), ReservedDelta(r), AvailableDelta(r))
    <3>1. onHand' = onHand /\ pc' = pc BY <1>4, <2>2 DEF UpdateBalance, balances
    <3>2. ~ Applied(r)' BY <2>1, <3>1 DEF Applied
    <3> QED BY <2>1, <3>1, <3>2, AccountStutter
  <2>3. CASE WhereHolds(TargetWarehouse(r), OnHandDelta(r), ReservedDelta(r), AvailableDelta(r))
    <3>1. /\ onHand' = [onHand EXCEPT ![TargetWarehouse(r)] = @ + OnHandDelta(r)]
          /\ pc' = [pc EXCEPT ![r] = IF call[r].op = "transfer" THEN "dest"
                                     ELSE IF call[r].op = "reverse" THEN "mark"
                                     ELSE "syncRead"]
      BY <1>4, <2>3 DEF UpdateBalance, Increment
    <3>2. Applied(r)' /\ ~ Arrived(r)'
      BY <1>c, <1>k, <3>1 DEF Applied, Arrived, AppliedStages
    <3>3. CASE HasMovement(r) BY <2>1, <3>1, <3>2, <3>3, AccountStarts
    <3>4. CASE ~ HasMovement(r)
      <4>1. OnHandDelta(r) = 0
        BY <3>4 DEF HasMovement, OnHandDelta, PutsIn, TakesOut, Inbound, Outbound
      <4>2. onHand' = onHand
        <5>1. onHand[TargetWarehouse(r)] + 0 = onHand[TargetWarehouse(r)] BY <1>c, <1>t
        <5> QED BY <1>c, <3>1, <4>1, <5>1
      <4> QED BY <1>m, <2>1, <3>4, <4>2, AccountStutter
    <3> QED BY <3>3, <3>4
  <2> QED BY <2>2, <2>3
<1>5. CASE RunInTransaction(r)
  <2>1. call[r].op \in {"issue", "returnStock"} /\ pc[r] = "tx"
    BY <1>5, <1>c, CallFields DEF RunInTransaction
  <2>2. TargetWarehouse(r) = call[r].wh /\ HasMovement(r)
    BY <2>1 DEF TargetWarehouse, HasMovement
  <2>3. EnsuredOnHand(r, part) = onHand BY <1>t, EnsuredRowsUnchanged
  <2>4. /\ onHand' = [onHand EXCEPT ![TargetWarehouse(r)] = @ + OnHandDelta(r)]
        /\ pc' = [pc EXCEPT ![r] = "end"]
    BY <1>5, <2>2, <2>3 DEF RunInTransaction
  <2>5. ~ Applied(r) /\ Applied(r)' /\ ~ Arrived(r)'
    BY <1>c, <1>k, <2>1, <2>4 DEF Applied, Arrived, AppliedStages
  <2> QED BY <2>1, <2>2, <2>4, <2>5, AccountStarts
<1>6. CASE CreditDestination(r)
  <2>1. /\ pc[r] = "dest" /\ pc' = [pc EXCEPT ![r] = "syncRead"]
        /\ onHand' = [onHand EXCEPT ![call[r].dest] = @ + amount[r]]
    BY <1>6 DEF CreditDestination, Increment
  <2>2. call[r].op = "transfer" BY <2>1 DEF ControlInv, StageInv
  <2>3. HasMovement(r) BY <2>2 DEF HasMovement
  <2>4. Applied(r) /\ Applied(r)' /\ ~ Arrived(r) /\ Arrived(r)'
    BY <1>c, <1>k, <2>1, <2>2 DEF Applied, Arrived, AppliedStages
  <2>5. \A m \in MovementIds : m[1] # r =>
          /\ m \in Moves' <=> m \in Moves
          /\ \A w : Effect(m[1], w)' = Effect(m[1], w)
    BY OthersKept
  <2>6. <<r, "main">> \in Moves /\ <<r, "main">> \in Moves'
    BY <1>m, <2>3, <2>4, OwnMove
  <2>7. \A m \in Moves : m \in MovementIds /\ (m[1] = r => m = <<r, "main">>)
    BY OwnMove
  <2>8. \A m \in Moves' : m \in MovementIds /\ (m[1] = r => m = <<r, "main">>)
    BY OwnMove
  <2>m. <<r, "main">> \in Moves' <=> <<r, "main">> \in Moves
    BY <2>6
  <2>9. Moves' = Moves BY <2>5, <2>m, <2>7, <2>8
  <2>10. \A m \in Moves : m # <<r, "main">> => \A w : Effect(m[1], w)' = Effect(m[1], w)
    BY <2>5, <2>7
  <2>11. ASSUME NEW m \in Moves, NEW w PROVE Effect(m[1], w) \in Int /\ Effect(m[1], w)' \in Int
    <3>1. m[1] \in Requests BY <2>7 DEF MovementIds
    <3>2. \A q \in Requests : Effect(q, w) \in Int BY EffectInteger
    <3> QED BY <3>1, <3>2, EffectsIntegerAfter
  <2>12. ASSUME NEW w \in Warehouses
         PROVE  onHand'[w] = onHand[w] + (Effect(r, w)' - Effect(r, w))
    <3>1. amount'[r] = amount[r] BY <2>1, OthersWait
    <3>2. /\ TargetWarehouse(r)' = TargetWarehouse(r)
          /\ OnHandDelta(r)' = OnHandDelta(r)
      BY <1>k, <3>1 DEF TargetWarehouse, MovementWarehouse, OnHandDelta, PutsIn, TakesOut,
         isInbound
    <3> DEFINE d == IF TargetWarehouse(r) = w THEN OnHandDelta(r) ELSE 0
    <3>3. /\ Effect(r, w) = d + 0
          /\ Effect(r, w)' = d + (IF call[r].dest = w THEN amount[r] ELSE 0)
      BY <1>k, <2>4, <3>1, <3>2 DEF Effect
    <3>4. d \in Int /\ amount[r] \in Int /\ call[r].dest \in Warehouses /\ onHand[w] \in Int
      BY <1>c, DeltasAgree, CallFields
    <3> HIDE DEF d
    <3>5. onHand'[w] = onHand[w] + (IF call[r].dest = w THEN amount[r] ELSE 0)
      BY <1>c, <2>1, <3>4
    <3> QED BY <3>3, <3>4, <3>5
  <2> QED BY <2>6, <2>7, <2>9, <2>10, <2>11, <2>12, AccountChanged
<1> QED BY <1>1, <1>2, <1>3, <1>4, <1>5, <1>6 DEF Step

(* No call has changed a balance at the start.                             *)
LEMMA AccountInit ==
  ASSUME Init
  PROVE  RecordInv /\ AccountInv
<1>1. RecordInv
  BY DEF Init, RecordInv, Unclaimed
<1>2. Moves = {}
  BY DEF Init, Moves, MovementIds, Applied, AppliedStages
<1>3. IsFiniteSet(Moves)
  BY <1>2, FS_EmptySet
<1>4. ASSUME NEW w \in Warehouses
      PROVE  onHand[w] = InitialOnHand[w] + SumOver(Effects(w), Moves)
  <2>1. SumOver(Effects(w), Moves) = 0
    BY <1>2, SumEmpty
  <2>2. onHand[w] = InitialOnHand[w] /\ InitialOnHand[w] \in Nat
    BY WarehouseAssumption DEF Init
  <2> QED BY <2>1, <2>2
<1> QED BY <1>1, <1>3, <1>4 DEF AccountInv

LEMMA AccountNext ==
  ASSUME IInv, IInv', RecordInv, AccountInv, [Next]_vars
  PROVE  RecordInv' /\ AccountInv'
<1>1. ASSUME NEW r \in Requests, Step(r) \/ Abort(r) PROVE RecordInv' /\ AccountInv'
  BY <1>1, RecordStep, AccountStep DEF IInv
<1>2. CASE UNCHANGED vars
  <2>1. /\ call' = call /\ pc' = pc /\ status' = status /\ amount' = amount
        /\ ledger' = ledger /\ onHand' = onHand
    BY <1>2 DEF vars, locals, balances, movements
  <2>2. RecordInv'
    BY <2>1 DEF RecordInv, HasMovement
  <2>3. Moves' = Moves
    BY <2>1 DEF Moves, Applied, HasMovement
  <2>4. \A m \in Moves : m \in MovementIds /\ \A w : Effect(m[1], w)' = Effect(m[1], w)
    <3>1. \A m \in Moves : m \in MovementIds /\ m[1] \in Requests
      BY DEF Moves, MovementIds
    <3>2. \A r \in Requests : Arrived(r)' <=> Arrived(r)
      BY <2>1 DEF Arrived, Applied
    <3> QED BY <2>1, <3>1, <3>2, EffectKept
  <2> QED BY <2>1, <2>2, <2>3, <2>4, AccountSame
<1> QED BY <1>1, <1>2 DEF Next, Terminated

(* When every call has ended and none was cut off, what is on the ledger   *)
(* is what the accounts hold.                                              *)
LEMMA AccountsSettled ==
  ASSUME IInv, RecordInv, AccountInv
  PROVE  LedgerExplainsStock
<1> SUFFICES ASSUME \A r \in Requests : status[r] # "running" /\ ~ CutOff(r),
                    NEW w \in Warehouses
             PROVE  onHand[w] = InitialOnHand[w]
                      + MapThenSumSet(LAMBDA m : LedgerEffect(m[1], w),
                                      {m \in ledger : m[2] = "main"})
  BY DEF LedgerExplainsStock
<1>c. /\ call \in [Requests -> Inputs] /\ ledger \subseteq MovementIds
      /\ status \in [Requests -> {"running", "ok", "replayed", "inProgress", "failed"}]
  BY DEF IInv, ControlInv, MovementInv
<1>1. \A r \in Requests : Applied(r) => pc[r] = "end"
  <2>1. \A r \in Requests : Applied(r) => status[r] = "ok"
    BY <1>c DEF CutOff, RecordInv, Applied, AppliedStages, Unclaimed
  <2> QED BY <2>1 DEF RecordInv
<1>2. \A m \in Moves : /\ m \in ledger /\ m[2] = "main" /\ m[1] \in Requests
                       /\ pc[m[1]] = "end" /\ m = <<m[1], "main">>
  <2> TAKE m \in Moves
  <2>1. /\ m[1] \in Requests /\ m[2] = "main" /\ m = <<m[1], "main">>
        /\ Applied(m[1]) /\ HasMovement(m[1])
    BY DEF Moves, MovementIds
  <2>2. pc[m[1]] = "end" BY <1>1, <2>1
  <2>3. <<m[1], "main">> \in ledger
    BY <2>1, <2>2 DEF IInv, MovementInv, LedgerInv, Unrecorded
  <2> QED BY <2>1, <2>2, <2>3
<1>3. \A m \in ledger : m[2] = "main" => m \in Moves
  <2> SUFFICES ASSUME NEW m \in ledger, m[2] = "main" PROVE m \in Moves
    OBVIOUS
  <2>1. m \in MovementIds /\ m[1] \in Requests /\ m = <<m[1], "main">>
    BY <1>c DEF MovementIds
  <2>2. pc[m[1]] \in {"movePaired", "commit", "end"}
    BY DEF IInv, MovementInv, LedgerInv
  <2>3. Applied(m[1]) BY <2>2 DEF Applied, AppliedStages
  <2>4. HasMovement(m[1]) BY <2>1 DEF RecordInv
  <2> QED BY <2>1, <2>3, <2>4 DEF Moves
<1>4. {m \in ledger : m[2] = "main"} = Moves
  BY <1>2, <1>3
<1>5. \A m \in Moves : LedgerEffect(m[1], w) = Effects(w)[m]
  <2> TAKE m \in Moves
  <2>1. /\ m \in MovementIds /\ m[1] \in Requests /\ m = <<m[1], "main">> /\ m \in ledger
        /\ pc[m[1]] = "end"
    BY <1>2 DEF Moves
  <2>2. <<m[1], "paired">> \in ledger <=> Arrived(m[1])
    BY <2>1 DEF RecordInv, Arrived, Applied, AppliedStages
  <2>3. LedgerEffect(m[1], w) = Effect(m[1], w)
    <3>1. <<m[1], "main">> \in ledger BY <2>1
    <3> QED BY <2>2, <3>1 DEF LedgerEffect, Effect
  <2> QED BY <2>1, <2>3 DEF Effects
<1> DEFINE g == [m \in Moves |-> LedgerEffect(m[1], w)]
<1>6. MapThenSumSet(LAMBDA m : LedgerEffect(m[1], w), Moves) = SumOver(g, Moves)
  BY DEF SumOver, MapThenSumSet, MapThenFoldSet
<1>7. SumOver(g, Moves) = SumOver(Effects(w), Moves)
  <2>1. \A m \in Moves : g[m] = Effects(w)[m]
    BY <1>5
  <2> HIDE DEF g
  <2> QED BY <2>1, SumSame DEF AccountInv
<1> QED BY <1>4, <1>6, <1>7 DEF AccountInv

(* At every moment, calls under way and calls cut off half way included,   *)
(* on hand is what there was at the start and what each call has changed:  *)
(* no unit is lost between conditionalBalanceUpdate statements that race.  *)
THEOREM AccountsHold ==
  ASSUME DefaultWarehouse \in InitialRows
  PROVE  Spec => [](RecordInv /\ AccountInv)
<1>1. Init => RecordInv /\ AccountInv BY AccountInit
<1>2. IInv /\ IInv' /\ RecordInv /\ AccountInv /\ [Next]_vars => RecordInv' /\ AccountInv'
  BY AccountNext
<1> QED BY <1>1, <1>2, EngineInvariant, PTL DEF Spec

(* Every unit on hand is explained by a movement on the ledger once the    *)
(* calls have ended and none of them was cut off half way, whatever the    *)
(* calls, their order and the number of warehouses (createMovement).       *)
THEOREM LedgerComplete ==
  ASSUME DefaultWarehouse \in InitialRows
  PROVE  Spec => []LedgerExplainsStock
<1>1. IInv /\ RecordInv /\ AccountInv => LedgerExplainsStock BY AccountsSettled
<1> QED BY <1>1, EngineInvariant, AccountsHold, PTL
=============================================================================
