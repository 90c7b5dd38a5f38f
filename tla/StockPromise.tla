---------------------------- MODULE StockPromise ----------------------------
(***************************************************************************)
(* What the stock engine promises its callers, without its statements: a   *)
(* call takes effect at most once and at most one call per idempotency key *)
(* does; it changes one warehouse at a time, by putting stock in, taking   *)
(* it out, holding, freeing or consuming a reservation; and a reservation  *)
(* is always covered by the stock on hand.                                 *)
(***************************************************************************)
EXTENDS Integers

CONSTANTS Calls, Warehouses, Opening, Keys, NoKey

VARIABLES
  hand, held,   \* on hand and reserved in each warehouse
  keyOf,        \* the key each call is made with
  effect,       \* calls that changed stock
  arrived       \* transfers whose second half was applied

vars == <<hand, held, keyOf, effect, arrived>>

Init ==
  /\ hand = Opening
  /\ held = [w \in Warehouses |-> 0]
  /\ keyOf \in [Calls -> Keys \cup {NoKey}]
  /\ effect = {}
  /\ arrived = {}

OnlyChanges(w) ==
  \A u \in Warehouses \ {w} : hand'[u] = hand[u] /\ held'[u] = held[u]

Covered(w) == 0 <= held'[w] /\ held'[w] <= hand'[w]

PutOrTake(w) == held'[w] = held[w]
HoldOrFree(w) == hand'[w] = hand[w]
ConsumeHeld(w) == hand[w] - hand'[w] = held[w] - held'[w] /\ hand'[w] <= hand[w]

KeyUnspent(c) == \A d \in effect : keyOf[d] = NoKey \/ keyOf[d] # keyOf[c]

TakeEffect(c) ==
  /\ c \notin effect
  /\ KeyUnspent(c)
  /\ \E w \in Warehouses :
       /\ OnlyChanges(w)
       /\ Covered(w)
       /\ PutOrTake(w) \/ HoldOrFree(w) \/ ConsumeHeld(w)
  /\ effect' = effect \cup {c}
  /\ UNCHANGED <<keyOf, arrived>>

Arrive(c) ==
  /\ c \in effect \ arrived
  /\ \E w \in Warehouses :
       OnlyChanges(w) /\ Covered(w) /\ PutOrTake(w) /\ hand'[w] >= hand[w]
  /\ arrived' = arrived \cup {c}
  /\ UNCHANGED <<keyOf, effect>>

Next == \E c \in Calls : TakeEffect(c) \/ Arrive(c)

Spec == Init /\ [][Next]_vars
=============================================================================
