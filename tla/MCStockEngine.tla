--------------------------- MODULE MCStockEngine ---------------------------
(* Small instances of StockEngine for TLC.                                 *)
EXTENDS StockEngine, TLC

CONSTANTS r1, r2, r3, main, other, k1

Call(op, qty, wh, key) ==
  [op |-> op, qty |-> qty, wh |-> wh, dest |-> wh, key |-> key,
   target |-> <<r1, "main">>, tx |-> FALSE]
InTx(c) == [c EXCEPT !.tx = TRUE]

\* Stock of two units in the default warehouse; the other has no row yet.
OnHandAtMain == [w \in Warehouses |-> IF w = main THEN 2 ELSE 0]

\* One key, retried, raced and reused for another payload.
KeyedInputs ==
  {Call("receive", 1, main, k1), Call("receive", 2, main, k1),
   Call("reserve", 1, main, k1),
   InTx(Call("issue", 2, main, k1)), InTx(Call("returnStock", 1, other, k1))}

\* The remaining operations, and a transfer to where the stock is.
AndAdjustments ==
  {Call("adjustIn", 1, main, k1), Call("adjustOut", 2, main, NoKey),
   Call("transfer", 1, main, NoKey)}
EndingInputs == KeyedInputs \cup AndAdjustments

\* Every kind of effect: a key shared by different payloads, calls that
\* compete for the same two units, transfers, and reversals of what r1 records.
AllInputs ==
  {Call("receive", 1, other, k1), Call("receive", 2, other, k1),
   InTx(Call("issue", 2, main, k1)), Call("issue", 1, main, NoKey),
   Call("reserve", 1, main, NoKey), Call("releaseReservation", 1, main, NoKey),
   Call("issueReserved", 1, main, NoKey),
   [Call("transfer", 1, main, NoKey) EXCEPT !.dest = other],
   [Call("reverse", 0, main, NoKey) EXCEPT !.target = <<r1, "main">>],
   [Call("reverse", 1, main, NoKey) EXCEPT !.target = <<r1, "paired">>]}

\* r1 is the movement that is reversed; the other calls are interchangeable.
Interchangeable == Permutations(Requests \ {r1})
=============================================================================
