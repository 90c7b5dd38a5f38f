---------------------------- MODULE MCErpImport ----------------------------
(* Small instances of ErpImport for TLC: two processes with two calls each, *)
(* one part that the workbook raises and the ERP feed lowers.              *)
EXTENDS ErpImport, TLC
CONSTANTS c1, c2, c3, c4, host1, host2, bolt

OnTwoProcesses == c1 :> host1 @@ c2 :> host1 @@ c3 :> host2 @@ c4 :> host2
One == bolt :> 1
Two == bolt :> 2
Zero == bolt :> 0

\* Calls of one process are alike.
SameProcess ==
  {f \in Permutations(Calls) : \A c \in Calls : host[f[c]] = host[c]}
============================================================================
