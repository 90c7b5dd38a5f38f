--------------------------- MODULE MCJobLifecycle ---------------------------
(* Small instances of JobLifecycle for TLC.                                *)
EXTENDS JobLifecycle, TLC

\* The whole life of a work order; the request takes the shortest way to it.
WorkMoves ==
  OrderMoves \cup RuleMoves \cup {EditMove, <<"approve", "APPROVED">>, ConvertMove}

\* The whole life of the request; work orders are planned, assigned, started
\* and given up in every way.
RequestLife ==
  RequestMoves \cup {ConvertMove} \cup
  {<<"planWork", "PLANNED">>, <<"assign", "ASSIGNED">>, <<"remove", "CANCELLED">>,
   <<"updateStatus", "CANCELLED">>,
   <<"approveWorkOrder", "none">>, <<"rejectWorkOrder", "CANCELLED">>}

Interchangeable == Permutations(Calls) \cup Permutations(WorkOrders)
=============================================================================
