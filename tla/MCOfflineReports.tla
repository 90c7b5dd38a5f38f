------------------------- MODULE MCOfflineReports -------------------------
EXTENDS OfflineReports, TLC

Symmetry == Permutations(Tabs) \cup Permutations(Calls) \cup Permutations(Reports)
=============================================================================
