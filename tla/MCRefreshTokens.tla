-------------------------- MODULE MCRefreshTokens --------------------------
EXTENDS RefreshTokens, TLC

Symmetry == Permutations(Calls)
============================================================================
