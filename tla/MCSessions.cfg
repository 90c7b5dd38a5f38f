CONSTANTS
  Calls = {c1, c2, c3}
  Grace = 1
  Lifetime = 2
  MaxVersion = 1
  MaxClock = 3
SPECIFICATION Spec
SYMMETRY Symmetry
CHECK_DEADLOCK FALSE
INVARIANTS
  TypeOK
  OneLiveTokenPerFamily
  FamilyKeepsVersion
  EndedSessionStaysEnded
  RotationsFormAChain
