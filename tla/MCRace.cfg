CONSTANTS
  Calls = {c1, c2, c3}
  Grace = 1
  Lifetime = 3
  MaxVersion = 0
  MaxClock = 2
SPECIFICATION Spec
CHECK_DEADLOCK FALSE
PROPERTY RaceIsNotTheft
