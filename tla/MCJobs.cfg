SPECIFICATION Spec
CONSTANTS
  NoOrder = NoOrder
  Calls = {c1, c2}
  WorkOrders = {w1}
  Moves <- WorkMoves
  Keys = {"default"}
  SendsVersion = TRUE
SYMMETRY Interchangeable
CHECK_DEADLOCK FALSE
INVARIANTS TypeOK ReworkIsDone
