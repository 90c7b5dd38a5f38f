SPECIFICATION Spec
CONSTANTS
  NoOrder = NoOrder
  Calls = {c1, c2}
  WorkOrders = {w1, w2}
  Moves <- RequestLife
  Keys = {"default", "custom"}
  SendsVersion = TRUE
SYMMETRY Interchangeable
CHECK_DEADLOCK FALSE
INVARIANTS ConvertedIffLinked OneJobPerIssue
PROPERTY EndedRequestStaysEnded
