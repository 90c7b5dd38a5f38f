SPECIFICATION Spec
CONSTANTS
  c0 = c0
  c1 = c1
  c2 = c2
  c3 = c3
  w1 = w1
  w2 = w2
  NoCall = NoCall
  Calls = {c0, c1, c2, c3}
  Creator = c0
  Inputs <- IssueFromStores
  Requested = 2
  RequiresFinance = FALSE
  AutoApprove = TRUE
  Warehouses = {w1, w2}
  InitialStock <- UnevenStock
SYMMETRY Interchangeable
INVARIANTS IssuedWithinRequested
