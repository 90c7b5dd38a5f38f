SPECIFICATION Spec
CONSTANTS
  c0 = c0
  c1 = c1
  c2 = c2
  c3 = c3
  c4 = c4
  w1 = w1
  NoCall = NoCall
  Calls = {c0, c1, c2, c3, c4}
  Creator = c0
  Inputs <- Returns
  Requested = 2
  RequiresFinance = FALSE
  AutoApprove = TRUE
  Warehouses = {w1}
  InitialStock <- FullStock
SYMMETRY Interchangeable
INVARIANTS OnlyGoodPartsRestocked
