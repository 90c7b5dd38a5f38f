SPECIFICATION FairSpec
CONSTANTS
  c0 = c0
  c1 = c1
  c2 = c2
  c3 = c3
  w1 = w1
  NoCall = NoCall
  Calls = {c0, c1, c2, c3}
  Creator = c0
  Inputs <- DecideAndIssue
  Requested = 2
  RequiresFinance = FALSE
  AutoApprove = FALSE
  Warehouses = {w1}
  InitialStock <- FullStock
PROPERTIES IssueNeedsApproval
