SPECIFICATION Spec
CONSTANTS
  r1 = r1
  r2 = r2
  i1 = i1
  u1 = u1
  p1 = p1
  Seed = Seed
  NoRow = NoRow
  NoPayload = NoPayload
  NoEvent = NoEvent
  Requests = {r1, r2}
  Ids = {i1, u1}
  Users = {u1}
  Processes = {p1}
  Inputs <- AnyWrite
  InitialIds = {i1, u1}
  Strict = TRUE
  BackupRequired = TRUE
  RetryAttempts = 2
  BatchSize = 1
  PrefetchLimit = 1
  MaxFailures = 0
  MaxCrashes = 0
SYMMETRY Interchangeable
CHECK_DEADLOCK FALSE
INVARIANTS StrictSuccessIsCopied
