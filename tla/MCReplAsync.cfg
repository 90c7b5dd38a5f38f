SPECIFICATION Spec
CONSTANTS
  r1 = r1
  r2 = r2
  i1 = i1
  p1 = p1
  p2 = p2
  Seed = Seed
  NoRow = NoRow
  NoPayload = NoPayload
  NoEvent = NoEvent
  Requests = {r1, r2}
  Ids = {i1}
  Users = {}
  Processes = {p1, p2}
  Inputs <- DeletingWrites
  InitialIds = {i1}
  Strict = FALSE
  BackupRequired = TRUE
  RetryAttempts = 2
  BatchSize = 2
  PrefetchLimit = 1
  MaxFailures = 2
  MaxCrashes = 1
SYMMETRY Interchangeable
CHECK_DEADLOCK FALSE
INVARIANTS TypeOK SyncedWasApplied DeadLetterEarned RedeliveryNeverFails
