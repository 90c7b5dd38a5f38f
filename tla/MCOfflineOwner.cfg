SPECIFICATION Spec
CONSTANTS
  Reports = {r1, r2}
  Users = {ann, bob}
  Tabs = {t1, t2}
  Calls = {c1, c2}
  NoUser = NoUser
  NoReport = NoReport
  GiveUp = 2
  Attempts = 2
  PadLimit = 9
  Earlier = 1
  MaxOthers = 0
  MaxOutages = 1
  MaxFaults = 2
INVARIANT SentByOwner
