SPECIFICATION Spec
CONSTANTS
  Reports = {r1}
  Users = {ann}
  Tabs = {t1, t2}
  Calls = {c1, c2}
  NoUser = NoUser
  NoReport = NoReport
  GiveUp = 2
  Attempts = 2
  PadLimit = 9
  Earlier = 1
  MaxOthers = 2
  MaxOutages = 1
  MaxFaults = 2
INVARIANT LeftoverIsRetried
