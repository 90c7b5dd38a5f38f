SPECIFICATION FairSpec
CONSTANTS
  Reports = {r1, r2}
  Users = {ann}
  Tabs = {t1}
  Calls = {c1, c2}
  NoUser = NoUser
  NoReport = NoReport
  GiveUp = 2
  Attempts = 2
  PadLimit = 9
  Earlier = 1
  MaxOthers = 0
  MaxOutages = 2
  MaxFaults = 0
PROPERTY EveryReportSettles
