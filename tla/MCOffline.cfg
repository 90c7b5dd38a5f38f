SPECIFICATION FairSpec
CONSTANTS
  Reports = {r1}
  Users = {ann}
  Tabs = {t1, t2}
  Calls = {c1, c2}
  NoUser = NoUser
  NoReport = NoReport
  GiveUp = 2
  Attempts = 2
  PadLimit = 3
  Earlier = 1
  MaxOthers = 3
  MaxOutages = 1
  MaxFaults = 2
INVARIANTS TypeOK OneRequestPerReport SentIsTrue GivenUpWasRefused
PROPERTY ReplayIsNotForgotten
