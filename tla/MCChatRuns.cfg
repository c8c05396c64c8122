SPECIFICATION MCSpec
CONSTANTS
  t1 = t1
  t2 = t2
  ta = ta
  tb = tb
  tc = tc
  Turns = {t1, t2}
  MaxSettings = 1
  MaxFaults = 1
  None = None
  Deleted = Deleted
  Threads = {ta, tb, tc}
  Known = {ta, tb}
  NoThread = NoThread
  NoLoad = NoLoad
  MaxEvents = 2
  MaxActs = 3
  MaxLosses = 1
CHECK_DEADLOCK FALSE
INVARIANTS RowsAgree NothingLeftBehind ViewFollows
PROPERTIES FinishedOnce InterruptSettles
