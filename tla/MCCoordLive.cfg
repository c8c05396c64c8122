\* An automatic task and one that users start compete for the slot of the package,
\* with delays, failures, retries of both kinds, edits and archiving.
\* The system may come to rest: all runs have ended.
SPECIFICATION LiveSpec
CONSTANTS
  t1 = t1
  t2 = t2
  Nil = Nil
  Tasks = {t1, t2}
  Automatic = {t1}
  Triggers = {"manual"}
  MoveTargets = {}
  Limit = 1
  MaxLaunchRetries = 1
  Calls <- TwoIds
  Entries <- TwoIds
  LeaseIds <- SixIds
  MaxRestarts = 0
  WakeMidway = FALSE
  ArchiveMidway = FALSE
  StartsMayFail = TRUE
PROPERTIES ReservationsSettle
CHECK_DEADLOCK FALSE
