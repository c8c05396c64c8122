\* A package edit wakes an entry that is being launched.
\* close() without a restart ends the system.
SPECIFICATION CoordinatorSpec
CONSTANTS
  t1 = t1
  t2 = t2
  Nil = Nil
  Tasks = {t1, t2}
  Automatic = {}
  Triggers = {"manual"}
  MoveTargets = {}
  Limit = 1
  MaxLaunchRetries = 0
  Calls <- ThreeIds
  Entries <- TwoIds
  LeaseIds <- SixIds
  MaxRestarts = 0
  WakeMidway = TRUE
  ArchiveMidway = FALSE
  StartsMayFail = FALSE
INVARIANTS SerializedPerPackage
CHECK_DEADLOCK FALSE
