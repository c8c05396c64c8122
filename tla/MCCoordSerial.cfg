\* Two automatic tasks of a serial package, which users also start, and a restart.
\* Edits of the package and archiving wait while a start is under way.
\* close() without a restart ends the system.
SPECIFICATION CoordinatorSpec
CONSTANTS
  t1 = t1
  t2 = t2
  Nil = Nil
  Tasks = {t1, t2}
  Automatic = {t1, t2}
  Triggers = {"manual"}
  MoveTargets = {"todo"}
  Limit = 1
  MaxLaunchRetries = 1
  Calls <- TwoIds
  Entries <- TwoIds
  LeaseIds <- SixIds
  MaxRestarts = 1
  WakeMidway = FALSE
  ArchiveMidway = FALSE
  StartsMayFail = TRUE
SYMMETRY TaskSymmetry
INVARIANTS SerializedPerPackage StartsAreHeld
CHECK_DEADLOCK FALSE
