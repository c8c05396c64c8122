SPECIFICATION MCSpec
CONSTANTS
  MaxStarts = 2
  MaxEdits = 2
  MaxRestarts = 1
  None = None
  Other = Other
CHECK_DEADLOCK FALSE
INVARIANTS RunsExclusive FinishedByProof
PROPERTIES DecisionsStand NothingHeldForEver
