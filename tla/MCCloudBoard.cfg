\* Three tasks in two projects, two requests at a time; one policy; two remote runs.
SPECIFICATION MCSpec
CONSTANTS
  p1 = p1
  p2 = p2
  l1 = l1
  r1 = r1
  r2 = r2
  None = None
  Deleted = Deleted
  Projects = {p1, p2}
  Temporary = {p2}
  Labels = {l1}
  Requests = {r1, r2}
  Tasks <- ThreeTasks
  MaxVersion = 3
  NoPolicy = NoPolicy
  MaxSaves = 3
  MaxChecks = 1
  MaxCodex = 1
  MaxTroubles = 1
  Foreign = 99
  MaxRuns = 2
  MaxTouches = 2
  MaxFaults = 1
SYMMETRY Symmetry
INVARIANTS BoardConsistent RelationsSound PolicyInForce RemoteClaimsHold
PROPERTIES ProjectsGuarded UserChangesStand
CHECK_DEADLOCK FALSE
