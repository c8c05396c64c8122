SPECIFICATION MCSpec
CONSTANTS
  c1 = c1
  c2 = c2
  a1 = a1
  a2 = a2
  r1 = r1
  r2 = r2
  Comments = {c1, c2}
  Attachments = {a1, a2}
  Requests = {r1, r2}
  MaxVersion = 3
  MaxRevision = 8
  MaxFaults = 1
  MaxArchives = 3
  MaxCommits = 3
  MaxMoves = 1
  MaxLosses = 1
  None = None
  Deleted = Deleted
  Task = Task
  NoCheck = NoCheck
  NoMove = NoMove
  t1 = t1
  t2 = t2
  k1 = k1
  k2 = k2
  s1 = s1
  s2 = s2
  p1 = p1
  i1 = i1
  b0 = b0
  b1 = b1
  Triggers = {t1, t2}
  Conditions = {k1, k2}
  Steps = {s1, s2}
  Plans = {p1}
  PlanItems = {i1}
  MaxNodes = 5
  Root = Root
  NoTarget = NoTarget
  Size = 4
  MaxEdges = 2
  NotYet = NotYet
  Thrown = Thrown
  Bases = {b0, b1}
  InitialBase = b0
  LegacyBase = b1
  NoDoc = NoDoc
  NoRequest = NoRequest
  MaxEdits = 2
  MaxOthers = 2
CHECK_DEADLOCK FALSE
INVARIANTS BlobsMatchRows AnswersHold BoardKeepsUp FlowsStayWhole SavesKeepUp
PROPERTIES BoardFollows
