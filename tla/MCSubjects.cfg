\* Two subjects, two requests and one fault; one package and no mutations.
SPECIFICATION MCSpec
CONSTANTS
  c1 = c1
  c2 = c2
  p1 = p1
  p2 = p2
  None = None
  Subjects <- TwoSubjects
  Packages = {p1, p2}
  Calls = {c1, c2}
  MaxVersion = 4
  MaxRevision = 2
  MaxQueue = 2
  MaxFaults = 1
  MaxNotes = 1
INVARIANTS TransactionsNest AckedEditsPersist BridgeAgrees
PROPERTIES TransactionCloses
CHECK_DEADLOCK FALSE
