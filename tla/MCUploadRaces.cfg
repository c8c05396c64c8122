\* Three rows of a subject with limits 1, 2 and 2, two of them for one file, a lapsed
\* lease, and a task that leaves `done' and comes back.  The destination has hard links.
SPECIFICATION Spec
CONSTANTS
  u1 = u1
  u2 = u2
  u3 = u3
  s1 = s1
  f1 = f1
  f2 = f2
  h1 = h1
  h2 = h2
  None = None
  Uploads = {u1, u2, u3}
  Subjects = {s1}
  Files = {f1, f2}
  Hashes = {h1, h2}
  Claims = {c1, c2, c3}
  subject <- ThreeSubject
  target <- ThreeTarget
  hash <- ThreeHash
  concurrency <- ThreeConcurrency
  Revocable = {u1}
  HardLinks = TRUE
  MaxExpiries = 1
  MaxCrashes = 0
INVARIANTS Fenced SubjectConcurrency
PROPERTIES SettledByOwner NoOverwrite CleanupRemovesOwnFile
ACTION_CONSTRAINT ThreeStory
