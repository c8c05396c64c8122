\* Two rows with equal content and destination, a lapsed lease and a crash.  The
\* destination has no hard links.
SPECIFICATION FairSpec
CONSTANTS
  u1 = u1
  u2 = u2
  u3 = u3
  s1 = s1
  f1 = f1
  f2 = f2
  h1 = h1
  h2 = h2
  None = None
  Uploads = {u1, u2}
  Subjects = {s1}
  Files = {f1}
  Hashes = {h1, h2}
  Claims = {c1, c2, c3}
  subject <- ConflictSubject
  target <- ConflictTarget
  hash <- TwinHash
  concurrency <- TwinConcurrency
  Revocable = {}
  HardLinks = FALSE
  MaxExpiries = 1
  MaxCrashes = 1
INVARIANTS UploadedIsDelivered
PROPERTIES QueuedIsSettled
