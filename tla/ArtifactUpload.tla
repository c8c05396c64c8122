--------------------------- MODULE ArtifactUpload ---------------------------
(***************************************************************************)
(* The ZIP upload queue (artifact_uploads in server/database.mjs), the     *)
(* worker that drains it (server/upload-worker.mjs) and the destination    *)
(* files.  A queue row is claimed for a bounded lease under a fresh claim  *)
(* token; the claim's job copies the ZIP, publishes it under its final     *)
(* name and settles the row.  A lease may expire while its job still runs  *)
(* (a suspended process, missed renewals), so two jobs of one row, and     *)
(* jobs of different rows, may work on one destination at a time; each     *)
(* await of the copy is the boundary of a step.                            *)
(***************************************************************************)
EXTENDS Naturals, SequencesExt

CONSTANTS
  Uploads,      \* rows of artifact_uploads
  Subjects, Files, Hashes,
  subject,      \* subject_key of each row
  target,       \* the destination file: target path and file name
  hash,         \* sha256 of the verified ZIP
  concurrency,  \* upload_concurrency, frozen in each row
  Claims,       \* claim tokens; also the identity of the file a job creates
  Revocable,    \* rows whose task users may move out of and back into `done'
  HardLinks,    \* the destination file system supports hard links
  MaxExpiries, MaxCrashes,  \* bounds on lapsed leases and crashes
  None

Statuses == {"absent", "queued", "uploading", "uploaded", "failed"}
Steps == {"check", "copy", "link", "compare", "rename", "identify", "mark",
          "fail", "revoke", "verify", "unlink"}
Jobs == [upload: Uploads, pc: Steps, ident: Claims \cup {None}]
Content == [hash: Hashes, ident: Claims]

ASSUME UploadAssumption ==
  /\ IsFiniteSet(Uploads)
  /\ subject \in [Uploads -> Subjects]
  /\ target \in [Uploads -> Files]
  /\ hash \in [Uploads -> Hashes]
  /\ concurrency \in [Uploads -> Nat \ {0}]
  /\ Revocable \subseteq Uploads
  /\ HardLinks \in BOOLEAN
  /\ MaxExpiries \in Nat /\ MaxCrashes \in Nat
  /\ None \notin Claims \cup Content

VARIABLES
  created,       \* rows in order of created_at
  status,        \* status of each row, "absent" before createArtifactUpload
  token,         \* claim_token
  leaseLive,     \* lease_until is still in the future
  eligible,      \* the row's task passes validateTaskForCompletion
  job,           \* the copy job of each claim, None once it has returned
  file,          \* destination files: content and identity (dev and inode)
  worker,        \* "running", "closing" (close() awaits its jobs) or "down"
  loop,          \* drain(): "idle", "claim", "wait", "ending"
  wakeRequested, \* wakeRequested, or a job's promise that has settled
  expiries, crashes

rowVars == <<created, status, token, leaseLive>>
loopVars == <<worker, loop, wakeRequested>>
vars == <<rowVars, eligible, job, file, loopVars, expiries, crashes>>

Uploading(s) == {u \in Uploads : status[u] = "uploading" /\ subject[u] = s}
Running == {c \in Claims : job[c] # None}

Init ==
  /\ created = <<>>
  /\ status = [u \in Uploads |-> "absent"]
  /\ token = [u \in Uploads |-> None]
  /\ leaseLive = [u \in Uploads |-> FALSE]
  /\ eligible = [u \in Uploads |-> TRUE]
  /\ job = [c \in Claims |-> None]
  /\ file = [f \in Files |-> None]
  /\ worker = "running" /\ loop = "idle" /\ wakeRequested = FALSE
  /\ expiries = 0 /\ crashes = 0

-----------------------------------------------------------------------------
(* The queue table.                                                        *)

\* The rows recoverUploadingArtifactUploads puts back: uploading rows whose
\* lease has lapsed.
Lapsed == {u \in Uploads : status[u] = "uploading" /\ ~leaseLive[u]}

\* Faulty: a row keeps the token of the claim it was taken from.
RequeueKeepsToken(U) ==
  /\ status' = [u \in Uploads |-> IF u \in U THEN "queued" ELSE status[u]]
  /\ UNCHANGED <<token, leaseLive>>

\* Rows U join the queue or return to it; every other row keeps its claim.
Requeue(U) ==
  /\ status' = [u \in Uploads |-> IF u \in U THEN "queued" ELSE status[u]]
  /\ token' = [u \in Uploads |-> IF u \in U THEN None ELSE token[u]]
  /\ UNCHANGED leaseLive

\* Faulty: the update is not conditioned on the claim token.
OwnsAny(c, u) == status[u] = "uploading"

\* A row leaves `uploading' if the claim still owns it; otherwise the update
\* matches no row.
Owns(c, u) == status[u] = "uploading" /\ token[u] = c

Settle(c, u, outcome) ==
  IF Owns(c, u)
  THEN /\ status' = [status EXCEPT ![u] = outcome]
       /\ token' = [token EXCEPT ![u] = None]
       /\ leaseLive' = [leaseLive EXCEPT ![u] = FALSE]
       /\ UNCHANGED created
  ELSE UNCHANGED rowVars

\* Faulty: one row too many.
ClaimableAtLimit(u) ==
  /\ status[u] = "queued"
  /\ Cardinality(Uploading(subject[u])) <= concurrency[u]

\* The first queued row, oldest first, whose subject has a free slot.
Claimable(u) ==
  /\ status[u] = "queued"
  /\ Cardinality(Uploading(subject[u])) < concurrency[u]

NextClaim(i) ==
  /\ Claimable(created[i])
  /\ \A j \in 1..(i - 1) : ~Claimable(created[j])

-----------------------------------------------------------------------------
(* The worker: wake(), the loop of drain(), leases, close and restart.     *)

\* wake(): ask the loop for another turn and start it if it is not running.
\* The rows it puts back are in Requeue.
Wake ==
  IF loop = "idle"
  THEN loop' = "claim" /\ wakeRequested' = FALSE
  ELSE wakeRequested' = TRUE /\ UNCHANGED loop

\* enqueueArtifactUpload for a task that is `done': createArtifactUpload keeps
\* a row that exists, and wake() follows in either case.
Enqueue(u) ==
  /\ worker = "running"
  /\ eligible[u]
  /\ created' = IF status[u] = "absent" THEN Append(created, u) ELSE created
  /\ Requeue(Lapsed \cup (IF status[u] = "absent" THEN {u} ELSE {}))
  /\ Wake
  /\ UNCHANGED <<eligible, job, file, worker, expiries, crashes>>

\* The retry route: a failed row is queued again, then wake().
Retry(u) ==
  /\ worker = "running"
  /\ status[u] = "failed"
  /\ Requeue(Lapsed \cup {u})
  /\ Wake
  /\ UNCHANGED <<created, eligible, job, file, worker, expiries, crashes>>

\* One turn of the inner loop: claimNextArtifactUpload and the start of its
\* job.  (The code takes the turns without a pause; a step between two of them
\* only adds behaviours.)
Claim(i) ==
  /\ worker = "running" /\ loop = "claim"
  /\ NextClaim(i)
  /\ \E c \in Claims :
       LET u == created[i] IN
       /\ job[c] = None
       /\ \A v \in Uploads : token[v] # c
       /\ \A f \in Files : file[f] # None => file[f].ident # c
       /\ \A d \in Running : job[d].ident # c
       /\ status' = [status EXCEPT ![u] = "uploading"]
       /\ token' = [token EXCEPT ![u] = c]
       /\ leaseLive' = [leaseLive EXCEPT ![u] = TRUE]
       /\ job' = [job EXCEPT ![c] = [upload |-> u, pc |-> "check", ident |-> None]]
  /\ UNCHANGED <<created, eligible, file, loopVars, expiries, crashes>>

\* Nothing to claim: another turn if one was asked for, otherwise wait for a
\* job or a wake, or return when no job is left.
ClaimsDone ==
  /\ loop = "claim"
  /\ worker = "running" => \A i \in 1..Len(created) : ~NextClaim(i)
  /\ wakeRequested' = FALSE
  /\ loop' = IF worker = "running" /\ wakeRequested THEN "claim"
             ELSE IF Running = {} THEN "ending" ELSE "wait"
  /\ UNCHANGED <<rowVars, eligible, job, file, worker, expiries, crashes>>

Resume ==
  /\ loop = "wait"
  /\ wakeRequested
  /\ loop' = "claim" /\ wakeRequested' = FALSE
  /\ UNCHANGED <<rowVars, eligible, job, file, worker, expiries, crashes>>

\* Faulty: a wake-up that arrived while the drain was returning is dropped.
DrainReturnsDeaf ==
  /\ loop = "ending"
  /\ loop' = "idle" /\ wakeRequested' = FALSE
  /\ UNCHANGED <<rowVars, eligible, job, file, worker, expiries, crashes>>

\* drainPromise has settled: wake() again if somebody asked meanwhile.
DrainReturns ==
  /\ loop = "ending"
  /\ IF worker = "running" /\ wakeRequested
     THEN loop' = "claim" /\ Requeue(Lapsed)
     ELSE loop' = "idle" /\ UNCHANGED <<status, token, leaseLive>>
  /\ wakeRequested' = FALSE
  /\ UNCHANGED <<created, eligible, job, file, worker, expiries, crashes>>

\* The timer of scheduleLeaseRecovery, armed for the earliest lease.
RecoverLapsed ==
  /\ worker = "running"
  /\ Lapsed # {}
  /\ Requeue(Lapsed)
  /\ Wake
  /\ UNCHANGED <<created, eligible, job, file, worker, expiries, crashes>>

\* The renewal timer of a running job.  Its last tick may come too late.
Renew(c) ==
  /\ worker = "running"
  /\ c \in Running
  /\ LET u == job[c].upload IN
       /\ Owns(c, u)
       /\ ~leaseLive[u]
       /\ leaseLive' = [leaseLive EXCEPT ![u] = TRUE]
  /\ UNCHANGED <<created, status, token, eligible, job, file, loopVars, expiries, crashes>>

\* Time passes lease_until: after a crash, or before a late renewal.
LeaseLapses(u) ==
  /\ status[u] = "uploading" /\ leaseLive[u]
  /\ token[u] \in Running => expiries < MaxExpiries
  /\ leaseLive' = [leaseLive EXCEPT ![u] = FALSE]
  /\ expiries' = IF token[u] \in Running THEN expiries + 1 ELSE expiries
  /\ UNCHANGED <<created, status, token, eligible, job, file, loopVars, crashes>>

Close ==
  /\ worker = "running"
  /\ crashes < MaxCrashes
  /\ worker' = "closing"
  /\ crashes' = crashes + 1
  /\ wakeRequested' = TRUE
  /\ UNCHANGED <<rowVars, eligible, job, file, loop, expiries>>

\* The process ends: after close(), or at any moment by a crash.
Stop ==
  /\ \/ worker = "closing" /\ Running = {} /\ loop = "idle" /\ UNCHANGED crashes
     \/ worker = "running" /\ crashes < MaxCrashes /\ crashes' = crashes + 1
  /\ worker' = "down" /\ loop' = "idle" /\ wakeRequested' = FALSE
  /\ job' = [c \in Claims |-> None]
  /\ UNCHANGED <<rowVars, eligible, file, expiries>>

\* start(): wake() on a fresh worker.
Restart ==
  /\ worker = "down"
  /\ worker' = "running"
  /\ Requeue(Lapsed)
  /\ loop' = "claim" /\ wakeRequested' = FALSE
  /\ UNCHANGED <<created, eligible, job, file, expiries, crashes>>

\* A user moves the task out of `done', or accepts it again.
MoveTask(u) ==
  /\ u \in Revocable
  /\ eligible' = [eligible EXCEPT ![u] = ~@]
  /\ UNCHANGED <<rowVars, job, file, loopVars, expiries, crashes>>

-----------------------------------------------------------------------------
(* processUpload: one action per await of copyArtifact and of its settling. *)

At(c, pc) == c \in Running /\ job[c].pc = pc
Goto(c, pc) == job' = [job EXCEPT ![c].pc = pc]
Upload(c) == job[c].upload
Path(c) == target[Upload(c)]
SameContent(c) == file[Path(c)] # None /\ file[Path(c)].hash = hash[Upload(c)]

jobOnly == <<rowVars, eligible, file, loopVars, expiries, crashes>>

\* destinationHash of the final name before copying.
Check(c) ==
  /\ At(c, "check")
  /\ Goto(c, IF file[Path(c)] = None THEN "copy"
             ELSE IF SameContent(c) THEN "mark" ELSE "fail")
  /\ UNCHANGED jobOnly

\* writeStreamToTemporary and its checksum, which may fail.
Copy(c) ==
  /\ At(c, "copy")
  /\ \E next \in {"link", "fail"} : Goto(c, next)
  /\ UNCHANGED jobOnly

\* Faulty: the copy replaces whatever has the name.
LinkReplaces(c) ==
  /\ At(c, "link")
  /\ file' = [file EXCEPT ![Path(c)] = [hash |-> hash[Upload(c)], ident |-> c]]
  /\ Goto(c, "identify")
  /\ UNCHANGED <<rowVars, eligible, loopVars, expiries, crashes>>

\* Faulty: a link() the file system does not support counts as published.
LinkIgnoresError(c) ==
  /\ At(c, "link")
  /\ Goto(c, "mark")
  /\ UNCHANGED jobOnly

\* promoteTemporaryFile: link() publishes the copy unless the name is taken.
Link(c) ==
  /\ At(c, "link")
  /\ IF ~HardLinks
     THEN Goto(c, "rename") /\ UNCHANGED file
     ELSE IF file[Path(c)] = None
     THEN /\ file' = [file EXCEPT ![Path(c)] = [hash |-> hash[Upload(c)], ident |-> c]]
          /\ Goto(c, "identify")
     ELSE Goto(c, "compare") /\ UNCHANGED file
  /\ UNCHANGED <<rowVars, eligible, loopVars, expiries, crashes>>

\* Faulty: any file of that name is taken for the ZIP.
CompareNothing(c) ==
  /\ At(c, "compare")
  /\ Goto(c, "mark")
  /\ UNCHANGED jobOnly

\* After EEXIST: the same ZIP is accepted, anything else is a conflict.
Compare(c) ==
  /\ At(c, "compare")
  /\ Goto(c, IF SameContent(c) THEN "mark" ELSE "fail")
  /\ UNCHANGED jobOnly

\* Without hard links the copy is renamed to the final name, whatever is there.
Rename(c) ==
  /\ At(c, "rename")
  /\ file' = [file EXCEPT ![Path(c)] = [hash |-> hash[Upload(c)], ident |-> c]]
  /\ Goto(c, "identify")
  /\ UNCHANGED <<rowVars, eligible, loopVars, expiries, crashes>>

\* stat() of the published name: the identity remembered for a later cleanup.
Identify(c) ==
  /\ At(c, "identify")
  /\ job' = [job EXCEPT ![c] =
               IF file[Path(c)] = None THEN [@ EXCEPT !.pc = "fail"]
               ELSE [@ EXCEPT !.pc = "mark", !.ident = file[Path(c)].ident]]
  /\ UNCHANGED jobOnly

JobEnds(c) == job' = [job EXCEPT ![c] = None] /\ wakeRequested' = TRUE

\* markArtifactUploadUploaded, which re-validates the task.
Mark(c) ==
  /\ At(c, "mark")
  /\ IF Owns(c, Upload(c)) /\ ~eligible[Upload(c)]
     THEN /\ Settle(c, Upload(c), "failed")
          /\ Goto(c, "revoke")
          /\ UNCHANGED wakeRequested
     ELSE /\ Settle(c, Upload(c), "uploaded")
          /\ JobEnds(c)
  /\ UNCHANGED <<eligible, file, worker, loop, expiries, crashes>>

\* Faulty: the cleanup does not ask who created the file.
RevokeAny(c) ==
  /\ At(c, "revoke")
  /\ Goto(c, "verify")
  /\ UNCHANGED jobOnly

\* removePublishedFile: only the file this job created, while it is still it.
Revoke(c) ==
  /\ At(c, "revoke")
  /\ LET mine == job[c].ident # None /\ file[Path(c)] # None
                 /\ file[Path(c)].ident = job[c].ident IN
       IF mine THEN Goto(c, "verify") /\ UNCHANGED wakeRequested
               ELSE JobEnds(c)
  /\ UNCHANGED <<rowVars, eligible, file, worker, loop, expiries, crashes>>

Verify(c) ==
  /\ At(c, "verify")
  /\ IF SameContent(c)
     THEN Goto(c, "unlink") /\ UNCHANGED wakeRequested ELSE JobEnds(c)
  /\ UNCHANGED <<rowVars, eligible, file, worker, loop, expiries, crashes>>

Unlink(c) ==
  /\ At(c, "unlink")
  /\ file' = [file EXCEPT ![Path(c)] = None]
  /\ JobEnds(c)
  /\ UNCHANGED <<rowVars, eligible, worker, loop, expiries, crashes>>

\* markArtifactUploadFailed.
Fail(c) ==
  /\ At(c, "fail")
  /\ Settle(c, Upload(c), "failed")
  /\ JobEnds(c)
  /\ UNCHANGED <<eligible, file, worker, loop, expiries, crashes>>

JobStep(c) ==
  \/ Check(c) \/ Copy(c) \/ Link(c) \/ Compare(c) \/ Rename(c) \/ Identify(c)
  \/ Mark(c) \/ Revoke(c) \/ Verify(c) \/ Unlink(c) \/ Fail(c)

-----------------------------------------------------------------------------
Next ==
  \/ \E u \in Uploads : Enqueue(u) \/ Retry(u) \/ MoveTask(u) \/ LeaseLapses(u)
  \/ \E i \in 1..Len(created) : Claim(i)
  \/ ClaimsDone \/ Resume \/ DrainReturns \/ RecoverLapsed
  \/ \E c \in Claims : Renew(c) \/ JobStep(c)
  \/ Close \/ Stop \/ Restart

Spec == Init /\ [][Next]_vars

\* Jobs, the loop and the timers run; a closed or crashed server is started
\* again; time passes.  Nothing makes a user retry, move or enqueue.
Fairness ==
  /\ WF_vars(\E i \in 1..Len(created) : Claim(i))
  /\ WF_vars(ClaimsDone) /\ WF_vars(Resume) /\ WF_vars(DrainReturns)
  /\ WF_vars(RecoverLapsed) /\ WF_vars(Restart)
  /\ WF_vars(worker = "closing" /\ Stop)
  /\ \A c \in Claims : WF_vars(JobStep(c))
  /\ \A u \in Uploads : WF_vars(token[u] \notin Running /\ LeaseLapses(u))

FairSpec == Spec /\ Fairness

-----------------------------------------------------------------------------
(* Properties                                                              *)

\* The types of rows, jobs, files and of the worker's loop.
TypeOK ==
  /\ created \in Seq(Uploads)
  /\ status \in [Uploads -> Statuses]
  /\ token \in [Uploads -> Claims \cup {None}]
  /\ leaseLive \in [Uploads -> BOOLEAN]
  /\ eligible \in [Uploads -> BOOLEAN]
  /\ job \in [Claims -> Jobs \cup {None}]
  /\ file \in [Files -> Content \cup {None}]
  /\ worker \in {"running", "closing", "down"}
  /\ loop \in {"idle", "claim", "wait", "ending"}
  /\ wakeRequested \in BOOLEAN
  /\ expiries \in Nat /\ crashes \in Nat

\* A claim token names one claim of one row: a row is uploading exactly while
\* it has a token, no two rows share one, and a job alive under a row's token
\* is a job of that row, through lapses, re-claims, crashes and retries.
ClaimTokensAreUnique ==
  /\ \A u \in Uploads : status[u] = "uploading" <=> token[u] # None
  /\ \A u, v \in Uploads : token[u] # None /\ token[u] = token[v] => u = v
  /\ \A u \in Uploads : token[u] \in Running => job[token[u]].upload = u

\* A row owns its token alone because a fresh token is on no row, and the job
\* under a row's token is that row's because a job is only ever started with
\* the token its row has just received.
Fenced == TypeOK /\ ClaimTokensAreUnique

\* The uploading rows of a subject never exceed the largest concurrency one of
\* them was queued with.
SubjectConcurrency ==
  \A s \in Subjects : Uploading(s) # {} =>
    \E u \in Uploading(s) : Cardinality(Uploading(s)) <= concurrency[u]

\* An uploaded row's ZIP is at its destination with the verified content:
\* whatever jobs raced for the name, and whichever of them created the file.
UploadedIsDelivered ==
  \A u \in Uploads : status[u] = "uploaded" =>
    file[target[u]] # None /\ file[target[u]].hash = hash[u]

\* Only the claim that owns a row settles it: a job whose lease was taken over
\* neither completes nor fails the newer claim's row.
SettledByOwner ==
  [][\A u \in Uploads :
       status[u] = "uploading" /\ status'[u] \in {"uploaded", "failed"} =>
         token[u] \in Running /\ job'[token[u]] # job[token[u]]]_vars

\* A published ZIP is never replaced by another one under the same name ("a
\* different ZIP with the same destination filename is rejected without
\* overwrite").
NoOverwrite ==
  [][\A f \in Files : file[f] # None /\ file'[f] # None => file'[f].hash = file[f].hash]_vars

\* The cleanup after a revoked completion removes a file only for the job that
\* created it: never the file another claim of the row, or another row, has
\* published under the name.
CleanupRemovesOwnFile ==
  [][\A f \in Files : file[f] # None /\ file'[f] = None =>
       At(file[f].ident, "unlink")]_vars

\* Once users stop retrying, every queued row is settled: no wake-up of the
\* drain loop is lost, and a row whose worker died is taken up again after its
\* lease.  (Rows are claimed oldest first: an older row that fails and is
\* retried for ever would keep a younger one waiting.)
QueuedIsSettled ==
  <>[][\A u \in Uploads : ~Retry(u)]_vars =>
    \A u \in Uploads : status[u] = "queued" ~> status[u] \in {"uploaded", "failed"}
=============================================================================
