------------------------ MODULE ArtifactUpload_proofs ------------------------
(***************************************************************************)
(* Invariants of ArtifactUpload for every set of rows, subjects, files and *)
(* claims, every concurrency limit, and any number of lapses and crashes.  *)
(***************************************************************************)
EXTENDS ArtifactUpload, FiniteSetTheorems, TLAPS

-----------------------------------------------------------------------------
(* Types and claim tokens                                                  *)

\* Nothing is queued, claimed or copied when the service is first started.
LEMMA FencedInit == Init => Fenced
<1> SUFFICES ASSUME Init
             PROVE  Fenced
  OBVIOUS
<1>1. \A u \in Uploads : status[u] = "absent" /\ token[u] = None
  BY DEF Init
<1>2. created \in Seq(Uploads) /\ expiries \in Nat /\ crashes \in Nat
  BY DEF Init
<1>3. /\ status \in [Uploads -> Statuses]
      /\ token \in [Uploads -> Claims \cup {None}]
      /\ leaseLive \in [Uploads -> BOOLEAN]
      /\ eligible \in [Uploads -> BOOLEAN]
      /\ job \in [Claims -> Jobs \cup {None}]
      /\ file \in [Files -> Content \cup {None}]
  BY DEF Init, Statuses
<1>4. TypeOK
  BY <1>2, <1>3 DEF Init, TypeOK
<1>5. None \notin Claims
  BY UploadAssumption
<1>6. QED
  BY <1>1, <1>4, <1>5 DEF Fenced, ClaimTokensAreUnique, Running

\* Rows that join or return to the queue lose their token; the others keep it.
LEMMA RequeueKeepsFences ==
  ASSUME Fenced, NEW U \in SUBSET Uploads, Requeue(U), UNCHANGED job
  PROVE  /\ status' \in [Uploads -> Statuses]
         /\ token' \in [Uploads -> Claims \cup {None}]
         /\ leaseLive' \in [Uploads -> BOOLEAN]
         /\ ClaimTokensAreUnique'
<1>1. /\ status \in [Uploads -> Statuses] /\ token \in [Uploads -> Claims \cup {None}]
      /\ leaseLive \in [Uploads -> BOOLEAN]
  BY DEF Fenced, TypeOK
<1>2. \A u \in Uploads : /\ status'[u] = IF u \in U THEN "queued" ELSE status[u]
                         /\ token'[u] = IF u \in U THEN None ELSE token[u]
  BY DEF Requeue
<1>3. status' \in [Uploads -> Statuses] /\ token' \in [Uploads -> Claims \cup {None}]
      /\ leaseLive' = leaseLive
  BY <1>1 DEF Requeue, Statuses
<1>4. Running' = Running
  BY DEF Running
<1>5. ASSUME NEW u \in Uploads
      PROVE  /\ status'[u] = "uploading" <=> token'[u] # None
             /\ token'[u] # None => token'[u] = token[u]
             /\ token'[u] \in Running => token'[u] = token[u]
  <2>1. None \notin Running
    BY UploadAssumption DEF Running
  <2>2. QED
    BY <1>2, <2>1 DEF Fenced, ClaimTokensAreUnique
<1>6. ClaimTokensAreUnique'
  BY <1>4, <1>5 DEF Fenced, ClaimTokensAreUnique
<1>7. QED
  BY <1>1, <1>3, <1>6

\* Settling a row gives up its token and touches no other row.
LEMMA SettleKeepsFences ==
  ASSUME Fenced, NEW c \in Running, NEW outcome \in {"uploaded", "failed"},
         Settle(c, Upload(c), outcome),
         job' \in [Claims -> Jobs \cup {None}],
         \A d \in Claims : job'[d] # None => job[d] # None /\ job'[d].upload = job[d].upload
  PROVE  /\ created' = created
         /\ status' \in [Uploads -> Statuses]
         /\ token' \in [Uploads -> Claims \cup {None}]
         /\ leaseLive' \in [Uploads -> BOOLEAN]
         /\ ClaimTokensAreUnique'
<1> DEFINE u == Upload(c)
<1>1. u \in Uploads
  BY DEF Fenced, TypeOK, Running, Upload, Jobs
<1>2. /\ status \in [Uploads -> Statuses] /\ token \in [Uploads -> Claims \cup {None}]
      /\ leaseLive \in [Uploads -> BOOLEAN]
  BY DEF Fenced, TypeOK
<1> HIDE DEF u
<1>3. CASE Owns(c, u)
  <2>1. /\ status' = [status EXCEPT ![u] = outcome]
        /\ token' = [token EXCEPT ![u] = None]
        /\ leaseLive' = [leaseLive EXCEPT ![u] = FALSE]
        /\ created' = created
    BY <1>3 DEF Settle, u
  <2>2. /\ status' \in [Uploads -> Statuses] /\ token' \in [Uploads -> Claims \cup {None}]
        /\ leaseLive' \in [Uploads -> BOOLEAN]
    BY <1>1, <1>2, <2>1 DEF Statuses
  <2>3. ASSUME NEW v \in Uploads
        PROVE  /\ status'[v] = "uploading" <=> token'[v] # None
               /\ token'[v] # None => token'[v] = token[v]
    BY <1>1, <1>2, <2>1 DEF Fenced, ClaimTokensAreUnique
  <2>4. ASSUME NEW v \in Uploads, token'[v] \in Running'
        PROVE  token[v] \in Running /\ job'[token'[v]].upload = v
    <3>1. token'[v] # None /\ token'[v] \in Claims /\ job'[token'[v]] # None
      BY <2>4, UploadAssumption DEF Running
    <3>2. QED
      BY <2>3, <3>1 DEF Fenced, ClaimTokensAreUnique, Running
  <2>5. QED
    BY <2>1, <2>2, <2>3, <2>4 DEF Fenced, ClaimTokensAreUnique
<1>4. CASE ~Owns(c, u)
  <2>1. UNCHANGED rowVars
    BY <1>4 DEF Settle, u
  <2>2. ASSUME NEW v \in Uploads, token[v] \in Running'
        PROVE  token[v] \in Running /\ job'[token[v]].upload = v
    BY <2>2 DEF Fenced, ClaimTokensAreUnique, Running
  <2>3. QED
    BY <1>2, <2>1, <2>2 DEF rowVars, Fenced, ClaimTokensAreUnique
<1>5. QED
  BY <1>3, <1>4

\* Steps that leave the rows alone only move jobs along or end them.
LEMMA SameRowsKeepFences ==
  ASSUME Fenced, UNCHANGED rowVars,
         \A d \in Claims : job'[d] # None => job[d] # None /\ job'[d].upload = job[d].upload
  PROVE  ClaimTokensAreUnique'
<1>1. ASSUME NEW v \in Uploads, token[v] \in Running'
      PROVE  token[v] \in Running /\ job'[token[v]].upload = v
  BY <1>1 DEF Fenced, ClaimTokensAreUnique, Running
<1>2. QED
  BY <1>1 DEF rowVars, Fenced, ClaimTokensAreUnique

\* A job's step to its next await keeps its row.
LEMMA GotoKeepsJobs ==
  ASSUME Fenced, NEW c \in Running, NEW pc \in Steps, Goto(c, pc)
  PROVE  /\ job' \in [Claims -> Jobs \cup {None}]
         /\ \A d \in Claims : job'[d] # None => job[d] # None /\ job'[d].upload = job[d].upload
<1>1. job \in [Claims -> Jobs \cup {None}] /\ c \in Claims /\ job[c] \in Jobs
  BY DEF Fenced, TypeOK, Running
<1>2. [job[c] EXCEPT !.pc = pc] \in Jobs /\ [job[c] EXCEPT !.pc = pc].upload = job[c].upload
  BY <1>1 DEF Jobs
<1>3. job' = [job EXCEPT ![c] = [job[c] EXCEPT !.pc = pc]]
  BY DEF Goto
<1>4. \A d \in Claims : job'[d] = IF d = c THEN [job[c] EXCEPT !.pc = pc] ELSE job[d]
  BY <1>1, <1>3
<1>5. job' \in [Claims -> Jobs \cup {None}]
  BY <1>1, <1>2, <1>3
<1>6. \A d \in Claims : job'[d] # None => job[d] # None /\ job'[d].upload = job[d].upload
  BY <1>2, <1>4 DEF Running
<1>7. QED
  BY <1>5, <1>6

\* A job that returns leaves the other jobs alone.
LEMMA EndKeepsJobs ==
  ASSUME Fenced, NEW c \in Running, JobEnds(c)
  PROVE  /\ job' \in [Claims -> Jobs \cup {None}]
         /\ \A d \in Claims : job'[d] # None => job[d] # None /\ job'[d].upload = job[d].upload
         /\ wakeRequested' \in BOOLEAN
  BY DEF Fenced, TypeOK, Running, JobEnds

\* The job steps keep the types and the tokens.
LEMMA JobStepKeepsFences ==
  ASSUME Fenced, NEW c \in Claims, JobStep(c)
  PROVE  Fenced'
<1>t. /\ status \in [Uploads -> Statuses] /\ token \in [Uploads -> Claims \cup {None}]
      /\ leaseLive \in [Uploads -> BOOLEAN] /\ created \in Seq(Uploads)
      /\ eligible \in [Uploads -> BOOLEAN]
      /\ job \in [Claims -> Jobs \cup {None}]
      /\ file \in [Files -> Content \cup {None}]
      /\ worker \in {"running", "closing", "down"}
      /\ loop \in {"idle", "claim", "wait", "ending"}
      /\ wakeRequested \in BOOLEAN
      /\ expiries \in Nat /\ crashes \in Nat
  BY DEF Fenced, TypeOK
<1>c. c \in Running /\ job[c] \in Jobs
  BY <1>t DEF JobStep, Check, Copy, Link, Compare, Rename, Identify, Mark, Revoke,
     Verify, Unlink, Fail, At, Running
<1>u. Upload(c) \in Uploads /\ Path(c) \in Files /\ hash[Upload(c)] \in Hashes
  BY <1>c, UploadAssumption DEF Upload, Path, Jobs
<1>p. [hash |-> hash[Upload(c)], ident |-> c] \in Content
  BY <1>u DEF Content
<1>1. ASSUME NEW pc \in Steps, Goto(c, pc), UNCHANGED <<rowVars, eligible, loopVars, expiries, crashes>>,
             file' \in [Files -> Content \cup {None}]
      PROVE  Fenced'
  <2>1. /\ job' \in [Claims -> Jobs \cup {None}]
        /\ \A d \in Claims : job'[d] # None => job[d] # None /\ job'[d].upload = job[d].upload
    BY <1>1, <1>c, GotoKeepsJobs
  <2>2. ClaimTokensAreUnique'
    BY <1>1, <2>1, SameRowsKeepFences
  <2>3. QED
    BY <1>1, <1>t, <2>1, <2>2 DEF Fenced, TypeOK, rowVars, loopVars
<1>2. ASSUME JobEnds(c), UNCHANGED <<rowVars, eligible, worker, loop, expiries, crashes>>,
             file' \in [Files -> Content \cup {None}]
      PROVE  Fenced'
  <2>1. /\ job' \in [Claims -> Jobs \cup {None}]
        /\ \A d \in Claims : job'[d] # None => job[d] # None /\ job'[d].upload = job[d].upload
        /\ wakeRequested' \in BOOLEAN
    BY <1>2, <1>c, EndKeepsJobs
  <2>2. ClaimTokensAreUnique'
    BY <1>2, <2>1, SameRowsKeepFences
  <2>3. QED
    BY <1>2, <1>t, <2>1, <2>2 DEF Fenced, TypeOK, rowVars
<1>3. CASE Check(c) \/ Copy(c) \/ Compare(c)
  <2>1. PICK pc \in Steps : Goto(c, pc)
    BY <1>3 DEF Check, Copy, Compare, Steps
  <2>2. UNCHANGED <<rowVars, eligible, file, loopVars, expiries, crashes>>
    BY <1>3 DEF Check, Copy, Compare, jobOnly
  <2>3. QED
    BY <1>1, <1>t, <2>1, <2>2
<1>4. CASE Link(c) \/ Rename(c)
  <2>1. PICK pc \in Steps : Goto(c, pc)
    BY <1>4 DEF Link, Rename, Steps
  <2>2. file' \in [Files -> Content \cup {None}]
    BY <1>4, <1>t, <1>u, <1>p DEF Link, Rename
  <2>3. UNCHANGED <<rowVars, eligible, loopVars, expiries, crashes>>
    BY <1>4 DEF Link, Rename
  <2>4. QED
    BY <1>1, <2>1, <2>2, <2>3
<1>5. CASE Identify(c)
  <2>1. UNCHANGED <<rowVars, eligible, file, loopVars, expiries, crashes>>
    BY <1>5 DEF Identify, jobOnly
  <2>2. PICK j \in Jobs : j.upload = job[c].upload /\ job' = [job EXCEPT ![c] = j]
    <3>1. CASE file[Path(c)] = None
      <4>1. job' = [job EXCEPT ![c] = [job[c] EXCEPT !.pc = "fail"]]
        BY <1>5, <3>1 DEF Identify
      <4>2. [job[c] EXCEPT !.pc = "fail"] \in Jobs
            /\ [job[c] EXCEPT !.pc = "fail"].upload = job[c].upload
        BY <1>c DEF Jobs, Steps
      <4>3. QED
        BY <4>1, <4>2
    <3>2. CASE file[Path(c)] # None
      <4> DEFINE j == [job[c] EXCEPT !.pc = "mark", !.ident = file[Path(c)].ident]
      <4>1. job' = [job EXCEPT ![c] = j]
        BY <1>5, <3>2 DEF Identify
      <4>2. file[Path(c)].ident \in Claims
        BY <1>t, <1>u, <3>2 DEF Content
      <4>3. j \in Jobs /\ j.upload = job[c].upload
        BY <1>c, <4>2 DEF Jobs, Steps
      <4>4. QED
        BY <4>1, <4>3
    <3>3. QED
      BY <3>1, <3>2
  <2>3. job[c] # None
    BY <1>c DEF Running
  <2>4. /\ job' \in [Claims -> Jobs \cup {None}]
        /\ \A d \in Claims : job'[d] # None => job[d] # None /\ job'[d].upload = job[d].upload
    BY <1>t, <1>c, <2>2, <2>3
  <2>5. ClaimTokensAreUnique'
    BY <2>1, <2>4, SameRowsKeepFences
  <2>6. QED
    BY <1>t, <2>1, <2>4, <2>5 DEF Fenced, TypeOK, rowVars, loopVars
<1>6. CASE Mark(c)
  <2>1. CASE Owns(c, Upload(c)) /\ ~eligible[Upload(c)]
    <3>1. Settle(c, Upload(c), "failed") /\ Goto(c, "revoke") /\ wakeRequested' = wakeRequested
      BY <1>6, <2>1 DEF Mark
    <3>2. "revoke" \in Steps
      BY DEF Steps
    <3>3. /\ job' \in [Claims -> Jobs \cup {None}]
          /\ \A d \in Claims : job'[d] # None => job[d] # None /\ job'[d].upload = job[d].upload
      BY <1>c, <3>1, <3>2, GotoKeepsJobs
    <3>4. /\ created' = created /\ status' \in [Uploads -> Statuses]
          /\ token' \in [Uploads -> Claims \cup {None}]
          /\ leaseLive' \in [Uploads -> BOOLEAN] /\ ClaimTokensAreUnique'
      BY <1>c, <3>1, <3>3, SettleKeepsFences
    <3>5. QED
      BY <1>6, <1>t, <3>1, <3>3, <3>4 DEF Mark, Fenced, TypeOK
  <2>2. CASE ~(Owns(c, Upload(c)) /\ ~eligible[Upload(c)])
    <3>1. Settle(c, Upload(c), "uploaded") /\ JobEnds(c)
      BY <1>6, <2>2 DEF Mark
    <3>2. /\ job' \in [Claims -> Jobs \cup {None}]
          /\ \A d \in Claims : job'[d] # None => job[d] # None /\ job'[d].upload = job[d].upload
          /\ wakeRequested' \in BOOLEAN
      BY <1>c, <3>1, EndKeepsJobs
    <3>3. /\ created' = created /\ status' \in [Uploads -> Statuses]
          /\ token' \in [Uploads -> Claims \cup {None}]
          /\ leaseLive' \in [Uploads -> BOOLEAN] /\ ClaimTokensAreUnique'
      BY <1>c, <3>1, <3>2, SettleKeepsFences
    <3>4. QED
      BY <1>6, <1>t, <3>2, <3>3 DEF Mark, Fenced, TypeOK
  <2>3. QED
    BY <2>1, <2>2
<1>7. CASE Revoke(c) \/ Verify(c)
  <2>1. UNCHANGED <<rowVars, eligible, file, worker, loop, expiries, crashes>>
    BY <1>7 DEF Revoke, Verify
  <2>2. \/ JobEnds(c)
        \/ wakeRequested' = wakeRequested /\ \E pc \in Steps : Goto(c, pc)
    BY <1>7 DEF Revoke, Verify, Steps
  <2>3. QED
    BY <1>1, <1>2, <1>t, <2>1, <2>2 DEF loopVars
<1>8. CASE Unlink(c)
  <2>1. file' \in [Files -> Content \cup {None}] /\ JobEnds(c)
        /\ UNCHANGED <<rowVars, eligible, worker, loop, expiries, crashes>>
    BY <1>8, <1>t DEF Unlink
  <2>2. QED
    BY <1>2, <2>1
<1>9. CASE Fail(c)
  <2>1. Settle(c, Upload(c), "failed") /\ JobEnds(c)
    BY <1>9 DEF Fail
  <2>2. /\ job' \in [Claims -> Jobs \cup {None}]
        /\ \A d \in Claims : job'[d] # None => job[d] # None /\ job'[d].upload = job[d].upload
        /\ wakeRequested' \in BOOLEAN
    BY <1>c, <2>1, EndKeepsJobs
  <2>3. /\ created' = created /\ status' \in [Uploads -> Statuses]
        /\ token' \in [Uploads -> Claims \cup {None}]
        /\ leaseLive' \in [Uploads -> BOOLEAN] /\ ClaimTokensAreUnique'
    BY <1>c, <2>1, <2>2, SettleKeepsFences
  <2>4. QED
    BY <1>9, <1>t, <2>2, <2>3 DEF Fail, Fenced, TypeOK
<1>10. QED
  BY <1>3, <1>4, <1>5, <1>6, <1>7, <1>8, <1>9 DEF JobStep

\* Every step of the queue, the worker and the jobs keeps them.
LEMMA FencedStep == Fenced /\ [Next]_vars => Fenced'
<1> SUFFICES ASSUME Fenced, [Next]_vars
             PROVE  Fenced'
  OBVIOUS
<1>t. /\ status \in [Uploads -> Statuses] /\ token \in [Uploads -> Claims \cup {None}]
      /\ leaseLive \in [Uploads -> BOOLEAN] /\ created \in Seq(Uploads)
      /\ eligible \in [Uploads -> BOOLEAN]
      /\ job \in [Claims -> Jobs \cup {None}]
      /\ file \in [Files -> Content \cup {None}]
      /\ worker \in {"running", "closing", "down"}
      /\ loop \in {"idle", "claim", "wait", "ending"}
      /\ wakeRequested \in BOOLEAN
      /\ expiries \in Nat /\ crashes \in Nat
  BY DEF Fenced, TypeOK
<1>n. None \notin Claims /\ MaxExpiries \in Nat /\ MaxCrashes \in Nat
  BY UploadAssumption
<1>l. Lapsed \subseteq Uploads
  BY DEF Lapsed
<1>w. ASSUME Wake
      PROVE  loop' \in {"idle", "claim", "wait", "ending"} /\ wakeRequested' \in BOOLEAN
  BY <1>w, <1>t DEF Wake
<1>r. ASSUME NEW U \in SUBSET Uploads, Requeue(U), UNCHANGED <<eligible, job, file>>,
             created' \in Seq(Uploads), worker' \in {"running", "closing", "down"},
             loop' \in {"idle", "claim", "wait", "ending"}, wakeRequested' \in BOOLEAN,
             UNCHANGED <<expiries, crashes>>
      PROVE  Fenced'
  <2>1. /\ status' \in [Uploads -> Statuses] /\ token' \in [Uploads -> Claims \cup {None}]
        /\ leaseLive' \in [Uploads -> BOOLEAN] /\ ClaimTokensAreUnique'
    BY <1>r, RequeueKeepsFences
  <2>2. QED
    BY <1>t, <1>r, <2>1 DEF Fenced, TypeOK
<1>s. ASSUME UNCHANGED rowVars,
             \A d \in Claims : job'[d] # None => job[d] # None /\ job'[d].upload = job[d].upload,
             job' \in [Claims -> Jobs \cup {None}],
             eligible' \in [Uploads -> BOOLEAN], file' = file,
             worker' \in {"running", "closing", "down"},
             loop' \in {"idle", "claim", "wait", "ending"}, wakeRequested' \in BOOLEAN,
             expiries' \in Nat, crashes' \in Nat
      PROVE  Fenced'
  <2>1. ClaimTokensAreUnique'
    BY <1>s, SameRowsKeepFences
  <2>2. QED
    BY <1>t, <1>s, <2>1 DEF Fenced, TypeOK, rowVars
<1>1. ASSUME NEW u \in Uploads, Enqueue(u)
      PROVE  Fenced'
  <2> DEFINE U == Lapsed \cup (IF status[u] = "absent" THEN {u} ELSE {})
  <2>1. Requeue(U) /\ U \in SUBSET Uploads
    BY <1>1, <1>l DEF Enqueue
  <2>2. created' \in Seq(Uploads)
    BY <1>1, <1>t DEF Enqueue
  <2> HIDE DEF U
  <2>3. loop' \in {"idle", "claim", "wait", "ending"} /\ wakeRequested' \in BOOLEAN
    BY <1>1, <1>w DEF Enqueue
  <2>4. QED
    BY <1>1, <1>r, <1>t, <2>1, <2>2, <2>3 DEF Enqueue
<1>2. ASSUME NEW u \in Uploads, Retry(u)
      PROVE  Fenced'
  <2>1. Requeue(Lapsed \cup {u}) /\ Lapsed \cup {u} \in SUBSET Uploads /\ created' = created
    BY <1>2, <1>l DEF Retry
  <2>2. loop' \in {"idle", "claim", "wait", "ending"} /\ wakeRequested' \in BOOLEAN
    BY <1>2, <1>w DEF Retry
  <2>3. QED
    BY <1>2, <1>r, <1>t, <2>1, <2>2 DEF Retry
<1>3. ASSUME NEW i \in 1..Len(created), Claim(i)
      PROVE  Fenced'
  <2> DEFINE u == created[i]
  <2>1. u \in Uploads
    BY <1>t
  <2>2. PICK c \in Claims :
          /\ job[c] = None
          /\ \A v \in Uploads : token[v] # c
          /\ status' = [status EXCEPT ![u] = "uploading"]
          /\ token' = [token EXCEPT ![u] = c]
          /\ leaseLive' = [leaseLive EXCEPT ![u] = TRUE]
          /\ job' = [job EXCEPT ![c] = [upload |-> u, pc |-> "check", ident |-> None]]
    BY <1>3 DEF Claim
  <2> HIDE DEF u
  <2>3. [upload |-> u, pc |-> "check", ident |-> None] \in Jobs
    BY <2>1 DEF Jobs, Steps
  <2>4. /\ status' \in [Uploads -> Statuses] /\ token' \in [Uploads -> Claims \cup {None}]
        /\ leaseLive' \in [Uploads -> BOOLEAN] /\ job' \in [Claims -> Jobs \cup {None}]
    BY <1>t, <2>1, <2>2, <2>3 DEF Statuses
  <2>5. TypeOK'
    BY <1>3, <1>t, <2>4 DEF Claim, TypeOK, loopVars
  <2>6. /\ \A v \in Uploads : status'[v] = "uploading" <=> token'[v] # None
        /\ \A v, w \in Uploads : token'[v] # None /\ token'[v] = token'[w] => v = w
    BY <1>t, <1>n, <2>1, <2>2 DEF Fenced, ClaimTokensAreUnique
  <2>7. ASSUME NEW v \in Uploads, token'[v] \in Running'
        PROVE  job'[token'[v]].upload = v
    <3>1. CASE v = u
      BY <1>t, <2>1, <2>2, <3>1
    <3>2. CASE v # u
      <4>1. token'[v] = token[v] /\ token[v] # c /\ token[v] \in Claims
        BY <1>t, <2>1, <2>2, <2>7, <3>2 DEF Running
      <4>2. job'[token[v]] = job[token[v]] /\ token[v] \in Running
        BY <1>t, <2>2, <2>7, <4>1 DEF Running
      <4>3. QED
        BY <4>1, <4>2 DEF Fenced, ClaimTokensAreUnique
    <3>3. QED
      BY <3>1, <3>2
  <2>8. QED
    BY <2>5, <2>6, <2>7 DEF Fenced, ClaimTokensAreUnique
<1>4. CASE ClaimsDone \/ Resume
  BY <1>4, <1>s, <1>t DEF ClaimsDone, Resume
<1>5. CASE DrainReturns
  <2>1. CASE worker = "running" /\ wakeRequested
    <3>1. loop' = "claim" /\ Requeue(Lapsed)
      BY <1>5, <2>1 DEF DrainReturns
    <3>2. QED
      BY <1>5, <1>l, <1>r, <1>t, <3>1 DEF DrainReturns
  <2>2. CASE ~(worker = "running" /\ wakeRequested)
    BY <1>5, <2>2, <1>s, <1>t DEF DrainReturns, rowVars
  <2>3. QED
    BY <2>1, <2>2
<1>6. CASE RecoverLapsed
  <2>1. Wake /\ Requeue(Lapsed) /\ UNCHANGED <<created, eligible, job, file, worker, expiries, crashes>>
    BY <1>6 DEF RecoverLapsed
  <2>2. QED
    BY <1>l, <1>r, <1>t, <1>w, <2>1
<1>7. ASSUME NEW c \in Claims, Renew(c)
      PROVE  Fenced'
  <2>1. UNCHANGED <<created, status, token, eligible, job, file, loopVars, expiries, crashes>>
    BY <1>7 DEF Renew
  <2>2. leaseLive' \in [Uploads -> BOOLEAN]
    BY <1>7, <1>t DEF Renew
  <2>3. QED
    BY <1>t, <2>1, <2>2 DEF Fenced, TypeOK, ClaimTokensAreUnique, Running, loopVars
<1>8. ASSUME NEW u \in Uploads, LeaseLapses(u)
      PROVE  Fenced'
  <2>1. UNCHANGED <<created, status, token, eligible, job, file, loopVars, crashes>>
    BY <1>8 DEF LeaseLapses
  <2>2. leaseLive' \in [Uploads -> BOOLEAN] /\ expiries' \in Nat
    BY <1>8, <1>t DEF LeaseLapses
  <2>3. QED
    BY <1>t, <2>1, <2>2 DEF Fenced, TypeOK, ClaimTokensAreUnique, Running, loopVars
<1>9. CASE Close \/ (\E u \in Uploads : MoveTask(u))
  <2>1. UNCHANGED <<rowVars, job, file, expiries>> /\ loop' = loop
    BY <1>9 DEF Close, MoveTask, loopVars
  <2>2. /\ eligible' \in [Uploads -> BOOLEAN] /\ worker' \in {"running", "closing", "down"}
        /\ wakeRequested' \in BOOLEAN /\ crashes' \in Nat
    <3>1. CASE Close
      BY <1>t, <3>1 DEF Close
    <3>2. CASE \E u \in Uploads : MoveTask(u)
      <4>1. PICK u \in Uploads : MoveTask(u)
        BY <3>2
      <4>2. UNCHANGED <<worker, wakeRequested, crashes>>
        BY <4>1 DEF MoveTask, loopVars
      <4>3. eligible' \in [Uploads -> BOOLEAN]
        BY <1>t, <4>1 DEF MoveTask
      <4>4. QED
        BY <1>t, <4>2, <4>3
    <3>3. QED
      BY <1>9, <3>1, <3>2
  <2>3. QED
    BY <1>s, <1>t, <2>1, <2>2
<1>10. CASE Stop
  <2>1. /\ UNCHANGED <<rowVars, eligible, file, expiries>>
        /\ job' = [c \in Claims |-> None]
        /\ worker' = "down" /\ loop' = "idle" /\ wakeRequested' = FALSE /\ crashes' \in Nat
    BY <1>10, <1>t DEF Stop
  <2>2. QED
    BY <1>s, <1>t, <2>1
<1>11. CASE Restart
  <2>1. /\ Requeue(Lapsed) /\ loop' = "claim" /\ worker' = "running" /\ wakeRequested' = FALSE
        /\ UNCHANGED <<created, eligible, job, file, expiries, crashes>>
    BY <1>11 DEF Restart
  <2>2. QED
    BY <1>l, <1>r, <1>t, <2>1
<1>12. ASSUME NEW c \in Claims, JobStep(c)
       PROVE  Fenced'
  BY <1>12, JobStepKeepsFences
<1>13. CASE UNCHANGED vars
  BY <1>13 DEF vars, rowVars, loopVars, Fenced, TypeOK, ClaimTokensAreUnique, Running
<1>14. QED
  BY <1>1, <1>2, <1>3, <1>4, <1>5, <1>6, <1>7, <1>8, <1>9, <1>10, <1>11, <1>12, <1>13 DEF Next

\* The two together, in every run.
THEOREM AlwaysFenced == Spec => []Fenced
  BY FencedInit, FencedStep, PTL DEF Spec

\* The queue's rows, the jobs, the files and the loop keep their types.
THEOREM UploadTypeCorrect == Spec => []TypeOK
<1>1. Fenced => TypeOK
  BY DEF Fenced
<1>2. QED
  BY <1>1, AlwaysFenced, PTL

\* In every run a claim token names one claim of one row.
THEOREM TokensFence == Spec => []ClaimTokensAreUnique
<1>1. Fenced => ClaimTokensAreUnique
  BY DEF Fenced
<1>2. QED
  BY <1>1, AlwaysFenced, PTL

-----------------------------------------------------------------------------
(* A job of an older claim never settles a row                             *)

\* A row leaves `uploading' for a result in the step in which the job under
\* its own token marks or fails it.
THEOREM OwnersSettle == Spec => SettledByOwner
<1> DEFINE Act == \A u \in Uploads :
             status[u] = "uploading" /\ status'[u] \in {"uploaded", "failed"} =>
               token[u] \in Running /\ job'[token[u]] # job[token[u]]
<1>1. Fenced /\ [Next]_vars => Act
  <2> SUFFICES ASSUME Fenced, [Next]_vars, NEW u \in Uploads, status[u] = "uploading",
                      status'[u] \in {"uploaded", "failed"}
               PROVE  token[u] \in Running /\ job'[token[u]] # job[token[u]]
    OBVIOUS
  <2>t. /\ status \in [Uploads -> Statuses] /\ token \in [Uploads -> Claims \cup {None}]
        /\ job \in [Claims -> Jobs \cup {None}] /\ created \in Seq(Uploads)
    BY DEF Fenced, TypeOK
  <2>1. status' # status /\ status'[u] # "queued" /\ status'[u] # "uploading"
    BY <2>t
  <2>2. \A U \in SUBSET Uploads : ~Requeue(U)
    <3> SUFFICES ASSUME NEW U \in SUBSET Uploads, Requeue(U)
                 PROVE  FALSE
      OBVIOUS
    <3>1. status'[u] = IF u \in U THEN "queued" ELSE status[u]
      BY DEF Requeue
    <3>2. QED
      BY <2>1, <3>1
  <2>l. Lapsed \subseteq Uploads
    BY DEF Lapsed
  <2>3. \A v \in Uploads : ~(Enqueue(v) \/ Retry(v) \/ MoveTask(v) \/ LeaseLapses(v))
    <3>1. \A v \in Uploads : ~(MoveTask(v) \/ LeaseLapses(v))
      BY <2>1 DEF MoveTask, LeaseLapses, rowVars
    <3>2. \A v \in Uploads : ~Enqueue(v)
      <4> SUFFICES ASSUME NEW v \in Uploads, Enqueue(v)
                   PROVE  FALSE
        OBVIOUS
      <4> DEFINE U == Lapsed \cup (IF status[v] = "absent" THEN {v} ELSE {})
      <4>1. U \in SUBSET Uploads /\ Requeue(U)
        BY <2>l DEF Enqueue
      <4> HIDE DEF U
      <4>2. QED
        BY <2>2, <4>1
    <3>3. \A v \in Uploads : ~Retry(v)
      <4> SUFFICES ASSUME NEW v \in Uploads, Retry(v)
                   PROVE  FALSE
        OBVIOUS
      <4>1. Lapsed \cup {v} \in SUBSET Uploads /\ Requeue(Lapsed \cup {v})
        BY <2>l DEF Retry
      <4>2. QED
        BY <2>2, <4>1
    <3>4. QED
      BY <3>1, <3>2, <3>3
  <2>4. \A i \in 1..Len(created) : ~Claim(i)
    <3> SUFFICES ASSUME NEW i \in 1..Len(created), Claim(i)
                 PROVE  FALSE
      OBVIOUS
    <3>1. created[i] \in Uploads
      BY <2>t
    <3>2. status' = [status EXCEPT ![created[i]] = "uploading"]
      BY DEF Claim
    <3>3. status'[u] \in {status[u], "uploading"}
      BY <2>t, <3>1, <3>2
    <3>4. QED
      BY <2>1, <3>3
  <2>5. ~ClaimsDone /\ ~Resume /\ ~Close /\ ~Stop
    BY <2>1 DEF ClaimsDone, Resume, Close, Stop, rowVars
  <2>6. ~DrainReturns /\ ~RecoverLapsed /\ ~Restart
    BY <2>1, <2>2, <2>l DEF DrainReturns, RecoverLapsed, Restart
  <2>7. \A c \in Claims : ~Renew(c)
    BY <2>1 DEF Renew
  <2>8. vars' # vars
    BY <2>1 DEF vars, rowVars
  <2>9. PICK c \in Claims : JobStep(c)
    BY <2>3, <2>4, <2>5, <2>6, <2>7, <2>8 DEF Next
  <2>10. Mark(c) \/ Fail(c)
    <3>1. Check(c) \/ Copy(c) \/ Link(c) \/ Compare(c) \/ Rename(c) \/ Identify(c)
            \/ Revoke(c) \/ Verify(c) \/ Unlink(c) => status' = status
      BY DEF Check, Copy, Link, Compare, Rename, Identify, Revoke, Verify, Unlink,
         jobOnly, rowVars
    <3>2. QED
      BY <2>1, <2>9, <3>1 DEF JobStep
  <2>11. c \in Running /\ job[c] \in Jobs /\ job[c].pc \in {"mark", "fail"} /\ job[c] # None
    BY <2>t, <2>10 DEF Mark, Fail, At, Running
  <2>12. PICK outcome \in {"uploaded", "failed"} : Settle(c, Upload(c), outcome)
    BY <2>10 DEF Mark, Fail
  <2>13. Upload(c) \in Uploads
    BY <2>11 DEF Upload, Jobs
  <2>14. Owns(c, Upload(c)) /\ status' = [status EXCEPT ![Upload(c)] = outcome]
    BY <2>1, <2>12 DEF Settle, rowVars
  <2>15. u = Upload(c)
    BY <2>1, <2>t, <2>13, <2>14
  <2>16. token[u] = c
    BY <2>14, <2>15 DEF Owns
  <2>17. job'[c] # job[c]
    <3>1. CASE JobEnds(c)
      BY <2>t, <2>11, <3>1 DEF JobEnds
    <3>2. CASE At(c, "mark") /\ Goto(c, "revoke")
      <4>1. job'[c] = [job[c] EXCEPT !.pc = "revoke"]
        BY <2>t, <3>2 DEF Goto
      <4>2. job'[c].pc = "revoke" /\ job[c].pc = "mark"
        BY <2>11, <3>2, <4>1 DEF Jobs, At
      <4>3. QED
        BY <4>2
    <3>3. QED
      BY <2>10, <3>1, <3>2 DEF Mark, Fail
  <2>18. QED
    BY <2>11, <2>16, <2>17
<1>2. Act => [Act]_vars
  OBVIOUS
<1>3. QED
  BY <1>1, AlwaysFenced, PTL DEF Spec, SettledByOwner

-----------------------------------------------------------------------------
(* Concurrency of a subject                                                *)

\* SubjectConcurrency is not inductive: when the row with the largest limit
\* leaves, the rows that stay must still be within one of theirs.  So every
\* subset of a subject's uploading rows has a row whose limit covers it.
Graded ==
  \A s \in Subjects : \A S \in SUBSET Uploading(s) :
    S # {} => \E u \in S : Cardinality(S) <= concurrency[u]

\* No step but a claim adds an uploading row.
LEMMA OnlyClaimsUpload ==
  ASSUME TypeOK, [Next]_vars, \A i \in 1..Len(created) : ~Claim(i)
  PROVE  \A u \in Uploads : status'[u] = "uploading" => status[u] = "uploading"
<1>t. /\ status \in [Uploads -> Statuses] /\ job \in [Claims -> Jobs \cup {None}]
  BY DEF TypeOK
<1> SUFFICES ASSUME NEW u \in Uploads, status'[u] = "uploading"
             PROVE  status[u] = "uploading"
  OBVIOUS
<1>r. ASSUME NEW U, Requeue(U)
      PROVE  status[u] = "uploading"
  <2>1. status'[u] = IF u \in U THEN "queued" ELSE status[u]
    BY <1>r DEF Requeue
  <2>2. QED
    BY <2>1
<1>s. ASSUME NEW c \in Claims, NEW outcome \in {"uploaded", "failed"},
             Settle(c, Upload(c), outcome)
      PROVE  status[u] = "uploading"
  <2>1. status' = [status EXCEPT ![Upload(c)] = outcome] \/ status' = status
    BY <1>s DEF Settle, rowVars
  <2>2. QED
    BY <1>t, <2>1
<1>1. CASE \E v \in Uploads : Enqueue(v) \/ Retry(v) \/ MoveTask(v) \/ LeaseLapses(v)
  <2>1. PICK v \in Uploads : Enqueue(v) \/ Retry(v) \/ MoveTask(v) \/ LeaseLapses(v)
    BY <1>1
  <2>2. (\E U : Requeue(U)) \/ status' = status
    BY <2>1 DEF Enqueue, Retry, MoveTask, LeaseLapses, rowVars
  <2>3. QED
    BY <1>r, <2>2
<1>2. CASE ClaimsDone \/ Resume \/ DrainReturns \/ RecoverLapsed \/ Close \/ Stop \/ Restart
  <2>1. (\E U : Requeue(U)) \/ status' = status
    BY <1>2 DEF ClaimsDone, Resume, DrainReturns, RecoverLapsed, Close, Stop, Restart, rowVars
  <2>2. QED
    BY <1>r, <2>1
<1>3. ASSUME NEW c \in Claims, Renew(c) \/ JobStep(c)
      PROVE  status[u] = "uploading"
  <2>1. CASE Renew(c)
    BY <2>1 DEF Renew
  <2>2. CASE Mark(c) \/ Fail(c)
    BY <1>s, <2>2 DEF Mark, Fail
  <2>3. CASE JobStep(c) /\ ~Mark(c) /\ ~Fail(c)
    <3>1. status' = status
      BY <2>3 DEF JobStep, Check, Copy, Link, Compare, Rename, Identify, Revoke, Verify,
         Unlink, jobOnly, rowVars
    <3>2. QED
      BY <3>1
  <2>4. QED
    BY <1>3, <2>1, <2>2, <2>3
<1>4. CASE UNCHANGED vars
  BY <1>4 DEF vars, rowVars
<1>5. QED
  BY <1>1, <1>2, <1>3, <1>4 DEF Next

\* Only a claim can break the grading, and it claims below the row's limit.
LEMMA GradedStep == TypeOK /\ Graded /\ [Next]_vars => Graded'
<1> SUFFICES ASSUME TypeOK, Graded, [Next]_vars, NEW s \in Subjects,
                    NEW S \in SUBSET Uploading(s)', S # {}
             PROVE  \E u \in S : Cardinality(S) <= concurrency[u]
  BY DEF Graded
<1>t. status \in [Uploads -> Statuses] /\ created \in Seq(Uploads)
  BY DEF TypeOK
<1>c. S \subseteq Uploads /\ \A u \in S : status'[u] = "uploading" /\ subject[u] = s
  BY DEF Uploading
<1>g. ASSUME S \subseteq Uploading(s)
      PROVE  \E u \in S : Cardinality(S) <= concurrency[u]
  BY <1>g DEF Graded
<1>1. CASE \A i \in 1..Len(created) : ~Claim(i)
  <2>1. \A u \in Uploads : status'[u] = "uploading" => status[u] = "uploading"
    BY <1>1, OnlyClaimsUpload
  <2>2. S \subseteq Uploading(s)
    BY <1>c, <2>1 DEF Uploading
  <2>3. QED
    BY <1>g, <2>2
<1>2. ASSUME NEW i \in 1..Len(created), Claim(i)
      PROVE  \E u \in S : Cardinality(S) <= concurrency[u]
  <2> DEFINE u == created[i]
  <2>1. u \in Uploads
    BY <1>t
  <2>2. status' = [status EXCEPT ![u] = "uploading"]
    BY <1>2 DEF Claim
  <2>3. Cardinality(Uploading(subject[u])) < concurrency[u]
    BY <1>2 DEF Claim, NextClaim, Claimable
  <2> HIDE DEF u
  <2>4. S \subseteq Uploading(s) \cup {u}
    BY <1>c, <1>t, <2>1, <2>2 DEF Uploading
  <2>5. CASE u \notin S
    BY <1>g, <2>4, <2>5
  <2>6. CASE u \in S
    <3>1. s = subject[u]
      BY <1>c, <2>6
    <3>2. IsFiniteSet(Uploading(s)) /\ Cardinality(Uploading(s)) \in Nat
      <4>1. Uploading(s) \subseteq Uploads
        BY DEF Uploading
      <4>2. QED
        BY <4>1, UploadAssumption, FS_Subset, FS_CardinalityType
    <3>3. /\ IsFiniteSet(Uploading(s) \cup {u})
          /\ Cardinality(Uploading(s) \cup {u}) <= Cardinality(Uploading(s)) + 1
      <4>1. IsFiniteSet(Uploading(s) \cup {u})
        BY <3>2, FS_AddElement
      <4>2. Cardinality(Uploading(s) \cup {u}) =
              IF u \in Uploading(s) THEN Cardinality(Uploading(s)) ELSE Cardinality(Uploading(s)) + 1
        BY <3>2, FS_AddElement
      <4>3. QED
        BY <3>2, <4>1, <4>2
    <3>4. IsFiniteSet(S) /\ Cardinality(S) <= Cardinality(Uploading(s) \cup {u})
      BY <2>4, <3>3, FS_Subset
    <3>5. Cardinality(S) \in Nat /\ Cardinality(Uploading(s) \cup {u}) \in Nat
          /\ concurrency[u] \in Nat
      BY <2>1, <3>3, <3>4, FS_CardinalityType, UploadAssumption
    <3>6. Cardinality(S) <= concurrency[u]
      BY <2>3, <3>1, <3>2, <3>3, <3>4, <3>5
    <3>7. QED
      BY <2>6, <3>6
  <2>7. QED
    BY <2>5, <2>6
<1>3. QED
  BY <1>1, <1>2

\* The uploading rows of a subject stay within the limit of one of them, with
\* any mix of limits frozen in its rows.
THEOREM ConcurrencyBound == Spec => []SubjectConcurrency
<1>1. Init => Graded
  <2> SUFFICES ASSUME Init, NEW s \in Subjects, NEW S \in SUBSET Uploading(s)
               PROVE  S = {}
    BY DEF Graded
  <2>1. Uploading(s) = {}
    BY DEF Init, Uploading
  <2>2. QED
    BY <2>1
<1>2. Graded => SubjectConcurrency
  BY DEF Graded, SubjectConcurrency
<1>3. QED
  BY <1>1, <1>2, UploadTypeCorrect, GradedStep, PTL DEF Spec

-----------------------------------------------------------------------------
(* The destination files                                                   *)

\* Outside the job steps no file changes and no job moves: jobs only start and,
\* when the process stops, vanish.
LEMMA JobsElsewhere ==
  ASSUME TypeOK, [Next]_vars, \A c \in Claims : ~JobStep(c)
  PROVE  /\ file' = file
         /\ \A d \in Claims : \/ job'[d] = job[d]
                              \/ job'[d] = None
                              \/ job'[d].pc = "check"
<1>t. created \in Seq(Uploads) /\ job \in [Claims -> Jobs \cup {None}]
  BY DEF TypeOK
<1>1. ASSUME NEW i \in 1..Len(created), Claim(i)
      PROVE  /\ file' = file
             /\ \A d \in Claims : job'[d] = job[d] \/ job'[d].pc = "check"
  <2>1. PICK c \in Claims : job' = [job EXCEPT ![c] = [upload |-> created[i], pc |-> "check", ident |-> None]]
    BY <1>1 DEF Claim
  <2>2. file' = file
    BY <1>1 DEF Claim
  <2>3. QED
    BY <1>t, <2>1, <2>2
<1>2. CASE Stop
  BY <1>2 DEF Stop
<1>3. CASE \E u \in Uploads : Enqueue(u) \/ Retry(u) \/ MoveTask(u) \/ LeaseLapses(u)
  BY <1>3 DEF Enqueue, Retry, MoveTask, LeaseLapses
<1>4. CASE ClaimsDone \/ Resume \/ DrainReturns \/ RecoverLapsed \/ Close \/ Restart
             \/ (\E c \in Claims : Renew(c))
  BY <1>4 DEF ClaimsDone, Resume, DrainReturns, RecoverLapsed, Close, Restart, Renew
<1>5. CASE UNCHANGED vars
  BY <1>5 DEF vars
<1>6. QED
  BY <1>1, <1>2, <1>3, <1>4, <1>5 DEF Next

\* Where a job may go from each of its awaits.
LEMMA JobMoves ==
  ASSUME TypeOK, NEW c \in Claims, JobStep(c)
  PROVE  /\ job[c] \in Jobs /\ Upload(c) \in Uploads
         /\ \A d \in Claims : d # c => job'[d] = job[d]
         /\ \/ job'[c] = None
            \/ /\ job'[c].upload = job[c].upload
               /\ \/ Check(c) /\ job'[c].pc \in {"copy", "mark", "fail"}
                  \/ Copy(c) /\ job'[c].pc \in {"link", "fail"}
                  \/ Link(c) /\ job'[c].pc \in {"rename", "identify", "compare"}
                  \/ Compare(c) /\ job'[c].pc \in {"mark", "fail"}
                  \/ Rename(c) /\ job'[c].pc = "identify"
                  \/ Identify(c) /\ job'[c].pc \in {"mark", "fail"}
                  \/ Mark(c) /\ job'[c].pc = "revoke"
                  \/ Revoke(c) /\ job'[c].pc = "verify"
                  \/ Verify(c) /\ job'[c].pc = "unlink"
<1>t. job \in [Claims -> Jobs \cup {None}]
  BY DEF TypeOK
<1>1. c \in Running
  BY DEF JobStep, Check, Copy, Link, Compare, Rename, Identify, Mark, Revoke,
     Verify, Unlink, Fail, At
<1>2. job[c] \in Jobs /\ Upload(c) \in Uploads
  BY <1>t, <1>1 DEF Running, Upload, Jobs
<1>3. ASSUME NEW pc, Goto(c, pc)
      PROVE  /\ \A d \in Claims : d # c => job'[d] = job[d]
             /\ job'[c].pc = pc /\ job'[c].upload = job[c].upload
  <2>1. job' = [job EXCEPT ![c] = [job[c] EXCEPT !.pc = pc]]
    BY <1>3 DEF Goto
  <2>2. job'[c] = [job[c] EXCEPT !.pc = pc]
    BY <1>t, <2>1
  <2>3. job'[c].pc = pc /\ job'[c].upload = job[c].upload
    BY <1>2, <2>2 DEF Jobs
  <2>4. QED
    BY <1>t, <2>1, <2>3
<1>4. ASSUME JobEnds(c)
      PROVE  job'[c] = None /\ \A d \in Claims : d # c => job'[d] = job[d]
  BY <1>4, <1>t DEF JobEnds
<1>5. CASE Check(c)
  <2>1. PICK pc \in {"copy", "mark", "fail"} : Goto(c, pc)
    BY <1>5 DEF Check
  <2>2. QED
    BY <1>2, <1>3, <1>5, <2>1
<1>6. CASE Copy(c)
  <2>1. PICK pc \in {"link", "fail"} : Goto(c, pc)
    BY <1>6 DEF Copy
  <2>2. QED
    BY <1>2, <1>3, <1>6, <2>1
<1>7. CASE Link(c)
  <2>1. PICK pc \in {"rename", "identify", "compare"} : Goto(c, pc)
    BY <1>7 DEF Link
  <2>2. QED
    BY <1>2, <1>3, <1>7, <2>1
<1>8. CASE Compare(c)
  <2>1. PICK pc \in {"mark", "fail"} : Goto(c, pc)
    BY <1>8 DEF Compare
  <2>2. QED
    BY <1>2, <1>3, <1>8, <2>1
<1>9. CASE Rename(c)
  <2>1. Goto(c, "identify")
    BY <1>9 DEF Rename
  <2>2. QED
    BY <1>2, <1>3, <1>9, <2>1
<1>10. CASE Identify(c)
  <2> DEFINE i == file[Path(c)].ident
  <2>1. \/ job' = [job EXCEPT ![c] = [job[c] EXCEPT !.pc = "fail"]]
        \/ job' = [job EXCEPT ![c] = [job[c] EXCEPT !.pc = "mark", !.ident = i]]
    BY <1>10 DEF Identify
  <2> HIDE DEF i
  <2>2. /\ \A d \in Claims : d # c => job'[d] = job[d]
        /\ \/ job'[c] = [job[c] EXCEPT !.pc = "fail"]
           \/ job'[c] = [job[c] EXCEPT !.pc = "mark", !.ident = i]
    BY <1>t, <2>1
  <2>3. job'[c].pc \in {"mark", "fail"} /\ job'[c].upload = job[c].upload
    BY <1>2, <2>2 DEF Jobs
  <2>4. QED
    BY <1>2, <1>10, <2>2, <2>3
<1>11. CASE Mark(c)
  <2>1. Goto(c, "revoke") \/ JobEnds(c)
    BY <1>11 DEF Mark
  <2>2. QED
    BY <1>2, <1>3, <1>4, <1>11, <2>1
<1>12. CASE Revoke(c)
  <2>1. Goto(c, "verify") \/ JobEnds(c)
    BY <1>12 DEF Revoke
  <2>2. QED
    BY <1>2, <1>3, <1>4, <1>12, <2>1
<1>13. CASE Verify(c)
  <2>1. Goto(c, "unlink") \/ JobEnds(c)
    BY <1>13 DEF Verify
  <2>2. QED
    BY <1>2, <1>3, <1>4, <1>13, <2>1
<1>14. CASE Unlink(c) \/ Fail(c)
  <2>1. JobEnds(c)
    BY <1>14 DEF Unlink, Fail
  <2>2. QED
    BY <1>2, <1>4, <2>1
<1>15. QED
  BY <1>5, <1>6, <1>7, <1>8, <1>9, <1>10, <1>11, <1>12, <1>13, <1>14 DEF JobStep

\* Where the destination has hard links no job is ever about to rename.
NoRename == \A c \in Claims : job[c] # None => job[c].pc # "rename"

\* The only way to the rename is a link() the file system does not support.
LEMMA NoRenameStep == TypeOK /\ HardLinks /\ NoRename /\ [Next]_vars => NoRename'
<1> SUFFICES ASSUME TypeOK, HardLinks, NoRename, [Next]_vars,
                    NEW d \in Claims, job'[d] # None
             PROVE  job'[d].pc # "rename"
  BY DEF NoRename
<1>1. CASE \A c \in Claims : ~JobStep(c)
  BY <1>1, JobsElsewhere DEF NoRename
<1>2. ASSUME NEW c \in Claims, JobStep(c)
      PROVE  job'[d].pc # "rename"
  <2>1. ASSUME d = c, Link(c)
        PROVE  job'[c].pc # "rename"
    <3>1. \E pc \in {"identify", "compare"} : Goto(c, pc)
      BY <2>1 DEF Link
    <3>2. PICK pc \in {"identify", "compare"} : job' = [job EXCEPT ![c] = [job[c] EXCEPT !.pc = pc]]
      BY <3>1 DEF Goto
    <3>3. job[c] \in Jobs /\ job'[c] = [job[c] EXCEPT !.pc = pc]
      BY <1>2, <3>2, JobMoves DEF TypeOK
    <3>4. QED
      BY <3>3 DEF Jobs
  <2>2. QED
    BY <1>2, <2>1, JobMoves DEF NoRename
<1>3. QED
  BY <1>1, <1>2

\* On a destination with hard links a published ZIP is never replaced by a
\* different one.
THEOREM NeverOverwritten == ASSUME HardLinks PROVE Spec => NoOverwrite
<1> DEFINE Act == \A f \in Files : file[f] # None /\ file'[f] # None => file'[f].hash = file[f].hash
<1>1. Init => NoRename
  BY DEF Init, NoRename
<1>2. TypeOK /\ NoRename /\ [Next]_vars => Act
  <2> SUFFICES ASSUME TypeOK, NoRename, [Next]_vars, NEW f \in Files,
                      file[f] # None, file'[f] # None
               PROVE  file'[f].hash = file[f].hash
    OBVIOUS
  <2>1. CASE \A c \in Claims : ~JobStep(c)
    BY <2>1, JobsElsewhere
  <2>2. ASSUME NEW c \in Claims, JobStep(c)
        PROVE  file'[f].hash = file[f].hash
    <3>1. ~Rename(c)
      BY DEF Rename, At, NoRename, Running
    <3>2. CASE Link(c)
      BY <3>2 DEF Link, TypeOK
    <3>3. CASE Unlink(c)
      BY <3>3 DEF Unlink, TypeOK
    <3>4. CASE ~Link(c) /\ ~Unlink(c)
      <4>1. file' = file
        BY <2>2, <3>1, <3>4 DEF JobStep, Check, Copy, Compare, Identify, Mark, Revoke, Verify,
           Fail, jobOnly
      <4>2. QED
        BY <4>1
    <3>5. QED
      BY <3>2, <3>3, <3>4
  <2>3. QED
    BY <2>1, <2>2
<1>3. TypeOK /\ NoRename /\ [Next]_vars => NoRename'
  BY NoRenameStep
<1>4. QED
  BY <1>1, <1>2, <1>3, UploadTypeCorrect, PTL DEF Spec, NoOverwrite

\* An uploaded row is delivered because its job saw the ZIP under its name after
\* it had published or found it, and nothing takes it away in between: no job
\* renames over it, and no task is revoked.
Delivering ==
  /\ TypeOK
  /\ NoRename
  /\ \A u \in Uploads : eligible[u]
  /\ \A c \in Claims : job[c] # None =>
       /\ job[c].pc \notin {"revoke", "verify", "unlink"}
       /\ job[c].pc \in {"identify", "mark"} => SameContent(c)
  /\ UploadedIsDelivered

\* A row becomes `uploaded' only when its job marks it.
LEMMA UploadedByMark ==
  ASSUME TypeOK, [Next]_vars, NEW u \in Uploads, status'[u] = "uploaded", status[u] # "uploaded"
  PROVE  \E c \in Claims : Mark(c) /\ Upload(c) = u
<1>t. status \in [Uploads -> Statuses] /\ created \in Seq(Uploads)
      /\ job \in [Claims -> Jobs \cup {None}]
  BY DEF TypeOK
<1>1. \A U : ~Requeue(U)
  <2> SUFFICES ASSUME NEW U, Requeue(U)
               PROVE  FALSE
    OBVIOUS
  <2>1. status'[u] = IF u \in U THEN "queued" ELSE status[u]
    BY DEF Requeue
  <2>2. QED
    BY <2>1
<1>2. \A v \in Uploads : ~(Enqueue(v) \/ Retry(v) \/ MoveTask(v) \/ LeaseLapses(v))
  BY <1>1 DEF Enqueue, Retry, MoveTask, LeaseLapses, rowVars
<1>3. ~(ClaimsDone \/ Resume \/ DrainReturns \/ RecoverLapsed \/ Close \/ Stop \/ Restart)
  BY <1>1 DEF ClaimsDone, Resume, DrainReturns, RecoverLapsed, Close, Stop, Restart, rowVars
<1>4. \A i \in 1..Len(created) : ~Claim(i)
  <2> SUFFICES ASSUME NEW i \in 1..Len(created), Claim(i)
               PROVE  FALSE
    OBVIOUS
  <2>1. status' = [status EXCEPT ![created[i]] = "uploading"]
    BY DEF Claim
  <2>2. status'[u] \in {status[u], "uploading"}
    BY <1>t, <2>1
  <2>3. QED
    BY <2>2
<1>5. \A c \in Claims : ~Renew(c)
  BY DEF Renew
<1>6. ~UNCHANGED vars
  BY DEF vars, rowVars
<1>7. PICK c \in Claims : JobStep(c)
  BY <1>2, <1>3, <1>4, <1>5, <1>6 DEF Next
<1>8. Mark(c) \/ Fail(c)
  <2>1. Check(c) \/ Copy(c) \/ Link(c) \/ Compare(c) \/ Rename(c) \/ Identify(c)
          \/ Revoke(c) \/ Verify(c) \/ Unlink(c) => status' = status
    BY DEF Check, Copy, Link, Compare, Rename, Identify, Revoke, Verify, Unlink, jobOnly, rowVars
  <2>2. QED
    BY <1>7, <2>1 DEF JobStep
<1>9. \E outcome : /\ Settle(c, Upload(c), outcome)
                   /\ Fail(c) => outcome = "failed"
  BY <1>8 DEF Mark, Fail
<1>10. PICK outcome : status' = [status EXCEPT ![Upload(c)] = outcome] /\ (Fail(c) => outcome = "failed")
  BY <1>9 DEF Settle, rowVars
<1>11. Upload(c) = u /\ outcome = "uploaded"
  BY <1>t, <1>10
<1>12. QED
  BY <1>8, <1>10, <1>11

\* On a destination with hard links, while no task leaves `done', an uploaded
\* row's ZIP is at its destination, whichever job put it there.
THEOREM Delivered ==
  ASSUME HardLinks, Revocable = {} PROVE Spec => []UploadedIsDelivered
<1>1. Init => Delivering
  <2> SUFFICES ASSUME Init
               PROVE  Delivering
    OBVIOUS
  <2>1. TypeOK
    BY FencedInit DEF Fenced
  <2>2. (\A u \in Uploads : eligible[u]) /\ (\A c \in Claims : job[c] = None)
        /\ (\A u \in Uploads : status[u] = "absent")
    BY DEF Init
  <2>3. QED
    BY <2>1, <2>2 DEF Delivering, NoRename, UploadedIsDelivered
<1>2. TypeOK' /\ Delivering /\ [Next]_vars => Delivering'
  <2> SUFFICES ASSUME TypeOK', Delivering, [Next]_vars
               PROVE  Delivering'
    OBVIOUS
  <2>t. /\ TypeOK /\ NoRename /\ \A u \in Uploads : eligible[u]
        /\ file \in [Files -> Content \cup {None}] /\ job \in [Claims -> Jobs \cup {None}]
    BY DEF Delivering, TypeOK
  <2>1. NoRename'
    BY <2>t, NoRenameStep
  <2>2. \A u \in Uploads : eligible'[u]
    <3>1. \A u \in Uploads : ~MoveTask(u)
      BY DEF MoveTask
    <3>2. eligible' = eligible
      <4>1. \A u \in Uploads : Enqueue(u) \/ Retry(u) \/ LeaseLapses(u) => eligible' = eligible
        BY DEF Enqueue, Retry, LeaseLapses
      <4>2. \A c \in Claims : Renew(c) \/ JobStep(c) => eligible' = eligible
        BY DEF Renew, JobStep, Check, Copy, Link, Compare, Rename, Identify, Mark, Revoke,
           Verify, Unlink, Fail, jobOnly
      <4>3. \A i \in 1..Len(created) : Claim(i) => eligible' = eligible
        BY DEF Claim
      <4>4. ClaimsDone \/ Resume \/ DrainReturns \/ RecoverLapsed \/ Close \/ Stop \/ Restart
              \/ UNCHANGED vars => eligible' = eligible
        BY DEF ClaimsDone, Resume, DrainReturns, RecoverLapsed, Close, Stop, Restart, vars
      <4>5. QED
        BY <3>1, <4>1, <4>2, <4>3, <4>4 DEF Next
    <3>3. QED
      BY <2>t, <3>2
  <2>3. \A f \in Files : file[f] # None => file'[f] = file[f]
    <3>1. CASE \A c \in Claims : ~JobStep(c)
      BY <2>t, <3>1, JobsElsewhere
    <3>2. ASSUME NEW c \in Claims, JobStep(c), NEW f \in Files, file[f] # None
          PROVE  file'[f] = file[f]
      <4>1. ~Rename(c) /\ ~Unlink(c)
        BY DEF Rename, Unlink, At, Running, Delivering, NoRename
      <4>2. CASE Link(c)
        BY <2>t, <3>2, <4>2 DEF Link
      <4>3. CASE ~Link(c)
        BY <3>2, <4>1, <4>3 DEF JobStep, Check, Copy, Compare, Identify, Mark, Revoke, Verify,
           Fail, jobOnly
      <4>4. QED
        BY <4>2, <4>3
    <3>3. QED
      BY <3>1, <3>2
  <2>4. ASSUME NEW d \in Claims, job'[d] # None
        PROVE  /\ job'[d].pc \notin {"revoke", "verify", "unlink"}
               /\ job'[d].pc \in {"identify", "mark"} => SameContent(d)'
    <3>0. ASSUME job'[d] = job[d]
          PROVE  /\ job'[d].pc \notin {"revoke", "verify", "unlink"}
                 /\ job'[d].pc \in {"identify", "mark"} => SameContent(d)'
      <4>1. Path(d) \in Files
        BY <2>t, <2>4, <3>0, UploadAssumption DEF Path, Upload, Jobs
      <4>2. SameContent(d) => SameContent(d)'
        BY <2>3, <3>0, <4>1 DEF SameContent, Path, Upload
      <4>3. QED
        BY <2>4, <3>0, <4>2 DEF Delivering
    <3>1. CASE \A c \in Claims : ~JobStep(c)
      BY <2>t, <2>4, <3>0, <3>1, JobsElsewhere
    <3>2. ASSUME NEW c \in Claims, JobStep(c)
          PROVE  /\ job'[d].pc \notin {"revoke", "verify", "unlink"}
                 /\ job'[d].pc \in {"identify", "mark"} => SameContent(d)'
      <4>1. CASE d # c
        BY <2>t, <3>0, <3>2, <4>1, JobMoves
      <4>2. CASE d = c
        <5>1. Path(c) \in Files /\ Path(c)' = Path(c) /\ hash[Upload(c)]' = hash[Upload(c)]
              /\ job[c] # None /\ c \in Running
          <6>1. job'[c].upload = job[c].upload /\ Upload(c) \in Uploads
            BY <2>t, <2>4, <3>2, <4>2, JobMoves
          <6>2. c \in Running
            BY <3>2 DEF JobStep, Check, Copy, Link, Compare, Rename, Identify, Mark, Revoke,
               Verify, Unlink, Fail, At
          <6>3. QED
            BY <6>1, <6>2, UploadAssumption DEF Path, Upload, Running
        <5>2. SameContent(c) => SameContent(c)'
          BY <2>3, <5>1 DEF SameContent
        <5>3. ~Revoke(c) /\ ~Verify(c) /\ ~Rename(c)
          BY DEF Delivering, NoRename, Revoke, Verify, Rename, At, Running
        <5>4. ~(Mark(c) /\ job'[c].pc = "revoke")
          <6> SUFFICES ASSUME Mark(c), job'[c].pc = "revoke"
                       PROVE  FALSE
            OBVIOUS
          <6>1. eligible[Upload(c)]
            BY <2>t, <3>2, JobMoves
          <6>2. JobEnds(c)
            BY <6>1 DEF Mark
          <6>3. QED
            BY <2>t, <2>4, <4>2, <6>2 DEF JobEnds
        <5>5. Check(c) /\ job'[c].pc = "mark" => SameContent(c)
          <6> SUFFICES ASSUME Check(c), job'[c].pc = "mark", ~SameContent(c)
                       PROVE  FALSE
            OBVIOUS
          <6>1. PICK pc \in {"copy", "fail"} : job' = [job EXCEPT ![c] = [job[c] EXCEPT !.pc = pc]]
            BY DEF Check, Goto
          <6>2. job'[c] = [job[c] EXCEPT !.pc = pc] /\ job[c] \in Jobs
            BY <2>t, <3>2, <6>1, JobMoves
          <6>3. QED
            BY <6>2 DEF Jobs
        <5>6. Compare(c) /\ job'[c].pc = "mark" => SameContent(c)
          <6> SUFFICES ASSUME Compare(c), job'[c].pc = "mark", ~SameContent(c)
                       PROVE  FALSE
            OBVIOUS
          <6>1. job' = [job EXCEPT ![c] = [job[c] EXCEPT !.pc = "fail"]]
            BY DEF Compare, Goto
          <6>2. job'[c] = [job[c] EXCEPT !.pc = "fail"] /\ job[c] \in Jobs
            BY <2>t, <3>2, <6>1, JobMoves
          <6>3. QED
            BY <6>2 DEF Jobs
        <5>7. Identify(c) /\ job'[c].pc = "mark" => SameContent(c)
          BY <5>1 DEF Identify, At, Delivering
        <5>8. Link(c) /\ job'[c].pc = "identify" => SameContent(c)'
          <6> SUFFICES ASSUME Link(c), job'[c].pc = "identify"
                       PROVE  SameContent(c)'
            OBVIOUS
          <6>1. CASE file[Path(c)] = None
            <7>1. file' = [file EXCEPT ![Path(c)] = [hash |-> hash[Upload(c)], ident |-> c]]
              BY <6>1 DEF Link
            <7>2. file'[Path(c)] = [hash |-> hash[Upload(c)], ident |-> c]
              BY <2>t, <5>1, <7>1
            <7>3. file'[Path(c)] # None
              <8>1. [hash |-> hash[Upload(c)], ident |-> c] \in Content
                BY <2>t, <3>2, JobMoves, UploadAssumption DEF Content
              <8>2. QED
                BY <7>2, <8>1, UploadAssumption
            <7>4. QED
              BY <5>1, <7>2, <7>3 DEF SameContent
          <6>2. CASE file[Path(c)] # None
            <7>1. job' = [job EXCEPT ![c] = [job[c] EXCEPT !.pc = "compare"]]
              BY <6>2 DEF Link, Goto
            <7>2. job'[c] = [job[c] EXCEPT !.pc = "compare"] /\ job[c] \in Jobs
              BY <2>t, <3>2, <7>1, JobMoves
            <7>3. QED
              BY <7>2 DEF Jobs
          <6>3. QED
            BY <6>1, <6>2
        <5>9. QED
          BY <2>t, <2>4, <3>2, <4>2, <5>2, <5>3, <5>4, <5>5, <5>6, <5>7, <5>8, JobMoves
      <4>3. QED
        BY <4>1, <4>2
    <3>3. QED
      BY <3>1, <3>2
  <2>5. UploadedIsDelivered'
    <3> SUFFICES ASSUME NEW u \in Uploads, status'[u] = "uploaded"
                 PROVE  file'[target[u]] # None /\ file'[target[u]].hash = hash[u]
      BY DEF UploadedIsDelivered
    <3>1. target[u] \in Files
      BY UploadAssumption
    <3>2. file[target[u]] # None /\ file[target[u]].hash = hash[u]
      <4>1. CASE status[u] = "uploaded"
        BY <4>1 DEF Delivering, UploadedIsDelivered
      <4>2. CASE status[u] # "uploaded"
        <5>1. PICK c \in Claims : Mark(c) /\ Upload(c) = u
          BY <2>t, <4>2, UploadedByMark
        <5>2. SameContent(c)
          BY <5>1 DEF Mark, At, Running, Delivering
        <5>3. QED
          BY <5>1, <5>2 DEF SameContent, Path
      <4>3. QED
        BY <4>1, <4>2
    <3>3. QED
      BY <2>3, <3>1, <3>2
  <2>6. QED
    BY <2>1, <2>2, <2>4, <2>5 DEF Delivering
<1>3. Delivering => UploadedIsDelivered
  BY DEF Delivering
<1>4. QED
  BY <1>1, <1>2, <1>3, UploadTypeCorrect, PTL DEF Spec
=============================================================================
