--------------------------- MODULE AutomationPolicy ---------------------------
(***************************************************************************)
(* The automation of one local project (scripts/codex-injector.mjs,        *)
(* shared/taskboard-automation.mjs, web/src/App.tsx): the board saves a    *)
(* policy, the injector keeps it in memory and on disk, applies it to the  *)
(* automation Codex has for the project, and checks it again whenever its  *)
(* timer fires, against the tasks to do and the quota.  Changes of the     *)
(* policy are made at once, their application waits in a queue.            *)
(***************************************************************************)
EXTENDS Integers, Sequences

CONSTANTS
  NoPolicy,
  MaxSaves,    \* bound on policies: saved, rebuilt, loaded after a restart
  MaxChecks,   \* bound on checks the board asks for
  MaxCodex,    \* bound on what the user does to the automation in Codex
  MaxTroubles  \* bound on failing requests and writes, lost answers, restarts

Options == [enabled : BOOLEAN, aware : BOOLEAN]
Quotas == {"none", "available", "blocked"}
Policy == [enabled : BOOLEAN, aware : BOOLEAN, quota : Quotas]

ASSUME PolicyAssumption == NoPolicy \notin Options /\ NoPolicy \notin Policy

VARIABLES
  queued,    \* the save that waits on the page
  asking,    \* the record the page's request has made, 0 if none is under way
  wanted,    \* what the user has saved last
  rec,       \* the records, in the order they were made
  current,   \* the one in the map, 0 if none
  updates,   \* requests that have made a record: the record before, how far it is
  jobs,      \* the queue of mutations
  work,      \* where the first of them waits
  writes,    \* writes of the file in their order
  stored,    \* the file
  timer,     \* the version the timer was set for, 0 if there is none
  restoring,
  item,      \* the automation in Codex
  byCodex,   \* was it changed in Codex since it was applied last?
  broken,    \* has the current policy met a failure since it was last checked?
  checks, changes, troubles

pageVars == <<queued, asking, wanted>>
recordVars == <<rec, current>>
fileVars == <<writes, stored>>
itemVars == <<item, byCodex>>
countVars == <<checks, changes, troubles>>
policyVars == <<pageVars, recordVars, updates, jobs, work, fileVars, timer, restoring, itemVars,
                broken, countVars>>

NoWork == [at |-> "idle"]
Ids == 1..Len(rec)

PolicyInit ==
  /\ queued = NoPolicy /\ asking = 0 /\ wanted = NoPolicy
  /\ rec = <<>> /\ current = 0
  /\ updates = [i \in {} |-> 0] /\ jobs = <<>> /\ work = NoWork
  /\ writes = <<>> /\ stored = NoPolicy /\ timer = 0 /\ restoring = FALSE
  /\ item \in {"none", "PAUSED", "ACTIVE"} /\ byCodex = TRUE /\ broken = FALSE
  /\ checks = 0 /\ changes = 0 /\ troubles = 0

Data(rs, i) ==
  IF i = 0 THEN NoPolicy ELSE [enabled |-> rs[i].enabled, aware |-> rs[i].aware, quota |-> rs[i].quota]
Asked(o) == IF o = NoPolicy THEN o ELSE [enabled |-> o.enabled, aware |-> o.aware]
SameVersion(i, j) == i # 0 /\ j # 0 /\ rec[i].version = rec[j].version
Persist(rs, i, by) == writes' = Append(writes, [data |-> Data(rs, i), by |-> by])

-----------------------------------------------------------------------------
(* Updates of the policy                                                   *)

\* saveProjectAutomation: a later save replaces the one that waits.
Save(o) ==
  /\ Len(rec) < MaxSaves
  /\ queued' = o /\ wanted' = o
  /\ UNCHANGED <<asking, recordVars, updates, jobs, work, fileVars, timer, restoring, itemVars,
                 broken, countVars>>

\* updateAndApplyQuotaPolicy up to its first await.
Update(o) ==
  LET i == Len(rec) + 1
      record == [version |-> IF current = 0 THEN 1 ELSE rec[current].version + 1,
                 enabled |-> o.enabled, aware |-> o.aware,
                 quota |-> IF o.aware /\ current # 0 THEN rec[current].quota ELSE "none"]
  IN  /\ i <= MaxSaves
      /\ rec' = Append(rec, record) /\ current' = i
      /\ updates' = [j \in DOMAIN updates \cup {i} |->
                       IF j = i THEN [before |-> current, at |-> "persist"] ELSE updates[j]]
      /\ Persist(rec', i, i)

\* drainQueuedAutomationSaves: one save at a time.
SendSave ==
  /\ asking = 0 /\ queued # NoPolicy
  /\ queued' = NoPolicy /\ asking' = Len(rec) + 1
  /\ Update(queued)
  /\ UNCHANGED <<wanted, jobs, work, stored, timer, restoring, itemVars, broken, countVars>>

\* The page gives up after ten seconds, the host goes on.
SaveTimesOut ==
  /\ asking # 0 /\ troubles < MaxTroubles /\ troubles' = troubles + 1
  /\ asking' = 0
  /\ UNCHANGED <<queued, wanted, recordVars, updates, jobs, work, fileVars, timer, restoring,
                 itemVars, broken, checks, changes>>

Answered(i) ==
  /\ updates' = [j \in DOMAIN updates \ {i} |-> updates[j]]
  /\ asking' = IF asking = i THEN 0 ELSE asking

\* Faulty: the record before comes back though there is a newer one.
UndoAnyway(i, others) ==
  LET before == updates[i].before IN
  /\ current' = before
  /\ updates' = [updates EXCEPT ![i].at = "undo"]
  /\ writes' = Append(others, [data |-> Data(rec, before), by |-> i])
  /\ wanted' = IF SameVersion(current, i) /\ queued = NoPolicy THEN Asked(Data(rec, before)) ELSE wanted
  /\ UNCHANGED asking

\* The update of record i has failed: the record before it comes back, unless
\* there is a newer one.
Undo(i, others) ==
  IF SameVersion(current, i)
  THEN LET before == updates[i].before IN
       /\ current' = before
       /\ updates' = [updates EXCEPT ![i].at = "undo"]
       /\ writes' = Append(others, [data |-> Data(rec, before), by |-> i])
       /\ wanted' = IF queued = NoPolicy THEN Asked(Data(rec, before)) ELSE wanted
       /\ UNCHANGED asking
  ELSE Answered(i) /\ writes' = others /\ UNCHANGED <<current, wanted>>

-----------------------------------------------------------------------------
(* The queue of mutations                                                  *)

Job(by, i) == [by |-> by, record |-> i, version |-> rec[i].version]

\* reconcileStoredAutomationPolicy: the board lists the automation.  A project that
\* has moved gets its policy anew, as if the user had saved it.
List ==
  /\ checks < MaxChecks /\ checks' = checks + 1 /\ current # 0
  /\ \/ /\ jobs' = Append(jobs, Job("list", current))
        /\ UNCHANGED <<recordVars, updates, writes>>
     \/ Update(Asked(Data(rec, current))) /\ UNCHANGED jobs
  /\ UNCHANGED <<pageVars, work, stored, timer, restoring, itemVars, broken, changes, troubles>>

TimerFires ==
  /\ timer # 0 /\ timer' = 0
  /\ jobs' = IF current # 0 /\ rec[current].version = timer
             THEN Append(jobs, Job("timer", current)) ELSE jobs
  /\ UNCHANGED <<pageVars, recordVars, updates, work, fileVars, restoring, itemVars, broken,
                 countVars>>

\* scheduleQuotaPolicyCheck
Schedule(rs, i) == timer' = IF rs[i].enabled THEN rs[i].version ELSE 0

JobStarts ==
  /\ jobs # <<>> /\ work = NoWork
  /\ SameVersion(current, Head(jobs).record)
  /\ work' = [at |-> "check", record |-> current]
  /\ UNCHANGED <<pageVars, recordVars, updates, jobs, fileVars, timer, restoring, itemVars,
                 broken, countVars>>

\* The caller of the first mutation hears that it is over, and the next one begins.
JobOver ==
  /\ jobs' = Tail(jobs) /\ work' = NoWork
  /\ restoring' = (restoring /\ Head(jobs).by # "restore")
  /\ IF Head(jobs).by = "update" THEN Answered(Head(jobs).record) ELSE UNCHANGED <<updates, asking>>

\* The policy has been changed since, or is changed while the tasks are counted.
JobIsStale ==
  /\ jobs # <<>>
  /\ \/ work = NoWork /\ ~SameVersion(current, Head(jobs).record)
     \/ work.at = "check" /\ ~SameVersion(current, work.record)
  /\ JobOver
  /\ UNCHANGED <<queued, wanted, recordVars, fileVars, timer, itemVars, broken, countVars>>

\* taskboardAutomationPolicyOperation
Operation(r, explicit, todo, quota, status) ==
  CASE ~r.enabled \/ ~todo -> "pause"
    [] r.enabled /\ todo /\ ~explicit /\ status = "PAUSED" /\ (~r.aware \/ r.quota = "available") -> "list"
    [] OTHER -> IF r.aware /\ quota # "available" THEN "pause" ELSE "ensure-active"

Explicit == Head(jobs).by = "update"
Mine == rec[work.record]

\* What a mutation leaves in the record it began with.
Outcome(r, op, todo, quota, status) ==
  LET off == \/ r.enabled /\ ~todo /\ op = "pause"
             \/ ~Explicit /\ op = "list" /\ status = "PAUSED"
  IN  [r EXCEPT !.version = IF off THEN @ + 1 ELSE @,
                !.enabled = @ /\ ~off,
                !.quota = IF ~r.aware THEN "none" ELSE IF quota # "none" THEN quota ELSE @]

\* The tasks and the quota are read; a check by itself reads the automation too.
Checked(todo, quota) ==
  /\ work # NoWork /\ work.at = "check" /\ SameVersion(current, work.record)
  /\ Mine.enabled \/ todo
  /\ quota \in IF Mine.aware /\ todo THEN {"available", "blocked"} ELSE {"none"}
  /\ work' = [at |-> IF Mine.enabled /\ ~Explicit THEN "list" ELSE "apply", record |-> work.record,
              todo |-> todo, quota |-> quota, status |-> "none"]
  /\ UNCHANGED <<pageVars, recordVars, updates, jobs, fileVars, timer, restoring, itemVars,
                 broken, countVars>>

\* Faulty: the file gets the record as it was before the mutation.
FinishUnwritten(w, op) ==
  /\ rec' = [rec EXCEPT ![w.record] = Outcome(@, op, w.todo, w.quota, w.status)]
  /\ Persist(rec, current, 0)
  /\ work' = [at |-> "persist", record |-> w.record]

Finish(w, op) ==
  /\ rec' = [rec EXCEPT ![w.record] = Outcome(@, op, w.todo, w.quota, w.status)]
  /\ Persist(rec', current, 0)
  /\ work' = [at |-> "persist", record |-> w.record]

Op(w) == Operation(Mine, Explicit, w.todo, w.quota, w.status)

Listed ==
  /\ work.at = "list"
  /\ LET w == [work EXCEPT !.status = item] IN
       IF Op(w) = "list" THEN Finish(w, "list") ELSE work' = [w EXCEPT !.at = "apply"] /\ UNCHANGED <<rec, writes>>
  /\ UNCHANGED <<pageVars, current, updates, jobs, stored, timer, restoring, itemVars, broken,
                 countVars>>

\* reconcileTaskboardAutomation: pausing creates nothing.
Applies ==
  /\ work.at = "apply" /\ work' = [work EXCEPT !.at = "applied"]
  /\ item' = CASE Op(work) = "ensure-active" -> "ACTIVE"
               [] item = "none" -> "none"
               [] OTHER -> "PAUSED"
  /\ byCodex' = FALSE
  /\ UNCHANGED <<pageVars, recordVars, updates, jobs, fileVars, timer, restoring, broken, countVars>>

Applied ==
  /\ work.at = "applied" /\ Finish(work, Op(work))
  /\ UNCHANGED <<pageVars, current, updates, jobs, stored, timer, restoring, itemVars, broken,
                 countVars>>

\* The first mutation fails; a check that the timer began is tried again.
JobFails(others) ==
  LET job == Head(jobs) IN
  /\ jobs' = Tail(jobs) /\ work' = NoWork
  /\ broken' = (broken \/ work.record = current \/ SameVersion(current, job.record))
  /\ IF job.by = "update"
     THEN Undo(job.record, others)
     ELSE writes' = others /\ UNCHANGED <<current, updates, asking, wanted>>
  /\ IF job.by = "timer" /\ current # 0 /\ rec[current].version = job.version
     THEN Schedule(rec, current) ELSE UNCHANGED timer

\* Counting the tasks, reading the quota or a request to Codex fails, which may have
\* applied it all the same.
RequestFails ==
  /\ work # NoWork /\ work.at \in {"check", "list", "apply", "applied"}
  /\ troubles < MaxTroubles /\ troubles' = troubles + 1
  /\ JobFails(writes)
  /\ UNCHANGED <<queued, rec, stored, restoring, itemVars, checks, changes>>

-----------------------------------------------------------------------------
(* The file                                                                *)

WriteDone ==
  /\ writes # <<>> /\ stored' = Head(writes).data /\ writes' = Tail(writes)
  /\ LET i == Head(writes).by IN
     IF i = 0
     THEN JobOver /\ Schedule(rec, work.record) /\ broken' = (broken /\ work.record # current)
     ELSE /\ UNCHANGED <<work, timer, restoring, broken>>
          /\ IF updates[i].at = "persist"
             THEN /\ jobs' = Append(jobs, Job("update", i))
                  /\ updates' = [updates EXCEPT ![i].at = "queued"] /\ UNCHANGED asking
             ELSE Answered(i) /\ UNCHANGED jobs
  /\ UNCHANGED <<queued, wanted, recordVars, itemVars, countVars>>

WriteFails ==
  /\ writes # <<>> /\ troubles < MaxTroubles /\ troubles' = troubles + 1
  /\ LET i == Head(writes).by IN
     CASE i = 0 -> JobFails(Tail(writes))
       [] i # 0 /\ updates[i].at = "persist" ->
            /\ Undo(i, Tail(writes)) /\ broken' = (broken \/ SameVersion(current, i))
            /\ UNCHANGED <<jobs, work, timer>>
       [] OTHER ->
            /\ Answered(i) /\ writes' = Tail(writes) /\ broken' = TRUE
            /\ UNCHANGED <<current, wanted, jobs, work, timer>>
  /\ UNCHANGED <<queued, rec, stored, restoring, itemVars, checks, changes>>

\* The injector stops between two steps and starts again, with what the file says.
RestartInjector ==
  /\ troubles < MaxTroubles /\ troubles' = troubles + 1
  /\ Len(rec) < MaxSaves /\ asking' = 0
  /\ wanted' = IF queued = NoPolicy THEN Asked(stored) ELSE wanted
  /\ IF stored = NoPolicy
     THEN current' = 0 /\ UNCHANGED rec
     ELSE /\ rec' = [i \in 1..(Len(rec) + 1) |->
                       [version |-> 1, enabled |-> stored.enabled, aware |-> stored.aware, quota |-> stored.quota]]
          /\ current' = Len(rec) + 1
  /\ updates' = [i \in {} |-> 0] /\ jobs' = <<>> /\ work' = NoWork /\ writes' = <<>> /\ timer' = 0
  /\ restoring' = (stored # NoPolicy) /\ broken' = TRUE
  /\ UNCHANGED <<queued, stored, itemVars, checks, changes>>

\* restoreQuotaPolicies: an enabled policy is checked.
Restore ==
  /\ restoring /\ \A n \in DOMAIN jobs : jobs[n].by # "restore"
  /\ IF rec[current].enabled
     THEN jobs' = Append(jobs, Job("restore", current)) /\ UNCHANGED restoring
     ELSE restoring' = FALSE /\ UNCHANGED jobs
  /\ UNCHANGED <<pageVars, recordVars, updates, work, fileVars, timer, itemVars, broken, countVars>>

CodexChangesItem ==
  /\ changes < MaxCodex /\ changes' = changes + 1
  /\ item' \in {"none", "PAUSED", "ACTIVE"} \ {item} /\ byCodex' = TRUE
  /\ UNCHANGED <<pageVars, recordVars, updates, jobs, work, fileVars, timer, restoring, broken,
                 checks, troubles>>

PolicyNext ==
  \/ \E o \in Options : Save(o)
  \/ SendSave \/ SaveTimesOut \/ List \/ TimerFires
  \/ JobStarts \/ JobIsStale \/ Listed \/ Applies \/ Applied \/ RequestFails
  \/ \E todo \in BOOLEAN, quota \in Quotas : Checked(todo, quota)
  \/ WriteDone \/ WriteFails \/ RestartInjector \/ Restore \/ CodexChangesItem

PolicySpec == PolicyInit /\ [][PolicyNext]_policyVars

-----------------------------------------------------------------------------
(* Properties.                                                             *)

Quiet ==
  /\ queued = NoPolicy /\ asking = 0 /\ DOMAIN updates = {}
  /\ jobs = <<>> /\ writes = <<>> /\ ~restoring

\* However saves, late answers and checks overlap: unless the policy has met a
\* failure since its last check, the policy in memory is the one saved last, but for a pause of its
\* own, and the one on disk; the automation runs only if the policy and its quota
\* let it, or the user has started it in Codex; and an enabled policy is checked again.
PolicyInForce ==
  Quiet /\ ~broken =>
    IF current = 0 THEN wanted = NoPolicy /\ stored = NoPolicy
    ELSE LET r == rec[current] IN
         /\ r.aware = wanted.aware /\ (r.enabled => wanted.enabled)
         /\ stored = Data(rec, current)
         /\ item = "ACTIVE" /\ ~byCodex => r.enabled /\ (r.aware => r.quota = "available")
         /\ r.enabled => timer = r.version

\* Does not hold: an enabled policy is checked again, whatever fails.  The timer of a
\* policy may find a newer record, whose update then fails.
EnabledIsChecked == Quiet /\ current # 0 /\ rec[current].enabled => timer # 0

\* Does not hold: a paused policy pauses the automation.  The injector may stop between
\* the write of the file and the request to Codex, and restores enabled policies only;
\* or Codex may have started an automation although its answer is lost.
PausedIsPaused ==
  Quiet /\ current # 0 /\ ~rec[current].enabled => item # "ACTIVE" \/ byCodex
=============================================================================
