-------------------------- MODULE ExecutionCoordinator --------------------------
(***************************************************************************)
(* server/feishu-execution-coordinator.mjs: how the tasks of one Auto-Cut  *)
(* package become runs.                                                    *)
(*                                                                         *)
(* A reservation row (feishu_task_executions) survives a restart; an entry *)
(* in `entries' is the wake-up handle of a row and does not.  pump() and   *)
(* launch() are asynchronous: every `await' ends a step, and a call that   *)
(* waits keeps what it read before.  The model covers the calls made from  *)
(* the two, startTaskWithAi and the reconciliation of a finished run, and  *)
(* the scheduler's one group for the package.                              *)
(*                                                                         *)
(* A step runs several functions of the code to their next await.  Each of *)
(* them is an operator from a record of all variables to another; Now is   *)
(* the present record and Become(s) the step to s.                         *)
(***************************************************************************)
EXTENDS Naturals, SequencesExt

CONSTANTS
  Tasks,             \* server-registered Feishu tasks of the package
  Automatic,         \* those registered in automatic execution mode
  Triggers,          \* triggers the routes use: "manual", "move"
  MoveTargets,       \* statuses users move tasks to
  Limit,             \* the package's maxConcurrent
  MaxLaunchRetries,  \* MAX_LAUNCH_RETRIES
  Calls,             \* bound: asynchronous calls in flight at once, runs included
  Entries,           \* identities of entry objects, reused when unreferenced
  LeaseIds,          \* identities of leases, reused when unreferenced
  MaxRestarts,       \* bound: crashes
  WakeMidway,        \* may the package be edited, and wake() pump entries, while a start
                     \* is under way?
  ArchiveMidway,     \* may a task be archived while a start is under way?
  StartsMayFail,     \* may reading the workspace or starting Codex fail?
  Nil

TaskStatuses == {"absent", "todo", "queued", "in_progress", "blocked", "done"}
AllTriggers == {"manual", "move", "retry", "automatic"}
Claims == [by : Calls, run : BOOLEAN, moved : BOOLEAN]
Rows == [state : {"delayed", "queued", "running"}, ready : BOOLEAN, trigger : AllTriggers]
Objects ==
  [task : Tasks, trigger : AllTriggers, timer : BOOLEAN, pending : BOOLEAN,
   launching : BOOLEAN, retries : 0..MaxLaunchRetries]
AsyncCalls ==
  [pc : {"package", "lease", "check", "read", "thread", "turn", "prepare", "run"},
   task : Tasks, entry : Entries \cup {Nil}, lease : LeaseIds \cup {Nil},
   background : BOOLEAN, fresh : BOOLEAN, seen : TaskStatuses \cup {Nil}]

\* Lease objects are always new in the code: there are more identities than a step
\* can find in use.
ASSUME CoordinatorAssumption ==
  /\ IsFiniteSet(Tasks) /\ IsFiniteSet(Calls) /\ IsFiniteSet(LeaseIds)
  /\ Automatic \subseteq Tasks
  /\ Triggers \subseteq {"manual", "move"}
  /\ MoveTargets \subseteq {"todo", "in_progress", "done"}
  /\ Limit \in Nat \ {0} /\ MaxLaunchRetries \in Nat /\ MaxRestarts \in Nat
  /\ Calls \subseteq Nat /\ Entries \subseteq Nat /\ LeaseIds \subseteq Nat
  /\ Cardinality(LeaseIds) > Cardinality(Tasks) + Cardinality(Calls)
  /\ {WakeMidway, ArchiveMidway, StartsMayFail} \subseteq BOOLEAN
  /\ Nil \notin Tasks \cup Calls \cup Entries \cup LeaseIds /\ Nil \notin TaskStatuses
  /\ Nil \notin Claims /\ Nil \notin Rows /\ Nil \notin Objects /\ Nil \notin AsyncCalls

VARIABLES
  \* SQLite, which survives a restart
  status,    \* tasks.status; "absent" before registration, "done" for any other
  archived,  \* tasks.archived_at
  hasThread, \* tasks.thread_id is set
  claim,     \* the row of task_ai_starts: the call that made it, its run_id set?
             \* the task's status changed since?
  row,       \* the row of feishu_task_executions
  \* the process
  entries,   \* entries.get(task)
  object,    \* the entry objects, in the map or held by a timer or a call;
             \* timer: some timer of it is armed (two timers count as one)
  call,      \* asynchronous calls: pump, then launch, then the run
  queue,     \* the scheduler's waiting requests
  lease,     \* the scheduler's active leases
  closed,    \* close() was called
  recovery,  \* recover(): tasks left, and the call it awaits
  \* around it
  enabled,   \* the package's state
  toWake,    \* tasks whose entries wake() has yet to visit
  waking,    \* entry objects wake() is about to pump
  restarts

coordinatorVars ==
  <<status, archived, hasThread, claim, row, entries, object, call, queue, lease,
    closed, recovery, enabled, toWake, waking, restarts>>

Now ==
  [status |-> status, archived |-> archived, hasThread |-> hasThread, claim |-> claim,
   row |-> row, entries |-> entries, object |-> object, call |-> call,
   queue |-> queue, lease |-> lease, closed |-> closed, recovery |-> recovery,
   enabled |-> enabled, toWake |-> toWake,
   waking |-> waking, restarts |-> restarts]

\* An entry object lives while the map, a timer, wake() or a call refers to it.
Referenced(s, e) ==
  \/ \E t \in Tasks : s.entries[t] = e
  \/ (s.object[e] # Nil /\ s.object[e].timer)
  \/ e \in s.waking
  \/ \E p \in Calls : s.call[p] # Nil /\ s.call[p].entry = e

FreshEntry(s) == Min({e \in Entries : ~Referenced(s, e)})
FreshCall(s) == Min({p \in Calls : s.call[p] = Nil})

Become(next) == \E s \in {next} :
  /\ status' = s.status /\ archived' = s.archived /\ hasThread' = s.hasThread
  /\ claim' = s.claim /\ row' = s.row /\ entries' = s.entries
  /\ object' = [e \in Entries |-> IF Referenced(s, e) THEN s.object[e] ELSE Nil]
  /\ call' = s.call /\ queue' = s.queue /\ lease' = s.lease
  /\ closed' = s.closed /\ recovery' = s.recovery
  /\ enabled' = s.enabled /\ toWake' = s.toWake /\ waking' = s.waking
  /\ restarts' = s.restarts

Ready == {"todo", "queued"}
Pending(s, t) == s.row[t] # Nil /\ s.row[t].state \in {"delayed", "queued"}

\* Room for one more call and one more entry object: bounds, not guards of the
\* code.
FreeCall == \E p \in Calls : call[p] = Nil
FreeEntry == \E e \in Entries : ~Referenced(Now, e)
Room == FreeCall /\ FreeEntry

Idle == [left |-> {}, at |-> Nil]

CoordinatorInit ==
  /\ status = [t \in Tasks |-> "absent"]
  /\ archived = [t \in Tasks |-> FALSE]
  /\ hasThread = [t \in Tasks |-> FALSE]
  /\ claim = [t \in Tasks |-> Nil]
  /\ row = [t \in Tasks |-> Nil]
  /\ entries = [t \in Tasks |-> Nil]
  /\ object = [e \in Entries |-> Nil]
  /\ call = [p \in Calls |-> Nil]
  /\ queue = <<>>
  /\ lease = [t \in Tasks |-> Nil]
  /\ closed = FALSE
  /\ recovery = Idle
  /\ enabled = TRUE
  /\ toWake = {} /\ waking = {}
  /\ restarts = 0

-----------------------------------------------------------------------------
(* Tasks.  Every write raises the task's version, so what a call in flight *)
(* has read of the task is out of date.  A change of status is recorded as *)
(* an activity, which settleTaskAiStart looks for.                         *)

SetTask(s, t, st, th) ==
  [s EXCEPT !.status[t] = st, !.hasThread[t] = th,
            !.claim[t] = IF s.claim[t] = Nil \/ s.status[t] = st THEN @
                         ELSE [s.claim[t] EXCEPT !.moved = TRUE],
            !.call = [p \in Calls |->
                        IF s.call[p] # Nil /\ s.call[p].task = t
                        THEN [s.call[p] EXCEPT !.fresh = FALSE] ELSE s.call[p]]]

\* updateTaskStatus throws on an archived task, unless nothing would change.
Refuses(s, t, st) == s.archived[t] /\ s.status[t] # st

SetStatus(s, t, st) ==
  IF s.status[t] = st \/ Refuses(s, t, st) THEN s ELSE SetTask(s, t, st, s.hasThread[t])

SetRow(s, t, state) ==
  IF s.row[t] = Nil THEN s ELSE [s EXCEPT !.row[t].state = state]

-----------------------------------------------------------------------------
(* The scheduler, for one concurrency group of a fixed limit.              *)

Active(s) == {t \in Tasks : s.lease[t] # Nil}
WaitsFor(s, p, t) ==
  s.call[p] # Nil /\ s.call[p].pc = "lease" /\ s.call[p].task = t /\ s.call[p].lease = Nil

FreshLease(s) ==
  Min({l \in LeaseIds : /\ \A t \in Tasks : s.lease[t] # l
                        /\ \A p \in Calls : s.call[p] # Nil => s.call[p].lease # l})

\* Faulty: an off-by-one in the group's limit.
DrainOneMore(s) ==
  IF s.queue = <<>> \/ Cardinality(Active(s)) > Limit THEN s
  ELSE LET t == Head(s.queue)
           l == FreshLease(s)
       IN  [s EXCEPT !.queue = Tail(@), !.lease[t] = l,
                     !.call = [p \in Calls |->
                                 IF WaitsFor(s, p, t)
                                 THEN [s.call[p] EXCEPT !.lease = l] ELSE s.call[p]]]

\* drain(): with room in the group the oldest request is granted, and every
\* call that awaits its promise receives the one lease object.
Drain(s) ==
  IF s.queue = <<>> \/ Cardinality(Active(s)) >= Limit THEN s
  ELSE LET t == Head(s.queue)
           l == FreshLease(s)
       IN  [s EXCEPT !.queue = Tail(@), !.lease[t] = l,
                     !.call = [p \in Calls |->
                                 IF WaitsFor(s, p, t)
                                 THEN [s.call[p] EXCEPT !.lease = l] ELSE s.call[p]]]

\* A request for a task that waits or holds a lease changes nothing.
Request(s, t) ==
  IF s.lease[t] # Nil \/ Contains(s.queue, t) THEN s
  ELSE Drain([s EXCEPT !.queue = Append(@, t)])

\* Faulty: the slot is freed and offered to nobody.
ReleaseWithoutDrain(s, l) ==
  [s EXCEPT !.lease = [t \in Tasks |-> IF s.lease[t] = l THEN Nil ELSE s.lease[t]]]

\* Only the lease object of an active request frees it.
Release(s, l) ==
  Drain([s EXCEPT !.lease = [t \in Tasks |-> IF s.lease[t] = l THEN Nil ELSE s.lease[t]]])

\* A cancelled request leaves the queue and rejects its promise: the calls that
\* wait for it end, and clear leasePending as they do.
Without(q, t) == RemoveAt(q, CHOOSE i \in 1..Len(q) : q[i] = t)

Rejected(s, ts) ==
  LET stops(p) == \E t \in ts : WaitsFor(s, p, t) IN
  [s EXCEPT
    !.call = [p \in Calls |-> IF stops(p) THEN Nil ELSE s.call[p]],
    !.object = [e \in Entries |->
                  IF \E p \in Calls : stops(p) /\ s.call[p].entry = e
                  THEN [s.object[e] EXCEPT !.pending = FALSE] ELSE s.object[e]]]

CancelRequest(s, t) ==
  IF ~Contains(s.queue, t) THEN s
  ELSE Drain([Rejected(s, {t}) EXCEPT !.queue = Without(@, t)])

-----------------------------------------------------------------------------
(* Calls.                                                                  *)

NewCall(s, e) ==
  LET p == FreshCall(s) IN
  [s EXCEPT !.call[p] = [pc |-> "package", task |-> s.object[e].task, entry |-> e,
                         lease |-> Nil, background |-> FALSE, fresh |-> FALSE,
                         seen |-> Nil]]

\* recover() awaits the call it made, until it returns or leaves the work to
\* a background launch; an error it throws ends recover().
Returned(s, p) == IF s.recovery.at = p THEN [s EXCEPT !.recovery.at = Nil] ELSE s
Abandoned(s, p) == IF s.recovery.at = p THEN [s EXCEPT !.recovery = Idle] ELSE s

\* finally: a background launch clears leasePending.
Over(s, p) ==
  LET e == s.call[p].entry
      c == [s EXCEPT !.call[p] = Nil]
  IN  IF s.call[p].background THEN [c EXCEPT !.object[e].pending = FALSE] ELSE c

Return(s, p) == Returned(Over(s, p), p)
Throw(s, p) == Abandoned(Over(s, p), p)

-----------------------------------------------------------------------------
(* pump()                                                                  *)

\* cancel(), called for a pending row.  Without an entry in the map it throws
\* at its first line: the timer of undefined is read.
Cancel(s, t) ==
  LET e == s.entries[t]
      quiet == [s EXCEPT !.object[e].timer = FALSE, !.entries[t] = Nil]
  IN  IF e = Nil THEN s
      ELSE [CancelRequest(quiet, t) EXCEPT !.row[t] = Nil]

\* Up to the first await.
Pump(s, e) ==
  LET t == s.object[e].task IN
  IF s.closed \/ ~Pending(s, t) THEN s
  ELSE IF s.archived[t] \/ s.status[t] \notin Ready THEN Cancel(s, t)
  ELSE IF s.object[e].pending THEN s
  ELSE IF ~s.row[t].ready THEN [s EXCEPT !.object[e].timer = TRUE]
  ELSE NewCall(s, e)

\* The lease is there: go on at once.  The request has to wait: the task shows
\* as queued and the launch goes to the background.
AskScheduler(s, p) ==
  LET t == s.call[p].task
      r == Request(s, t)
      w == SetRow(r, t, "queued")
  IN  IF r.lease[t] # Nil
      THEN [r EXCEPT !.call[p].pc = "lease", !.call[p].lease = r.lease[t]]
      ELSE IF Refuses(w, t, "queued") THEN Throw(w, p)
      ELSE Returned([SetStatus(w, t, "queued") EXCEPT !.call[p].pc = "lease",
                                                      !.call[p].background = TRUE], p)

ReadPackage(p) ==
  /\ call[p] # Nil /\ call[p].pc = "package"
  /\ Become(IF enabled
            THEN AskScheduler([Now EXCEPT !.object[call[p].entry].pending = TRUE], p)
            ELSE Return(Now, p))

-----------------------------------------------------------------------------
(* launch()                                                                *)

\* Faulty: the retry is counted and no timer is set for it.
FailWithoutTimer(s, p) ==
  LET t == s.call[p].task
      e == s.call[p].entry
      free == SetRow(Release(s, s.call[p].lease), t, "delayed")
      ready == IF \/ free.status[t] = "queued"
                  \/ free.status[t] = "in_progress" /\ ~free.hasThread[t]
               THEN SetStatus(free, t, "todo") ELSE free
  IN  Throw([ready EXCEPT !.entries[t] = e,
                          !.object[e].retries = IF @ < MaxLaunchRetries THEN @ + 1 ELSE @,
                          !.object[e].launching = FALSE, !.object[e].pending = FALSE], p)

\* Faulty: failures are not counted.
FailUncounted(s, p) ==
  LET t == s.call[p].task
      e == s.call[p].entry
      free == SetRow(Release(s, s.call[p].lease), t, "delayed")
      ready == IF \/ free.status[t] = "queued"
                  \/ free.status[t] = "in_progress" /\ ~free.hasThread[t]
               THEN SetStatus(free, t, "todo") ELSE free
  IN  Throw(IF s.closed THEN [ready EXCEPT !.entries[t] = Nil]
            ELSE [ready EXCEPT !.entries[t] = e,
                               !.object[e].launching = FALSE, !.object[e].pending = FALSE,
                               !.object[e].timer = TRUE], p)

\* The catch block: the lease goes back, the row is delayed again, and the
\* entry is retried a bounded number of times.
Fail(s, p) ==
  LET t == s.call[p].task
      e == s.call[p].entry
      free == SetRow(Release(s, s.call[p].lease), t, "delayed")
      ready == IF \/ free.status[t] = "queued"
                  \/ free.status[t] = "in_progress" /\ ~free.hasThread[t]
               THEN SetStatus(free, t, "todo") ELSE free
      last == s.closed \/ s.object[e].retries >= MaxLaunchRetries
  IN  Throw(IF last
            THEN [ready EXCEPT !.entries[t] = Nil, !.row[t] = IF s.closed THEN @ ELSE Nil]
            ELSE [ready EXCEPT !.entries[t] = e,
                               !.object[e].retries = @ + 1, !.object[e].launching = FALSE,
                               !.object[e].pending = FALSE, !.object[e].timer = TRUE], p)

StartLaunch(p) ==
  /\ call[p] # Nil /\ call[p].pc = "lease" /\ call[p].lease # Nil
  /\ Become(IF closed THEN Return(Release(Now, call[p].lease), p)
            ELSE [Now EXCEPT !.object[call[p].entry].launching = TRUE,
                             !.object[call[p].entry].pending = FALSE,
                             !.call[p].pc = "check", !.call[p].fresh = TRUE,
                             !.call[p].seen = status[call[p].task]])

\* Faulty: the lease is kept for the next attempt.
PostponeKeepsLease(s, p) ==
  LET t == s.call[p].task
      e == s.call[p].entry
      free == SetRow([s EXCEPT !.object[e].launching = FALSE], t, "queued")
      late == [free EXCEPT !.object[e].timer = TRUE]
  IN  IF s.call[p].seen = "queued" THEN Return(late, p)
      ELSE IF Refuses(free, t, "queued") THEN Fail(free, p)
      ELSE Return(SetStatus(late, t, "queued"), p)

\* A disabled package: back to the queue, and pump again in a second.
Postpone(s, p) ==
  LET t == s.call[p].task
      e == s.call[p].entry
      free == SetRow([Release(s, s.call[p].lease) EXCEPT !.object[e].launching = FALSE],
                     t, "queued")
      late == [free EXCEPT !.object[e].timer = TRUE]
  IN  IF s.call[p].seen = "queued" THEN Return(late, p)
      ELSE IF Refuses(free, t, "queued") THEN Fail(free, p)
      ELSE Return(SetStatus(late, t, "queued"), p)

CheckPackage(p) ==
  /\ call[p] # Nil /\ call[p].pc = "check"
  /\ Become(IF enabled
            THEN [Now EXCEPT !.call[p].pc = "read", !.call[p].seen = Nil]
            ELSE Postpone(Now, p))

-----------------------------------------------------------------------------
(* startTaskWithAi                                                         *)

\* releaseTaskFromAiStart, for the claim of call p.
ReleaseTask(s, p) ==
  LET t == s.call[p].task IN
  IF s.claim[t] = Nil \/ s.claim[t].by # p THEN s
  ELSE LET freed == [s EXCEPT !.claim[t] = Nil] IN
       IF s.status[t] = "in_progress" THEN SetTask(freed, t, "todo", FALSE) ELSE freed

\* settleTaskAiStart: a task that was moved or archived since the claim keeps
\* its state.
Settle(s, t, result) ==
  LET untouched == s.status[t] = "in_progress" /\ ~s.archived[t] /\ ~s.claim[t].moved
  IN  [(IF untouched /\ result # "in_progress"
        THEN SetTask(s, t, result, s.hasThread[t]) ELSE s) EXCEPT !.claim[t] = Nil]

\* claimTaskForAiStart and bindTaskAiStart, which follow without an await.
MayClaim(p) ==
  LET t == call[p].task IN
  /\ call[p].fresh
  /\ status[t] \in Ready /\ ~archived[t] /\ ~hasThread[t]
  /\ claim[t] = Nil

Claim(p) ==
  /\ call[p] # Nil /\ call[p].pc = "read" /\ ~closed /\ enabled
  /\ LET t == call[p].task
         claimed == SetTask(Now, t, "in_progress", TRUE)
     IN  Become(IF MayClaim(p)
                THEN [claimed EXCEPT !.claim[t] = [by |-> p, run |-> FALSE, moved |-> FALSE],
                                     !.call[p].pc = "thread", !.call[p].fresh = TRUE]
                ELSE Fail(Now, p))

\* createThread is done: verifyTaskAiStart.
Verify(p) ==
  /\ call[p] # Nil /\ call[p].pc = "thread"
  /\ Become(IF call[p].fresh
            THEN [Now EXCEPT !.call[p].pc = "turn", !.call[p].fresh = FALSE]
            ELSE Fail(ReleaseTask(Now, p), p))

\* startTurn has created the run: bindTaskAiStartRun.
BindRun(p) ==
  /\ call[p] # Nil /\ call[p].pc = "turn"
  /\ LET t == call[p].task IN
     Become(IF claim[t] # Nil /\ claim[t].by = p /\ ~claim[t].run
            THEN [Now EXCEPT !.claim[t].run = TRUE, !.call[p].pc = "prepare"]
            ELSE Fail(ReleaseTask(Now, p), p))

\* Codex runs: launch() marks the row and drops the entry.
Started(p) ==
  /\ call[p] # Nil /\ call[p].pc = "prepare"
  /\ LET t == call[p].task
         e == call[p].entry
         run == [Now EXCEPT !.object[e].pending = IF call[p].background THEN FALSE ELSE @,
                            !.call[p].pc = "run", !.call[p].entry = Nil,
                            !.call[p].background = FALSE]
     IN  Become(Returned([SetRow(run, t, "running") EXCEPT !.entries[t] = Nil], p))

\* The inputs of a phased run cannot be prepared: the task is settled as
\* blocked and the reservation dropped, without a retry.
PreparationBlocked(p) ==
  /\ StartsMayFail
  /\ call[p] # Nil /\ call[p].pc = "prepare"
  /\ LET t == call[p].task
         freed == Release(Settle(Now, t, "blocked"), call[p].lease)
     IN  Become(Throw([freed EXCEPT !.row[t] = Nil, !.entries[t] = Nil], p))

\* The workspace cannot be read, Codex cannot be started, the package has been
\* disabled meanwhile or the server shuts down.
StartFails(p) ==
  /\ call[p] # Nil
  /\ \/ call[p].pc = "read" /\ (StartsMayFail \/ closed \/ ~enabled)
     \/ call[p].pc \in {"thread", "turn", "prepare"} /\ StartsMayFail
  /\ Become(Fail(ReleaseTask(Now, p), p))

-----------------------------------------------------------------------------
(* The run's end: reconcileFeishuTaskAfterRun and                          *)
(* clearFeishuExecutionAfterRun.  The lease ids the latter compares are    *)
(* equal: a running row was marked by the launch of the task's one run.    *)

\* Faulty: the row stays.
ClearNothing(s, t) == s

ClearAfterRun(s, t) ==
  IF s.row[t] # Nil /\ s.row[t].state = "running" THEN [s EXCEPT !.row[t] = Nil] ELSE s

RunEnds(p) ==
  /\ call[p] # Nil /\ call[p].pc = "run"
  /\ LET t == call[p].task
         owns == claim[t] # Nil /\ claim[t].by = p /\ claim[t].run
         over(s) == [Release(ClearAfterRun(s, t), call[p].lease) EXCEPT !.call[p] = Nil]
     IN  \E result \in {"done", "blocked", "in_progress"} :
           Become(over(IF owns THEN Settle(Now, t, result) ELSE Now))

-----------------------------------------------------------------------------
(* schedule() and its routes                                               *)

Schedule(s, t, trig) ==
  LET e == s.entries[t]
      n == FreshEntry(s)
      soon == trig # "automatic"
  IN
  IF e # Nil
  THEN IF \/ s.object[e].trigger = trig
          \/ s.object[e].launching
          \/ ~Pending(s, t)
          \/ s.row[t].state = "queued"
          \/ s.row[t].ready
       THEN s
       ELSE Pump([s EXCEPT !.row[t].ready = TRUE, !.object[e].trigger = trig,
                           !.object[e].timer = FALSE], e)
  ELSE IF s.row[t] # Nil THEN s
  ELSE Pump([s EXCEPT !.row[t] = [state |-> "delayed", ready |-> soon, trigger |-> trig],
                      !.entries[t] = n,
                      !.object[n] = [task |-> t, trigger |-> trig, timer |-> FALSE,
                                     pending |-> FALSE, launching |-> FALSE, retries |-> 0]], n)

\* The Bridge registers a task; in automatic mode it is scheduled at once.
Register(t) ==
  /\ Room /\ ~closed
  /\ status[t] = "absent"
  /\ LET s == [Now EXCEPT !.status[t] = "todo"]
     IN  Become(IF t \in Automatic THEN Schedule(s, t, "automatic") ELSE s)

\* execute, start-ai and the drag to "in progress".
UserStarts(t, trig) ==
  /\ Room /\ ~closed
  /\ IF trig = "move" THEN status[t] = "todo" ELSE status[t] \in Ready
  /\ Become(Schedule(Now, t, trig))

\* prepareFeishuAutoCutRetry
UserRetries(t) ==
  /\ Room /\ ~closed /\ ~archived[t]
  /\ status[t] = "blocked" /\ row[t] = Nil /\ claim[t] = Nil
  /\ Become(Schedule(SetTask(Now, t, "todo", FALSE), t, "retry"))

\* moveTask, and updateTask, which takes archived tasks too; a status that stays
\* is an edit of another field.
UserMoves(t, st) ==
  /\ ~closed /\ status[t] # "absent"
  /\ ~(status[t] = "queued" /\ st = "in_progress")
  /\ Become(SetTask(Now, t, st, hasThread[t]))

\* A start is under way, or will be when a timer fires.
Underway ==
  \/ \E p \in Calls :
       /\ call[p] # Nil /\ call[p].pc # "run"
       /\ call[p].pc = "lease" => call[p].lease # Nil
  \/ \E e \in Entries : object[e] # Nil /\ object[e].timer

UserArchives(t) ==
  /\ ArchiveMidway \/ ~Underway
  /\ ~closed /\ ~archived[t] /\ status[t] # "absent"
  /\ Become([SetTask(Now, t, status[t], hasThread[t]) EXCEPT !.archived[t] = TRUE])

-----------------------------------------------------------------------------
(* Timers, package edits and wake()                                        *)

DelayPasses(t) ==
  /\ row[t] # Nil /\ ~row[t].ready
  /\ Become([Now EXCEPT !.row[t].ready = TRUE])

TimerFires(e) ==
  /\ FreeCall
  /\ object[e] # Nil /\ object[e].timer
  /\ Become(Pump([Now EXCEPT !.object[e].timer = FALSE], e))

\* An edit of the package, which ends in wake().  Bound: one wake() at a time.
EditPackage(state) ==
  /\ WakeMidway \/ ~Underway
  /\ ~closed /\ toWake = {} /\ waking = {}
  /\ Become([Now EXCEPT !.enabled = state, !.toWake = {t \in Tasks : entries[t] # Nil}])

\* wake() reads the package of each entry, and pumps the entry object it has
\* visited, whatever has become of it.  Without WakeMidway both happen while no
\* start is under way, and nothing else happens between the two.
WakeEntry(t) ==
  /\ FreeCall /\ (WakeMidway \/ ~Underway)
  /\ t \in toWake /\ waking = {}
  /\ Become([Now EXCEPT !.toWake = @ \ {t},
                        !.waking = IF entries[t] = Nil THEN @ ELSE @ \cup {entries[t]}])

WakePump(e) ==
  /\ FreeCall /\ e \in waking
  /\ LET s == [Now EXCEPT !.waking = @ \ {e}]
     IN  Become(IF object[e].pending THEN s ELSE Pump(s, e))

-----------------------------------------------------------------------------
(* close(), the crash of the process and its restart                       *)

\* A request waits for an entry of the map, so all of them are cancelled.
Close ==
  /\ ~closed
  /\ LET ts == {t \in Tasks : entries[t] # Nil}
         kept == [Rejected(Now, ts) EXCEPT !.queue = <<>>]
     IN  Become([kept EXCEPT
                   !.closed = TRUE, !.toWake = {}, !.recovery = Idle,
                   !.entries = [t \in Tasks |-> Nil],
                   !.object = [e \in Entries |->
                                 IF \E t \in ts : entries[t] = e
                                 THEN [kept.object[e] EXCEPT !.timer = FALSE]
                                 ELSE kept.object[e]]])

\* The runs of the dead process count as interrupted.  reconcileClaimedFeishuTasks
\* settles the claims that had a run, as blocked, and gives back the others.
AfterRestart(t) ==
  LET blank == [Now EXCEPT !.call = [p \in Calls |-> Nil]] IN
  IF claim[t] = Nil THEN [status |-> status[t], hasThread |-> hasThread[t], row |-> row[t]]
  ELSE IF claim[t].run
  THEN LET s == ClearAfterRun(Settle(blank, t, "blocked"), t)
       IN  [status |-> s.status[t], hasThread |-> s.hasThread[t], row |-> s.row[t]]
  ELSE IF status[t] = "in_progress"
  THEN [status |-> "todo", hasThread |-> FALSE, row |-> row[t]]
  ELSE [status |-> status[t], hasThread |-> hasThread[t], row |-> row[t]]

ServerRestarts ==
  /\ restarts < MaxRestarts
  /\ LET after == [t \in Tasks |-> AfterRestart(t)]
         rows == [t \in Tasks |-> after[t].row]
     IN  Become([status |-> [t \in Tasks |-> after[t].status],
                 hasThread |-> [t \in Tasks |-> after[t].hasThread],
                 archived |-> archived, claim |-> [t \in Tasks |-> Nil], row |-> rows,
                 entries |-> [t \in Tasks |-> Nil], object |-> [e \in Entries |-> Nil],
                 call |-> [p \in Calls |-> Nil], queue |-> <<>>,
                 lease |-> [t \in Tasks |-> Nil], closed |-> FALSE,
                 toWake |-> {}, waking |-> {},
                 recovery |-> [left |-> {t \in Tasks : Pending([row |-> rows], t)},
                               at |-> Nil],
                 enabled |-> enabled, restarts |-> restarts + 1])

\* One turn of the loop of recover().
Recover(t) ==
  /\ Room /\ ~closed
  /\ recovery.at = Nil /\ t \in recovery.left
  /\ LET s == [Now EXCEPT !.recovery.left = @ \ {t}]
         n == FreshEntry(s)
         fresh == [s EXCEPT !.entries[t] = n,
                            !.object[n] = [task |-> t, trigger |-> row[t].trigger,
                                           timer |-> FALSE, pending |-> FALSE,
                                           launching |-> FALSE, retries |-> 0]]
         pumped == Pump(fresh, n)
         p == FreshCall(Now)
     IN  Become(IF entries[t] # Nil \/ archived[t] THEN s
                ELSE IF pumped.call[p] # Nil THEN [pumped EXCEPT !.recovery.at = p]
                ELSE pumped)

-----------------------------------------------------------------------------
CallStep(p) ==
  \/ ReadPackage(p) \/ StartLaunch(p) \/ CheckPackage(p)
  \/ Claim(p) \/ Verify(p) \/ BindRun(p) \/ Started(p)
  \/ PreparationBlocked(p) \/ StartFails(p) \/ RunEnds(p)

UserStep(t) ==
  \/ Register(t)
  \/ \E trig \in Triggers : UserStarts(t, trig)
  \/ UserRetries(t)
  \/ \E st \in MoveTargets : UserMoves(t, st)
  \/ UserArchives(t)

Step ==
  \/ \E p \in Calls : CallStep(p)
  \/ \E t \in Tasks : UserStep(t)
  \/ \E t \in Tasks : DelayPasses(t)
  \/ \E e \in Entries : TimerFires(e)
  \/ \E state \in BOOLEAN : EditPackage(state)
  \/ \E t \in Tasks : WakeEntry(t)
  \/ Close
  \/ ServerRestarts
  \/ \E t \in Tasks : Recover(t)

CoordinatorNext ==
  \/ (WakeMidway \/ waking = {}) /\ Step
  \/ \E e \in Entries : WakePump(e)

CoordinatorSpec == CoordinatorInit /\ [][CoordinatorNext]_coordinatorVars

\* Promises settle, timers fire, clocks advance, wake() and recover() go
\* through their loops and runs end.  Fairness is strong where the bound on calls
\* can disable a step that the code would take.
CoordinatorFairness ==
  /\ \A p \in Calls : WF_coordinatorVars(CallStep(p))
  /\ \A t \in Tasks : WF_coordinatorVars(DelayPasses(t))
  /\ \A e \in Entries : SF_coordinatorVars(TimerFires(e)) /\ SF_coordinatorVars(WakePump(e))
  /\ \A t \in Tasks : SF_coordinatorVars(WakeEntry(t)) /\ SF_coordinatorVars(Recover(t))

FairCoordinatorSpec == CoordinatorSpec /\ CoordinatorFairness

-----------------------------------------------------------------------------
(* Properties                                                              *)

InFlight(p, pcs) == call[p] # Nil /\ call[p].pc \in pcs
Starts(t) == {p \in Calls : InFlight(p, {"thread", "turn", "prepare", "run"}) /\ call[p].task = t}
Runs == {p \in Calls : InFlight(p, {"run"})}

\* The values of the tables, of the entry objects and of the calls; retries
\* stay within MAX_LAUNCH_RETRIES.
State ==
  [status : [Tasks -> TaskStatuses], archived : [Tasks -> BOOLEAN],
   hasThread : [Tasks -> BOOLEAN], claim : [Tasks -> Claims \cup {Nil}],
   row : [Tasks -> Rows \cup {Nil}], entries : [Tasks -> Entries \cup {Nil}],
   object : [Entries -> Objects \cup {Nil}], call : [Calls -> AsyncCalls \cup {Nil}],
   queue : Seq(Tasks), lease : [Tasks -> LeaseIds \cup {Nil}], closed : BOOLEAN,
   recovery : [left : SUBSET Tasks, at : Calls \cup {Nil}], enabled : BOOLEAN,
   toWake : SUBSET Tasks, waking : SUBSET Entries, restarts : 0..MaxRestarts]

CoordinatorTypes == Now \in State

\* Editing stays serialized per package (README, line 226): at most Limit tasks
\* are being started or run.
SerializedPerPackage ==
  Cardinality({t \in Tasks : Starts(t) # {}}) <= Limit

\* Before the shutdown every active lease is in the hands of a call or a run that
\* will return it; a lease nobody holds would keep its slot until the server
\* restarts.
LeasesHeld ==
  ~closed =>
    \A t \in Tasks : lease[t] # Nil => \E p \in Calls : call[p] # Nil /\ call[p].lease = lease[t]

\* A pending reservation in the map can still be woken: its timer runs, a call
\* works on it, wake() is about to visit it, or the package is disabled and its
\* next edit will wake it.
EntriesAlive ==
  \A t \in Tasks : entries[t] # Nil /\ Pending(Now, t) =>
    \/ object[entries[t]].timer
    \/ \E p \in Calls : call[p] # Nil /\ call[p].entry = entries[t]
    \/ t \in toWake \/ entries[t] \in waking
    \/ ~enabled

\* However launches, retries, edits and restarts meet, the maps keep their types,
\* retries their bound, and no pending reservation is stranded.
ReservationsAlive == CoordinatorTypes /\ EntriesAlive

\* A run has its running reservation, and a running reservation its run: the
\* one is not dropped early (a second start would be accepted) nor kept too
\* long (every later start and retry would be refused).
RunsMatchReservations ==
  \A t \in Tasks :
    (row[t] # Nil /\ row[t].state = "running") <=> \E p \in Runs : call[p].task = t

\* Slots and reservations are held by somebody who will give them back, and those
\* that wait are not forgotten.
StartsAreHeld == LeasesHeld /\ RunsMatchReservations /\ ReservationsAlive

\* Does not hold: every delayed or queued row has its entry, the "wake-up handle ... rebuilt by
\* recover() after a restart" (lines 10 to 12 of the coordinator).
PendingRowsHaveEntries ==
  ~closed /\ recovery = Idle =>
    \A t \in Tasks : Pending(Now, t) /\ ~archived[t] => entries[t] # Nil

\* With the package enabled in the end, a reservation starts or is dropped: it
\* does not wait for ever behind others, in a retry loop or behind a timer,
\* even if its task is archived meanwhile.
ReservationsSettle ==
  [](~closed) /\ <>[]enabled =>
    \A t \in Tasks : (Pending(Now, t) /\ entries[t] # Nil) ~> ~Pending(Now, t)
=============================================================================
