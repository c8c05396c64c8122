------------------------------ MODULE TaskStarts ------------------------------
(***************************************************************************)
(* The starts of one Feishu task (server/app.mjs, server/database.mjs),    *)
(* from the claim to the settlement: a start binds a chat thread and a run *)
(* to the claim, prepares the run's inputs, and lets a Codex process or    *)
(* the local runner edit; the process reports its ZIP over HTTP while it   *)
(* runs; the end of the run is reconciled with the receipt it left.  Each  *)
(* of these awaits something, and users, reports, the end of the run and a *)
(* restart come in between.                                                *)
(*                                                                         *)
(* A start, its claim token, its thread, its run and its Auto-Cut attempt  *)
(* have one identity here.  "todo" stands for queued too, and "finished"   *)
(* for done and in review: which one the execution mode decides.  The      *)
(* reservation that led to the start is ExecutionCoordinator's.            *)
(***************************************************************************)
EXTENDS Integers, FiniteSets

CONSTANTS
  MaxStarts,    \* bound on starts
  MaxEdits,     \* bound on what users do to the task
  MaxRestarts,  \* bound on restarts
  None,
  Other         \* a thread a user has bound to the task

Starts == 1..MaxStarts
Statuses == {"todo", "in_progress", "finished", "blocked"}
Receipts == {"zip1", "zip2", "blocked"}   \* what result.json says
Zips == Receipts \ {"blocked"}
Terminal == {"completed", "failed", "interrupted"}

ASSUME TaskAssumption ==
  /\ {MaxStarts, MaxEdits, MaxRestarts} \subseteq Nat
  /\ None # Other /\ None \notin 0..MaxStarts /\ Other \notin Starts
  /\ None \notin Statuses \cup Receipts \cup Terminal \cup {"preparing", "running", "reported"}

VARIABLES
  phased,      \* the task has a stage: its runs have an Auto-Cut attempt
  task,        \* the row of tasks with its claim and its completion artifact
  started,     \* how many starts there were
  pc,          \* where a start waits
  local,       \* starts that use the local runner
  kept,        \* starts whose thread has a row
  begun,       \* threads of failed runs that Codex has given an id
  chat,        \* status of the run, None without a row
  auto,        \* state of the attempt, None without a row
  working,     \* starts whose process is alive
  receipt,     \* the result the process has left
  artifact,    \* the ZIP registered for the run
  report,      \* an artifact report under way
  reconcile,   \* a reconciliation that awaits the receipt, with what it has read
  subscribed,  \* starts that hear of the end of their run
  leases,      \* starts that hold their slot
  edits, restarts

runVars == <<kept, begun, chat, auto>>
outside == <<working, receipt, artifact, report>>
vars == <<phased, task, started, pc, local, runVars, outside, reconcile, subscribed, leases,
          edits, restarts>>

NoClaim == [by |-> None, run |-> FALSE, moved |-> FALSE, edited |-> FALSE]

Init ==
  /\ phased \in BOOLEAN
  /\ task = [status |-> "todo", archived |-> FALSE, thread |-> None, trusted |-> TRUE,
             retried |-> FALSE, claim |-> NoClaim, completion |-> None,
             chosen |-> None, byServer |-> FALSE, lost |-> FALSE, withdrawn |-> None]
  /\ started = 0
  /\ pc = [s \in Starts |-> "idle"]
  /\ local = {} /\ kept = {} /\ begun = {}
  /\ chat = [s \in Starts |-> None] /\ auto = [s \in Starts |-> None]
  /\ working = {}
  /\ receipt = [s \in Starts |-> None] /\ artifact = [s \in Starts |-> None]
  /\ report = [s \in Starts |-> None] /\ reconcile = [s \in Starts |-> None]
  /\ subscribed = {} /\ leases = {}
  /\ edits = 0 /\ restarts = 0

-----------------------------------------------------------------------------
(* Transactions on the task and its claim.                                 *)

Owns(t, s) == t.claim.by = s

Unclaimed(t) == [t EXCEPT !.claim = NoClaim]
SetStatus(t, status) == [t EXCEPT !.status = status, !.byServer = TRUE]

\* releaseTaskFromAiStart: a task that is no longer in progress, or has another
\* thread, only loses the claim.
Released(t, s) ==
  IF ~Owns(t, s) THEN t
  ELSE IF t.status = "in_progress" /\ t.thread = s
  THEN [SetStatus(Unclaimed(t), "todo") EXCEPT !.thread = None]
  ELSE Unclaimed(t)

\* settleTaskAiStart refuses a run that does not own the claim.
MaySettle(t, s) == Owns(t, s) /\ t.claim.run

\* Faulty: whatever the user has done since the claim.
SettledOverMoves(t, s, status, zip) ==
  IF t.archived \/ t.thread # s THEN Unclaimed(t)
  ELSE LET over == [Unclaimed(t) EXCEPT !.completion = zip] IN
       IF status = "in_progress" THEN over ELSE SetStatus(over, status)

\* The task keeps a status it was given since the claim, and an archived or
\* rebound task its completion artifact too.
Settled(t, s, status, zip) ==
  IF t.archived \/ t.thread # s THEN Unclaimed(t)
  ELSE LET over == [Unclaimed(t) EXCEPT !.completion = zip] IN
       IF t.status # "in_progress" \/ t.claim.moved \/ status = "in_progress" THEN over
       ELSE SetStatus(over, status)

\* detachFailedPreStartThreadForRetry
FailedBeforeCodex(s) ==
  s \in kept \ begun /\ chat[s] = "failed"

\* Faulty: only the status counts.
StartableByStatus == task.status = "todo" /\ ~task.archived

\* claimTaskForAiStart; task_ai_starts has one row for a task.
Startable ==
  /\ task.status = "todo" /\ ~task.archived
  /\ task.thread = None \/ task.thread \in {s \in Starts : FailedBeforeCodex(s)}
  /\ task.claim.by = None

\* claimTaskForAiStart and bindTaskAiStart
Claimed(s) ==
  [task EXCEPT !.status = "in_progress", !.thread = s, !.retried = FALSE,
               !.claim = [NoClaim EXCEPT !.by = s], !.completion = None,
               !.chosen = None, !.byServer = TRUE, !.lost = FALSE]
Goto(s, to) == pc' = [pc EXCEPT ![s] = to]
GiveBack(s) == leases' = leases \ {s}

\* A start that failed gives the task back, and its thread is deleted.
GiveUp(s) ==
  /\ task' = Released(task, s)
  /\ kept' = kept \ {s} /\ subscribed' = subscribed \ {s}
  /\ GiveBack(s) /\ Goto(s, "over")

-----------------------------------------------------------------------------
(* reconcileFeishuTaskAfterRun                                             *)

\* terminalTaskStatusForRun, for runs without an attempt.
TerminalStatus(outcome, zip) ==
  IF outcome # "completed" THEN "blocked"
  ELSE IF zip # None THEN "finished" ELSE "in_progress"

SettledByRun(s, outcome) ==
  LET status == TerminalStatus(outcome, artifact[s]) IN
  Settled(task, s, status, IF status = "finished" THEN s ELSE None)

\* What happens as soon as the end of the run is heard; state is the attempt's
\* by then.
Reconcile(s, outcome, state) ==
  IF task.thread # s \/ ~MaySettle(task, s)
  THEN GiveBack(s) /\ UNCHANGED <<task, reconcile>>
  ELSE IF ~task.trusted
  THEN task' = Released(task, s) /\ GiveBack(s) /\ UNCHANGED reconcile
  ELSE IF state # None
  THEN /\ reconcile' = [reconcile EXCEPT ![s] =
                          [chat |-> outcome, auto |-> state, zip |-> artifact[s]]]
       /\ UNCHANGED <<task, leases>>
  ELSE task' = SettledByRun(s, outcome) /\ GiveBack(s) /\ UNCHANGED reconcile

Proven(s) ==
  /\ reconcile[s].chat = "completed" /\ reconcile[s].auto = "reported"
  /\ receipt[s] \in Zips /\ reconcile[s].zip = receipt[s]

\* Faulty: the ZIP is there, since it was read.
MayFinishAsRead(s) == MaySettle(task, s)

\* settleTaskAiStart throws with a claim that is gone, or with a ZIP that has been
\* deleted since it was read, unless the claim has nothing more to decide.
MayFinish(s) ==
  MaySettle(task, s) /\ (artifact[s] # None \/ task.archived \/ task.thread # s)

\* The receipt has been read.  What throws by now stops it halfway.
ReceiptRead(s) ==
  /\ reconcile[s] # None
  /\ task' = IF ~Proven(s)
             THEN IF MaySettle(task, s) THEN Settled(task, s, "blocked", task.completion) ELSE task
             ELSE IF MayFinish(s) THEN Settled(task, s, "finished", s) ELSE task
  /\ auto' = [auto EXCEPT ![s] = IF ~Proven(s) THEN "blocked"
                                 ELSE IF MayFinish(s) THEN "completed" ELSE @]
  /\ reconcile' = [reconcile EXCEPT ![s] = None]
  /\ GiveBack(s)
  /\ UNCHANGED <<phased, started, pc, local, kept, begun, chat, outside, subscribed, edits, restarts>>

-----------------------------------------------------------------------------
(* startTaskWithAi and startClaimedTaskWithAi                              *)

\* Asked of a task that is trusted; the slot is the caller's.
StartWithAi(s) ==
  /\ s = started + 1 /\ Startable /\ task.trusted
  /\ started' = s /\ task' = Claimed(s)
  /\ Goto(s, "thread") /\ leases' = leases \cup {s}
  /\ UNCHANGED <<phased, local, runVars, outside, reconcile, subscribed, edits, restarts>>

\* verifyTaskAiStart: the version is the bound one.
StillBound(s) ==
  Owns(task, s) /\ ~task.claim.edited /\ task.status = "in_progress" /\ task.thread = s

ThreadCreated(s) ==
  /\ pc[s] = "thread"
  /\ IF StillBound(s)
       THEN /\ kept' = kept \cup {s} /\ subscribed' = subscribed \cup {s}
            /\ Goto(s, "turn") /\ UNCHANGED <<task, leases>>
       ELSE GiveUp(s)
  /\ UNCHANGED <<phased, started, local, begun, chat, auto, outside, reconcile, edits, restarts>>

\* createThread or startTurn fails before there is a run.
StartFails(s) ==
  /\ pc[s] \in {"thread", "turn"}
  /\ GiveUp(s)
  /\ UNCHANGED <<phased, started, local, begun, chat, auto, outside, reconcile, edits, restarts>>

\* onRunCreated, up to its first await; without a stage it has none, and the
\* process starts.
RunCreated(s) ==
  /\ pc[s] = "turn" /\ s \in kept
  /\ chat' = [chat EXCEPT ![s] = "running"]
  /\ task' = [task EXCEPT !.claim.run = TRUE]
  /\ IF phased /\ task.trusted
       THEN auto' = [auto EXCEPT ![s] = "preparing"] /\ Goto(s, "prepare") /\ UNCHANGED working
       ELSE working' = working \cup {s} /\ Goto(s, "run") /\ UNCHANGED auto
  /\ UNCHANGED <<phased, started, local, kept, begun, receipt, artifact, report, reconcile,
                 subscribed, leases, edits, restarts>>

\* Faulty: in any state.
MayBePrepared(s) == auto[s] # None

\* markFeishuAutoCutRunPrepared
ToPrepare(s) == auto[s] = "preparing"

\* The inputs are ready and the process is started, without asking whether the
\* run was interrupted meanwhile; only a deleted thread stops Codex.
InputsPrepared(s) ==
  /\ pc[s] = "prepare" /\ ToPrepare(s)
  /\ auto' = [auto EXCEPT ![s] = "running"]
  /\ IF s \in kept \cup local
       THEN /\ working' = working \cup {s} /\ Goto(s, "run")
            /\ UNCHANGED <<task, kept, subscribed, leases>>
       ELSE GiveUp(s) /\ UNCHANGED working
  /\ UNCHANGED <<phased, started, local, begun, chat, receipt, artifact, report, reconcile,
                 edits, restarts>>

\* The Bridge does not give the context, an input is missing, or the attempt is
\* blocked already.  When the claim is gone too, the start fails otherwise: an
\* AI start's run and thread are deleted.
PreparationFails(s) ==
  /\ pc[s] = "prepare"
  /\ auto' = [auto EXCEPT ![s] = "blocked"]
  /\ IF MaySettle(task, s) \/ s \in local
       THEN /\ chat' = [chat EXCEPT ![s] = IF s \in kept THEN "failed" ELSE @]
            /\ UNCHANGED kept
       ELSE chat' = [chat EXCEPT ![s] = None] /\ kept' = kept \ {s}
  /\ task' = IF MaySettle(task, s) THEN Settled(task, s, "blocked", task.completion)
             ELSE Released(task, s)
  /\ subscribed' = subscribed \ {s} /\ GiveBack(s) /\ Goto(s, "over")
  /\ UNCHANGED <<phased, started, local, begun, outside, reconcile, edits, restarts>>

\* The Codex process ends.
RunEnds(s) ==
  /\ pc[s] = "run" /\ s \in working \ local
  /\ working' = working \ {s} /\ Goto(s, "over")
  /\ \E outcome \in Terminal :
       /\ chat' = [chat EXCEPT ![s] = outcome]
       /\ begun' \in {begun} \cup (IF outcome = "failed" THEN {begun \cup {s}} ELSE {})
       /\ IF s \in subscribed THEN Reconcile(s, outcome, auto[s])
                              ELSE UNCHANGED <<task, reconcile, leases>>
  /\ subscribed' = subscribed \ {s}
  /\ UNCHANGED <<phased, started, local, kept, auto, receipt, artifact, report, edits, restarts>>

\* The end of a process whose server is gone.
OrphanEnds(s) ==
  /\ pc[s] = "gone" /\ s \in working
  /\ working' = working \ {s}
  /\ UNCHANGED <<phased, task, started, pc, local, runVars, receipt, artifact, report, reconcile,
                 subscribed, leases, edits, restarts>>

-----------------------------------------------------------------------------
(* startClaimedTaskWithLocalAutoCut, for retries whose user consents.      *)

\* Up to its first await, which is in the preparation.
StartLocally(s) ==
  /\ s = started + 1 /\ Startable /\ task.trusted /\ task.retried
  /\ started' = s /\ local' = local \cup {s}
  /\ task' = [Claimed(s) EXCEPT !.claim.run = TRUE]
  /\ kept' = kept \cup {s}
  /\ chat' = [chat EXCEPT ![s] = "running"] /\ auto' = [auto EXCEPT ![s] = "preparing"]
  /\ Goto(s, "prepare") /\ leases' = leases \cup {s}
  /\ UNCHANGED <<phased, begun, outside, reconcile, subscribed, edits, restarts>>

\* Whatever the attempt says, the run's end is reconciled.  If an interrupted
\* run has been deleted, its update throws twice: nothing is, and the slot stays
\* taken.
LocalOver(s, outcome, state) ==
  /\ Goto(s, "over")
  /\ IF s \in kept
       THEN /\ auto' = [auto EXCEPT ![s] = state] /\ chat' = [chat EXCEPT ![s] = outcome]
            /\ Reconcile(s, outcome, state)
       ELSE auto' = [auto EXCEPT ![s] = "blocked"] /\ UNCHANGED <<task, chat, reconcile, leases>>

RunnerFails(s) ==
  /\ pc[s] = "run" /\ s \in local
  /\ working' = working \ {s}
  /\ \E outcome \in {"failed", "interrupted"} : LocalOver(s, outcome, "blocked")
  /\ UNCHANGED <<phased, started, local, kept, begun, receipt, artifact, report, subscribed,
                 edits, restarts>>

\* getTaskAiStartForArtifactReport
ReportClaim(s) ==
  /\ MaySettle(task, s) /\ task.status = "in_progress" /\ ~task.archived
  /\ task.thread = s /\ chat[s] = "running"

ReceiptSays(s, zip) == auto[s] # None => receipt[s] = zip
TakesReports(s) == ~task.archived /\ task.trusted

\* reportLocalAutoCutArtifact: a blocked receipt is not reported, a missing one
\* fails the run.
RunnerSucceeds(s) ==
  /\ pc[s] = "run" /\ s \in local
  /\ working' = working \ {s}
  /\ CASE receipt[s] = "blocked" ->
            LocalOver(s, "completed", auto[s]) /\ UNCHANGED report
       [] receipt[s] \in Zips /\ TakesReports(s) /\ ReportClaim(s) ->
            /\ report' = [report EXCEPT ![s] = [zip |-> receipt[s], checked |-> FALSE]]
            /\ Goto(s, "report") /\ UNCHANGED <<task, chat, auto, reconcile, leases>>
       [] OTHER -> LocalOver(s, "failed", "blocked") /\ UNCHANGED report
  /\ UNCHANGED <<phased, started, local, kept, begun, receipt, artifact, subscribed, edits, restarts>>

-----------------------------------------------------------------------------
(* The artifact report: POST .../runs/:id/artifact-report, and             *)
(* createTaskArtifact.  A refused report changes nothing; the local runner *)
(* then fails its run.                                                     *)

ReportReceived(s) ==
  /\ s \in working \ local /\ report[s] = None
  /\ TakesReports(s) /\ ReportClaim(s)
  /\ \E zip \in Zips :
       /\ ReceiptSays(s, zip)
       /\ report' = [report EXCEPT ![s] = [zip |-> zip, checked |-> FALSE]]
  /\ UNCHANGED <<phased, task, started, pc, local, runVars, working, receipt, artifact, reconcile,
                 subscribed, leases, edits, restarts>>

Refuse(s) ==
  /\ report' = [report EXCEPT ![s] = None]
  /\ IF s \in local THEN LocalOver(s, "failed", "blocked")
                    ELSE UNCHANGED <<pc, task, chat, auto, reconcile, leases>>

\* The ZIP is copied into the store: task and receipt are looked at again.
ReportChecked(s) ==
  /\ report[s] # None /\ ~report[s].checked
  /\ IF TakesReports(s) /\ ReceiptSays(s, report[s].zip)
       THEN /\ report' = [report EXCEPT ![s].checked = TRUE]
            /\ UNCHANGED <<pc, task, chat, auto, reconcile, leases>>
       ELSE Refuse(s)
  /\ UNCHANGED <<phased, started, local, kept, begun, working, receipt, artifact, subscribed,
                 edits, restarts>>

\* Faulty: the claim was checked when the report came in.
AcceptedAsReceived(s) ==
  /\ auto[s] \in {None, "running", "reported"}
  /\ artifact[s] \in {None, report[s].zip}

Accepted(s) ==
  /\ ReportClaim(s)
  /\ auto[s] \in {None, "running", "reported"}
  /\ artifact[s] \in {None, report[s].zip}

ReportStored(s) ==
  /\ report[s] # None /\ report[s].checked
  /\ IF Accepted(s)
       THEN LET state == IF auto[s] = None THEN None ELSE "reported" IN
            /\ artifact' = [artifact EXCEPT ![s] = report[s].zip]
            /\ report' = [report EXCEPT ![s] = None]
            /\ auto' = [auto EXCEPT ![s] = state]
            /\ UNCHANGED <<pc, task, chat, reconcile, leases>>
       ELSE Refuse(s) /\ UNCHANGED artifact
  /\ UNCHANGED <<phased, started, local, kept, begun, working, receipt, subscribed, edits, restarts>>

\* The local runner has the answer.
ReportAnswered(s) ==
  /\ pc[s] = "report" /\ report[s] = None
  /\ LocalOver(s, "completed", auto[s])
  /\ UNCHANGED <<phased, started, local, kept, begun, outside, subscribed, edits, restarts>>

\* What the process writes, once or twice, while somebody may read it.
ReceiptWritten(s) ==
  /\ s \in working /\ auto[s] # None
  /\ Owns(task, s) \/ reconcile[s] # None
  /\ \E r \in CASE receipt[s] = None   -> {"zip1", "blocked"}
                [] receipt[s] = "zip1" -> {"zip2", "blocked"}
                [] OTHER               -> {} :
       receipt' = [receipt EXCEPT ![s] = r]
  /\ UNCHANGED <<phased, task, started, pc, local, runVars, working, artifact, report, reconcile,
                 subscribed, leases, edits, restarts>>

-----------------------------------------------------------------------------
(* Users.                                                                  *)

Edit(t) ==
  /\ edits < MaxEdits /\ edits' = edits + 1
  /\ task' = IF t.claim.by = None THEN t ELSE [t EXCEPT !.claim.edited = TRUE]
EditTask(t) ==
  /\ Edit(t)
  /\ UNCHANGED <<phased, started, pc, local, runVars, outside, reconcile, subscribed, leases, restarts>>

\* moveTask and updateTask
UserMoves(status) ==
  /\ task.status # status
  /\ EditTask([task EXCEPT !.status = status, !.byServer = FALSE, !.chosen = status,
                           !.claim.moved = task.claim.by # None])

UserArchives == EditTask([task EXCEPT !.archived = ~@])

\* The thread and the trust of a task are edited with its other fields.
UserBindsThread == task.thread # Other /\ EditTask([task EXCEPT !.thread = Other])
UserEditsMarker == EditTask([task EXCEPT !.trusted = ~@])

Attempts == {s \in Starts : auto[s] # None}
LatestBlocked == \E s \in Attempts : auto[s] = "blocked" /\ \A x \in Attempts : x <= s

\* prepareFeishuAutoCutRetry, bounded by the starts; a slot that is held has a
\* row of task executions.
UserRetries ==
  /\ started < MaxStarts
  /\ phased /\ task.trusted /\ ~task.archived /\ task.status = "blocked"
  /\ LatestBlocked /\ task.claim.by = None /\ leases = {}
  /\ task' = [task EXCEPT !.status = "todo", !.thread = None, !.retried = TRUE,
                          !.completion = None, !.byServer = TRUE]
  /\ UNCHANGED <<phased, started, pc, local, runVars, outside, reconcile, subscribed, leases,
                 edits, restarts>>

\* AiChat.interrupt of a run that has no process: the local runner never has
\* one there, and nobody hears of its event.
UserInterrupts(s) ==
  /\ chat[s] = "running" /\ pc[s] \in {"prepare", "run", "report"}
  /\ s \in local \/ pc[s] = "prepare"
  /\ edits < MaxEdits /\ edits' = edits + 1
  /\ chat' = [chat EXCEPT ![s] = "interrupted"]
  /\ IF s \in subscribed THEN Reconcile(s, "interrupted", auto[s])
                         ELSE UNCHANGED <<task, reconcile, leases>>
  /\ subscribed' = subscribed \ {s}
  /\ UNCHANGED <<phased, started, pc, local, kept, begun, auto, outside, restarts>>

\* AiChat.deleteThread of a thread that is idle; the claim's run_id goes with
\* the run.
UserDeletesThread(s) ==
  /\ s \in kept /\ chat[s] # "running" /\ ~(pc[s] = "run" /\ s \in working \ local)
  /\ edits < MaxEdits /\ edits' = edits + 1
  /\ kept' = kept \ {s} /\ chat' = [chat EXCEPT ![s] = None]
  /\ task' = IF Owns(task, s) THEN [task EXCEPT !.claim.run = FALSE, !.lost = TRUE] ELSE task
  /\ UNCHANGED <<phased, started, pc, local, begun, auto, outside, reconcile, subscribed, leases,
                 restarts>>

\* deleteTaskArtifact; the completion artifact goes with it.  An upload that is
\* queued refuses it, which is ArtifactUpload's.
UserDeletesArtifact(s) ==
  /\ artifact[s] # None /\ task.trusted
  /\ edits < MaxEdits /\ edits' = edits + 1
  /\ artifact' = [artifact EXCEPT ![s] = None]
  /\ task' = IF task.completion = s THEN [task EXCEPT !.completion = None, !.withdrawn = s]
             ELSE task
  /\ UNCHANGED <<phased, started, pc, local, runVars, working, receipt, report, reconcile,
                 subscribed, leases, restarts>>

-----------------------------------------------------------------------------
(* A restart: interruptAbandonedAiChatRuns, then                           *)
(* reconcileClaimedFeishuTasks.  Processes may outlive the server, and the *)
(* crash may come between the end of a run and its settlement.             *)

LastWord(s) == IF pc[s] = "run" /\ s \notin local THEN Terminal ELSE {"interrupted"}

\* Faulty: an attempt is left to the reconciliation that was under way.
RecoverSkippingAttempts(runs) ==
  LET s == task.claim.by IN
  IF s = None \/ (s \in kept /\ task.claim.run /\ auto[s] # None) THEN UNCHANGED <<task, reconcile>>
  ELSE task' = Released(task, s) /\ UNCHANGED reconcile

\* runs: the status of the runs by now.
Recover(runs) ==
  LET s == task.claim.by
      nothing == [x \in Starts |-> None] IN
  IF s = None THEN UNCHANGED task /\ reconcile' = nothing
  ELSE IF ~task.trusted \/ s \notin kept \/ ~task.claim.run
  THEN task' = Released(task, s) /\ reconcile' = nothing
  ELSE IF auto[s] = None
  THEN task' = SettledByRun(s, runs[s]) /\ reconcile' = nothing
  ELSE /\ UNCHANGED task
       /\ reconcile' = IF task.thread # s THEN nothing
                       ELSE [nothing EXCEPT ![s] =
                               [chat |-> runs[s], auto |-> auto[s], zip |-> artifact[s]]]

\* A thread without a run is deleted with the claim that had none.
Restart ==
  /\ restarts < MaxRestarts /\ restarts' = restarts + 1
  /\ \E last \in [{s \in Starts : chat[s] = "running"} -> Terminal] :
       /\ \A s \in DOMAIN last : last[s] \in LastWord(s)
       /\ chat' = [s \in Starts |-> IF s \in DOMAIN last THEN last[s] ELSE chat[s]]
       /\ working' = working \ {s \in DOMAIN last : last[s] # "interrupted"}
       /\ Recover(chat')
  /\ kept' = kept \ {s \in Starts : Owns(task, s) /\ task.trusted /\ ~task.claim.run /\ chat[s] = None}
  /\ pc' = [s \in Starts |-> IF pc[s] = "idle" THEN "idle" ELSE "gone"]
  /\ report' = [s \in Starts |-> None]
  /\ subscribed' = {} /\ leases' = {}
  /\ UNCHANGED <<phased, started, local, begun, auto, receipt, artifact, edits>>

-----------------------------------------------------------------------------

Starting(s) ==
  \/ ThreadCreated(s) \/ StartFails(s) \/ RunCreated(s)
  \/ InputsPrepared(s) \/ PreparationFails(s)
Ending(s) == RunEnds(s) \/ RunnerFails(s) \/ RunnerSucceeds(s) \/ ReportAnswered(s)
Storing(s) == ReportChecked(s) \/ ReportStored(s)

User ==
  \/ \E status \in Statuses : UserMoves(status)
  \/ UserArchives \/ UserBindsThread \/ UserEditsMarker \/ UserRetries
  \/ \E s \in Starts : UserInterrupts(s) \/ UserDeletesThread(s) \/ UserDeletesArtifact(s)

Next ==
  \/ \E s \in Starts :
       \/ StartWithAi(s) \/ StartLocally(s) \/ Starting(s) \/ Ending(s) \/ OrphanEnds(s)
       \/ ReportReceived(s) \/ Storing(s) \/ ReceiptWritten(s) \/ ReceiptRead(s)
  \/ User
  \/ Restart

\* What the server awaits is answered or fails, and a process ends.
Fairness ==
  \A s \in Starts :
    /\ WF_vars(Starting(s)) /\ WF_vars(Ending(s))
    /\ WF_vars(Storing(s)) /\ WF_vars(ReceiptRead(s))

Spec == Init /\ [][Next]_vars /\ Fairness

-----------------------------------------------------------------------------
(* Properties.                                                             *)

\* What the columns and the maps hold.
Rows == [status : Statuses, archived : BOOLEAN, thread : Starts \cup {None, Other},
         trusted : BOOLEAN, retried : BOOLEAN,
         claim : [by : Starts \cup {None}, run : BOOLEAN, moved : BOOLEAN, edited : BOOLEAN],
         completion : Starts \cup {None}, chosen : Statuses \cup {None},
         byServer : BOOLEAN, lost : BOOLEAN, withdrawn : Starts \cup {None}]
Reports == [zip : Zips, checked : BOOLEAN]
Readings == [chat : Terminal, auto : {"preparing", "running", "blocked", "reported"},
             zip : Zips \cup {None}]

TypeOK ==
  /\ phased \in BOOLEAN
  /\ task \in Rows /\ (task.claim.by = None => task.claim = NoClaim)
  /\ started \in 0..MaxStarts /\ edits \in 0..MaxEdits /\ restarts \in 0..MaxRestarts
  /\ pc \in [Starts -> {"idle", "thread", "turn", "prepare", "run", "report", "over", "gone"}]
  /\ kept \cup begun \cup local \cup working \cup subscribed \cup leases \subseteq 1..started
  /\ chat \in [Starts -> {None, "running"} \cup Terminal]
  /\ auto \in [Starts -> {None, "preparing", "running", "blocked", "reported", "completed"}]
  /\ receipt \in [Starts -> Receipts \cup {None}]
  /\ artifact \in [Starts -> Zips \cup {None}]
  /\ report \in [Starts -> {None} \cup Reports]
  /\ reconcile \in [Starts -> {None} \cup Readings]

\* However users move, archive, rebind and retry the task, one run of it at
\* most is running.
OneRunPerTask == Cardinality({s \in Starts : chat[s] = "running"}) <= 1

\* The rows and maps of a task keep their types and one run works on it.
RunsExclusive == TypeOK /\ OneRunPerTask

\* A task the server has finished has the ZIP of its last run as completion
\* artifact, unless a user has deleted that ZIP since, and an attempt was proven
\* by its receipt: a run that ends without its ZIP, or with another receipt,
\* finishes nothing.
FinishedWithItsZip ==
  task.status = "finished" /\ task.byServer
  => /\ auto[started] \in {None, "completed"}
     /\ \/ task.completion = started /\ artifact[started] # None
        \/ task.completion = None /\ task.withdrawn = started

\* A reconciliation decides with what it has read before its await: however late
\* a report is, the artifact of the run does not change in between.  It may only
\* be gone, if a user deletes it.
ReadingsHold ==
  \A s \in Starts : reconcile[s] # None => artifact[s] \in {reconcile[s].zip, None}

\* The server finishes a task with the ZIP its last run has proven, however late
\* reports, receipts, reconciliations and the deletion of the ZIP are.
FinishedByProof == FinishedWithItsZip /\ ReadingsHold

\* Does not hold: the ZIP that has finished a task can be deleted, and the task
\* stays finished.
FinishedTasksHaveTheirZip ==
  task.status = "finished" /\ task.byServer => task.completion # None

\* When the claim goes, by the end of its run or a restart, the task keeps the
\* status a user has given it since; only a start that failed takes a task back
\* which was moved away and returned to "in progress".
UserMovesStand ==
  [][task.claim.by # None /\ task'.claim.by = None /\ task.chosen # None
     => \/ task'.status = task.chosen
        \/ task.chosen = "in_progress" /\ task'.status = "todo"]_vars

\* An attempt that is blocked or completed stays so, though preparation,
\* process, report and reconciliation of an interrupted run overlap.
AttemptsAreFinal ==
  [][\A s \in Starts : auto[s] \in {"blocked", "completed"} => auto'[s] = auto[s]]_vars

\* What is decided, by a user or by an attempt, is not taken back.
DecisionsStand == UserMovesStand /\ AttemptsAreFinal

\* The ZIP that proved the run was deleted while its receipt was read; no other
\* reconciliation comes before a restart.
Bereft(s) ==
  /\ chat[s] = "completed" /\ auto[s] = "reported"
  /\ artifact[s] = None /\ reconcile[s] = None

\* Every claim is settled or given back in the end, restarts included, unless
\* its thread was deleted or replaced by a user, or its ZIP was deleted while the
\* receipt was read.
ClaimsSettle ==
  (task.claim.by # None) ~> \/ task.claim.by = None \/ task.lost
                            \/ task.thread # task.claim.by \/ Bereft(task.claim.by)

\* Does not hold: nobody reconciles a run again whose ZIP was deleted meanwhile.
DeletedZipsSettle ==
  (task.claim.by # None) ~> \/ task.claim.by = None \/ task.lost
                            \/ task.thread # task.claim.by

\* Every start gives its slot back, whatever fails or is taken from it, but for a
\* local run that a user has interrupted and deleted while its runner worked.
SlotsComeBack ==
  \A s \in Starts : (s \in leases) ~> (s \notin leases \/ s \in local \ kept)

\* Neither the claim of a task nor the slot of its package is held for ever.
NothingHeldForEver == ClaimsSettle /\ SlotsComeBack

\* Does not hold: a start that fails while a user has moved its task leaves the id
\* of the thread it deletes.
ThreadsExist ==
  task.thread \in Starts /\ pc[task.thread] \in {"over", "gone"} /\ ~task.lost => task.thread \in kept

\* Does not hold: a run interrupted while it is prepared gets its process all the same.
OneProcessPerTask == Cardinality(working) <= 1
=============================================================================
