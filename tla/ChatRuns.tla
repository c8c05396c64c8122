------------------------------ MODULE ChatRuns ------------------------------
(***************************************************************************)
(* The turns of one AI chat thread (server/ai-chat.mjs), their rows        *)
(* (server/database.mjs) and what runs them: a Codex process per turn      *)
(* (server/ai-chat-process.mjs), or a turn of the Codex app-server         *)
(* (server/codex-app-server.mjs).  startTurn awaits the project's context, *)
(* the attachments and the preparation of the run or the answers of the    *)
(* app-server; other requests run at each of these awaits.                 *)
(***************************************************************************)
EXTENDS Integers, FiniteSets

CONSTANTS
  Turns,        \* calls of startTurn, and the runs they create
  MaxSettings,  \* bound on changes of the thread's settings
  MaxFaults,    \* bound on exits of the app-server and restarts
  None,
  Deleted

ASSUME ChatAssumption ==
  /\ MaxSettings \in Nat /\ MaxFaults \in Nat /\ None # Deleted
  /\ {None, Deleted} \cap {"running", "completed", "failed", "interrupted"} = {}

Kinds == {"process", "appServer"}

VARIABLES
  thread,    \* exists, status, settings and the Codex thread it resumes
  run,       \* status of the row; None before it is created, later Deleted
  pc,        \* where startTurn waits
  kind,
  seen,      \* the thread as startTurn has read it
  active,    \* the map of the runs with a process or a turn
  interrupted,  \* their flag
  turnId,    \* their turn of the app-server, None while unknown
  work,      \* the process or turn itself: idle, asked, alive, over; lost
             \* with the app-server
  files,     \* turns whose temporary directory the service has to remove
  early,     \* runs that were interrupted while they were prepared
  faults

serviceVars == <<pc, kind, seen, active, interrupted, turnId>>
vars == <<thread, run, serviceVars, work, files, early, faults>>

Init ==
  /\ thread = [exists |-> TRUE, status |-> "idle", settings |-> 0, codex |-> None]
  /\ run = [t \in Turns |-> None]
  /\ pc = [t \in Turns |-> "idle"]
  /\ kind \in [Turns -> Kinds]
  /\ seen = [t \in Turns |-> thread]
  /\ active = {} /\ interrupted = {}
  /\ turnId = [t \in Turns |-> None]
  /\ work = [t \in Turns |-> "idle"]
  /\ files = {} /\ early = {} /\ faults = 0

-----------------------------------------------------------------------------
(* Rows.                                                                   *)

Running == {t \in Turns : run[t] = "running"}
ThreadIsActive == Running # {} \/ active # {}

\* Faulty: without the index.
CanCreateAny == thread.exists

\* The unique index ai_chat_runs_one_active, and the foreign key.
CanCreate == thread.exists /\ Running = {}

CreateRun(t) ==
  /\ run' = [run EXCEPT ![t] = "running"]
  /\ thread' = [thread EXCEPT !.status = "running"]

\* The thread stays running while one of its runs is.
StatusAfter(t, status) ==
  IF Running \ {t} # {} THEN thread.status
  ELSE IF status = "failed" THEN "failed" ELSE "idle"

UpdateRun(t, status) ==
  /\ run' = [run EXCEPT ![t] = status]
  /\ thread' = [thread EXCEPT !.status = StatusAfter(t, status)]

Goto(t, to) == pc' = [pc EXCEPT ![t] = to]
RemoveFiles(t) == files' = files \ {t}

-----------------------------------------------------------------------------
(* startTurn.                                                              *)

StartTurn(t) ==
  /\ pc[t] = "idle" /\ thread.exists /\ ~ThreadIsActive
  /\ Goto(t, "context")
  /\ UNCHANGED <<thread, run, kind, seen, active, interrupted, turnId, work, files, early, faults>>

\* The thread is read once more; nothing is read again after this.
ContextResolved(t) ==
  /\ pc[t] = "context"
  /\ IF thread.exists /\ ~ThreadIsActive
       THEN seen' = [seen EXCEPT ![t] = thread] /\ Goto(t, "files")
       ELSE Goto(t, "over") /\ UNCHANGED seen
  /\ UNCHANGED <<thread, run, kind, active, interrupted, turnId, work, files, early, faults>>

\* The attachments are written and the run is created; if it cannot be, they
\* are removed.
FilesWritten(t) ==
  /\ pc[t] = "files" /\ kind[t] = "process"
  /\ IF CanCreate THEN CreateRun(t) /\ Goto(t, "prepare") /\ files' = files \cup {t}
                  ELSE Goto(t, "over") /\ UNCHANGED <<thread, run, files>>
  /\ UNCHANGED <<kind, seen, active, interrupted, turnId, work, early, faults>>

\* onRunCreated has prepared the run and the process is spawned.  The insertion
\* of the user's message fails if the thread has been deleted.
Prepared(t) ==
  /\ pc[t] = "prepare" /\ Goto(t, "over")
  /\ IF run[t] = Deleted
       THEN RemoveFiles(t) /\ UNCHANGED <<active, work>>
       ELSE /\ active' = active \cup {t} /\ work' = [work EXCEPT ![t] = "alive"]
            /\ UNCHANGED files
  /\ UNCHANGED <<thread, run, kind, seen, interrupted, turnId, early, faults>>

\* Faulty: the row stays.
PreparationForgotten(t) ==
  /\ pc[t] = "prepare" /\ Goto(t, "over")
  /\ RemoveFiles(t)
  /\ UNCHANGED <<thread, run, kind, seen, active, interrupted, turnId, work, early, faults>>

\* onRunCreated fails: the row is deleted, or failed if Auto-Cut was blocked.
PreparationFails(t) ==
  /\ pc[t] = "prepare" /\ Goto(t, "over")
  /\ RemoveFiles(t)
  /\ IF run[t] = Deleted THEN UNCHANGED <<thread, run>>
     ELSE UpdateRun(t, "failed") \/ UpdateRun(t, Deleted)
  /\ UNCHANGED <<kind, seen, active, interrupted, turnId, work, early, faults>>

\* A turn for the app-server first has the Codex thread started or resumed.
AskThread(t) ==
  /\ pc[t] = "files" /\ kind[t] = "appServer"
  /\ files' = files \cup {t} /\ Goto(t, "thread")
  /\ UNCHANGED <<thread, run, kind, seen, active, interrupted, turnId, work, early, faults>>

\* A new Codex thread is stored before the run is created; then the turn is
\* asked for.
ThreadAnswers(t) ==
  LET codex == IF seen[t].codex = None THEN t ELSE seen[t].codex
      stored == IF seen[t].codex = None THEN [thread EXCEPT !.codex = t] ELSE thread
  IN  /\ pc[t] = "thread"
      /\ IF CanCreate
           THEN /\ run' = [run EXCEPT ![t] = "running"]
                /\ thread' = [stored EXCEPT !.status = "running"]
                /\ seen' = [seen EXCEPT ![t].codex = codex]
                /\ active' = active \cup {t}
                /\ Goto(t, "turn") /\ UNCHANGED files
           ELSE /\ thread' = IF thread.exists THEN stored ELSE thread
                /\ RemoveFiles(t) /\ Goto(t, "over")
                /\ UNCHANGED <<run, seen, active>>
      /\ UNCHANGED <<kind, interrupted, turnId, work, early, faults>>

\* The request fails, times out, or ends with the app-server.
ThreadFails(t) ==
  /\ pc[t] = "thread" /\ Goto(t, "over") /\ RemoveFiles(t)
  /\ UNCHANGED <<thread, run, kind, seen, active, interrupted, turnId, work, early, faults>>

-----------------------------------------------------------------------------
(* Runs of the app-server.                                                 *)

\* #handleAppServerNotification: the active run of this Codex thread, whatever its
\* turn unless the notification names the turn and another one is known.
Addressed(t, named) ==
  {a \in active : /\ kind[a] = "appServer" /\ seen[a].codex = seen[t].codex
                  /\ named => turnId[a] \in {None, t}}

\* #finishAppServerRun, which does nothing for a run that is not active.
FinishAppServerRun(a, status) ==
  IF a \in active
  THEN /\ UpdateRun(a, status) /\ active' = active \ {a} /\ RemoveFiles(a)
  ELSE UNCHANGED <<thread, run, active, files>>

\* Faulty: whether the run is active or not.
FailAgain(a) ==
  UpdateRun(a, "failed") /\ active' = active \ {a} /\ RemoveFiles(a)

FailRun(a) == FinishAppServerRun(a, "failed")

\* The app-server starts the turn that was asked for and says so.
AppServerStartsTurn(t) ==
  /\ kind[t] = "appServer" /\ work[t] = "asked"
  /\ work' = [work EXCEPT ![t] = "alive"]
  /\ \E named \in BOOLEAN :
       turnId' = [a \in Turns |-> IF a \in Addressed(t, named) THEN t ELSE turnId[a]]
  /\ UNCHANGED <<thread, run, pc, kind, seen, active, interrupted, files, early, faults>>

AskTurn(t) ==
  /\ pc[t] = "turn" /\ work[t] = "idle"
  /\ work' = [work EXCEPT ![t] = "asked"]
  /\ UNCHANGED <<thread, run, serviceVars, files, early, faults>>

TurnAnswers(t) ==
  /\ pc[t] = "turn" /\ work[t] \in {"alive", "over"}
  /\ turnId' = [turnId EXCEPT ![t] = t]
  /\ Goto(t, "over")
  /\ UNCHANGED <<thread, run, kind, seen, active, interrupted, work, files, early, faults>>

\* turn/start fails or times out; the turn may have been started all the same.
TurnFails(t) ==
  /\ pc[t] = "turn" /\ Goto(t, "over")
  /\ FailRun(t)
  /\ UNCHANGED <<kind, seen, interrupted, turnId, work, early, faults>>

\* turn/completed
AppServerEndsTurn(t) ==
  /\ kind[t] = "appServer" /\ work[t] = "alive"
  /\ work' = [work EXCEPT ![t] = "over"]
  /\ \E named \in BOOLEAN :
       IF Addressed(t, named) = {} THEN UNCHANGED <<thread, run, active, files>>
       ELSE \E a \in Addressed(t, named), status \in {"completed", "failed", "interrupted"} :
              FinishAppServerRun(a, IF a \in interrupted THEN "interrupted" ELSE status)
  /\ UNCHANGED <<pc, kind, seen, interrupted, turnId, early, faults>>

\* Its requests fail one by one; nothing ends the runs of its turns.
AppServerExits ==
  /\ faults < MaxFaults /\ faults' = faults + 1
  /\ \E t \in Turns : kind[t] = "appServer" /\ work[t] \in {"asked", "alive"}
  /\ work' = [t \in Turns |-> IF kind[t] = "appServer" /\ work[t] \in {"asked", "alive"}
                                THEN "lost" ELSE work[t]]
  /\ UNCHANGED <<thread, run, serviceVars, files, early>>

-----------------------------------------------------------------------------
(* Processes, interrupts, and the rest of the service.                     *)

\* The process ends, by itself or by a signal (#finishRun).
ProcessEnds(t) ==
  /\ kind[t] = "process" /\ work[t] = "alive"
  /\ work' = [work EXCEPT ![t] = "over"]
  /\ active' = active \ {t}
  /\ RemoveFiles(t)
  /\ \E status \in {"completed", "failed"} :
       UpdateRun(t, IF t \in interrupted THEN "interrupted" ELSE status)
  /\ UNCHANGED <<pc, kind, seen, interrupted, turnId, early, faults>>

\* thread.started: the thread is resumed under this id from now on.
ProcessStartsThread(t) ==
  /\ kind[t] = "process" /\ work[t] = "alive"
  /\ seen[t].codex = None /\ thread.codex # t
  /\ thread' = [thread EXCEPT !.codex = t]
  /\ UNCHANGED <<run, serviceVars, work, files, early, faults>>

\* A run that is not active yet is marked at once; otherwise the process gets
\* SIGTERM, or the app-server is asked to interrupt the turn if it is known.
Interrupt(t) ==
  /\ run[t] = "running" /\ t \notin interrupted
  /\ IF t \in active
       THEN interrupted' = interrupted \cup {t} /\ UNCHANGED <<thread, run, early>>
       ELSE UpdateRun(t, "interrupted") /\ early' = early \cup {t} /\ UNCHANGED interrupted
  /\ UNCHANGED <<pc, kind, seen, active, turnId, work, files, faults>>

\* Faulty: the app-server's answer is waited for.
StillWaiting(t) ==
  /\ t \in interrupted /\ t \in active /\ kind[t] = "appServer" /\ work[t] = "over"
  /\ FinishAppServerRun(t, "interrupted")
  /\ UNCHANGED <<pc, kind, seen, interrupted, turnId, work, early, faults>>

\* The grace period of an interrupt is over.
GraceEnds(t) ==
  /\ t \in interrupted /\ t \in active /\ kind[t] = "appServer"
  /\ FinishAppServerRun(t, "interrupted")
  /\ UNCHANGED <<pc, kind, seen, interrupted, turnId, work, early, faults>>

\* updateThread tests it after its last await.
UpdateSettings ==
  /\ thread.exists /\ ~ThreadIsActive /\ thread.settings < MaxSettings
  /\ thread' = [thread EXCEPT !.settings = @ + 1]
  /\ UNCHANGED <<run, serviceVars, work, files, early, faults>>

DeleteThread ==
  /\ thread.exists /\ ~ThreadIsActive
  /\ thread' = [thread EXCEPT !.exists = FALSE]
  /\ run' = [t \in Turns |-> IF run[t] = None THEN None ELSE Deleted]
  /\ UNCHANGED <<serviceVars, work, files, early, faults>>

\* The server stops and starts (interruptAbandonedAiChatRuns): its children end
\* with it; nobody removes the temporary directories any more.
Restart ==
  /\ faults < MaxFaults /\ faults' = faults + 1
  /\ run' = [t \in Turns |-> IF run[t] = "running" THEN "interrupted" ELSE run[t]]
  /\ thread' = [thread EXCEPT !.status = IF @ = "running" THEN "idle" ELSE @]
  /\ pc' = [t \in Turns |-> IF pc[t] = "idle" THEN "idle" ELSE "over"]
  /\ active' = {} /\ interrupted' = {}
  /\ work' = [t \in Turns |-> IF work[t] = "idle" THEN "idle" ELSE "over"]
  /\ files' = {}
  /\ UNCHANGED <<kind, seen, turnId, early>>

-----------------------------------------------------------------------------
Next ==
  \/ \E t \in Turns :
       \/ StartTurn(t) \/ ContextResolved(t) \/ FilesWritten(t)
       \/ Prepared(t) \/ PreparationFails(t)
       \/ AskThread(t) \/ ThreadAnswers(t) \/ ThreadFails(t)
       \/ AskTurn(t) \/ AppServerStartsTurn(t) \/ TurnAnswers(t) \/ TurnFails(t)
       \/ AppServerEndsTurn(t) \/ ProcessStartsThread(t) \/ ProcessEnds(t)
       \/ Interrupt(t) \/ GraceEnds(t)
  \/ UpdateSettings \/ DeleteThread \/ AppServerExits \/ Restart

\* A process ends once it has been signalled, and a grace period passes; how
\* long Codex works on a turn is its own affair.
Fairness ==
  \A t \in Turns : /\ WF_vars(GraceEnds(t))
                   /\ WF_vars(t \in interrupted /\ ProcessEnds(t))

Spec == Init /\ [][Next]_vars /\ Fairness

-----------------------------------------------------------------------------
(* Properties.                                                             *)

Statuses == {None, Deleted, "running", "completed", "failed", "interrupted"}

\* The rows have their types, and only a row that exists has an active entry.
TypeOK ==
  /\ thread.exists \in BOOLEAN /\ thread.settings \in 0..MaxSettings
  /\ thread.status \in {"idle", "running", "failed"}
  /\ run \in [Turns -> Statuses]
  /\ active \subseteq {t \in Turns : run[t] \notin {None, Deleted}}
  /\ interrupted \subseteq Turns
  /\ work \in [Turns -> {"idle", "asked", "alive", "over", "lost"}]
  /\ files \subseteq Turns /\ faults \in 0..MaxFaults

\* However many calls of startTurn pass its two checks, a thread never has two
\* running rows.
OneRunPerThread == Cardinality(Running) <= 1

\* The status of a thread says whether one of its runs is running.
StatusMatchesRuns == thread.exists => (thread.status = "running" <=> Running # {})

\* The rows of a thread agree with each other, though two calls of startTurn, an
\* interrupt, a deletion and the end of a run overlap: one run at a time, and the
\* status of the thread that of its run.
RowsAgree == TypeOK /\ OneRunPerThread /\ StatusMatchesRuns

\* Somebody ends this row: the call that prepares it or waits for the answer to its
\* turn, its process or turn while that works, or the grace period of an interrupt.
IsDriven(t) ==
  \/ pc[t] = "prepare"
  \/ t \in active /\ (pc[t] = "turn" \/ work[t] = "alive" \/ t \in interrupted)

\* Nobody does: the turn was lost with its app-server, whose exit ends its pending
\* requests only (codex-app-server.mjs:117); or it ended, and named itself, while the
\* entry of the run held the id of another turn of the same Codex thread.
IsLeftAlone(t) ==
  /\ t \in active /\ kind[t] = "appServer"
  /\ \/ work[t] = "lost"
     \/ /\ work[t] = "over"
        /\ \E u \in Turns \ {t} : kind[u] = "appServer" /\ seen[u].codex = seen[t].codex
                                /\ work[u] # "idle"

\* Whatever step fails or is overtaken, a running row is ended by somebody; otherwise
\* its thread is busy until it is interrupted or the server restarts.  The exceptions
\* are turns of the app-server that have gone without being noticed.
RunningIsDriven == \A t \in Running : IsDriven(t) \/ IsLeftAlone(t)

\* Attachments are kept only for a turn that is starting or active, whatever
\* step of it has failed.
NoFilesLeft == \A t \in files : t \in active \/ pc[t] \in {"prepare", "thread"}

\* Whatever step of a turn fails or is overtaken, no running row is left without
\* somebody to end it, turns of the app-server that went unnoticed apart, and no
\* attachment without a turn that needs it.
NothingLeftBehind == RunningIsDriven /\ NoFilesLeft

\* A finished run keeps its outcome, unless it was interrupted before its
\* process was spawned: the process overwrites that.
FinishedOnce ==
  [][\A t \in Turns : run[t] \in {"completed", "failed", "interrupted"} =>
       run'[t] \in {run[t], Deleted} \/ t \in early]_vars

\* A run that is interrupted ends, even if the app-server does not answer.
InterruptSettles == \A t \in Turns : t \in interrupted ~> run[t] # "running"

\* Does not hold: a running row is always ended by somebody, the exit of the app-server
\* during its turn included.
EveryRowIsEnded == \A t \in Running : IsDriven(t)

\* Does not hold: "same-thread turns are locked", one process or turn of Codex
\* at a time works on a thread.
TurnsLocked == Cardinality({t \in Turns : work[t] = "alive"}) <= 1

\* Does not hold: a run works with the settings the thread has when it is created.
RunUsesSettings ==
  [][\A t \in Turns : run[t] = None /\ run'[t] = "running" =>
       seen[t].settings = thread.settings]_vars

\* Does not hold: the Codex thread that is stored is the one the run works on.
SameConversation ==
  \A t \in Running : kind[t] = "appServer" => thread.codex = seen[t].codex

\* Does not hold: the run of a turn is finished when this turn ends, not another one.
EndedByOwnTurn ==
  [][\A t \in Turns : work[t] = "alive" /\ work'[t] = "over" =>
       active \ {t} \subseteq active' \/ faults' # faults]_vars
=============================================================================
