------------------------------ MODULE RemoteRuns ------------------------------
(***************************************************************************)
(* How the injector works on a task of a remote project by itself          *)
(* (runRemoteTaskboardAutomation in scripts/codex-injector.mjs): it reads  *)
(* a task to do, lets Codex decide whether it may begin, claims it by a    *)
(* move, starts a turn and follows it, and moves the task on.  Each step   *)
(* awaits the board or Codex.  A timer may begin a run while an earlier    *)
(* one still goes on.                                                      *)
(*                                                                         *)
(* A run, the thread it makes and its turn have one identity.              *)
(***************************************************************************)
EXTENDS Integers, FiniteSets

CONSTANTS
  MaxRuns,     \* bound on runs
  MaxTouches,  \* bound on what users do
  MaxFaults,   \* bound on failing requests, lost answers and stops of the injector
  Foreign      \* a thread of this computer

ASSUME RemoteAssumption == MaxRuns \in Nat /\ Foreign \notin 0..MaxRuns

Runs == 1..MaxRuns

VARIABLES
  board,     \* the task: status, version, thread, archived, is it ready, its comments
  enabled,   \* is the policy enabled with the version its timer knows?
  at,        \* where a run waits
  seen,      \* what it has read of the task
  owned,     \* the version of its claim
  thread,    \* the thread of its turn
  turn,      \* its turn in Codex
  answered,  \* runs whose final text is in a comment
  owner,     \* the run whose claim is the last word on the task, 0 if none
  cut,       \* runs that were cut off after their claim
  reopened,  \* has a user reopened the task while a turn was going on?
  touches, faults

runVars == <<at, seen, owned, thread>>
noteVars == <<owner, cut, reopened>>
remoteVars == <<board, enabled, runVars, turn, answered, noteVars, touches, faults>>

Idle == {"none", "over"}

RemoteInit ==
  /\ board = [status |-> "todo", version |-> 1, thread |-> 0, archived |-> FALSE, ready |-> TRUE,
              comments |-> 0]
  /\ enabled = TRUE
  /\ at = [r \in Runs |-> "none"] /\ seen = [r \in Runs |-> board] /\ owned = [r \in Runs |-> 0]
  /\ thread = [r \in Runs |-> 0] /\ turn = [r \in Runs |-> "none"] /\ answered = {}
  /\ owner = 0 /\ cut = {} /\ reopened = FALSE
  /\ touches = 0 /\ faults = 0

\* A bound thread is resumed, if it is a remote one.
Eligible(b) == b.status = "todo" /\ ~b.archived /\ b.ready /\ b.thread # Foreign

GoTo(r, step) == at' = [at EXCEPT ![r] = step]
Fault == faults < MaxFaults /\ faults' = faults + 1

-----------------------------------------------------------------------------
(* Up to the claim                                                         *)

\* The timer; the policy is looked at here and nowhere later.
RunBegins(r) ==
  /\ at[r] = "none" /\ \A q \in 1..(r - 1) : at[q] # "none"
  /\ enabled /\ Eligible(board) /\ GoTo(r, "read")
  /\ UNCHANGED <<board, enabled, seen, owned, thread, turn, answered, noteVars, touches, faults>>

TaskRead(r) ==
  /\ at[r] = "read" /\ GoTo(r, IF Eligible(board) THEN "decide" ELSE "over")
  /\ seen' = [seen EXCEPT ![r] = board]
  /\ UNCHANGED <<board, enabled, owned, thread, turn, answered, noteVars, touches, faults>>

\* remoteAutomationCanStart: a turn of a thread of its own decides.  When it is not
\* known where the task is at home, a comment says so.
Decided(r) ==
  /\ at[r] = "decide"
  /\ \/ \E step \in {"thread", "over"} : GoTo(r, step) /\ UNCHANGED board
     \/ GoTo(r, "over") /\ board' = [board EXCEPT !.comments = @ + 1]
  /\ UNCHANGED <<enabled, seen, owned, thread, turn, answered, noteVars, touches, faults>>

ThreadReady(r) ==
  /\ at[r] = "thread" /\ GoTo(r, "refresh")
  /\ thread' = [thread EXCEPT ![r] = IF seen[r].thread = 0 THEN r ELSE seen[r].thread]
  /\ UNCHANGED <<board, enabled, seen, owned, turn, answered, noteVars, touches, faults>>

\* remoteAutomationSnapshot: the task must be the one that was decided on.
Refreshed(r) ==
  /\ at[r] = "refresh"
  /\ GoTo(r, IF Eligible(board) /\ board.version = seen[r].version
                /\ board.comments = seen[r].comments /\ board.thread = seen[r].thread
             THEN "claim" ELSE "over")
  /\ UNCHANGED <<board, enabled, seen, owned, thread, turn, answered, noteVars, touches, faults>>

Moved(r, status) ==
  [board EXCEPT !.status = status, !.version = @ + 1, !.thread = thread[r]]

\* Faulty: a claim takes the version the task has by now.
ClaimAny(r) ==
  /\ at[r] = "claim"
  /\ board' = Moved(r, "in_progress") /\ owner' = r /\ GoTo(r, "turn")
  /\ owned' = [owned EXCEPT ![r] = board.version + 1]
  /\ UNCHANGED <<enabled, seen, thread, turn, answered, cut, reopened, touches, faults>>

\* A move of the task, refused when somebody has changed it.
Claim(r) ==
  /\ at[r] = "claim"
  /\ IF board.version = seen[r].version /\ ~board.archived
     THEN /\ board' = Moved(r, "in_progress") /\ owner' = r
          /\ GoTo(r, "turn")
          /\ owned' = [owned EXCEPT ![r] = board.version + 1]
     ELSE GoTo(r, "over") /\ UNCHANGED <<board, owner, owned>>
  /\ UNCHANGED <<enabled, seen, thread, turn, answered, cut, reopened, touches, faults>>

\* Nobody takes back a claim whose answer is lost.
ClaimIsLost(r) ==
  /\ at[r] = "claim" /\ board.version = seen[r].version /\ ~board.archived /\ Fault
  /\ board' = Moved(r, "in_progress") /\ owner' = r /\ cut' = cut \cup {r}
  /\ GoTo(r, "over")
  /\ UNCHANGED <<enabled, seen, owned, thread, turn, answered, reopened, touches>>

\* A request before the claim fails.
FailsEarly(r) ==
  /\ at[r] \in {"read", "decide", "thread", "refresh", "claim"} /\ Fault /\ GoTo(r, "over")
  /\ UNCHANGED <<board, enabled, seen, owned, thread, turn, answered, noteVars, touches>>

-----------------------------------------------------------------------------
(* From the claim on                                                       *)

TurnStarts(r) ==
  /\ at[r] = "turn" /\ turn' = [turn EXCEPT ![r] = "running"]
  /\ \/ GoTo(r, "follow") /\ UNCHANGED faults
     \/ GoTo(r, "apologise") /\ Fault
  /\ UNCHANGED <<board, enabled, seen, owned, thread, answered, noteVars, touches>>

TurnRefused(r) ==
  /\ at[r] = "turn" /\ Fault /\ GoTo(r, "apologise")
  /\ UNCHANGED <<board, enabled, seen, owned, thread, turn, answered, noteVars, touches>>

CodexEndsTurn(r) ==
  /\ turn[r] = "running"
  /\ \E result \in {"completed", "failed"} : turn' = [turn EXCEPT ![r] = result]
  /\ UNCHANGED <<board, enabled, runVars, answered, noteVars, touches, faults>>

\* The thread is read again until the turn has ended, with a text or without.
TurnSeen(r) ==
  /\ at[r] = "follow" /\ turn[r] # "running"
  /\ \/ turn[r] = "completed" /\ GoTo(r, "report")
     \/ GoTo(r, "apologise")
  /\ UNCHANGED <<board, enabled, seen, owned, thread, turn, answered, noteVars, touches, faults>>

\* After half an hour, or when the thread cannot be read.
GivesUp(r) ==
  /\ at[r] = "follow" /\ Fault /\ GoTo(r, "apologise")
  /\ UNCHANGED <<board, enabled, seen, owned, thread, turn, answered, noteVars, touches>>

\* The comment with the final text; it is not the task that changes.
Reports(r) ==
  /\ at[r] = "report"
  /\ \/ /\ answered' = answered \cup {r} /\ board' = [board EXCEPT !.comments = @ + 1]
        /\ GoTo(r, "settle") /\ UNCHANGED faults
     \/ GoTo(r, "apologise") /\ Fault /\ UNCHANGED <<board, answered>>
  /\ UNCHANGED <<enabled, seen, owned, thread, turn, noteVars, touches>>

\* A move with the version of the claim.
CanMove(r) == board.version = owned[r] /\ ~board.archived

Settles(r) ==
  /\ at[r] = "settle"
  /\ IF CanMove(r)
     THEN /\ board' = Moved(r, "in_review") /\ owner' = 0
          /\ \/ GoTo(r, "over") /\ UNCHANGED faults
             \/ GoTo(r, "apologise") /\ Fault
     ELSE GoTo(r, "apologise") /\ UNCHANGED <<board, owner, faults>>
  /\ UNCHANGED <<enabled, seen, owned, thread, turn, answered, cut, reopened, touches>>

SettleFails(r) ==
  /\ at[r] = "settle" /\ Fault /\ GoTo(r, "apologise")
  /\ UNCHANGED <<board, enabled, seen, owned, thread, turn, answered, noteVars, touches>>

\* Whatever fails after the claim: a comment first.  Without it the task is not moved.
Apologises(r) ==
  /\ at[r] = "apologise"
  /\ \/ /\ board' = [board EXCEPT !.comments = @ + 1] /\ GoTo(r, "block")
        /\ UNCHANGED <<cut, faults>>
     \/ GoTo(r, "over") /\ cut' = cut \cup {r} /\ Fault /\ UNCHANGED board
  /\ UNCHANGED <<enabled, seen, owned, thread, turn, answered, owner, reopened, touches>>

\* Faulty: the task is blocked whatever it is now.
BlockAny(r) ==
  /\ at[r] = "block" /\ GoTo(r, "over")
  /\ board' = Moved(r, "blocked") /\ owner' = 0
  /\ UNCHANGED <<enabled, seen, owned, thread, turn, answered, cut, reopened, touches, faults>>

Blocks(r) ==
  /\ at[r] = "block" /\ GoTo(r, "over")
  /\ IF CanMove(r)
     THEN \/ board' = Moved(r, "blocked") /\ owner' = 0 /\ UNCHANGED <<cut, faults>>
          \/ cut' = cut \cup {r} /\ Fault /\ UNCHANGED <<board, owner>>
     ELSE UNCHANGED <<board, owner, cut, faults>>
  /\ UNCHANGED <<enabled, seen, owned, thread, turn, answered, reopened, touches>>

\* Turns go on in Codex, their runs do not; nothing is left that would know them.
InjectorStops ==
  /\ \E r \in Runs : at[r] \notin Idle
  /\ Fault
  /\ cut' = cut \cup {r \in Runs : at[r] \in {"turn", "follow", "report", "settle", "apologise", "block"}}
  /\ at' = [r \in Runs |-> IF at[r] = "none" THEN "none" ELSE "over"]
  /\ UNCHANGED <<board, enabled, seen, owned, thread, turn, answered, owner, reopened, touches>>

-----------------------------------------------------------------------------
(* Users                                                                   *)

Touch == touches < MaxTouches /\ touches' = touches + 1

\* Moves, edits, an archive or another thread change the version.
UserChangesTask ==
  /\ Touch
  /\ \/ \E status \in {"todo", "in_progress", "done"} \ {board.status} :
          ~board.archived /\ board' = [board EXCEPT !.status = status, !.version = @ + 1]
     \/ board' = [board EXCEPT !.version = @ + 1]
     \/ board' = [board EXCEPT !.archived = ~@, !.version = @ + 1]
     \/ board.thread # Foreign /\ board' = [board EXCEPT !.thread = Foreign, !.version = @ + 1]
  /\ owner' = 0
  /\ reopened' = \/ reopened
                  \/ /\ board'.status = "todo"
                     /\ \E r \in Runs : turn[r] = "running" \/ at[r] = "turn"
  /\ UNCHANGED <<enabled, runVars, turn, answered, cut, faults>>

\* Comments and the tasks this one waits for do not; nor does the policy.
UserChangesRest ==
  /\ Touch
  /\ \/ board' = [board EXCEPT !.comments = @ + 1] /\ UNCHANGED enabled
     \/ board' = [board EXCEPT !.ready = ~@] /\ UNCHANGED enabled
     \/ enabled' = ~enabled /\ UNCHANGED board
  /\ UNCHANGED <<runVars, turn, answered, noteVars, faults>>

RunStep(r) ==
  \/ TaskRead(r) \/ Decided(r) \/ ThreadReady(r) \/ Refreshed(r) \/ Claim(r)
  \/ ClaimIsLost(r) \/ FailsEarly(r)
  \/ TurnStarts(r) \/ TurnRefused(r) \/ TurnSeen(r) \/ GivesUp(r)
  \/ Reports(r) \/ Settles(r) \/ SettleFails(r) \/ Apologises(r) \/ Blocks(r)

RemoteNext ==
  \/ \E r \in Runs : RunBegins(r) \/ RunStep(r) \/ CodexEndsTurn(r)
  \/ InjectorStops \/ UserChangesTask \/ UserChangesRest

-----------------------------------------------------------------------------
(* Properties.                                                             *)

\* Runs that overlap start one turn at a time, unless a user reopens the task under
\* a turn that still goes on.
OneTurn == reopened \/ Cardinality({r \in Runs : turn[r] = "running"}) <= 1

\* A task that a run has claimed is in the hands of this run until it is moved on,
\* unless the run was cut off.
ClaimsAreHeld == owner # 0 => board.status = "in_progress" /\ (at[owner] \notin Idle \/ owner \in cut)

\* What a run hands in for review was completed and is told in a comment.
ReviewHasResult ==
  board.status = "in_review" => board.thread # 0 /\ \E r \in answered : turn[r] = "completed"

\* Runs that overlap, fail or are overtaken by users work on a task one at a time,
\* leave it to nobody, and hand in what is done.
RemoteClaimsHold == OneTurn /\ ClaimsAreHeld /\ ReviewHasResult

\* A run claims a task only as it was when Codex decided on it, and moves it on only
\* if no user has changed it since.
UserChangesStand ==
  [][\A r \in Runs :
       /\ at[r] = "claim" /\ board'.status = "in_progress" /\ board.status # "in_progress" /\ owner' = r
          => Eligible([board EXCEPT !.ready = TRUE]) /\ board.version = seen[r].version
       /\ at[r] \in {"settle", "block"} /\ at'[r] # at[r] /\ board'.status # board.status => owner = r]_remoteVars

\* Does not hold: a run that claims a task is wanted by the policy and knows all
\* comments.  The policy is looked at before the decision, which may take half an
\* hour, and comments do not change the version of a task.
ClaimIsWanted ==
  [][\A r \in Runs : owner' = r /\ owner # r => enabled /\ board.ready /\ board.comments = seen[r].comments]_remoteVars

\* Does not hold: no claim is left behind.  Nobody looks for claims whose answer was
\* lost or whose run has stopped.
NothingLeftClaimed == owner # 0 => at[owner] \notin Idle
=============================================================================
