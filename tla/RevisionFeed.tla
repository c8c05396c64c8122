---------------------------- MODULE RevisionFeed ----------------------------
(***************************************************************************)
(* How a browser follows the board of the cloud deployment.  A handler     *)
(* that has written reads the global revision and has the RealtimeHub      *)
(* broadcast it (cloud/src/index.mjs).  The client keeps the revision it   *)
(* knows, over a web socket that is checked when it opens or by polling    *)
(* (web/src/revisionPolling.mjs), and loads the tasks again whenever that  *)
(* revision grows; it moves tasks optimistically (web/src/App.tsx).        *)
(*                                                                         *)
(* The board is one task, whose version is the global revision.            *)
(***************************************************************************)
EXTENDS Integers, FiniteSetsExt

CONSTANTS
  MaxCommits,  \* bound on the version other clients write
  MaxMoves,    \* bound on the moves of this client
  MaxLosses,   \* bound on broadcasts, sockets, checks, loads and moves that fail
  NoCheck,
  NoMove

ASSUME FeedAssumption ==
  /\ MaxCommits \in Nat \ {0} /\ MaxMoves \in Nat /\ MaxLosses \in Nat
  /\ NoCheck \notin 0..(MaxCommits + MaxMoves)

VARIABLES
  version,     \* of the task in D1
  handlers,    \* requests that have written and not yet read the revision
  broadcasts,  \* revisions on their way to the hub
  known,       \* the client's revision
  socket,      \* closed, opening, checking, live; or poll
  check,       \* the answer of fetchRevision, 0 until the server reads it
  shown,       \* version of the task on screen, and is a move shown on it?
  loads,       \* task lists under way: id and the version read, or 0
  latest,      \* tasksRequestRef
  failedLoad,  \* tasksLoadError
  move,        \* own move under way
  moves,
  losses,
  lost,        \* the version of the last broadcast that was lost
  overtaken    \* has the answer to a move replaced a newer version?

serverVars == <<version, handlers, broadcasts, lost>>
socketVars == <<known, socket, check>>
loadVars == <<loads, latest>>
boardVars == <<shown, failedLoad, overtaken>>
feedVars == <<serverVars, socketVars, loadVars, boardVars, move, moves, losses>>

FeedInit ==
  /\ version = 1 /\ handlers = 0 /\ broadcasts = {} /\ lost = 0
  /\ known = 0 /\ socket \in {"closed", "poll"} /\ check = NoCheck
  /\ loads = {[id |-> 1, read |-> 0]} /\ latest = 1
  /\ shown = [version |-> 0, moved |-> FALSE] /\ failedLoad = FALSE
  /\ move = NoMove /\ moves = 0 /\ losses = 0 /\ overtaken = FALSE

Lose == losses < MaxLosses /\ losses' = losses + 1

-----------------------------------------------------------------------------
(* The Worker and the hub.                                                 *)

\* Another client writes.
Commit ==
  /\ version < MaxCommits
  /\ version' = version + 1 /\ handlers' = handlers + 1
  /\ UNCHANGED <<broadcasts, lost, socketVars, loadVars, boardVars, move, moves, losses>>

HandlerReadsRevision ==
  /\ handlers > 0
  /\ handlers' = handlers - 1 /\ broadcasts' = broadcasts \cup {version}
  /\ UNCHANGED <<version, lost, socketVars, loadVars, boardVars, move, moves, losses>>

\* The read fails after the write: nothing is broadcast.
HandlerFails ==
  /\ handlers > 0
  /\ handlers' = handlers - 1 /\ lost' = version /\ Lose
  /\ UNCHANGED <<version, broadcasts, socketVars, loadVars, boardVars, move, moves>>

\* A failing broadcast is logged.
BroadcastFails ==
  \E r \in broadcasts :
    /\ broadcasts' = broadcasts \ {r} /\ lost' = Max({lost, r}) /\ Lose
    /\ UNCHANGED <<version, handlers, socketVars, loadVars, boardVars, move, moves>>

-----------------------------------------------------------------------------
(* The client learns revisions.                                            *)

\* onInvalidate and a refused move load the tasks once more (refreshTasks).
Refresh ==
  /\ latest' = latest + 1
  /\ loads' = loads \cup {[id |-> latest + 1, read |-> 0]}

\* A revision the client is told: only a newer one invalidates.
Learn(r) ==
  IF r > known THEN known' = r /\ Refresh
  ELSE UNCHANGED <<known, loadVars>>

\* The hub sends to the sockets that are open now.
Broadcast ==
  \E r \in broadcasts :
    /\ broadcasts' = broadcasts \ {r}
    /\ IF socket \in {"checking", "live"} THEN Learn(r) ELSE UNCHANGED <<known, loadVars>>
    /\ UNCHANGED <<version, handlers, lost, socket, check, boardVars, move, moves, losses>>

Connect ==
  /\ socket = "closed" /\ socket' = "opening"
  /\ UNCHANGED <<serverVars, known, check, loadVars, boardVars, move, moves, losses>>

\* onopen: the check is refused, and the socket closed, while the check of an
\* earlier socket is pending.
SocketOpens ==
  /\ socket = "opening"
  /\ IF check = NoCheck THEN socket' = "checking" /\ check' = 0
                        ELSE socket' = "closed" /\ UNCHANGED check
  /\ UNCHANGED <<serverVars, known, loadVars, boardVars, move, moves, losses>>

Poll ==
  /\ socket = "poll" /\ check = NoCheck /\ check' = 0
  /\ UNCHANGED <<serverVars, known, socket, loadVars, boardVars, move, moves, losses>>

CheckReads ==
  /\ check = 0 /\ check' = version
  /\ UNCHANGED <<serverVars, known, socket, loadVars, boardVars, move, moves, losses>>

CheckAnswers ==
  /\ check # NoCheck /\ check # 0
  /\ Learn(check) /\ check' = NoCheck
  /\ socket' = IF socket = "checking" THEN "live" ELSE socket
  /\ UNCHANGED <<serverVars, boardVars, move, moves, losses>>

\* The socket is closed with code 4000; a poller waits for its next interval.
CheckFails ==
  /\ check # NoCheck /\ check' = NoCheck /\ Lose
  /\ socket' = IF socket = "checking" THEN "closed" ELSE socket
  /\ UNCHANGED <<serverVars, known, loadVars, boardVars, move, moves>>

SocketCloses ==
  /\ socket \in {"opening", "checking", "live"} /\ socket' = "closed" /\ Lose
  /\ UNCHANGED <<serverVars, known, check, loadVars, boardVars, move, moves>>

-----------------------------------------------------------------------------
(* The board on screen.                                                    *)

LoadReads ==
  \E l \in loads :
    /\ l.read = 0
    /\ loads' = (loads \ {l}) \cup {[l EXCEPT !.read = version]}
    /\ UNCHANGED <<serverVars, socketVars, latest, boardVars, move, moves, losses>>

\* Faulty: the answer of an earlier request is shown, too.
LoadAnswersAny ==
  \E l \in loads :
    /\ l.read # 0 /\ loads' = loads \ {l}
    /\ shown' = [version |-> l.read, moved |-> FALSE]
    /\ failedLoad' = FALSE /\ overtaken' = FALSE
    /\ UNCHANGED <<serverVars, socketVars, latest, move, moves, losses>>

\* Only the answer to the latest request is shown.
LoadAnswers ==
  \E l \in loads :
    /\ l.read # 0 /\ loads' = loads \ {l}
    /\ IF l.id = latest
         THEN /\ shown' = [version |-> l.read, moved |-> FALSE]
              /\ failedLoad' = FALSE /\ overtaken' = FALSE
         ELSE UNCHANGED boardVars
    /\ UNCHANGED <<serverVars, socketVars, latest, move, moves, losses>>

\* The error is shown; nothing loads the tasks again.
LoadFails ==
  \E l \in loads :
    /\ loads' = loads \ {l} /\ Lose
    /\ failedLoad' = (failedLoad \/ l.id = latest)
    /\ UNCHANGED <<serverVars, socketVars, latest, shown, overtaken, move, moves>>

\* moveTask: one at a time, shown at once.
StartMove ==
  /\ move = NoMove /\ shown.version > 0 /\ moves < MaxMoves
  /\ moves' = moves + 1
  /\ move' = [base |-> shown.version, answer |-> "asked"]
  /\ shown' = [shown EXCEPT !.moved = TRUE]
  /\ UNCHANGED <<serverVars, socketVars, loadVars, failedLoad, overtaken, losses>>

\* The server moves the task if it has the version the client has shown.
ServerMoves ==
  /\ move # NoMove /\ move.answer = "asked"
  /\ IF move.base = version
       THEN /\ version' = version + 1 /\ handlers' = handlers + 1
            /\ move' = [move EXCEPT !.answer = "moved"]
       ELSE move' = [move EXCEPT !.answer = "conflict"] /\ UNCHANGED <<version, handlers>>
  /\ UNCHANGED <<broadcasts, lost, socketVars, loadVars, boardVars, moves, losses>>

\* The answer is lost, whatever the server has done.
MoveFails ==
  /\ move # NoMove /\ move.answer = "moved"
  /\ move' = [move EXCEPT !.answer = "conflict"] /\ Lose
  /\ UNCHANGED <<serverVars, socketVars, loadVars, boardVars, moves>>

\* The task of the answer replaces whatever is on screen.
MoveAnswers ==
  /\ move # NoMove /\ move.answer = "moved" /\ move' = NoMove
  /\ shown' = [version |-> move.base + 1, moved |-> FALSE]
  /\ overtaken' = (shown.version > move.base + 1)
  /\ UNCHANGED <<serverVars, socketVars, loadVars, failedLoad, moves, losses>>

\* Faulty: the move is only taken back.
TakeBack ==
  /\ move # NoMove /\ move.answer = "conflict" /\ move' = NoMove
  /\ shown' = [version |-> move.base, moved |-> FALSE]
  /\ UNCHANGED <<serverVars, socketVars, loadVars, failedLoad, overtaken, moves, losses>>

\* The move is taken back and the tasks are loaded again.
MoveRefused ==
  /\ move # NoMove /\ move.answer = "conflict" /\ move' = NoMove
  /\ shown' = [version |-> move.base, moved |-> FALSE]
  /\ Refresh
  /\ UNCHANGED <<serverVars, socketVars, failedLoad, overtaken, moves, losses>>

-----------------------------------------------------------------------------
ServerStep == HandlerReadsRevision \/ Broadcast \/ CheckReads \/ LoadReads \/ ServerMoves
ClientStep == \/ Connect \/ SocketOpens \/ Poll \/ CheckAnswers
              \/ LoadAnswers \/ MoveAnswers \/ MoveRefused

Failure == \/ HandlerFails \/ BroadcastFails \/ CheckFails
           \/ SocketCloses \/ LoadFails \/ MoveFails

FeedNext == ServerStep \/ ClientStep \/ Failure \/ Commit \/ StartMove

\* A request that has reached the server is served, answers and messages reach
\* the client, and its timers run; nobody has to write or to fail.
FeedFairness ==
  /\ WF_feedVars(HandlerReadsRevision) /\ WF_feedVars(Broadcast)
  /\ WF_feedVars(CheckReads) /\ WF_feedVars(LoadReads) /\ WF_feedVars(ServerMoves)
  /\ WF_feedVars(Connect) /\ WF_feedVars(SocketOpens) /\ WF_feedVars(Poll)
  /\ WF_feedVars(CheckAnswers) /\ WF_feedVars(LoadAnswers)
  /\ WF_feedVars(MoveAnswers) /\ WF_feedVars(MoveRefused)

FeedSpec == FeedInit /\ [][FeedNext]_feedVars /\ FeedFairness

-----------------------------------------------------------------------------
(* Properties.                                                             *)

\* The client never knows or shows a version the server does not have, and a
\* socket is being checked exactly while its check is under way.
FeedTypeOK ==
  /\ version \in 1..MaxCommits + MaxMoves /\ known \in 0..version
  /\ shown.version \in 0..version
  /\ \A l \in loads : l.id \in 1..latest /\ l.read \in 0..version
  /\ socket = "checking" => check # NoCheck
  /\ losses \in 0..MaxLosses

\* A revision the client has learned is on screen, or the list that was asked
\* for last will bring it: no later answer and no refused move leaves the board
\* behind, but for a list that failed (an error is on screen) and the answer to
\* an own move that arrives after a newer list.
LearnedIsComing ==
  \/ known <= shown.version
  \/ \E l \in loads : l.id = latest /\ (l.read = 0 \/ l.read >= known)
  \/ failedLoad \/ overtaken

\* The board never falls behind what the client has learned, nor runs ahead of the
\* server.
BoardKeepsUp == FeedTypeOK /\ LearnedIsComing

\* The client learns the last revision: a broadcast that reaches no socket is
\* made up for by the check of the next one.  Only the last broadcast of all,
\* if it is lost while the socket lives on, is missed; polling misses nothing.
ClientLearnsRevision ==
  <>[](known = version \/ (lost = version /\ socket # "poll"))

\* When everything has been answered the board shows the version the client has
\* learned, no longer a move of its own that is not stored.
BoardSettles ==
  <>[](\/ shown = [version |-> version, moved |-> FALSE]
       \/ known < version \/ failedLoad \/ overtaken)

\* In the end the board shows the server's last version.
BoardFollows == ClientLearnsRevision /\ BoardSettles
=============================================================================
