---------------------------- MODULE WorkflowSync ----------------------------
(***************************************************************************)
(* How one workflow board keeps its workspace on the server               *)
(* (web/src/components/WorkflowBoard.tsx): it loads the workspace and      *)
(* imports the copy an older version left in the browser, saves what       *)
(* changes on screen after a pause and one save after the other, and takes *)
(* over what other clients have saved.  The server accepts a save over the *)
(* version it has (saveWorkflowWorkspace of server/database.mjs).          *)
(***************************************************************************)
EXTENDS Integers, SequencesExt

CONSTANTS
  Bases,        \* what users have drawn
  InitialBase,  \* of createInitialWorkflowWorkspace
  LegacyBase,   \* of the copy an older version left in the browser
  NoDoc,
  NoRequest,
  MaxEdits,     \* bound on the user's edits
  MaxOthers     \* bound on the versions at which other clients save

VARIABLES
  saved,      \* what has been saved: the last one is the row, whose version is their number
  legacy,     \* is there a local copy of an older version?
  screen,     \* the workspace on screen
  due,        \* has it been set since the effects last ran?
  timer,      \* what the autosave timer will queue
  queue,      \* saveQueueRef
  save,       \* the save under way
  remoteVersion, lastRemote,
  hydration,
  refresh,
  announced,  \* the version at the last change of the revision
  error,      \* persistenceError
  mounted,
  edits

syncVars == <<saved, legacy, screen, due, timer, queue, save, remoteVersion, lastRemote,
              hydration, refresh, announced, error, mounted, edits>>
serverOnly == <<saved, announced>>
requestVars == <<save, hydration, refresh>>
boardOnly == <<screen, due, remoteVersion, lastRemote, error>>

\* imported: with the tabs of the local copy.
Docs == [base : Bases, imported : BOOLEAN]
InitialDoc == [base |-> InitialBase, imported |-> FALSE]
LegacyDoc == [base |-> LegacyBase, imported |-> TRUE]
MergeLegacyWorkspace(d) == [d EXCEPT !.imported = TRUE]

\* initialWorkspace: what is on screen, and what is saved if the server has nothing.
InitialWorkspace == IF legacy THEN LegacyDoc ELSE InitialDoc

Row == Len(saved)
Hydrated == hydration = [at |-> "done"]

SyncInit ==
  /\ saved \in {<<>>} \cup {<<d>> : d \in {e \in Docs : ~e.imported}}
  /\ legacy \in BOOLEAN
  /\ screen = InitialWorkspace /\ due = FALSE /\ timer = NoDoc /\ queue = <<>> /\ save = NoRequest
  /\ remoteVersion = 0 /\ lastRemote = NoDoc
  /\ hydration = [at |-> "load"] /\ refresh = NoRequest /\ announced = 0
  /\ error = FALSE /\ mounted = TRUE /\ edits = 0

-----------------------------------------------------------------------------
(* applyWorkspace with what is known of the server.                        *)

Apply(d, v, remote) ==
  /\ screen' = d /\ due' = TRUE /\ error' = FALSE
  /\ remoteVersion' = v /\ lastRemote' = remote

-----------------------------------------------------------------------------
(* hydrateWorkspace                                                        *)

HydrateReads ==
  /\ mounted /\ hydration.at = "load"
  /\ hydration' =
       IF saved = <<>>
       THEN [at |-> "create", over |-> 0, doc |-> InitialWorkspace]
       ELSE IF legacy /\ MergeLegacyWorkspace(Last(saved)) # Last(saved)
       THEN [at |-> "merge", over |-> Row, doc |-> MergeLegacyWorkspace(Last(saved))]
       ELSE [at |-> "apply", version |-> Row, doc |-> Last(saved)]
  /\ UNCHANGED <<saved, announced, legacy, boardOnly, timer, queue, save, refresh, mounted, edits>>

\* hydrateWorkspace gives up, saying so; the effects run again for setHydrated.
Unhydrated ==
  /\ hydration' = [at |-> "done"] /\ error' = TRUE /\ due' = TRUE
  /\ refresh' = IF announced = 0 THEN NoRequest ELSE [at |-> "asked"]
  /\ UNCHANGED <<screen, remoteVersion, lastRemote>>

\* A conflict is handled when the row was to be created.
HydrateStores ==
  /\ hydration.at \in {"create", "merge"}
  /\ IF hydration.over = Row
     THEN /\ saved' = Append(saved, hydration.doc)
          /\ hydration' = [at |-> "apply", version |-> Row + 1, doc |-> hydration.doc]
          /\ UNCHANGED <<boardOnly, refresh>>
     ELSE /\ UNCHANGED saved
          /\ IF hydration.at = "create"
             THEN hydration' = [at |-> "reload"] /\ UNCHANGED <<boardOnly, refresh>>
             ELSE mounted /\ Unhydrated
  /\ UNCHANGED <<announced, legacy, timer, queue, save, mounted, edits>>

HydrateReloads ==
  /\ mounted /\ hydration.at = "reload"
  /\ hydration' = [at |-> "apply", version |-> Row,
                   doc |-> IF legacy THEN MergeLegacyWorkspace(Last(saved)) ELSE Last(saved)]
  /\ UNCHANGED <<saved, announced, legacy, boardOnly, timer, queue, save, refresh, mounted, edits>>

HydrateApplies ==
  /\ mounted /\ hydration.at = "apply"
  /\ Apply(hydration.doc, hydration.version, hydration.doc)
  /\ hydration' = [at |-> "done"] /\ legacy' = FALSE
  /\ refresh' = IF announced = 0 THEN NoRequest ELSE [at |-> "asked"]
  /\ UNCHANGED <<saved, announced, timer, queue, save, mounted, edits>>

HydrateFails ==
  /\ mounted /\ ~Hydrated /\ Unhydrated
  /\ UNCHANGED <<saved, announced, legacy, timer, queue, save, mounted, edits>>

-----------------------------------------------------------------------------
(* The autosave effect                                                     *)

\* Nothing keeps the user from drawing before the workspace is loaded.
Edit ==
  /\ mounted /\ edits < MaxEdits /\ edits' = edits + 1
  /\ \E d \in Docs \ {screen} : (d.imported => screen.imported) /\ screen' = d
  /\ due' = TRUE
  /\ UNCHANGED <<serverOnly, requestVars, legacy, timer, queue, remoteVersion, lastRemote, error, mounted>>

\* The effect runs after the screen has been drawn, and clears its last timer.
Render ==
  /\ mounted /\ due /\ due' = FALSE
  /\ timer' = IF Hydrated /\ screen # lastRemote THEN screen ELSE NoDoc
  /\ UNCHANGED <<serverOnly, requestVars, legacy, screen, remoteVersion, lastRemote, queue, error,
                 mounted, edits>>

\* Faulty: what is drawn during a save is not queued.
TimerIfIdle ==
  /\ timer # NoDoc
  /\ timer' = NoDoc /\ queue' = IF save = NoRequest THEN Append(queue, timer) ELSE queue
  /\ UNCHANGED <<serverOnly, requestVars, legacy, boardOnly, mounted, edits>>

TimerFires ==
  /\ timer # NoDoc
  /\ timer' = NoDoc /\ queue' = Append(queue, timer)
  /\ UNCHANGED <<serverOnly, requestVars, legacy, boardOnly, mounted, edits>>

SaveStarts ==
  /\ save = NoRequest /\ queue # <<>> /\ queue' = Tail(queue)
  /\ save' = IF ~mounted \/ Head(queue) = lastRemote THEN NoRequest
             ELSE [at |-> "asked", doc |-> Head(queue), over |-> remoteVersion]
  /\ UNCHANGED <<serverOnly, hydration, refresh, legacy, boardOnly, timer, mounted, edits>>

\* saveWorkflowWorkspace of the server
SaveStores ==
  /\ save # NoRequest /\ save.at = "asked"
  /\ IF save.over = Row
     THEN saved' = Append(saved, save.doc)
          /\ save' = [at |-> "stored", doc |-> save.doc, version |-> Row + 1]
     ELSE UNCHANGED saved /\ save' = [at |-> "conflict"]
  /\ UNCHANGED <<announced, hydration, refresh, legacy, boardOnly, timer, queue, mounted, edits>>

\* Faulty: what is on screen by now counts as saved.
AnswerCoversScreen ==
  /\ save # NoRequest /\ save.at = "stored" /\ save' = NoRequest
  /\ IF mounted
     THEN remoteVersion' = save.version /\ lastRemote' = screen /\ legacy' = FALSE /\ error' = FALSE
     ELSE UNCHANGED <<remoteVersion, lastRemote, legacy, error>>
  /\ UNCHANGED <<serverOnly, hydration, refresh, screen, due, timer, queue, mounted, edits>>

SaveAnswers ==
  /\ save # NoRequest /\ save.at = "stored" /\ save' = NoRequest
  /\ IF mounted
     THEN remoteVersion' = save.version /\ lastRemote' = save.doc /\ legacy' = FALSE /\ error' = FALSE
     ELSE UNCHANGED <<remoteVersion, lastRemote, legacy, error>>
  /\ UNCHANGED <<serverOnly, hydration, refresh, screen, due, timer, queue, mounted, edits>>

ConflictReloads ==
  /\ save # NoRequest /\ save.at = "conflict"
  /\ save' = IF mounted THEN [at |-> "reloaded", doc |-> Last(saved), version |-> Row] ELSE NoRequest
  /\ UNCHANGED <<serverOnly, hydration, refresh, legacy, boardOnly, timer, queue, mounted, edits>>

\* The other client's workspace replaces the one on screen.
ConflictApplies ==
  /\ save # NoRequest /\ save.at = "reloaded" /\ save' = NoRequest
  /\ IF mounted THEN Apply(save.doc, save.version, save.doc) ELSE UNCHANGED boardOnly
  /\ UNCHANGED <<serverOnly, hydration, refresh, legacy, timer, queue, mounted, edits>>

\* The request or its answer is lost, or the reload after a conflict fails.
SaveFails ==
  /\ save # NoRequest /\ save' = NoRequest
  /\ error' = (error \/ mounted)
  /\ UNCHANGED <<serverOnly, hydration, refresh, legacy, screen, due, remoteVersion, lastRemote,
                 timer, queue, mounted, edits>>

-----------------------------------------------------------------------------
(* The refresh effect                                                      *)

\* A new revision aborts the refresh before it.
Announce ==
  /\ announced < Row /\ announced' = Row
  /\ refresh' = IF mounted /\ Hydrated THEN [at |-> "asked"] ELSE refresh
  /\ UNCHANGED <<saved, save, hydration, legacy, boardOnly, timer, queue, mounted, edits>>

RefreshReads ==
  /\ refresh = [at |-> "asked"] /\ saved # <<>>
  /\ refresh' = [at |-> "read", doc |-> Last(saved), version |-> Row]
  /\ UNCHANGED <<serverOnly, save, hydration, legacy, boardOnly, timer, queue, mounted, edits>>

RefreshAnswers ==
  /\ refresh # NoRequest /\ refresh.at = "read" /\ refresh' = NoRequest
  /\ IF refresh.version > remoteVersion
     THEN Apply(refresh.doc, refresh.version, refresh.doc)
     ELSE UNCHANGED boardOnly
  /\ UNCHANGED <<serverOnly, save, hydration, legacy, timer, queue, mounted, edits>>

RefreshFails ==
  /\ refresh # NoRequest /\ refresh' = NoRequest /\ error' = TRUE
  /\ UNCHANGED <<serverOnly, save, hydration, legacy, screen, due, remoteVersion, lastRemote,
                 timer, queue, mounted, edits>>

-----------------------------------------------------------------------------
(* Other clients, and the end of the board.                                *)

OtherSaves ==
  /\ Row < MaxOthers
  /\ \E d \in {e \in Docs : ~e.imported} : saved' = Append(saved, d)
  /\ UNCHANGED <<announced, requestVars, legacy, boardOnly, timer, queue, mounted, edits>>

\* Unmounted: the timer and the refresh are gone, queued saves do nothing.
LeaveBoard ==
  /\ mounted /\ mounted' = FALSE
  /\ timer' = NoDoc /\ refresh' = NoRequest
  /\ UNCHANGED <<serverOnly, save, hydration, legacy, boardOnly, queue, edits>>

SyncProgress ==
  \/ HydrateReads \/ HydrateStores \/ HydrateReloads \/ HydrateApplies \/ HydrateFails
  \/ Render \/ TimerFires \/ SaveStarts \/ SaveStores \/ SaveAnswers
  \/ ConflictReloads \/ ConflictApplies \/ SaveFails
  \/ RefreshReads \/ RefreshAnswers \/ RefreshFails

SyncNext == SyncProgress \/ Edit \/ Announce \/ OtherSaves \/ LeaveBoard

-----------------------------------------------------------------------------
(* Properties.                                                             *)

\* What a request is about: a load of the workspace, a save and a refresh.
Loads == [at : {"load", "reload", "done"}]
           \cup [at : {"create", "merge"}, over : Nat, doc : Docs]
           \cup [at : {"apply"}, version : Nat, doc : Docs]
SaveCalls == [at : {"asked"}, doc : Docs, over : Nat]
               \cup [at : {"stored", "reloaded"}, doc : Docs, version : Nat]
               \cup [at : {"conflict"}]
Refreshes == [at : {"asked"}] \cup [at : {"read"}, doc : Docs, version : Nat]

ASSUME SyncAssumption ==
  {InitialBase, LegacyBase} \subseteq Bases /\ NoDoc \notin Docs /\ NoRequest \notin SaveCalls /\ NoRequest \notin Refreshes

\* What the board takes for the content of the version it knows is what the
\* server has saved under that version, though the screen has moved on since the
\* save began; only an import that met a conflict is not on the server.
KnowsRemote ==
  IF remoteVersion = 0 THEN lastRemote = NoDoc
  ELSE lastRemote \in {saved[remoteVersion], MergeLegacyWorkspace(saved[remoteVersion])}

\* Nothing will happen unless somebody acts.
Quiet ==
  /\ mounted /\ Hydrated /\ ~due /\ timer = NoDoc
  /\ queue = <<>> /\ save = NoRequest /\ refresh = NoRequest

\* Nothing that was drawn waits for a save that nobody will start, unless an error
\* is shown: what is left on screen has been saved, however edits, conflicts and
\* refreshes met, but for the tabs of an import that met one.
DrawnIsSaved ==
  Quiet /\ ~error =>
    \E i \in DOMAIN saved : screen \in {saved[i], MergeLegacyWorkspace(saved[i])}

\* However saves, conflicts and refreshes meet, the board knows what the server has
\* and what it has still to save.
SavesKeepUp == KnowsRemote /\ DrawnIsSaved

\* Does not hold: a board that shows no error, and to which nothing has still to be
\* announced, shows what the server has.  What is undone during a save, or
\* refreshed while a conflict is being reloaded, differs from it.
ScreenIsCurrent == Quiet /\ ~error /\ announced = Row => <<screen>> = SubSeq(saved, Row, Row)

\* Does not hold: the board never goes back to an older version of the server's.
\* The answer to a save or to a reload comes after that to a newer refresh.
KnownVersionGrows == [][remoteVersion' >= remoteVersion]_remoteVersion

\* Does not hold: the local copy is removed when its tabs are on the server.  If loading
\* fails, a conflict brings the server's workspace on screen, and the next autosave
\* removes the copy; after a conflict of its import nothing saves its tabs.
LegacyIsImported == [][\E i \in DOMAIN saved : saved[i].imported]_legacy
=============================================================================
