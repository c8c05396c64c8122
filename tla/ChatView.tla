------------------------------ MODULE ChatView ------------------------------
(***************************************************************************)
(* The chat panel (web/src/components/AiChat.tsx): which thread it has     *)
(* selected, the snapshot it shows, and the loads, hints of the event      *)
(* stream and refreshes that keep the snapshot up to date while the user   *)
(* selects, creates and deletes threads.                                   *)
(***************************************************************************)
EXTENDS Integers, FiniteSets

CONSTANTS
  Threads,
  Known,       \* the threads there are at first
  NoThread, NoLoad,
  MaxEvents,   \* bound on the events of all threads
  MaxActs,     \* bound on what the user does
  MaxLosses    \* bound on failing requests and lost connections

ASSUME ViewAssumption == Known \subseteq Threads /\ NoThread \notin Threads

VARIABLES
  content,    \* of each thread on the server: the number of its events, -1 before it is created
  exists,
  threads,    \* the list in the panel
  selected,
  effectDue,  \* has the selection changed since its effect last ran?
  effect,     \* the effect's thread, is its first load pending, has a hint come meanwhile?
  stream,     \* the EventSource: none, opening, open
  hints,      \* events on their way
  loads,      \* calls of loadSnapshot under way
  refreshing, \* the threads of the refresh queue: is another refresh queued?
  shown,      \* the snapshot: thread and content
  turn, creation, deletion,  \* calls under way
  acts, losses,
  missed      \* why the snapshot may be old: a load failed or was overtaken

viewVars == <<content, exists, threads, selected, effectDue, effect, stream, hints, loads,
              refreshing, shown, turn, creation, deletion, acts, losses, missed>>
threadVars == <<content, exists>>
effectVars == <<effect, stream, hints>>
callVars == <<turn, creation, deletion>>
boundVars == <<acts, losses>>

NoSnapshot == [thread |-> NoThread, content |-> 0]

ViewInit ==
  /\ content = [t \in Threads |-> IF t \in Known THEN 0 ELSE -1] /\ exists = Known /\ threads = Known
  /\ selected \in Known /\ effectDue = TRUE
  /\ effect = NoLoad /\ stream = "none" /\ hints = 0
  /\ loads = {} /\ refreshing = [t \in {} |-> FALSE] /\ shown = NoSnapshot
  /\ turn = NoLoad /\ creation = NoLoad /\ deletion = NoLoad
  /\ acts = 0 /\ losses = 0 /\ missed = FALSE

-----------------------------------------------------------------------------
(* loadSnapshot and the refresh queue                                      *)

\* A load that is not the latest matters to its owner only.
Overtaken(ls) == {[l EXCEPT !.latest = FALSE] : l \in {k \in ls : k.owner # "nobody"}}

\* ++snapshotRequestRef; a load of another thread overtakes that of the selected one.
Load(ls, t, owner) ==
  /\ loads' = Overtaken(ls) \cup {[thread |-> t, owner |-> owner, latest |-> TRUE, read |-> -1]}
  /\ missed' = (t # selected /\ (missed \/ \E l \in ls : l.latest /\ l.thread = selected))

\* createAiSnapshotRefreshQueue: one refresh of a thread at a time, and one more
\* if it was asked for meanwhile.
RequestRefresh(ls, t) ==
  IF t \in DOMAIN refreshing
  THEN /\ refreshing' = [refreshing EXCEPT ![t] = TRUE]
       /\ loads' = ls /\ UNCHANGED missed
  ELSE /\ refreshing' = [u \in DOMAIN refreshing \cup {t} |-> u # t /\ refreshing[u]]
       /\ Load(ls, t, "queue")

\* What follows the end of a load, which may have left the snapshot old.
Ended(l, old) ==
  LET rest == loads \ {l}
      Nothing == loads' = rest /\ missed' = (missed \/ old)
  IN  CASE l.owner = "effect" ->
             /\ effect' = [effect EXCEPT !.pending = FALSE, !.queued = FALSE]
             /\ IF effect.queued THEN RequestRefresh(rest, l.thread)
                ELSE Nothing /\ UNCHANGED refreshing
        [] l.owner = "queue" ->
             /\ UNCHANGED effect
             /\ IF refreshing[l.thread]
                THEN /\ refreshing' = [refreshing EXCEPT ![l.thread] = FALSE]
                     /\ Load(rest, l.thread, "queue")
                ELSE /\ refreshing' = [u \in DOMAIN refreshing \ {l.thread} |-> refreshing[u]]
                     /\ Nothing
        [] l.owner = "nobody" -> Nothing /\ UNCHANGED <<effect, refreshing>>

LoadReads(l) ==
  /\ l.read = -1 /\ l.thread \in exists
  /\ loads' = (loads \ {l}) \cup {[l EXCEPT !.read = content[l.thread]]}
  /\ UNCHANGED <<threadVars, threads, selected, effectDue, effectVars, refreshing, shown,
                 callVars, boundVars, missed>>

Shows(l) == l.latest /\ selected = l.thread

LoadAnswers(l) ==
  /\ l.read >= 0
  /\ Ended(l, FALSE)
  /\ shown' = IF Shows(l) THEN [thread |-> l.thread, content |-> l.read] ELSE shown
  /\ UNCHANGED <<threadVars, threads, selected, effectDue, stream, hints, callVars, boundVars>>

\* The thread is gone, or the request is lost.
LoadFails(l) ==
  /\ IF l.read = -1 /\ l.thread \notin exists THEN UNCHANGED losses
     ELSE losses < MaxLosses /\ losses' = losses + 1
  /\ Ended(l, Shows(l))
  /\ UNCHANGED <<threadVars, threads, selected, effectDue, stream, hints, shown, callVars, acts>>

-----------------------------------------------------------------------------
(* The selection effect and its event stream                               *)

\* The effect of the earlier selection is disposed of: its load is nobody's.
EffectRuns ==
  /\ effectDue /\ effectDue' = FALSE /\ shown' = NoSnapshot /\ hints' = 0
  /\ LET ls == {IF l.owner = "effect" THEN [l EXCEPT !.owner = "nobody"] ELSE l : l \in loads}
     IN  IF selected = NoThread
         THEN /\ effect' = NoLoad /\ stream' = "none"
              /\ loads' = {l \in ls : l.latest \/ l.owner # "nobody"} /\ UNCHANGED missed
         ELSE /\ effect' = [thread |-> selected, pending |-> TRUE, queued |-> FALSE]
              /\ stream' = "opening" /\ Load(ls, selected, "effect")
  /\ UNCHANGED <<threadVars, threads, selected, refreshing, callVars, boundVars>>

\* The server begins every stream with a hint.
StreamOpens ==
  /\ stream = "opening" /\ effect.thread \in exists
  /\ stream' = "open" /\ hints' = hints + 1
  /\ UNCHANGED <<threadVars, threads, selected, effectDue, effect, loads, refreshing, shown,
                 callVars, boundVars, missed>>

\* The browser opens a stream that was lost again.
StreamDrops ==
  /\ stream = "open" /\ losses < MaxLosses /\ losses' = losses + 1
  /\ stream' = "opening" /\ hints' = 0
  /\ UNCHANGED <<threadVars, threads, selected, effectDue, effect, loads, refreshing, shown,
                 callVars, acts, missed>>

\* Faulty: a hint that comes before the first snapshot is dropped.
HintIfLoaded ==
  /\ hints > 0 /\ hints' = hints - 1
  /\ IF effect.pending
     THEN UNCHANGED <<effect, loads, refreshing, missed>>
     ELSE RequestRefresh(loads, effect.thread) /\ UNCHANGED effect
  /\ UNCHANGED <<threadVars, threads, selected, effectDue, stream, shown, callVars, boundVars>>

HintArrives ==
  /\ hints > 0 /\ hints' = hints - 1
  /\ IF effect.pending
     THEN effect' = [effect EXCEPT !.queued = TRUE] /\ UNCHANGED <<loads, refreshing, missed>>
     ELSE RequestRefresh(loads, effect.thread) /\ UNCHANGED effect
  /\ UNCHANGED <<threadVars, threads, selected, effectDue, stream, shown, callVars, boundVars>>

\* A run goes on: the event is stored and told to the stream of its thread.
Happens(t) ==
  /\ content' = [content EXCEPT ![t] = @ + 1]
  /\ hints' = IF stream = "open" /\ effect.thread = t THEN hints + 1 ELSE hints

Events == LET Sum[S \in SUBSET Threads] ==
                IF S = {} THEN 0 ELSE LET t == CHOOSE u \in S : TRUE IN content[t] + Sum[S \ {t}]
          IN  Sum[{t \in Threads : content[t] > 0}]

Event ==
  /\ Events < MaxEvents /\ \E t \in exists : Happens(t)
  /\ UNCHANGED <<exists, threads, selected, effectDue, effect, stream, loads, refreshing, shown,
                 callVars, boundVars, missed>>

-----------------------------------------------------------------------------
(* What the user does                                                      *)

Acts == acts < MaxActs /\ acts' = acts + 1
Choose(t) == selected' = t /\ effectDue' = (effectDue \/ t # selected)

\* A thread of the history, or one that another view asks to be opened; another
\* snapshot than the selected thread's is loaded anew.
SelectThread ==
  /\ Acts
  /\ \E t \in threads : Choose(t) /\ (t # selected \/ shown.thread # t)
  /\ IF selected' = selected
     THEN Load(loads, selected, "nobody") /\ UNCHANGED shown
     ELSE UNCHANGED <<loads, missed, shown>>
  /\ UNCHANGED <<threadVars, threads, effectVars, refreshing, callVars, losses>>

BeginNewConversation ==
  /\ Acts
  /\ selected # NoThread /\ Choose(NoThread) /\ shown' = NoSnapshot
  /\ UNCHANGED <<threadVars, threads, effectVars, loads, refreshing, callVars, losses, missed>>

\* startMessage in a draft: a new thread first.
CreateThread ==
  /\ Acts /\ selected = NoThread /\ creation = NoLoad /\ creation' = [at |-> "asked"]
  /\ UNCHANGED <<threadVars, threads, selected, effectDue, effectVars, loads, refreshing, shown,
                 turn, deletion, losses, missed>>

CreateStores ==
  /\ creation = [at |-> "asked"]
  /\ \E t \in Threads :
       /\ content[t] = -1 /\ content' = [content EXCEPT ![t] = 0]
       /\ exists' = exists \cup {t} /\ creation' = [at |-> "stored", thread |-> t]
  /\ UNCHANGED <<threads, selected, effectDue, effectVars, loads, refreshing, shown,
                 turn, deletion, boundVars, missed>>

CreateAnswers ==
  /\ creation # NoLoad /\ creation.at = "stored" /\ creation' = NoLoad
  /\ threads' = threads \cup {creation.thread}
  /\ Choose(creation.thread) /\ shown' = [thread |-> creation.thread, content |-> 0]
  /\ UNCHANGED <<threadVars, effectVars, loads, refreshing, turn, deletion, boundVars, missed>>

\* startMessage and stopRun: the server acts on the thread and answers.
SendMessage ==
  /\ Acts /\ turn = NoLoad /\ shown.thread # NoThread
  /\ turn' = [at |-> "asked", thread |-> shown.thread]
  /\ UNCHANGED <<threadVars, threads, selected, effectDue, effectVars, loads, refreshing, shown,
                 creation, deletion, losses, missed>>

MessageStores ==
  /\ turn # NoLoad /\ turn.at = "asked" /\ turn.thread \in exists
  /\ turn' = [turn EXCEPT !.at = "done"] /\ Happens(turn.thread)
  /\ UNCHANGED <<exists, threads, selected, effectDue, effect, stream, loads, refreshing, shown,
                 creation, deletion, boundVars, missed>>

MessageAnswers ==
  /\ turn # NoLoad /\ (turn.at = "done" \/ turn.thread \notin exists) /\ turn' = NoLoad
  /\ IF selected = turn.thread THEN RequestRefresh(loads, selected)
     ELSE UNCHANGED <<loads, refreshing, missed>>
  /\ UNCHANGED <<threadVars, threads, selected, effectDue, effectVars, shown, creation, deletion,
                 boundVars>>

\* deleteThread writes back the list it has read before its request.
RemoveThread ==
  /\ Acts /\ deletion = NoLoad
  /\ \E t \in threads : deletion' = [thread |-> t, at |-> "asked", list |-> threads]
  /\ UNCHANGED <<threadVars, threads, selected, effectDue, effectVars, loads, refreshing, shown,
                 turn, creation, losses, missed>>

RemoveStores ==
  /\ deletion # NoLoad /\ deletion.at = "asked" /\ deletion' = [deletion EXCEPT !.at = "done"]
  /\ exists' = exists \ {deletion.thread}
  /\ UNCHANGED <<content, threads, selected, effectDue, effectVars, loads, refreshing, shown,
                 turn, creation, boundVars, missed>>

RemoveAnswers ==
  /\ deletion # NoLoad /\ deletion.at = "done" /\ deletion' = NoLoad
  /\ threads' = deletion.list \ {deletion.thread}
  /\ IF selected = deletion.thread
     THEN /\ \E t \in (IF threads' = {} THEN {NoThread} ELSE threads') : Choose(t)
          /\ shown' = NoSnapshot
     ELSE UNCHANGED <<selected, effectDue, shown>>
  /\ UNCHANGED <<threadVars, effectVars, loads, refreshing, turn, creation, boundVars, missed>>

ViewNext ==
  \/ \E l \in loads : LoadReads(l) \/ LoadAnswers(l) \/ LoadFails(l)
  \/ EffectRuns \/ StreamOpens \/ StreamDrops \/ HintArrives \/ Event
  \/ SelectThread \/ BeginNewConversation
  \/ CreateThread \/ CreateStores \/ CreateAnswers
  \/ SendMessage \/ MessageStores \/ MessageAnswers
  \/ RemoveThread \/ RemoveStores \/ RemoveAnswers

ViewSpec == ViewInit /\ [][ViewNext]_viewVars

-----------------------------------------------------------------------------
(* Properties.                                                             *)

\* Once the effects have run, the snapshot is one of the selected thread, whatever
\* answers come late.
ShowsSelected == ~effectDue => shown.thread \in {selected, NoThread}

\* Nothing will happen unless a run goes on or the user acts.
Quiet ==
  /\ ~effectDue /\ loads = {} /\ hints = 0 /\ stream \in {"open", "none"}
  /\ turn = NoLoad /\ creation = NoLoad /\ deletion = NoLoad

\* No event is missed: not between the first load and the stream, nor during a
\* refresh, nor when the stream was lost, unless a load fails or that of the
\* selected thread is overtaken by the refresh of another one.
ShowsAllEvents ==
  Quiet /\ selected \in exists /\ ~missed => shown = [thread |-> selected, content |-> content[selected]]

\* The panel keeps up with the thread it has selected.
ViewFollows == ShowsSelected /\ ShowsAllEvents

\* Does not hold: the snapshot shows all events unless a load failed.  A refresh
\* of the thread selected before, queued by a hint, overtakes the refresh of the
\* selected one.
OnlyFailuresMiss ==
  Quiet /\ selected \in exists /\ losses = 0 => shown = [thread |-> selected, content |-> content[selected]]

\* Does not hold: the list has all threads.  One that is created while another is
\* being deleted is taken off it.
ListComplete == Quiet => exists \subseteq threads
=============================================================================
