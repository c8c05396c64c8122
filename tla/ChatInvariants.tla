---------------------------- MODULE ChatInvariants ----------------------------
(***************************************************************************)
(* The inductive invariants of the turns of a chat thread and of the panel *)
(* that shows threads.                                                     *)
(***************************************************************************)
EXTENDS ChatRuns, ChatView

-----------------------------------------------------------------------------
(* ChatRuns                                                                *)

Chats == [exists : BOOLEAN, status : {"idle", "running", "failed"}, settings : 0..MaxSettings,
          codex : Turns \cup {None}]
Steps == {"idle", "context", "files", "prepare", "thread", "turn", "over"}
Outcomes == {"completed", "failed", "interrupted"}

ChatTypes == TypeOK /\ thread \in Chats /\ pc \in [Turns -> Steps] /\ kind \in [Turns -> Kinds]

\* One run is running, and the thread says so.
OneIsRunning == (\A t, u \in Running : t = u) /\ StatusMatchesRuns

\* A turn has its row when it comes to its preparation, or to its entry in the map,
\* and it is the interrupt before the process that ends such a row.  A process has its
\* entry as long as it lives.
InOrder(t) ==
  /\ pc[t] \in {"idle", "context", "files", "thread"} => run[t] = None /\ t \notin active
  /\ pc[t] = "prepare" => run[t] # None /\ t \notin active
  /\ (pc[t] = "prepare" \/ t \in active) /\ run[t] \in Outcomes => t \in early
  /\ pc[t] \in {"thread", "turn"} => kind[t] = "appServer"
  /\ kind[t] = "process" /\ work[t] = "alive" => t \in active

HasEntry == \A t \in Running : t \in active \/ pc[t] = "prepare"

ChatInv ==
  /\ ChatTypes /\ OneIsRunning
  /\ HasEntry /\ NoFilesLeft
  /\ \A t \in Turns : InOrder(t)

\* Another turn of the app-server has been asked for in the Codex thread of t.
HasSibling(t) ==
  \E u \in Turns \ {t} : kind[u] = "appServer" /\ seen[u].codex = seen[t].codex /\ work[u] # "idle"

\* The entry of a turn has what ends it, unless that has gone unnoticed.
Entry(t) ==
  /\ pc[t] \in {"idle", "context", "files", "thread", "prepare"} => work[t] = "idle" /\ turnId[t] = None
  /\ pc[t] = "prepare" => kind[t] = "process"
  /\ kind[t] = "process" /\ t \in active => work[t] = "alive"
  /\ kind[t] = "appServer" /\ t \in active =>
       /\ run[t] = "running" /\ pc[t] \in {"turn", "over"}
       /\ pc[t] = "over" => work[t] \in {"alive", "over", "lost"}
       /\ turnId[t] \in {None, t} \/ HasSibling(t)
       /\ work[t] = "over" => HasSibling(t)

EntriesLive ==
  /\ \A t \in Turns : Entry(t)
  /\ seen = [t \in Turns |-> seen[t]] /\ turnId \in [Turns -> Turns \cup {None}]

-----------------------------------------------------------------------------
(* ChatView                                                                *)

Owners == {"effect", "queue", "nobody"}
LoadCalls == [thread : Threads, owner : Owners, latest : BOOLEAN, read : Nat \cup {-1}]
Effect == [thread : Threads, pending : BOOLEAN, queued : BOOLEAN]
Created == {t \in Threads : content[t] >= 0}

\* A thread that is being created is known to nobody before the answer.
CreatedIsNew ==
  creation # NoLoad /\ creation.at = "stored" =>
    /\ creation.thread \in Created /\ creation.thread \notin threads
    /\ creation.thread # selected
    /\ deletion # NoLoad => creation.thread \notin deletion.list

ViewTypes ==
  /\ content \in [Threads -> Nat \cup {-1}]
  /\ exists \subseteq Created /\ threads \subseteq Created
  /\ selected \in Created \cup {NoThread}
  /\ effectDue \in BOOLEAN /\ missed \in BOOLEAN
  /\ stream \in {"none", "opening", "open"} /\ hints \in Nat
  /\ loads \subseteq LoadCalls
  /\ DOMAIN refreshing \subseteq Threads /\ refreshing \in [DOMAIN refreshing -> BOOLEAN]
  /\ shown \in [thread : Threads \cup {NoThread}, content : Nat]
  /\ turn # NoLoad => turn.thread \in Threads
  /\ deletion # NoLoad => deletion.thread \in Threads /\ deletion.list \subseteq Created
  /\ CreatedIsNew

\* The refresh queue has one load of each of its threads, and one load is the latest.
Queued(ls) == {l.thread : l \in {k \in ls : k.owner = "queue"}}
OneOfEach(ls) ==
  \A k, l \in ls : k.owner = "queue" /\ l.owner = "queue" /\ k.thread = l.thread => k = l
OneLatest(ls) == \A k, l \in ls : k.latest /\ l.latest => k = l
LoadsInv == DOMAIN refreshing = Queued(loads) /\ OneOfEach(loads) /\ OneLatest(loads)

\* No load reads what has not happened, and the latest shows nothing older than what is
\* shown.
ReadsForward ==
  /\ shown.thread # NoThread => shown.content <= content[shown.thread]
  /\ \A l \in loads :
       /\ l.read <= content[l.thread]
       /\ l.latest /\ l.thread = shown.thread /\ l.read >= 0 => shown.content <= l.read

\* The effect serves the thread selected when it ran, and its first load is under way as
\* long as it waits for it.
EffectServes ==
  /\ stream # "none" => effect \in Effect
  /\ hints > 0 => stream = "open"
  /\ \A l \in loads : l.owner = "effect" => stream # "none" /\ l.thread = effect.thread
  /\ stream # "none" /\ effect.pending => \E l \in loads : l.owner = "effect"
  /\ ~effectDue => IF stream = "none" THEN selected = NoThread ELSE effect.thread = selected

\* The snapshot is up to date, or something under way will bring it up to date: the
\* hint a stream begins with or another one, the refresh that follows the first load or
\* another refresh, or the latest load.
Current == shown = [thread |-> selected, content |-> content[selected]]
HintComes == stream = "opening" \/ hints > 0
RefreshFollows == effect.pending /\ effect.queued
RefreshAgain == selected \in DOMAIN refreshing /\ refreshing[selected]
LatestBrings == \E l \in loads : l.latest /\ l.thread = selected /\ l.read \in {-1, content[selected]}
CatchesUp ==
  ~effectDue /\ selected \in exists /\ ~missed =>
    Current \/ HintComes \/ RefreshFollows \/ RefreshAgain \/ LatestBrings

ViewInv ==
  /\ ViewTypes /\ LoadsInv /\ ReadsForward /\ EffectServes
  /\ ShowsSelected /\ CatchesUp
=============================================================================
