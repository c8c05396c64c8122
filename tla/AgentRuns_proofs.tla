------------------------- MODULE AgentRuns_proofs -------------------------
(***************************************************************************)
(* Invariants of the turns of a chat thread, for any turns, changes of     *)
(* settings and faults, of the panel that shows threads, for any threads   *)
(* and events, and of the execution coordinator, for any tasks, limits,    *)
(* retries, calls and restarts.                                            *)
(***************************************************************************)
EXTENDS ChatInvariants, CoordinatorInv, DataFacts

-----------------------------------------------------------------------------
(* It holds and is kept                                                    *)

\* The marks of rows are no statuses.
LEMMA MarksAre ==
  /\ None # Deleted /\ None \notin Outcomes /\ Deleted \notin Outcomes /\ None # "running" /\ Deleted # "running"
  /\ MaxSettings \in Nat /\ MaxFaults \in Nat
BY ChatAssumption DEF Outcomes

\* Before the first turn nothing runs.
LEMMA ChatInvInit == Init => ChatInv
<1> SUFFICES ASSUME Init
             PROVE  ChatInv
  OBVIOUS
<1>1. /\ thread \in Chats /\ run \in [Turns -> Statuses] /\ pc \in [Turns -> Steps]
      /\ thread.status = "idle" /\ thread.exists = TRUE /\ thread.settings = 0
  BY MarksAre DEF Init, Chats, Statuses, Steps
<1>2. ChatTypes
  BY <1>1, MarksAre DEF Init, ChatTypes, TypeOK
<1>3. Running = {}
  BY MarksAre DEF Init, Running
<1>4. OneIsRunning /\ HasEntry /\ NoFilesLeft
  BY <1>1, <1>3 DEF Init, OneIsRunning, StatusMatchesRuns, HasEntry, NoFilesLeft
<1>5. \A t \in Turns : InOrder(t)
  BY DEF Init, InOrder
<1>6. QED
  BY <1>2, <1>4, <1>5 DEF ChatInv

\* What an update of a row does to the rows and the thread.
LEMMA UpdateRunIs ==
  ASSUME ChatTypes, OneIsRunning, NEW t \in Turns, NEW outcome \in Outcomes \cup {Deleted}, UpdateRun(t, outcome)
  PROVE  /\ thread' \in Chats /\ run' \in [Turns -> Statuses]
         /\ run'[t] = outcome /\ \A u \in Turns : u # t => run'[u] = run[u]
         /\ Running' = Running \ {t} /\ OneIsRunning'
<1>a. thread \in Chats /\ run \in [Turns -> Statuses] /\ run' = [run EXCEPT ![t] = outcome]
  BY DEF ChatTypes, TypeOK, UpdateRun
<1>b. StatusAfter(t, outcome) \in {"idle", "running", "failed"}
  BY <1>a DEF StatusAfter, Chats
<1>1. /\ thread' \in Chats /\ thread'.status = StatusAfter(t, outcome) /\ thread'.exists = thread.exists
  <2>1. ASSUME NEW st \in {"idle", "running", "failed"}
        PROVE  /\ [thread EXCEPT !.status = st] \in Chats /\ [thread EXCEPT !.status = st].status = st
               /\ [thread EXCEPT !.status = st].exists = thread.exists
    BY <1>a DEF Chats
  <2>2. QED
    BY <1>b, <2>1 DEF UpdateRun
<1>2. run' \in [Turns -> Statuses]
  BY <1>a DEF Statuses, Outcomes
<1>3. run'[t] = outcome /\ (\A u \in Turns : u # t => run'[u] = run[u]) /\ Running' = Running \ {t}
  BY <1>a, MarksAre DEF Running, Outcomes
<1>4. OneIsRunning'
  BY <1>1, <1>3 DEF OneIsRunning, StatusMatchesRuns, StatusAfter
<1>5. QED
  BY <1>1, <1>2, <1>3, <1>4

\* What a new row does to them.
LEMMA CreateRunIs ==
  ASSUME ChatTypes, OneIsRunning, NEW t \in Turns, CanCreate, run' = [run EXCEPT ![t] = "running"],
         NEW c \in Chats, c.exists = thread.exists, thread' = [c EXCEPT !.status = "running"]
  PROVE  /\ thread' \in Chats /\ run' \in [Turns -> Statuses]
         /\ run'[t] = "running" /\ \A u \in Turns : u # t => run'[u] = run[u]
         /\ Running' = {t} /\ OneIsRunning'
<1>a. run \in [Turns -> Statuses]
  BY DEF ChatTypes, TypeOK
<1>1. thread' \in Chats /\ thread'.status = "running" /\ thread'.exists = thread.exists
  BY DEF Chats
<1>2. run' \in [Turns -> Statuses]
  BY <1>a DEF Statuses
<1>3. run'[t] = "running" /\ (\A u \in Turns : u # t => run'[u] = run[u]) /\ Running' = {t}
  BY <1>a DEF Running, CanCreate
<1>4. OneIsRunning'
  BY <1>1, <1>3 DEF OneIsRunning, StatusMatchesRuns
<1>5. QED
  BY <1>1, <1>2, <1>3, <1>4

\* Writing other fields of the thread leaves the rows in agreement.
LEMMA ThreadFieldIs ==
  ASSUME ChatTypes, OneIsRunning, NEW codex \in Turns \cup {None}, NEW settings \in 0..MaxSettings
  PROVE  LET c == [thread EXCEPT !.codex = codex]
             d == [thread EXCEPT !.settings = settings] IN
         /\ c \in Chats /\ c.exists = thread.exists /\ c.status = thread.status
         /\ d \in Chats /\ d.exists = thread.exists /\ d.status = thread.status
BY DEF ChatTypes, Chats

\* A turn of which nothing changes stays in order.
LEMMA TurnSame ==
  ASSUME NEW t \in Turns, InOrder(t), kind' = kind, pc'[t] = pc[t], run'[t] = run[t],
         t \in active' <=> t \in active, work'[t] = work[t], t \in early => t \in early'
  PROVE  InOrder(t)'
BY DEF InOrder

\* The rows still agree, and the rest with them, when neither the rows nor the thread
\* change.
LEMMA RowsSame ==
  ASSUME OneIsRunning, thread' = thread, run' = run
  PROVE  OneIsRunning' /\ Running' = Running
BY DEF OneIsRunning, StatusMatchesRuns, Running

\* A call of startTurn that goes on, or gives up, before it has a row.
LEMMA EarlyStepKeeps ==
  ASSUME ChatInv, NEW t \in Turns, StartTurn(t) \/ ContextResolved(t) \/ AskThread(t) \/ ThreadFails(t)
  PROVE  ChatInv'
<1>a. /\ pc \in [Turns -> Steps] /\ pc' \in [Turns -> Steps]
      /\ \A u \in Turns : u # t => pc'[u] = pc[u]
      /\ pc[t] \in {"idle", "context", "files", "thread"} /\ pc'[t] \in {"context", "files", "thread", "over"}
      /\ pc'[t] = "thread" => kind[t] = "appServer" /\ files' = files \cup {t}
      /\ pc'[t] # "thread" => files' = files \/ files' = files \ {t}
      /\ pc[t] = "thread" => files' = files \ {t}
  BY DEF ChatInv, ChatTypes, StartTurn, ContextResolved, AskThread, ThreadFails, Goto, RemoveFiles, Steps
<1>b. UNCHANGED <<thread, run, kind, active, interrupted, turnId, work, early, faults>>
  BY DEF StartTurn, ContextResolved, AskThread, ThreadFails
<1>c. /\ ChatTypes /\ OneIsRunning /\ HasEntry /\ NoFilesLeft
      /\ \A u \in Turns : InOrder(u)
  BY DEF ChatInv
<1>d. files \subseteq Turns /\ files' \subseteq Turns
  BY <1>a, <1>c DEF ChatTypes, TypeOK
<1>1. ChatTypes'
  BY <1>a, <1>b, <1>c, <1>d DEF ChatTypes, TypeOK
<1>2. OneIsRunning' /\ Running' = Running
  BY <1>b, <1>c, RowsSame
<1>3. HasEntry'
  <2>1. t \notin Running
    BY <1>a, <1>c, MarksAre DEF InOrder, Running
  <2>2. QED
    BY <1>a, <1>b, <1>c, <1>2, <2>1 DEF HasEntry, Running
<1>4. NoFilesLeft'
  BY <1>a, <1>b, <1>c, <1>d DEF NoFilesLeft, InOrder
<1>5. ASSUME NEW u \in Turns
      PROVE  InOrder(u)'
  <2>1. CASE u = t
    BY <1>a, <1>b, <1>c, <2>1 DEF InOrder
  <2>2. CASE u # t
    BY <1>a, <1>b, <1>c, <2>2, TurnSame
  <2>3. QED
    BY <2>1, <2>2
<1>6. QED
  BY <1>1, <1>2, <1>3, <1>4, <1>5 DEF ChatInv

\* The attachments are written, and the row.
LEMMA FilesWrittenKeeps ==
  ASSUME ChatInv, NEW t \in Turns, FilesWritten(t)
  PROVE  ChatInv'
<1>c. /\ ChatTypes /\ OneIsRunning /\ HasEntry /\ NoFilesLeft
      /\ \A u \in Turns : InOrder(u)
  BY DEF ChatInv
<1>b. UNCHANGED <<kind, seen, active, interrupted, turnId, work, early, faults>>
  BY DEF FilesWritten
<1>a. /\ pc \in [Turns -> Steps] /\ pc' \in [Turns -> Steps]
      /\ \A u \in Turns : u # t => pc'[u] = pc[u]
      /\ pc[t] = "files" /\ pc'[t] \in {"prepare", "over"} /\ kind[t] = "process"
      /\ run[t] = None /\ t \notin active
      /\ thread \in Chats /\ files \subseteq Turns /\ run \in [Turns -> Statuses]
      /\ active \subseteq {u \in Turns : run[u] \notin {None, Deleted}}
  BY <1>c DEF ChatTypes, TypeOK, FilesWritten, Goto, Steps, InOrder
<1>1. CASE CanCreate
  <2>a. /\ pc'[t] = "prepare" /\ files' = files \cup {t} /\ run' = [run EXCEPT ![t] = "running"]
        /\ thread' = [thread EXCEPT !.status = "running"]
    BY <1>1, <1>a DEF FilesWritten, CreateRun, Goto
  <2>b. /\ thread' \in Chats /\ run' \in [Turns -> Statuses]
        /\ run'[t] = "running" /\ \A u \in Turns : u # t => run'[u] = run[u]
        /\ Running' = {t} /\ OneIsRunning'
    BY <2>a, <1>a, <1>c, <1>1, CreateRunIs
  <2>c. active' \subseteq {u \in Turns : run'[u] \notin {None, Deleted}}
    BY <2>b, <1>a, <1>b
  <2>1. ChatTypes'
    BY <2>a, <2>b, <2>c, <1>a, <1>b, <1>c DEF ChatTypes, TypeOK, Chats
  <2>2. HasEntry' /\ NoFilesLeft'
    BY <2>a, <2>b, <1>a, <1>b, <1>c DEF HasEntry, NoFilesLeft
  <2>3. ASSUME NEW u \in Turns
        PROVE  InOrder(u)'
    <3>1. CASE u = t
      BY <2>a, <2>b, <1>a, <1>b, <1>c, <3>1, MarksAre DEF InOrder, Outcomes
    <3>2. CASE u # t
      BY <2>b, <1>a, <1>b, <1>c, <3>2, TurnSame
    <3>3. QED
      BY <3>1, <3>2
  <2>4. QED
    BY <2>1, <2>2, <2>3, <2>b DEF ChatInv
<1>2. CASE ~CanCreate
  <2>a. pc'[t] = "over" /\ UNCHANGED <<thread, run, files>>
    BY <1>2, <1>a DEF FilesWritten, Goto
  <2>1. ChatTypes'
    BY <2>a, <1>a, <1>b, <1>c DEF ChatTypes, TypeOK
  <2>2. OneIsRunning' /\ Running' = Running
    BY <2>a, <1>c, RowsSame
  <2>3. HasEntry' /\ NoFilesLeft'
    <3>1. t \notin Running /\ t \notin files
      BY <1>a, <1>c, MarksAre DEF Running, NoFilesLeft
    <3>2. QED
      BY <2>a, <2>2, <1>a, <1>b, <1>c, <3>1 DEF HasEntry, NoFilesLeft, Running
  <2>4. ASSUME NEW u \in Turns
        PROVE  InOrder(u)'
    <3>1. CASE u = t
      BY <2>a, <1>a, <1>b, <1>c, <3>1 DEF InOrder
    <3>2. CASE u # t
      BY <2>a, <1>a, <1>b, <1>c, <3>2, TurnSame
    <3>3. QED
      BY <3>1, <3>2
  <2>5. QED
    BY <2>1, <2>2, <2>3, <2>4 DEF ChatInv
<1>3. QED
  BY <1>1, <1>2

\* The run is prepared, and its process spawned.
LEMMA PreparedKeeps ==
  ASSUME ChatInv, NEW t \in Turns, Prepared(t)
  PROVE  ChatInv'
<1>c. /\ ChatTypes /\ OneIsRunning /\ HasEntry /\ NoFilesLeft
      /\ \A u \in Turns : InOrder(u)
  BY DEF ChatInv
<1>a. /\ pc \in [Turns -> Steps] /\ pc' \in [Turns -> Steps]
      /\ \A u \in Turns : u # t => pc'[u] = pc[u]
      /\ pc[t] = "prepare" /\ pc'[t] = "over" /\ run[t] # None /\ t \notin active
      /\ files \subseteq Turns /\ work \in [Turns -> {"idle", "asked", "alive", "over", "lost"}]
      /\ active \subseteq {u \in Turns : run[u] \notin {None, Deleted}}
  BY <1>c DEF ChatTypes, TypeOK, Prepared, Goto, Steps, InOrder
<1>b. UNCHANGED <<thread, run, kind, seen, interrupted, turnId, early, faults>>
  BY DEF Prepared
<1>d. \/ run[t] = Deleted /\ files' = files \ {t} /\ UNCHANGED <<active, work>>
      \/ /\ run[t] # Deleted /\ active' = active \cup {t} /\ UNCHANGED files
         /\ work' = [work EXCEPT ![t] = "alive"]
  BY DEF Prepared, RemoveFiles
<1>e. /\ files' \subseteq Turns /\ work' \in [Turns -> {"idle", "asked", "alive", "over", "lost"}]
      /\ \A u \in Turns : u # t => work'[u] = work[u] /\ (u \in active' <=> u \in active)
  BY <1>a, <1>d
<1>f. active' \subseteq {u \in Turns : run'[u] \notin {None, Deleted}}
  BY <1>a, <1>b, <1>d
<1>1. ChatTypes'
  BY <1>a, <1>b, <1>c, <1>e, <1>f DEF ChatTypes, TypeOK
<1>2. OneIsRunning' /\ Running' = Running
  BY <1>b, <1>c, RowsSame
<1>3. HasEntry'
  BY <1>a, <1>b, <1>c, <1>d, <1>2, MarksAre DEF HasEntry, Running
<1>4. NoFilesLeft'
  BY <1>a, <1>b, <1>c, <1>d DEF NoFilesLeft
<1>5. ASSUME NEW u \in Turns
      PROVE  InOrder(u)'
  <2>1. CASE u = t
    <3>1. run[t] = Deleted => run[t] \notin Outcomes
      BY MarksAre
    <3>2. work[t] = work'[t] \/ t \in active'
      BY <1>d
    <3>3. QED
      BY <1>a, <1>b, <1>c, <1>d, <2>1, <3>1, <3>2 DEF InOrder
  <2>2. CASE u # t
    BY <1>a, <1>b, <1>c, <1>e, <2>2, TurnSame
  <2>3. QED
    BY <2>1, <2>2
<1>6. QED
  BY <1>1, <1>2, <1>3, <1>4, <1>5 DEF ChatInv

\* The preparation fails: the row is deleted or failed, whatever has become of it.
LEMMA PreparationFailsKeeps ==
  ASSUME ChatInv, NEW t \in Turns, PreparationFails(t)
  PROVE  ChatInv'
<1>c. /\ ChatTypes /\ OneIsRunning /\ HasEntry /\ NoFilesLeft
      /\ \A u \in Turns : InOrder(u)
  BY DEF ChatInv
<1>a. /\ pc \in [Turns -> Steps] /\ pc' \in [Turns -> Steps]
      /\ \A u \in Turns : u # t => pc'[u] = pc[u]
      /\ pc[t] = "prepare" /\ pc'[t] = "over" /\ run[t] # None /\ t \notin active
      /\ files \subseteq Turns /\ files' = files \ {t}
      /\ active \subseteq {u \in Turns : run[u] \notin {None, Deleted}}
      /\ thread \in Chats /\ run \in [Turns -> Statuses]
  BY <1>c DEF ChatTypes, TypeOK, PreparationFails, RemoveFiles, Goto, Steps, InOrder
<1>b. UNCHANGED <<kind, seen, active, interrupted, turnId, work, early, faults>>
  BY DEF PreparationFails
<1>d. /\ thread' \in Chats /\ run' \in [Turns -> Statuses] /\ run'[t] # None
      /\ \A u \in Turns : u # t => run'[u] = run[u]
      /\ OneIsRunning' /\ Running' = Running \ {t}
  <2>1. CASE run[t] = Deleted
    <3>1. UNCHANGED <<thread, run>>
      BY <2>1 DEF PreparationFails
    <3>2. QED
      BY <2>1, <3>1, <1>a, <1>c, MarksAre, RowsSame DEF Running
  <2>2. ASSUME NEW outcome \in Outcomes \cup {Deleted}, UpdateRun(t, outcome)
        PROVE  /\ thread' \in Chats /\ run' \in [Turns -> Statuses] /\ run'[t] # None
               /\ \A u \in Turns : u # t => run'[u] = run[u]
               /\ OneIsRunning' /\ Running' = Running \ {t}
    BY <2>2, <1>c, MarksAre, UpdateRunIs
  <2>3. QED
    BY <2>1, <2>2 DEF PreparationFails, Outcomes
<1>e. active' \subseteq {u \in Turns : run'[u] \notin {None, Deleted}}
  BY <1>a, <1>b, <1>d
<1>1. ChatTypes'
  BY <1>a, <1>b, <1>c, <1>d, <1>e DEF ChatTypes, TypeOK, Chats
<1>2. HasEntry' /\ NoFilesLeft'
  BY <1>a, <1>b, <1>c, <1>d DEF HasEntry, NoFilesLeft, Running
<1>3. ASSUME NEW u \in Turns
      PROVE  InOrder(u)'
  <2>1. CASE u = t
    BY <1>a, <1>b, <1>c, <1>d, <2>1 DEF InOrder
  <2>2. CASE u # t
    BY <1>a, <1>b, <1>c, <1>d, <2>2, TurnSame
  <2>3. QED
    BY <2>1, <2>2
<1>4. QED
  BY <1>1, <1>2, <1>3, <1>d DEF ChatInv

\* The app-server has the thread: the run is created, with its entry, or given up.
LEMMA ThreadAnswersKeeps ==
  ASSUME ChatInv, NEW t \in Turns, ThreadAnswers(t)
  PROVE  ChatInv'
<1> DEFINE stored == IF seen[t].codex = None THEN [thread EXCEPT !.codex = t] ELSE thread
<1>c. /\ ChatTypes /\ OneIsRunning /\ HasEntry /\ NoFilesLeft
      /\ \A u \in Turns : InOrder(u)
  BY DEF ChatInv
<1>s. /\ stored \in Chats /\ stored.exists = thread.exists /\ stored.status = thread.status
  BY <1>c, ThreadFieldIs DEF ChatTypes, TypeOK
<1>a. /\ pc \in [Turns -> Steps] /\ pc[t] = "thread" /\ kind[t] = "appServer"
      /\ run[t] = None /\ t \notin active /\ files \subseteq Turns
      /\ thread \in Chats /\ run \in [Turns -> Statuses]
      /\ active \subseteq {u \in Turns : run[u] \notin {None, Deleted}}
  BY <1>c DEF ChatTypes, TypeOK, ThreadAnswers, InOrder
<1>b. UNCHANGED <<kind, interrupted, turnId, work, early, faults>>
  BY DEF ThreadAnswers
<1>1. CASE CanCreate
  <2>a. /\ run' = [run EXCEPT ![t] = "running"] /\ thread' = [stored EXCEPT !.status = "running"]
        /\ active' = active \cup {t} /\ pc' = [pc EXCEPT ![t] = "turn"] /\ UNCHANGED files
    BY <1>1 DEF ThreadAnswers, Goto
  <2> HIDE DEF stored
  <2>b. /\ thread' \in Chats /\ run' \in [Turns -> Statuses]
        /\ run'[t] = "running" /\ \A u \in Turns : u # t => run'[u] = run[u]
        /\ Running' = {t} /\ OneIsRunning'
    BY <2>a, <1>s, <1>c, <1>1, CreateRunIs
  <2>c. active' \subseteq {u \in Turns : run'[u] \notin {None, Deleted}}
    BY <2>a, <2>b, <1>a, MarksAre
  <2>d. pc' \in [Turns -> Steps] /\ pc'[t] = "turn" /\ \A u \in Turns : u # t => pc'[u] = pc[u]
    BY <2>a, <1>a DEF Steps
  <2>1. ChatTypes'
    BY <2>a, <2>b, <2>c, <2>d, <1>a, <1>b, <1>c DEF ChatTypes, TypeOK, Chats
  <2>2. HasEntry' /\ NoFilesLeft'
    BY <2>a, <2>b, <2>d, <1>a, <1>b, <1>c DEF HasEntry, NoFilesLeft
  <2>3. ASSUME NEW u \in Turns
        PROVE  InOrder(u)'
    <3>1. CASE u = t
      BY <2>a, <2>b, <2>d, <1>a, <1>b, <1>c, <3>1, MarksAre DEF InOrder, Outcomes
    <3>2. CASE u # t
      BY <2>a, <2>b, <2>d, <1>a, <1>b, <1>c, <3>2, TurnSame
    <3>3. QED
      BY <3>1, <3>2
  <2>4. QED
    BY <2>1, <2>2, <2>3, <2>b DEF ChatInv
<1>2. CASE ~CanCreate
  <2>a. /\ thread' = (IF thread.exists THEN stored ELSE thread)
        /\ files' = files \ {t} /\ pc' = [pc EXCEPT ![t] = "over"] /\ UNCHANGED <<run, active>>
    BY <1>2 DEF ThreadAnswers, Goto, RemoveFiles
  <2> HIDE DEF stored
  <2>b. thread' \in Chats /\ thread'.exists = thread.exists /\ thread'.status = thread.status
    BY <2>a, <1>s, <1>a
  <2>c. OneIsRunning' /\ Running' = Running
    BY <2>a, <2>b, <1>c DEF OneIsRunning, StatusMatchesRuns, Running
  <2>d. pc' \in [Turns -> Steps] /\ pc'[t] = "over" /\ \A u \in Turns : u # t => pc'[u] = pc[u]
    BY <2>a, <1>a DEF Steps
  <2>1. ChatTypes'
    BY <2>a, <2>b, <2>d, <1>a, <1>b, <1>c DEF ChatTypes, TypeOK, Chats
  <2>2. HasEntry' /\ NoFilesLeft'
    <3>1. t \notin Running
      BY <1>a, MarksAre DEF Running
    <3>2. QED
      BY <2>a, <2>c, <2>d, <1>a, <1>c, <3>1 DEF HasEntry, NoFilesLeft, Running
  <2>3. ASSUME NEW u \in Turns
        PROVE  InOrder(u)'
    <3>1. CASE u = t
      BY <2>a, <2>d, <1>a, <1>b, <1>c, <3>1 DEF InOrder
    <3>2. CASE u # t
      BY <2>a, <2>d, <1>a, <1>b, <1>c, <3>2, TurnSame
    <3>3. QED
      BY <3>1, <3>2
  <2>4. QED
    BY <2>1, <2>2, <2>3, <2>c DEF ChatInv
<1>3. QED
  BY <1>1, <1>2

\* The app-server is asked for a turn, starts one, or answers: the rows and the
\* entries stay.
LEMMA TurnGoesOnKeeps ==
  ASSUME ChatInv, NEW t \in Turns, AskTurn(t) \/ AppServerStartsTurn(t) \/ TurnAnswers(t)
  PROVE  ChatInv'
<1>c. /\ ChatTypes /\ OneIsRunning /\ HasEntry /\ NoFilesLeft
      /\ \A u \in Turns : InOrder(u)
  BY DEF ChatInv
<1>a. /\ pc \in [Turns -> Steps] /\ pc' \in [Turns -> Steps]
      /\ \A u \in Turns : u # t => pc'[u] = pc[u] /\ work'[u] = work[u]
      /\ pc' = pc \/ (pc[t] = "turn" /\ pc'[t] = "over")
      /\ kind[t] = "appServer"
      /\ work' \in [Turns -> {"idle", "asked", "alive", "over", "lost"}]
  <2>1. pc[t] = "turn" => kind[t] = "appServer"
    BY <1>c DEF InOrder
  <2>2. pc \in [Turns -> Steps] /\ work \in [Turns -> {"idle", "asked", "alive", "over", "lost"}]
    BY <1>c DEF ChatTypes, TypeOK
  <2>3. CASE AskTurn(t)
    BY <2>1, <2>2, <2>3 DEF AskTurn, serviceVars
  <2>4. CASE AppServerStartsTurn(t)
    BY <2>1, <2>2, <2>4 DEF AppServerStartsTurn
  <2>5. CASE TurnAnswers(t)
    BY <2>1, <2>2, <2>5 DEF TurnAnswers, Goto, Steps
  <2>6. QED
    BY <2>3, <2>4, <2>5
<1>b. UNCHANGED <<thread, run, kind, active, interrupted, files, early, faults>>
  BY DEF AskTurn, AppServerStartsTurn, TurnAnswers, serviceVars
<1>1. ChatTypes'
  BY <1>a, <1>b, <1>c DEF ChatTypes, TypeOK
<1>2. OneIsRunning' /\ Running' = Running
  BY <1>b, <1>c, RowsSame
<1>3. HasEntry'
  BY <1>a, <1>b, <1>c, <1>2 DEF HasEntry, Running
<1>4. NoFilesLeft'
  BY <1>a, <1>b, <1>c DEF NoFilesLeft, ChatTypes, TypeOK
<1>5. ASSUME NEW u \in Turns
      PROVE  InOrder(u)'
  <2>1. CASE u = t
    BY <1>a, <1>b, <1>c, <2>1 DEF InOrder
  <2>2. CASE u # t
    BY <1>a, <1>b, <1>c, <2>2, TurnSame
  <2>3. QED
    BY <2>1, <2>2
<1>6. QED
  BY <1>1, <1>2, <1>3, <1>4, <1>5 DEF ChatInv

\* What finishing a run of the app-server does, or the end of a process.
LEMMA FinishIs ==
  ASSUME ChatInv, NEW a \in active, NEW outcome \in Outcomes,
         UpdateRun(a, outcome), active' = active \ {a}, RemoveFiles(a),
         UNCHANGED <<kind, interrupted, early, faults>>,
         pc' \in [Turns -> Steps], \A u \in Turns : u # a => pc'[u] = pc[u],
         pc' = pc \/ (pc[a] = "turn" /\ pc'[a] = "over"),
         work' \in [Turns -> {"idle", "asked", "alive", "over", "lost"}],
         \A u \in Turns : work'[u] = "alive" /\ kind[u] = "process" => work[u] = "alive",
         kind[a] = "process" => work'[a] # "alive"
  PROVE  ChatInv'
<1>c. /\ ChatTypes /\ OneIsRunning /\ HasEntry /\ NoFilesLeft
      /\ \A u \in Turns : InOrder(u)
  BY DEF ChatInv
<1>a. /\ a \in Turns /\ files \subseteq Turns /\ files' = files \ {a}
      /\ active \subseteq {u \in Turns : run[u] \notin {None, Deleted}}
  BY <1>c DEF ChatTypes, TypeOK, RemoveFiles
<1>d. /\ thread' \in Chats /\ run' \in [Turns -> Statuses]
      /\ run'[a] = outcome /\ \A u \in Turns : u # a => run'[u] = run[u]
      /\ Running' = Running \ {a} /\ OneIsRunning'
  BY <1>a, <1>c, UpdateRunIs
<1>e. active' \subseteq {u \in Turns : run'[u] \notin {None, Deleted}}
  BY <1>a, <1>d
<1>1. ChatTypes'
  BY <1>a, <1>c, <1>d, <1>e DEF ChatTypes, TypeOK, Chats
<1>2. HasEntry' /\ NoFilesLeft'
  BY <1>a, <1>c, <1>d DEF HasEntry, NoFilesLeft, Running
<1>3. ASSUME NEW u \in Turns
      PROVE  InOrder(u)'
  <2>1. CASE u = a
    BY <1>a, <1>c, <1>d, <2>1, MarksAre DEF InOrder
  <2>2. CASE u # a
    BY <1>a, <1>c, <1>d, <2>2 DEF InOrder
  <2>3. QED
    BY <2>1, <2>2
<1>4. QED
  BY <1>1, <1>2, <1>3, <1>d DEF ChatInv

\* A step that leaves the rows and the entries alone, but for the progress of the work.
LEMMA WorkKeeps ==
  ASSUME ChatInv, UNCHANGED <<thread, run, kind, active, files, early>>,
         interrupted' \subseteq Turns, faults' \in 0..MaxFaults,
         pc' \in [Turns -> Steps],
         \A u \in Turns : pc'[u] = pc[u] \/ (pc[u] = "turn" /\ pc'[u] = "over"),
         work' \in [Turns -> {"idle", "asked", "alive", "over", "lost"}],
         \A u \in Turns : work'[u] = "alive" /\ kind[u] = "process" => work[u] = "alive"
  PROVE  ChatInv'
<1>c. /\ ChatTypes /\ OneIsRunning /\ HasEntry /\ NoFilesLeft
      /\ \A u \in Turns : InOrder(u)
  BY DEF ChatInv
<1>1. ChatTypes'
  BY <1>c DEF ChatTypes, TypeOK
<1>2. OneIsRunning' /\ Running' = Running
  BY <1>c, RowsSame
<1>3. HasEntry'
  BY <1>c, <1>2 DEF HasEntry, Running
<1>4. NoFilesLeft'
  BY <1>c DEF NoFilesLeft, ChatTypes, TypeOK
<1>5. \A u \in Turns : InOrder(u)'
  BY <1>c DEF InOrder
<1>6. QED
  BY <1>1, <1>2, <1>3, <1>4, <1>5 DEF ChatInv

\* The types of what a step leaves alone or changes in its own function.
LEMMA TypesAre ==
  ASSUME ChatInv
  PROVE  /\ pc \in [Turns -> Steps] /\ work \in [Turns -> {"idle", "asked", "alive", "over", "lost"}]
         /\ active \subseteq Turns /\ interrupted \subseteq Turns /\ faults \in 0..MaxFaults
         /\ thread \in Chats /\ run \in [Turns -> Statuses]
         /\ \A t \in Turns : pc[t] = "turn" => kind[t] = "appServer"
BY DEF ChatInv, ChatTypes, TypeOK, InOrder

\* The request for a turn fails.
LEMMA TurnFailsKeeps ==
  ASSUME ChatInv, NEW t \in Turns, TurnFails(t)
  PROVE  ChatInv'
<1>a. /\ pc \in [Turns -> Steps] /\ work \in [Turns -> {"idle", "asked", "alive", "over", "lost"}]
      /\ pc[t] = "turn" /\ kind[t] = "appServer" /\ interrupted \subseteq Turns /\ faults \in 0..MaxFaults
  BY TypesAre DEF TurnFails
<1>b. /\ UNCHANGED <<kind, seen, interrupted, turnId, work, early, faults>>
      /\ pc' \in [Turns -> Steps] /\ pc'[t] = "over" /\ \A u \in Turns : u # t => pc'[u] = pc[u]
  BY <1>a DEF TurnFails, Goto, Steps
<1>1. CASE t \in active
  <2>1. UpdateRun(t, "failed") /\ active' = active \ {t} /\ RemoveFiles(t)
    BY <1>1 DEF TurnFails, FailRun, FinishAppServerRun
  <2>2. QED
    BY <1>1, <1>a, <1>b, <2>1, FinishIs DEF Outcomes
<1>2. CASE t \notin active
  <2>1. UNCHANGED <<thread, run, active, files>>
    BY <1>2 DEF TurnFails, FailRun, FinishAppServerRun
  <2>2. QED
    BY <1>2, <1>a, <1>b, <2>1, WorkKeeps
<1>3. QED
  BY <1>1, <1>2

\* A turn of the app-server ends, and with it a run of its Codex thread.
LEMMA AppServerEndsTurnKeeps ==
  ASSUME ChatInv, NEW t \in Turns, AppServerEndsTurn(t)
  PROVE  ChatInv'
<1>a. /\ pc \in [Turns -> Steps] /\ work \in [Turns -> {"idle", "asked", "alive", "over", "lost"}]
      /\ interrupted \subseteq Turns /\ faults \in 0..MaxFaults
  BY TypesAre
<1>b. /\ UNCHANGED <<pc, kind, seen, interrupted, turnId, early, faults>>
      /\ work' \in [Turns -> {"idle", "asked", "alive", "over", "lost"}]
      /\ \A u \in Turns : work'[u] = "alive" => work[u] = "alive"
  BY <1>a DEF AppServerEndsTurn
<1>1. CASE UNCHANGED <<thread, run, active, files>>
  BY <1>a, <1>b, <1>1, WorkKeeps
<1>2. CASE ~UNCHANGED <<thread, run, active, files>>
  <2>1. PICK a \in active, s \in {"completed", "failed", "interrupted"} :
          kind[a] = "appServer" /\ FinishAppServerRun(a, IF a \in interrupted THEN "interrupted" ELSE s)
    BY <1>2 DEF AppServerEndsTurn, Addressed
  <2>2. a \in active /\ kind[a] = "appServer"
    BY <2>1
  <2> DEFINE outcome == IF a \in interrupted THEN "interrupted" ELSE s
  <2>3. outcome \in Outcomes
    BY DEF Outcomes
  <2>4. UpdateRun(a, outcome) /\ active' = active \ {a} /\ RemoveFiles(a)
    BY <2>1, <2>2 DEF FinishAppServerRun
  <2> HIDE DEF outcome
  <2>5. QED
    BY <1>a, <1>b, <2>2, <2>3, <2>4, FinishIs
<1>3. QED
  BY <1>1, <1>2

\* A process ends.
LEMMA ProcessEndsKeeps ==
  ASSUME ChatInv, NEW t \in Turns, ProcessEnds(t)
  PROVE  ChatInv'
<1>a. /\ pc \in [Turns -> Steps] /\ work \in [Turns -> {"idle", "asked", "alive", "over", "lost"}]
      /\ t \in active /\ interrupted \subseteq Turns
  BY TypesAre DEF ChatInv, InOrder, ProcessEnds
<1>b. /\ UNCHANGED <<pc, kind, seen, interrupted, turnId, early, faults>>
      /\ active' = active \ {t} /\ RemoveFiles(t)
      /\ work' \in [Turns -> {"idle", "asked", "alive", "over", "lost"}] /\ work'[t] # "alive"
      /\ \A u \in Turns : work'[u] = "alive" => work[u] = "alive"
  BY <1>a DEF ProcessEnds
<1>1. PICK s \in {"completed", "failed"} : UpdateRun(t, IF t \in interrupted THEN "interrupted" ELSE s)
  BY DEF ProcessEnds
<1> DEFINE outcome == IF t \in interrupted THEN "interrupted" ELSE s
<1>2. outcome \in Outcomes /\ UpdateRun(t, outcome)
  BY <1>1 DEF Outcomes
<1> HIDE DEF outcome
<1>3. QED
  BY <1>a, <1>b, <1>2, FinishIs

\* The grace period of an interrupt is over.
LEMMA GraceEndsKeeps ==
  ASSUME ChatInv, NEW t \in Turns, GraceEnds(t)
  PROVE  ChatInv'
<1>a. /\ pc \in [Turns -> Steps] /\ work \in [Turns -> {"idle", "asked", "alive", "over", "lost"}]
      /\ t \in active /\ kind[t] = "appServer"
  BY TypesAre DEF GraceEnds
<1>b. /\ UNCHANGED <<pc, kind, interrupted, work, early, faults>>
      /\ UpdateRun(t, "interrupted") /\ active' = active \ {t} /\ RemoveFiles(t)
  BY <1>a DEF GraceEnds, FinishAppServerRun
<1>2. QED
  BY <1>a, <1>b, FinishIs DEF Outcomes

\* Codex names its thread, or the settings change: a field of the thread that the rows
\* are not compared with.
LEMMA ThreadFieldKeeps ==
  ASSUME ChatInv, UNCHANGED <<run, serviceVars, work, files, early, faults>>,
         thread' \in Chats, thread'.exists = thread.exists, thread'.status = thread.status
  PROVE  ChatInv'
<1>c. /\ ChatTypes /\ OneIsRunning /\ HasEntry /\ NoFilesLeft
      /\ \A u \in Turns : InOrder(u)
  BY DEF ChatInv
<1>b. UNCHANGED <<run, pc, kind, active, interrupted, work, files, early, faults>>
  BY DEF serviceVars
<1>1. ChatTypes'
  BY <1>b, <1>c DEF ChatTypes, TypeOK, Chats
<1>2. OneIsRunning' /\ Running' = Running
  BY <1>b, <1>c DEF OneIsRunning, StatusMatchesRuns, Running
<1>3. HasEntry' /\ NoFilesLeft'
  BY <1>b, <1>c, <1>2 DEF HasEntry, NoFilesLeft
<1>4. \A u \in Turns : InOrder(u)'
  BY <1>b, <1>c, TurnSame
<1>5. QED
  BY <1>1, <1>2, <1>3, <1>4 DEF ChatInv

\* A process reports its thread.
LEMMA ProcessStartsThreadKeeps ==
  ASSUME ChatInv, NEW t \in Turns, ProcessStartsThread(t)
  PROVE  ChatInv'
<1>1. /\ thread' \in Chats /\ thread'.exists = thread.exists /\ thread'.status = thread.status
  <2>1. thread' = [thread EXCEPT !.codex = t] /\ thread.settings \in 0..MaxSettings
    BY DEF ProcessStartsThread, ChatInv, ChatTypes, TypeOK
  <2>2. QED
    BY <2>1, ThreadFieldIs DEF ChatInv
<1>2. UNCHANGED <<run, serviceVars, work, files, early, faults>>
  BY DEF ProcessStartsThread
<1>3. QED
  BY <1>1, <1>2, ThreadFieldKeeps

\* The settings are changed.
LEMMA UpdateSettingsKeeps ==
  ASSUME ChatInv, UpdateSettings
  PROVE  ChatInv'
<1>1. /\ thread' \in Chats /\ thread'.exists = thread.exists /\ thread'.status = thread.status
  <2>1. /\ thread' = [thread EXCEPT !.settings = thread.settings + 1] /\ thread.codex \in Turns \cup {None}
    BY DEF UpdateSettings, ChatInv, ChatTypes, Chats
  <2>2. thread.settings + 1 \in 0..MaxSettings
    BY MarksAre DEF UpdateSettings, ChatInv, ChatTypes, TypeOK
  <2>3. QED
    BY <2>1, <2>2, ThreadFieldIs DEF ChatInv
<1>2. UNCHANGED <<run, serviceVars, work, files, early, faults>>
  BY DEF UpdateSettings
<1>3. QED
  BY <1>1, <1>2, ThreadFieldKeeps

\* The user interrupts: the row of a run without an entry, the flag of one with.
LEMMA InterruptKeeps ==
  ASSUME ChatInv, NEW t \in Turns, Interrupt(t)
  PROVE  ChatInv'
<1>c. /\ ChatTypes /\ OneIsRunning /\ HasEntry /\ NoFilesLeft
      /\ \A u \in Turns : InOrder(u)
  BY DEF ChatInv
<1>a. /\ pc \in [Turns -> Steps] /\ work \in [Turns -> {"idle", "asked", "alive", "over", "lost"}]
      /\ active \subseteq {u \in Turns : run[u] \notin {None, Deleted}}
      /\ interrupted \subseteq Turns /\ faults \in 0..MaxFaults /\ run[t] = "running"
  BY <1>c DEF ChatTypes, TypeOK, Interrupt
<1>b. UNCHANGED <<pc, kind, seen, active, turnId, work, files, faults>>
  BY DEF Interrupt
<1>1. CASE t \in active
  <2>1. interrupted' = interrupted \cup {t} /\ UNCHANGED <<thread, run, early>>
    BY <1>1 DEF Interrupt
  <2>2. QED
    BY <1>a, <1>b, <2>1, WorkKeeps
<1>2. CASE t \notin active
  <2>a. UpdateRun(t, "interrupted") /\ early' = early \cup {t} /\ UNCHANGED interrupted
    BY <1>2 DEF Interrupt
  <2>d. /\ thread' \in Chats /\ run' \in [Turns -> Statuses]
        /\ run'[t] = "interrupted" /\ \A u \in Turns : u # t => run'[u] = run[u]
        /\ Running' = Running \ {t} /\ OneIsRunning'
    BY <2>a, <1>c, UpdateRunIs DEF Outcomes
  <2>e. active' \subseteq {u \in Turns : run'[u] \notin {None, Deleted}}
    BY <1>2, <1>a, <1>b, <2>d
  <2>1. ChatTypes'
    BY <1>b, <1>c, <2>a, <2>d, <2>e DEF ChatTypes, TypeOK, Chats
  <2>2. HasEntry' /\ NoFilesLeft'
    BY <1>b, <1>c, <2>d DEF HasEntry, NoFilesLeft, Running
  <2>3. ASSUME NEW u \in Turns
        PROVE  InOrder(u)'
    <3>1. CASE u = t
      <4>1. t \in early' /\ run'[t] # None /\ pc[t] \notin {"idle", "context", "files", "thread"}
        BY <1>a, <1>c, <2>a, <2>d, MarksAre DEF InOrder, Outcomes
      <4>2. QED
        BY <1>b, <1>c, <3>1, <4>1 DEF InOrder
    <3>2. CASE u # t
      BY <1>b, <1>c, <2>a, <2>d, <3>2, TurnSame
    <3>3. QED
      BY <3>1, <3>2
  <2>4. QED
    BY <2>1, <2>2, <2>3, <2>d DEF ChatInv
<1>3. QED
  BY <1>1, <1>2

\* The thread is deleted, with its rows, when nothing works on it.
LEMMA DeleteThreadKeeps ==
  ASSUME ChatInv, DeleteThread
  PROVE  ChatInv'
<1>c. /\ ChatTypes /\ OneIsRunning /\ HasEntry /\ NoFilesLeft
      /\ \A u \in Turns : InOrder(u)
  BY DEF ChatInv
<1>a. /\ active = {} /\ Running = {}
      /\ thread \in Chats /\ run \in [Turns -> Statuses]
      /\ run' = [u \in Turns |-> IF run[u] = None THEN None ELSE Deleted]
  BY <1>c DEF ChatTypes, TypeOK, DeleteThread, ThreadIsActive
<1>b. UNCHANGED <<pc, kind, seen, active, interrupted, turnId, work, files, early, faults>>
  BY DEF DeleteThread, serviceVars
<1>d. thread' \in Chats /\ thread'.exists = FALSE /\ thread'.status = thread.status
  BY <1>a DEF DeleteThread, Chats
<1>e. /\ run' \in [Turns -> Statuses] /\ Running' = {}
      /\ \A u \in Turns : (run'[u] = None <=> run[u] = None) /\ run'[u] \in {None, Deleted}
  <2>1. \A u \in Turns : run'[u] = IF run[u] = None THEN None ELSE Deleted
    BY <1>a
  <2>2. run' \in [Turns -> Statuses]
    BY <1>a DEF Statuses
  <2>3. QED
    BY <2>1, <2>2, MarksAre DEF Running
<1>1. ChatTypes'
  BY <1>a, <1>b, <1>c, <1>d, <1>e DEF ChatTypes, TypeOK, Chats
<1>2. OneIsRunning'
  BY <1>d, <1>e DEF OneIsRunning, StatusMatchesRuns
<1>3. HasEntry' /\ NoFilesLeft'
  BY <1>b, <1>c, <1>e DEF HasEntry, NoFilesLeft
<1>4. ASSUME NEW u \in Turns
      PROVE  InOrder(u)'
  <2>1. run'[u] \notin Outcomes /\ (run'[u] = None <=> run[u] = None)
    BY <1>e, MarksAre
  <2>2. QED
    BY <1>a, <1>b, <1>c, <2>1 DEF InOrder
<1>5. QED
  BY <1>1, <1>2, <1>3, <1>4 DEF ChatInv

\* The app-server exits.
LEMMA AppServerExitsKeeps ==
  ASSUME ChatInv, AppServerExits
  PROVE  ChatInv'
<1>a. /\ pc \in [Turns -> Steps] /\ work \in [Turns -> {"idle", "asked", "alive", "over", "lost"}]
      /\ interrupted \subseteq Turns /\ faults \in 0..MaxFaults
  BY TypesAre
<1>b. UNCHANGED <<thread, run, pc, kind, active, interrupted, files, early>>
  BY DEF AppServerExits, serviceVars
<1>1. faults' \in 0..MaxFaults
  BY <1>a, MarksAre DEF AppServerExits
<1>2. /\ work' \in [Turns -> {"idle", "asked", "alive", "over", "lost"}]
      /\ \A u \in Turns : work'[u] = "alive" /\ kind[u] = "process" => work[u] = "alive"
  BY <1>a DEF AppServerExits
<1>3. QED
  BY <1>a, <1>b, <1>1, <1>2, WorkKeeps

\* The server stops and starts.
LEMMA RestartKeeps ==
  ASSUME ChatInv, Restart
  PROVE  ChatInv'
<1>c. /\ ChatTypes /\ OneIsRunning /\ \A u \in Turns : InOrder(u)
  BY DEF ChatInv
<1>a. /\ pc \in [Turns -> Steps] /\ work \in [Turns -> {"idle", "asked", "alive", "over", "lost"}]
      /\ thread \in Chats /\ run \in [Turns -> Statuses] /\ faults \in 0..MaxFaults
  BY TypesAre
<1>b. active' = {} /\ interrupted' = {} /\ files' = {} /\ UNCHANGED <<kind, seen, turnId, early>>
  BY DEF Restart
<1>d. /\ thread' \in Chats /\ thread'.status # "running" /\ faults' \in 0..MaxFaults
  <2>1. thread' = [thread EXCEPT !.status = IF thread.status = "running" THEN "idle" ELSE thread.status]
    BY DEF Restart
  <2>2. ASSUME NEW st \in {"idle", "failed"}
        PROVE  [thread EXCEPT !.status = st] \in Chats /\ [thread EXCEPT !.status = st].status = st
    BY <1>a DEF Chats
  <2>3. thread.status \in {"idle", "running", "failed"}
    BY <1>a DEF Chats
  <2>4. faults' \in 0..MaxFaults
    BY <1>a, MarksAre DEF Restart
  <2>5. QED
    BY <2>1, <2>2, <2>3, <2>4
<1>e. /\ run' \in [Turns -> Statuses] /\ Running' = {}
      /\ \A u \in Turns : run'[u] = None <=> run[u] = None
  <2>1. /\ run' = [u \in Turns |-> IF run[u] = "running" THEN "interrupted" ELSE run[u]]
        /\ \A u \in Turns : run'[u] = IF run[u] = "running" THEN "interrupted" ELSE run[u]
    BY DEF Restart
  <2>2. run' \in [Turns -> Statuses]
    BY <1>a, <2>1 DEF Statuses
  <2>3. QED
    BY <2>1, <2>2, MarksAre DEF Running, Outcomes
<1>f. /\ pc' \in [Turns -> Steps] /\ work' \in [Turns -> {"idle", "asked", "alive", "over", "lost"}]
      /\ \A u \in Turns : /\ pc'[u] \in {"idle", "over"} /\ (pc'[u] = "idle" => pc[u] = "idle")
                          /\ work'[u] # "alive"
  BY <1>a DEF Restart, Steps
<1>1. ChatTypes'
  BY <1>b, <1>c, <1>d, <1>e, <1>f DEF ChatTypes, TypeOK, Chats
<1>2. OneIsRunning' /\ HasEntry' /\ NoFilesLeft'
  BY <1>b, <1>d, <1>e DEF OneIsRunning, StatusMatchesRuns, HasEntry, NoFilesLeft
<1>3. \A u \in Turns : InOrder(u)'
  BY <1>b, <1>c, <1>e, <1>f DEF InOrder
<1>4. QED
  BY <1>1, <1>2, <1>3 DEF ChatInv

\* Every step keeps the invariant.
LEMMA ChatInvStep == ChatInv /\ [Next]_vars => ChatInv'
<1> SUFFICES ASSUME ChatInv, [Next]_vars
             PROVE  ChatInv'
  OBVIOUS
<1>1. CASE UNCHANGED vars
  <2>1. UNCHANGED <<thread, run, serviceVars, work, files, early, faults>>
    BY <1>1 DEF vars
  <2>2. thread' \in Chats
    BY <2>1, TypesAre
  <2>3. QED
    BY <2>1, <2>2, ThreadFieldKeeps
<1>2. ASSUME NEW t \in Turns,
             \/ StartTurn(t) \/ ContextResolved(t) \/ FilesWritten(t)
             \/ Prepared(t) \/ PreparationFails(t)
             \/ AskThread(t) \/ ThreadAnswers(t) \/ ThreadFails(t)
             \/ AskTurn(t) \/ AppServerStartsTurn(t) \/ TurnAnswers(t) \/ TurnFails(t)
             \/ AppServerEndsTurn(t) \/ ProcessStartsThread(t) \/ ProcessEnds(t)
             \/ Interrupt(t) \/ GraceEnds(t)
      PROVE  ChatInv'
  BY <1>2, EarlyStepKeeps, FilesWrittenKeeps, PreparedKeeps, PreparationFailsKeeps, ThreadAnswersKeeps,
     TurnGoesOnKeeps, TurnFailsKeeps, AppServerEndsTurnKeeps, ProcessStartsThreadKeeps, ProcessEndsKeeps,
     InterruptKeeps, GraceEndsKeeps
<1>3. CASE UpdateSettings \/ DeleteThread \/ AppServerExits \/ Restart
  BY <1>3, UpdateSettingsKeeps, DeleteThreadKeeps, AppServerExitsKeeps, RestartKeeps
<1>4. QED
  BY <1>1, <1>2, <1>3 DEF Next

-----------------------------------------------------------------------------
(* What it says of the service                                             *)

\* In every behaviour of the service the invariant holds: a turn has its row when it
\* is prepared, an entry as long as its process lives, and only an interrupt ends a row
\* before its process does.
THEOREM ChatInvariant == Spec => []ChatInv
<1>1. Init => ChatInv
  BY ChatInvInit
<1>2. ChatInv /\ [Next]_vars => ChatInv'
  BY ChatInvStep
<1>3. QED
  BY <1>1, <1>2, PTL DEF Spec

\* However many calls of startTurn pass its checks, and whatever interrupts, deletions
\* and ends of runs overlap them, a thread has one running row at most, and its status
\* says so.
THEOREM RowsOfThreadAgree == Spec => []RowsAgree
<1>1. ChatInv => RowsAgree
  <2> SUFFICES ASSUME ChatInv
               PROVE  RowsAgree
    OBVIOUS
  <2>1. TypeOK /\ StatusMatchesRuns /\ \A t, u \in Running : t = u
    BY DEF ChatInv, ChatTypes, OneIsRunning
  <2>2. OneRunPerThread
    BY <2>1, AtMostOne DEF OneRunPerThread
  <2>3. QED
    BY <2>1, <2>2 DEF RowsAgree
<1>2. QED
  BY <1>1, ChatInvariant, PTL

\* A turn of which nothing changes keeps its entry.
LEMMA EntrySame ==
  ASSUME NEW t \in Turns, Entry(t), kind' = kind, pc'[t] = pc[t], work'[t] = work[t], turnId'[t] = turnId[t],
         run'[t] = run[t], t \in active' <=> t \in active, seen'[t] = seen[t],
         \A u \in Turns : work[u] # "idle" => work'[u] # "idle" /\ seen'[u] = seen[u]
  PROVE  Entry(t)'
<1>1. HasSibling(t) => HasSibling(t)'
  BY DEF HasSibling
<1>2. QED
  BY <1>1 DEF Entry

\* A step leaves the entries with what ends them: only the end of another turn of the
\* same Codex thread can be taken for that of this one.
LEMMA EntryStep ==
  ASSUME ChatInv, EntriesLive, [Next]_vars
  PROVE  EntriesLive'
<1>a. /\ pc \in [Turns -> Steps] /\ work \in [Turns -> {"idle", "asked", "alive", "over", "lost"}]
      /\ run \in [Turns -> Statuses] /\ active \subseteq Turns
      /\ kind \in [Turns -> Kinds]
  BY TypesAre DEF ChatInv, ChatTypes
<1>b. /\ \A t \in Turns : Entry(t) /\ InOrder(t)
      /\ seen = [t \in Turns |-> seen[t]] /\ turnId \in [Turns -> Turns \cup {None}]
      /\ \A t, u \in Turns : run[t] = "running" /\ run[u] = "running" => t = u
  BY DEF ChatInv, OneIsRunning, Running, EntriesLive
<1>1. CASE UNCHANGED vars
  BY <1>1, <1>b DEF vars, serviceVars, EntriesLive, Entry, HasSibling
<1>2. ASSUME NEW t \in Turns, \/ StartTurn(t) \/ ContextResolved(t) \/ FilesWritten(t) \/ Prepared(t)
                              \/ PreparationFails(t) \/ AskThread(t) \/ ThreadFails(t) \/ ThreadAnswers(t)
      PROVE  EntriesLive'
  <2>1. /\ \A u \in Turns : u # t => /\ pc'[u] = pc[u] /\ work'[u] = work[u] /\ turnId'[u] = turnId[u]
                                     /\ seen'[u] = seen[u] /\ run'[u] = run[u]
                                     /\ u \in active' <=> u \in active
        /\ kind' = kind /\ turnId' = turnId /\ seen' = [u \in Turns |-> seen'[u]]
        /\ work[t] = "idle"
    BY <1>2, <1>a, <1>b DEF StartTurn, ContextResolved, FilesWritten, Prepared, PreparationFails, AskThread,
       ThreadFails, ThreadAnswers, Goto, CreateRun, UpdateRun, Entry
  <2>2. Entry(t)'
    BY <1>2, <1>a, <1>b DEF StartTurn, ContextResolved, FilesWritten, Prepared, PreparationFails, AskThread,
       ThreadFails, ThreadAnswers, Goto, CreateRun, UpdateRun, Entry, InOrder, Kinds
  <2>k. \A v \in Turns : work[v] # "idle" => work'[v] # "idle" /\ seen'[v] = seen[v]
    BY <2>1
  <2>3. ASSUME NEW u \in Turns, u # t
        PROVE  Entry(u)'
    <3>1. Entry(u)
      BY <1>b
    <3>2. QED
      BY <2>1, <2>k, <2>3, <3>1, EntrySame
  <2>4. QED
    BY <2>1, <2>2, <2>3, <1>b DEF EntriesLive
<1>3. ASSUME NEW t \in Turns, AskTurn(t) \/ TurnAnswers(t) \/ TurnFails(t) \/ GraceEnds(t)
                              \/ ProcessEnds(t) \/ Interrupt(t) \/ ProcessStartsThread(t)
      PROVE  EntriesLive'
  <2>1. /\ \A u \in Turns : u # t => /\ pc'[u] = pc[u] /\ work'[u] = work[u] /\ turnId'[u] = turnId[u]
                                     /\ run'[u] = run[u] /\ seen'[u] = seen[u]
                                     /\ u \in active' <=> u \in active
        /\ kind' = kind /\ seen' = seen /\ turnId' \in [Turns -> Turns \cup {None}]
        /\ work[t] # "idle" => work'[t] # "idle"
    BY <1>3, <1>a, <1>b DEF AskTurn, TurnAnswers, TurnFails, FailRun, GraceEnds, ProcessEnds, Interrupt,
       ProcessStartsThread, Goto, UpdateRun, FinishAppServerRun, serviceVars
  <2>2. Entry(t)'
    BY <1>3, <1>a, <1>b, <2>1 DEF AskTurn, TurnAnswers, TurnFails, FailRun, GraceEnds, ProcessEnds, Interrupt,
       ProcessStartsThread, Goto, UpdateRun, FinishAppServerRun, serviceVars, Entry, InOrder, HasSibling, Kinds
  <2>k. \A v \in Turns : work[v] # "idle" => work'[v] # "idle" /\ seen'[v] = seen[v]
    BY <2>1
  <2>3. ASSUME NEW u \in Turns, u # t
        PROVE  Entry(u)'
    <3>1. Entry(u)
      BY <1>b
    <3>2. QED
      BY <2>1, <2>k, <2>3, <3>1, EntrySame
  <2>4. QED
    BY <2>1, <2>2, <2>3, <1>b DEF EntriesLive
<1>4. ASSUME NEW t \in Turns, AppServerStartsTurn(t)
      PROVE  EntriesLive'
  <2>1. PICK named \in BOOLEAN :
          turnId' = [u \in Turns |-> IF u \in Addressed(t, named) THEN t ELSE turnId[u]]
    BY <1>4 DEF AppServerStartsTurn
  <2>2. /\ UNCHANGED <<run, pc, kind, seen, active>> /\ kind[t] = "appServer"
        /\ work' = [work EXCEPT ![t] = "alive"] /\ work[t] = "asked"
    BY <1>4 DEF AppServerStartsTurn
  <2>3. ASSUME NEW u \in Turns
        PROVE  Entry(u)'
    BY <2>1, <2>2, <1>a, <1>b DEF Entry, HasSibling, Addressed
  <2>4. QED
    BY <2>1, <2>2, <2>3, <1>b DEF EntriesLive
<1>5. ASSUME NEW t \in Turns, AppServerEndsTurn(t)
      PROVE  EntriesLive'
  <2>1. /\ UNCHANGED <<pc, kind, seen, turnId>> /\ kind[t] = "appServer"
        /\ work' = [work EXCEPT ![t] = "over"] /\ work[t] = "alive"
        /\ active' \subseteq active
    BY <1>5 DEF AppServerEndsTurn, FinishAppServerRun
  <2>2. /\ \A u \in active' : kind[u] = "appServer" => run'[u] = run[u]
        /\ t \in active' => turnId[t] \notin {None, t}
    <3>1. PICK named \in BOOLEAN :
            \/ Addressed(t, named) = {} /\ UNCHANGED <<run, active>>
            \/ \E a \in Addressed(t, named) : active' = active \ {a} /\ \E s : run' = [run EXCEPT ![a] = s]
      BY <1>5 DEF AppServerEndsTurn, Addressed, FinishAppServerRun, UpdateRun
    <3>2. \A a \in Addressed(t, named) : a \in active /\ run[a] = "running"
      BY <1>a, <1>b DEF Addressed, Entry
    <3>3. t \in active /\ turnId[t] \in {None, t} => t \in Addressed(t, named) /\ run[t] = "running"
      BY <2>1, <1>b DEF Addressed, Entry
    <3>4. QED
      BY <3>1, <3>2, <3>3, <1>a, <1>b
  <2>3. ASSUME NEW u \in Turns
        PROVE  Entry(u)'
    BY <2>1, <2>2, <1>a, <1>b DEF Entry, HasSibling
  <2>4. QED
    BY <2>1, <2>3, <1>b DEF EntriesLive
<1>6. CASE UpdateSettings \/ DeleteThread \/ AppServerExits \/ Restart
  <2>1. /\ UNCHANGED <<kind, seen, turnId>> /\ active' \subseteq active
        /\ \A u \in Turns : /\ pc'[u] = pc[u] \/ pc'[u] = "over"
                            /\ work'[u] = "idle" <=> work[u] = "idle"
                            /\ u \in active' => pc'[u] = pc[u] /\ run'[u] = run[u] /\
                                 (work'[u] = work[u] \/ (kind[u] = "appServer" /\ work'[u] = "lost"))
    <3>1. CASE DeleteThread
      BY <3>1, <1>a DEF DeleteThread, ThreadIsActive, serviceVars
    <3>2. CASE Restart
      BY <3>2, <1>a DEF Restart
    <3>3. CASE UpdateSettings \/ AppServerExits
      <4>1. /\ UNCHANGED <<kind, seen, turnId, active, pc, run>>
            /\ \A u \in Turns : \/ work'[u] = work[u]
                                \/ work[u] # "idle" /\ kind[u] = "appServer" /\ work'[u] = "lost"
        BY <3>3, <1>a DEF UpdateSettings, AppServerExits, serviceVars
      <4>2. ASSUME NEW u \in Turns
            PROVE  /\ work'[u] = "idle" <=> work[u] = "idle"
                   /\ work'[u] = work[u] \/ (kind[u] = "appServer" /\ work'[u] = "lost")
        BY <4>1
      <4>3. QED
        BY <4>1, <4>2
    <3>4. QED
      BY <1>6, <3>1, <3>2, <3>3
  <2>2. ASSUME NEW u \in Turns
        PROVE  Entry(u)'
    BY <2>1, <1>a, <1>b DEF Entry, HasSibling
  <2>3. QED
    BY <2>1, <2>2, <1>b DEF EntriesLive
<1>7. QED
  BY <1>1, <1>2, <1>3, <1>4, <1>5, <1>6 DEF Next

\* In every behaviour.
LEMMA EntriesHold == Spec => []EntriesLive
<1>1. Init => EntriesLive
  BY DEF Init, EntriesLive, Entry
<1>2. ChatInv /\ EntriesLive /\ [Next]_vars => EntriesLive'
  BY EntryStep
<1>3. QED
  BY <1>1, <1>2, ChatInvariant, PTL DEF Spec

\* Whatever step of a turn fails or is overtaken, a running row is ended by the call
\* that prepares it, its process, its turn or an interrupt, unless its turn has gone with
\* its app-server or its end was not its own; and attachments have a turn that needs them.
THEOREM TurnsCleanUp == Spec => []NothingLeftBehind
<1>1. ChatInv /\ EntriesLive => NothingLeftBehind
  <2> SUFFICES ASSUME ChatInv, EntriesLive
               PROVE  RunningIsDriven
    BY DEF ChatInv, NothingLeftBehind
  <2>1. kind \in [Turns -> Kinds]
    BY DEF ChatInv, ChatTypes
  <2>2. ASSUME NEW t \in Running
        PROVE  IsDriven(t) \/ IsLeftAlone(t)
    BY <2>1 DEF ChatInv, HasEntry, EntriesLive, Entry, IsDriven, IsLeftAlone, HasSibling, Running, Kinds
  <2>3. QED
    BY <2>2 DEF RunningIsDriven
<1>2. QED
  BY <1>1, ChatInvariant, EntriesHold, PTL

\* A step gives a finished row another outcome only if an interrupt has overtaken its
\* preparation.
LEMMA OutcomeStays ==
  ASSUME ChatInv, [Next]_vars, NEW t \in Turns, run[t] \in Outcomes, t \notin early
  PROVE  run'[t] \in {run[t], Deleted}
<1>a. /\ run \in [Turns -> Statuses] /\ active \subseteq Turns
  BY TypesAre
<1>b. /\ pc[t] \notin {"files", "thread", "prepare"} /\ t \notin active /\ run[t] \notin {None, "running"}
      /\ ~(kind[t] = "process" /\ work[t] = "alive")
  BY MarksAre DEF ChatInv, InOrder, Outcomes
<1>c. ASSUME NEW u \in Turns, NEW outcome, u # t,
             UpdateRun(u, outcome) \/ run' = [run EXCEPT ![u] = "running"]
      PROVE  run'[t] = run[t]
  BY <1>a, <1>c DEF UpdateRun
<1>d. ASSUME NEW a \in Turns, NEW outcome, FinishAppServerRun(a, outcome)
      PROVE  run'[t] = run[t]
  BY <1>a, <1>b, <1>c, <1>d DEF FinishAppServerRun
<1>1. CASE run' = run
  BY <1>1
<1>2. ASSUME NEW u \in Turns, FilesWritten(u) \/ ThreadAnswers(u) \/ PreparationFails(u)
      PROVE  run'[t] = run[t]
  <2>1. u # t
    BY <1>2, <1>b DEF FilesWritten, ThreadAnswers, PreparationFails
  <2>2. \/ run' = run \/ run' = [run EXCEPT ![u] = "running"]
        \/ UpdateRun(u, "failed") \/ UpdateRun(u, Deleted)
    BY <1>2 DEF FilesWritten, ThreadAnswers, PreparationFails, CreateRun
  <2>3. QED
    BY <2>1, <2>2, <1>c
<1>3. ASSUME NEW u \in Turns, TurnFails(u) \/ GraceEnds(u)
      PROVE  run'[t] = run[t]
  BY <1>3, <1>d DEF TurnFails, FailRun, GraceEnds
<1>4. ASSUME NEW u \in Turns, AppServerEndsTurn(u)
      PROVE  run'[t] = run[t]
  <2>1. \/ run' = run
        \/ \E a \in active, s \in Outcomes : FinishAppServerRun(a, IF a \in interrupted THEN "interrupted" ELSE s)
    BY <1>4 DEF AppServerEndsTurn, Addressed, Outcomes
  <2>2. QED
    BY <1>a, <1>d, <2>1
<1>5. ASSUME NEW u \in Turns, ProcessEnds(u)
      PROVE  run'[t] = run[t]
  <2>1. u # t
    BY <1>5, <1>b DEF ProcessEnds
  <2>2. PICK s \in {"completed", "failed"} : UpdateRun(u, IF u \in interrupted THEN "interrupted" ELSE s)
    BY <1>5 DEF ProcessEnds
  <2>3. QED
    BY <2>1, <2>2, <1>c
<1>6. ASSUME NEW u \in Turns, Interrupt(u)
      PROVE  run'[t] = run[t]
  <2>1. u # t /\ (run' = run \/ UpdateRun(u, "interrupted"))
    BY <1>6, <1>b DEF Interrupt
  <2>2. QED
    BY <2>1, <1>c
<1>7. CASE DeleteThread \/ Restart
  BY <1>7, <1>b DEF DeleteThread, Restart
<1>8. ASSUME NEW u \in Turns,
             \/ StartTurn(u) \/ ContextResolved(u) \/ Prepared(u) \/ AskThread(u) \/ ThreadFails(u)
             \/ AskTurn(u) \/ AppServerStartsTurn(u) \/ TurnAnswers(u) \/ ProcessStartsThread(u)
      PROVE  run' = run
  BY <1>8 DEF StartTurn, ContextResolved, Prepared, AskThread, ThreadFails, AskTurn, AppServerStartsTurn,
     TurnAnswers, ProcessStartsThread
<1>9. UpdateSettings \/ AppServerExits \/ UNCHANGED vars => run' = run
  BY DEF UpdateSettings, AppServerExits, vars
<1>10. QED
  BY <1>1, <1>2, <1>3, <1>4, <1>5, <1>6, <1>7, <1>8, <1>9 DEF Next

\* A run that has finished keeps its outcome, unless an interrupt has marked it before
\* its process was spawned: no late answer, exit or grace period writes it again.
THEOREM OutcomesStay == Spec => FinishedOnce
<1>1. ChatInv /\ [Next]_vars =>
        [\A t \in Turns : run[t] \in {"completed", "failed", "interrupted"} =>
           run'[t] \in {run[t], Deleted} \/ t \in early]_vars
  BY OutcomeStays DEF Outcomes
<1>2. QED
  BY <1>1, ChatInvariant, PTL DEF Spec, FinishedOnce

-----------------------------------------------------------------------------
(* ChatView: its invariant holds and is kept                               *)

\* A new load is the latest; the others stay, but for those that are nobody's.
LEMMA LoadIs ==
  ASSUME NEW ls, ls \subseteq LoadCalls, NEW t \in Threads, NEW o \in Owners, Load(ls, t, o)
  PROVE  /\ loads' \subseteq LoadCalls
         /\ \E new \in loads' :
              /\ new = [thread |-> t, owner |-> o, latest |-> TRUE, read |-> -1]
              /\ \A k \in loads' : k = new \/ \E j \in ls : /\ j.owner # "nobody"
                                                           /\ k = [j EXCEPT !.latest = FALSE]
         /\ \A j \in ls : j.owner # "nobody" => [j EXCEPT !.latest = FALSE] \in loads'
<1>1. PICK new : new = [thread |-> t, owner |-> o, latest |-> TRUE, read |-> -1]
  OBVIOUS
<1>2. new \in LoadCalls
  BY <1>1 DEF LoadCalls
<1>3. \A j \in ls : [j EXCEPT !.latest = FALSE] \in LoadCalls
  BY DEF LoadCalls
<1>4. loads' = Overtaken(ls) \cup {new}
  BY <1>1 DEF Load
<1>5. \A k \in Overtaken(ls) : \E j \in ls : j.owner # "nobody" /\ k = [j EXCEPT !.latest = FALSE]
  BY DEF Overtaken
<1>6. \A j \in ls : j.owner # "nobody" => [j EXCEPT !.latest = FALSE] \in Overtaken(ls)
  BY DEF Overtaken
<1>7. loads' \subseteq LoadCalls
  BY <1>2, <1>3, <1>4, <1>5
<1>8. new \in loads' /\ \A k \in loads' : k = new \/ k \in Overtaken(ls)
  BY <1>4
<1>9. QED
  BY <1>1, <1>4, <1>5, <1>6, <1>7, <1>8

\* The loads of the queue after a new load.
LEMMA LoadKeepsOrder ==
  ASSUME NEW ls, ls \subseteq LoadCalls, OneOfEach(ls), NEW t \in Threads, NEW o \in Owners,
         o = "queue" => t \notin Queued(ls), Load(ls, t, o)
  PROVE  /\ Queued(loads') = Queued(ls) \cup (IF o = "queue" THEN {t} ELSE {})
         /\ OneOfEach(loads') /\ OneLatest(loads')
<1>1. PICK new \in loads' :
        /\ new = [thread |-> t, owner |-> o, latest |-> TRUE, read |-> -1]
        /\ \A k \in loads' : k = new \/ \E j \in ls : /\ j.owner # "nobody"
                                                     /\ k = [j EXCEPT !.latest = FALSE]
  BY LoadIs
<1>2. \A j \in ls : j.owner # "nobody" => [j EXCEPT !.latest = FALSE] \in loads'
  BY LoadIs
<1>3. \A j \in ls : LET k == [j EXCEPT !.latest = FALSE]
                    IN  k.owner = j.owner /\ k.thread = j.thread /\ ~k.latest
  BY DEF LoadCalls
<1>4. new.owner = o /\ new.thread = t /\ new.latest
  BY <1>1
<1>5. ASSUME NEW k \in loads', k.owner = "queue", k # new
      PROVE  \E j \in ls : j.owner = "queue" /\ j.thread = k.thread /\ k = [j EXCEPT !.latest = FALSE]
  <2>1. PICK j \in ls : k = [j EXCEPT !.latest = FALSE]
    BY <1>1, <1>5
  <2>2. j.owner = k.owner /\ j.thread = k.thread
    BY <1>3, <2>1
  <2>3. QED
    BY <1>5, <2>1, <2>2
<1>6. OneLatest(loads')
  BY <1>1, <1>3 DEF OneLatest
<1>7. OneOfEach(loads')
  <2>1. ASSUME NEW k \in loads', k.owner = "queue", k # new
        PROVE  k.thread \in Queued(ls)
    BY <1>5, <2>1 DEF Queued
  <2>2. ASSUME NEW k \in loads', NEW l \in loads', k.owner = "queue", l.owner = "queue",
               k.thread = l.thread, k # new, l # new
        PROVE  k = l
    <3>1. PICK i \in ls : i.owner = "queue" /\ i.thread = k.thread /\ k = [i EXCEPT !.latest = FALSE]
      BY <1>5, <2>2
    <3>2. PICK j \in ls : j.owner = "queue" /\ j.thread = l.thread /\ l = [j EXCEPT !.latest = FALSE]
      BY <1>5, <2>2
    <3>3. QED
      BY <2>2, <3>1, <3>2 DEF OneOfEach
  <2>3. QED
    BY <1>4, <2>1, <2>2 DEF OneOfEach
<1>8. Queued(loads') = Queued(ls) \cup (IF o = "queue" THEN {t} ELSE {})
  <2>1. ASSUME NEW u \in Queued(loads')
        PROVE  u \in Queued(ls) \cup (IF o = "queue" THEN {t} ELSE {})
    BY <1>4, <1>5, <2>1 DEF Queued
  <2>2. ASSUME NEW u \in Queued(ls)
        PROVE  u \in Queued(loads')
    <3>1. PICK j \in ls : j.owner = "queue" /\ j.thread = u
      BY <2>2 DEF Queued
    <3>2. QED
      BY <1>2, <1>3, <3>1 DEF Queued
  <2>3. o = "queue" => t \in Queued(loads')
    BY <1>4 DEF Queued
  <2>4. QED
    BY <2>1, <2>2, <2>3
<1>9. QED
  BY <1>6, <1>7, <1>8

\* What stays of the loads `ls' when others overtake them, and what may be new.
Kept(ls) == \A k \in loads' :
              \/ k.read = -1 /\ k.thread \in Threads /\ k.latest /\ k.owner # "effect"
              \/ \E j \in ls : k = j \/ k = [j EXCEPT !.latest = FALSE]
EffectLoadStays(ls) == (\E l \in ls : l.owner = "effect") => \E l \in loads' : l.owner = "effect"

\* The selected thread is read again.
ReadAgain == /\ selected \in DOMAIN refreshing' /\ refreshing'[selected]
             \/ \E l \in loads' : l.latest /\ l.thread = selected /\ l.read = -1
\* What was to bring the selected thread stays.
StaysAsIs(ls) ==
  /\ missed' = FALSE => missed = FALSE
  /\ missed' = FALSE => \A l \in ls : l.latest /\ l.thread = selected => l \in loads'
  /\ RefreshAgain => selected \in DOMAIN refreshing' /\ refreshing'[selected]

\* A load that overtakes others, for a refresh.
LEMMA LoadForRefresh ==
  ASSUME ViewTypes, NEW ls, ls \subseteq LoadCalls, NEW t \in Threads, NEW o \in {"queue", "nobody"},
         Load(ls, t, o),
         t # selected /\ RefreshAgain => selected \in DOMAIN refreshing' /\ refreshing'[selected]
  PROVE  /\ Kept(ls) /\ EffectLoadStays(ls) /\ missed' \in BOOLEAN
         /\ IF t = selected THEN ReadAgain /\ missed' = FALSE ELSE StaysAsIs(ls)
<1>0. o \in Owners
  BY DEF Owners
<1>1. PICK new \in loads' :
        /\ new = [thread |-> t, owner |-> o, latest |-> TRUE, read |-> -1]
        /\ \A k \in loads' : k = new \/ \E j \in ls : /\ j.owner # "nobody"
                                                     /\ k = [j EXCEPT !.latest = FALSE]
  BY <1>0, LoadIs
<1>2. \A j \in ls : j.owner # "nobody" => [j EXCEPT !.latest = FALSE] \in loads'
  BY <1>0, LoadIs
<1>3. missed' = (t # selected /\ (missed \/ \E l \in ls : l.latest /\ l.thread = selected))
  BY DEF Load
<1>4. Kept(ls)
  BY <1>1 DEF Kept
<1>5. EffectLoadStays(ls)
  BY <1>2 DEF EffectLoadStays, LoadCalls
<1>6. t = selected => ReadAgain /\ missed' = FALSE
  BY <1>1, <1>3 DEF ReadAgain
<1>7. t # selected => StaysAsIs(ls)
  BY <1>3 DEF StaysAsIs, ViewTypes
<1>8. QED
  BY <1>3, <1>4, <1>5, <1>6, <1>7 DEF ViewTypes

LEMMA RefreshRequested ==
  ASSUME ViewTypes, NEW ls, ls \subseteq loads, OneOfEach(ls), OneLatest(ls),
         DOMAIN refreshing = Queued(ls), NEW t \in Threads, RequestRefresh(ls, t)
  PROVE  /\ loads' \subseteq LoadCalls /\ missed' \in BOOLEAN
         /\ DOMAIN refreshing' \subseteq Threads /\ refreshing' \in [DOMAIN refreshing' -> BOOLEAN]
         /\ LoadsInv' /\ Kept(ls) /\ EffectLoadStays(ls)
         /\ IF t = selected THEN ReadAgain ELSE StaysAsIs(ls)
<1>1. ls \subseteq LoadCalls /\ "queue" \in Owners
  BY DEF ViewTypes, Owners
<1>2. CASE t \in DOMAIN refreshing
  <2>1. refreshing' = [refreshing EXCEPT ![t] = TRUE] /\ loads' = ls /\ missed' = missed
    BY <1>2 DEF RequestRefresh
  <2>2. DOMAIN refreshing' = DOMAIN refreshing /\ refreshing' \in [DOMAIN refreshing -> BOOLEAN]
    BY <2>1 DEF ViewTypes
  <2>3. LoadsInv'
    BY <2>1, <2>2 DEF LoadsInv
  <2>4. Kept(ls) /\ EffectLoadStays(ls)
    BY <2>1 DEF Kept, EffectLoadStays
  <2>5. IF t = selected THEN ReadAgain ELSE StaysAsIs(ls)
    BY <1>2, <2>1 DEF ReadAgain, StaysAsIs, RefreshAgain, ViewTypes
  <2>6. QED
    BY <1>1, <2>1, <2>2, <2>3, <2>4, <2>5 DEF ViewTypes
<1>3. CASE t \notin DOMAIN refreshing
  <2>1. /\ refreshing' = [u \in DOMAIN refreshing \cup {t} |-> u # t /\ refreshing[u]]
        /\ Load(ls, t, "queue")
    BY <1>3 DEF RequestRefresh
  <2>2. /\ DOMAIN refreshing' = DOMAIN refreshing \cup {t}
        /\ refreshing' \in [DOMAIN refreshing' -> BOOLEAN]
        /\ \A u \in DOMAIN refreshing : refreshing'[u] = refreshing[u]
    BY <1>3, <2>1 DEF ViewTypes
  <2>3. LoadsInv'
    BY <1>1, <1>3, <2>1, <2>2, LoadKeepsOrder DEF LoadsInv
  <2>4. RefreshAgain => selected \in DOMAIN refreshing' /\ refreshing'[selected]
    BY <2>2 DEF RefreshAgain
  <2>5. QED
    BY <1>1, <2>1, <2>2, <2>3, <2>4, LoadForRefresh, LoadIs DEF ViewTypes
<1>4. QED
  BY <1>2, <1>3

\* A load that ends is followed by another one of its thread, or everything else stays.
LEMMA EndedIs ==
  ASSUME ViewTypes, LoadsInv, EffectServes, NEW l \in loads, NEW old \in BOOLEAN,
         old => l.thread = selected, Ended(l, old)
  PROVE  /\ loads' \subseteq LoadCalls /\ missed' \in BOOLEAN
         /\ DOMAIN refreshing' \subseteq Threads /\ refreshing' \in [DOMAIN refreshing' -> BOOLEAN]
         /\ LoadsInv' /\ Kept(loads \ {l})
         /\ stream # "none" => effect' \in Effect /\ effect'.thread = effect.thread
         /\ stream # "none" /\ effect'.pending => \E k \in loads' : k.owner = "effect"
         /\ ~effectDue => \/ ReadAgain
                          \/ /\ StaysAsIs(loads \ {l}) /\ (old => missed')
                             /\ RefreshFollows => effect' = effect
<1>1. PICK rest : rest = loads \ {l}
  OBVIOUS
<1>2. /\ rest \subseteq loads /\ OneOfEach(rest) /\ OneLatest(rest)
      /\ rest \subseteq LoadCalls /\ l \in LoadCalls
  BY <1>1 DEF LoadsInv, OneOfEach, OneLatest, ViewTypes
<1>3. l.thread \in Threads /\ l.owner \in Owners /\ "queue" \in Owners
  BY <1>2 DEF LoadCalls, Owners
<1>4. l.owner # "queue" => Queued(rest) = Queued(loads)
  BY <1>1 DEF Queued
<1>5. l.owner = "queue" => Queued(rest) = Queued(loads) \ {l.thread}
  BY <1>1 DEF Queued, LoadsInv, OneOfEach
<1>6. l.owner # "effect" /\ EffectLoadStays(rest) /\ effect' = effect
        /\ stream # "none" /\ effect'.pending => \E k \in loads' : k.owner = "effect"
  BY <1>1 DEF EffectServes, EffectLoadStays
<1>7. loads' = rest => Kept(rest) /\ EffectLoadStays(rest)
  BY DEF Kept, EffectLoadStays
<1>8. CASE l.owner = "effect"
  <2>1. stream # "none" /\ l.thread = effect.thread /\ effect \in Effect
    BY <1>8 DEF EffectServes
  <2>2. /\ effect' = [effect EXCEPT !.pending = FALSE, !.queued = FALSE]
        /\ IF effect.queued THEN RequestRefresh(rest, l.thread)
           ELSE loads' = rest /\ missed' = (missed \/ old) /\ UNCHANGED refreshing
    BY <1>1, <1>8 DEF Ended
  <2>3. effect' \in Effect /\ effect'.thread = effect.thread /\ ~effect'.pending
    BY <2>1, <2>2 DEF Effect
  <2>4. CASE effect.queued
    <3>1. RequestRefresh(rest, l.thread)
      BY <2>2, <2>4
    <3>2. DOMAIN refreshing = Queued(rest)
      BY <1>4, <1>8 DEF LoadsInv
    <3>3. ~effectDue => l.thread = selected
      BY <2>1 DEF EffectServes
    <3>4. QED
      BY <1>1, <1>2, <1>3, <2>3, <3>1, <3>2, <3>3, RefreshRequested
  <2>5. CASE ~effect.queued
    <3>1. loads' = rest /\ missed' = (missed \/ old) /\ refreshing' = refreshing
      BY <2>2, <2>5
    <3>2. LoadsInv'
      BY <1>2, <1>4, <1>8, <3>1 DEF LoadsInv
    <3>3. ~RefreshFollows
      BY <2>5 DEF RefreshFollows
    <3>4. StaysAsIs(rest) /\ (old => missed') /\ missed' \in BOOLEAN
      BY <3>1 DEF StaysAsIs, RefreshAgain, ViewTypes
    <3>5. QED
      BY <1>1, <1>2, <1>7, <2>3, <3>1, <3>2, <3>3, <3>4 DEF ViewTypes
  <2>6. QED
    BY <2>4, <2>5
<1>9. CASE l.owner = "queue"
  <2>1. effect' = effect
    BY <1>9 DEF Ended
  <2>2. l.thread \in DOMAIN refreshing
    BY <1>9 DEF LoadsInv, Queued
  <2>3. stream # "none" => effect' \in Effect /\ effect'.thread = effect.thread
    BY <2>1 DEF EffectServes
  <2>4. CASE refreshing[l.thread]
    <3>1. refreshing' = [refreshing EXCEPT ![l.thread] = FALSE] /\ Load(rest, l.thread, "queue")
      BY <1>1, <1>9, <2>4 DEF Ended
    <3>2. /\ DOMAIN refreshing' = DOMAIN refreshing /\ refreshing' \in [DOMAIN refreshing -> BOOLEAN]
          /\ \A u \in DOMAIN refreshing \ {l.thread} : refreshing'[u] = refreshing[u]
      BY <3>1 DEF ViewTypes
    <3>3. LoadsInv'
      BY <1>2, <1>3, <1>5, <1>9, <2>2, <3>1, <3>2, LoadKeepsOrder DEF LoadsInv
    <3>4. l.thread # selected /\ RefreshAgain => selected \in DOMAIN refreshing' /\ refreshing'[selected]
      BY <3>2 DEF RefreshAgain
    <3>5. /\ Kept(rest) /\ EffectLoadStays(rest) /\ missed' \in BOOLEAN
          /\ IF l.thread = selected THEN ReadAgain ELSE StaysAsIs(rest)
      BY <1>2, <1>3, <3>1, <3>4, LoadForRefresh
    <3>6. loads' \subseteq LoadCalls
      BY <1>2, <1>3, <3>1, LoadIs
    <3>7. QED
      BY <1>1, <1>6, <1>9, <2>1, <2>3, <3>2, <3>3, <3>5, <3>6 DEF ViewTypes
  <2>5. CASE ~refreshing[l.thread]
    <3>1. /\ refreshing' = [u \in DOMAIN refreshing \ {l.thread} |-> refreshing[u]]
          /\ loads' = rest /\ missed' = (missed \/ old)
      BY <1>1, <1>9, <2>5 DEF Ended
    <3>2. /\ DOMAIN refreshing' = DOMAIN refreshing \ {l.thread}
          /\ refreshing' \in [DOMAIN refreshing' -> BOOLEAN]
          /\ \A u \in DOMAIN refreshing' : refreshing'[u] = refreshing[u]
      BY <3>1 DEF ViewTypes
    <3>3. LoadsInv'
      BY <1>2, <1>5, <1>9, <3>1, <3>2 DEF LoadsInv
    <3>4. RefreshAgain => selected \in DOMAIN refreshing' /\ refreshing'[selected]
      BY <2>5, <3>2 DEF RefreshAgain
    <3>5. StaysAsIs(rest) /\ (old => missed') /\ missed' \in BOOLEAN
      BY <3>1, <3>4 DEF StaysAsIs, ViewTypes
    <3>6. QED
      BY <1>1, <1>2, <1>6, <1>7, <1>9, <2>1, <2>3, <3>1, <3>2, <3>3, <3>5 DEF ViewTypes
  <2>6. QED
    BY <2>4, <2>5
<1>10. CASE l.owner = "nobody"
  <2>1. effect' = effect /\ refreshing' = refreshing /\ loads' = rest /\ missed' = (missed \/ old)
    BY <1>1, <1>10 DEF Ended
  <2>2. LoadsInv'
    BY <1>2, <1>4, <1>10, <2>1 DEF LoadsInv
  <2>3. StaysAsIs(rest) /\ (old => missed') /\ missed' \in BOOLEAN
    BY <2>1 DEF StaysAsIs, RefreshAgain, ViewTypes
  <2>4. stream # "none" => effect' \in Effect /\ effect'.thread = effect.thread
    BY <2>1 DEF EffectServes
  <2>5. QED
    BY <1>1, <1>2, <1>6, <1>7, <1>10, <2>1, <2>2, <2>3, <2>4 DEF ViewTypes
<1>11. QED
  BY <1>3, <1>8, <1>9, <1>10 DEF Owners

LEMMA ViewBegins == ViewInit => ViewInv
<1> SUFFICES ASSUME ViewInit
             PROVE  ViewInv
  OBVIOUS
<1>1. Created = Known /\ NoThread \notin Threads
  BY ViewAssumption DEF ViewInit, Created
<1>2. DOMAIN refreshing = {} /\ loads = {}
  BY DEF ViewInit
<1>3. ViewTypes
  BY <1>1, <1>2, ViewAssumption DEF ViewInit, ViewTypes, CreatedIsNew, NoSnapshot
<1>4. LoadsInv
  BY <1>2 DEF LoadsInv, Queued, OneOfEach, OneLatest
<1>5. ReadsForward /\ EffectServes /\ ShowsSelected /\ CatchesUp
  BY <1>2 DEF ViewInit, NoSnapshot, ReadsForward, EffectServes, ShowsSelected, CatchesUp
<1>6. QED
  BY <1>3, <1>4, <1>5 DEF ViewInv

\* Loads that stay or begin keep reading forward and serving the effect.
LEMMA KeptLoadsAreFine ==
  ASSUME ViewInv, NEW ls, ls \subseteq loads, Kept(ls), content' = content, shown' = shown,
         loads' \subseteq LoadCalls
  PROVE  ReadsForward'
<1>1. ASSUME NEW k \in loads'
      PROVE  /\ k.read <= content[k.thread]
             /\ k.latest /\ k.thread = shown.thread /\ k.read >= 0 => shown.content <= k.read
  <2>1. CASE k.read = -1
    <3>1. content[k.thread] \in Nat \cup {-1}
      BY <1>1 DEF LoadCalls, ViewInv, ViewTypes
    <3>2. QED
      BY <2>1, <3>1
  <2>2. CASE \E j \in ls : k = j \/ k = [j EXCEPT !.latest = FALSE]
    <3>1. PICK j \in ls : k = j \/ k = [j EXCEPT !.latest = FALSE]
      BY <2>2
    <3>2. j \in LoadCalls /\ j \in loads
      BY DEF ViewInv, ViewTypes
    <3>3. k.read = j.read /\ k.thread = j.thread /\ (k.latest => j.latest)
      BY <3>1, <3>2 DEF LoadCalls
    <3>4. QED
      BY <3>2, <3>3 DEF ViewInv, ReadsForward
  <2>3. QED
    BY <1>1, <2>1, <2>2 DEF Kept
<1>2. QED
  BY <1>1 DEF ReadsForward, ViewInv

LEMMA KeptLoadsServe ==
  ASSUME ViewInv, NEW ls, ls \subseteq loads, Kept(ls), stream' = stream, stream # "none",
         effect'.thread = effect.thread
  PROVE  \A l \in loads' : l.owner = "effect" => stream' # "none" /\ l.thread = effect'.thread
<1>1. ASSUME NEW k \in loads', k.owner = "effect"
      PROVE  k.thread = effect.thread
  <2>1. PICK j \in ls : k = j \/ k = [j EXCEPT !.latest = FALSE]
    BY <1>1 DEF Kept
  <2>2. j \in LoadCalls /\ j \in loads
    BY DEF ViewInv, ViewTypes
  <2>3. j.owner = k.owner /\ j.thread = k.thread
    BY <2>1, <2>2 DEF LoadCalls
  <2>4. QED
    BY <1>1, <2>2, <2>3 DEF ViewInv, EffectServes
<1>2. QED
  BY <1>1

\* Without an effect no load is one of it.
LEMMA NoneServe ==
  ASSUME ViewInv, NEW ls, ls \subseteq loads, Kept(ls), stream = "none"
  PROVE  \A l \in loads' : l.owner # "effect"
<1>1. ASSUME NEW k \in loads', k.owner = "effect"
      PROVE  FALSE
  <2>1. PICK j \in ls : k = j \/ k = [j EXCEPT !.latest = FALSE]
    BY <1>1 DEF Kept
  <2>2. j \in LoadCalls /\ j \in loads
    BY DEF ViewInv, ViewTypes
  <2>3. j.owner = k.owner
    BY <2>1, <2>2 DEF LoadCalls
  <2>4. QED
    BY <1>1, <2>2, <2>3 DEF ViewInv, EffectServes
<1>2. QED
  BY <1>1

\* The selected thread that is read again will be shown.
LEMMA ReadAgainBrings ==
  ASSUME ReadAgain, selected' = selected
  PROVE  CatchesUp'
BY DEF ReadAgain, CatchesUp, RefreshAgain, LatestBrings

\* A load ends: what holds but for the snapshot.
LEMMA EndKeeps ==
  ASSUME ViewInv, NEW l \in loads, NEW old \in BOOLEAN, old => l.thread = selected, Ended(l, old),
         UNCHANGED <<threadVars, threads, selected, effectDue, stream, hints, callVars>>,
         shown' \in [thread : Threads \cup {NoThread}, content : Nat]
  PROVE  ViewTypes' /\ LoadsInv' /\ EffectServes'
<1>1. /\ loads' \subseteq LoadCalls /\ missed' \in BOOLEAN
      /\ DOMAIN refreshing' \subseteq Threads /\ refreshing' \in [DOMAIN refreshing' -> BOOLEAN]
      /\ LoadsInv' /\ Kept(loads \ {l})
      /\ stream # "none" => effect' \in Effect /\ effect'.thread = effect.thread
      /\ stream # "none" /\ effect'.pending => \E k \in loads' : k.owner = "effect"
  BY EndedIs DEF ViewInv
<1>2. ViewTypes'
  BY <1>1 DEF ViewInv, ViewTypes, threadVars, callVars, Created, CreatedIsNew
<1>3. stream' = stream /\ hints' = hints /\ selected' = selected /\ effectDue' = effectDue
  OBVIOUS
<1>4. \A k \in loads' : k.owner = "effect" => stream' # "none" /\ k.thread = effect'.thread
  BY <1>1, <1>3, KeptLoadsServe, NoneServe
<1>5. EffectServes'
  BY <1>1, <1>3, <1>4 DEF ViewInv, EffectServes
<1>6. QED
  BY <1>1, <1>2, <1>5

LEMMA LoadReadsKeeps ==
  ASSUME ViewInv, NEW l \in loads, LoadReads(l)
  PROVE  ViewInv'
<1>1. PICK m : m = [l EXCEPT !.read = content[l.thread]]
  OBVIOUS
<1>2. /\ l \in LoadCalls /\ content[l.thread] \in Nat /\ l.thread \in Created
      /\ loads' = (loads \ {l}) \cup {m} /\ l.read = -1
  BY <1>1 DEF LoadReads, ViewInv, ViewTypes, Created
<1>3. /\ m \in LoadCalls /\ m.thread = l.thread /\ m.owner = l.owner /\ m.latest = l.latest
      /\ m.read = content[l.thread]
  BY <1>1, <1>2 DEF LoadCalls
<1>4. UNCHANGED <<threadVars, threads, selected, effectDue, effectVars, refreshing, shown, callVars,
                  missed>>
  BY DEF LoadReads
<1>5. ViewTypes'
  BY <1>2, <1>3, <1>4 DEF ViewInv, ViewTypes, threadVars, effectVars, callVars, Created, CreatedIsNew
<1>6. LoadsInv'
  <2>1. Queued(loads') = Queued(loads)
    BY <1>2, <1>3 DEF Queued
  <2>2. OneOfEach(loads') /\ OneLatest(loads')
    BY <1>2, <1>3 DEF ViewInv, LoadsInv, OneOfEach, OneLatest
  <2>3. QED
    BY <1>4, <2>1, <2>2 DEF ViewInv, LoadsInv
<1>7. ReadsForward'
  <2>1. content' = content /\ shown' = shown
    BY <1>4 DEF threadVars
  <2>2. m.thread = shown.thread => shown.content <= m.read
    BY <1>2, <1>3, ViewAssumption DEF ViewInv, ReadsForward, Created
  <2>3. m.read <= content[m.thread]
    BY <1>2, <1>3
  <2>4. QED
    BY <1>2, <2>1, <2>2, <2>3 DEF ViewInv, ReadsForward
<1>8. EffectServes'
  BY <1>2, <1>3, <1>4 DEF ViewInv, EffectServes, effectVars
<1>9. ShowsSelected'
  BY <1>4 DEF ViewInv, ShowsSelected
<1>10. CatchesUp'
  <2>1. LatestBrings => LatestBrings'
    BY <1>2, <1>3, <1>4 DEF LatestBrings, threadVars
  <2>2. /\ Current => Current'
        /\ HintComes => HintComes'
        /\ RefreshFollows => RefreshFollows'
        /\ RefreshAgain => RefreshAgain'
    BY <1>4 DEF Current, HintComes, RefreshFollows, RefreshAgain, threadVars, effectVars
  <2>3. QED
    BY <1>4, <2>1, <2>2 DEF ViewInv, CatchesUp, threadVars
<1>11. QED
  BY <1>5, <1>6, <1>7, <1>8, <1>9, <1>10 DEF ViewInv

LEMMA LoadAnswersKeeps ==
  ASSUME ViewInv, NEW l \in loads, LoadAnswers(l)
  PROVE  ViewInv'
<1>1. /\ l.read >= 0 /\ Ended(l, FALSE)
      /\ shown' = IF Shows(l) THEN [thread |-> l.thread, content |-> l.read] ELSE shown
      /\ UNCHANGED <<threadVars, threads, selected, effectDue, stream, hints, callVars>>
  BY DEF LoadAnswers
<1>2. l \in LoadCalls /\ l.thread \in Threads /\ l.read \in Nat
  BY <1>1 DEF ViewInv, ViewTypes, LoadCalls
<1>3. shown' \in [thread : Threads \cup {NoThread}, content : Nat]
  BY <1>1, <1>2 DEF ViewInv, ViewTypes
<1>4. ViewTypes' /\ LoadsInv' /\ EffectServes'
  BY <1>1, <1>3, EndKeeps
<1>5. /\ loads' \subseteq LoadCalls /\ Kept(loads \ {l})
      /\ ~effectDue => \/ ReadAgain
                       \/ StaysAsIs(loads \ {l}) /\ (RefreshFollows => effect' = effect)
  BY <1>1, EndedIs DEF ViewInv
<1>6. content' = content /\ exists' = exists /\ selected' = selected /\ effectDue' = effectDue
  BY <1>1 DEF threadVars
<1>7. ReadsForward'
  <2>1. CASE Shows(l)
    <3>1. shown' = [thread |-> l.thread, content |-> l.read] /\ l.latest
      BY <1>1, <2>1 DEF Shows
    <3>2. l.read <= content[l.thread]
      BY DEF ViewInv, ReadsForward
    <3>3. ASSUME NEW k \in loads'
          PROVE  k.read <= content[k.thread] /\ (k.read = -1 \/ ~k.latest)
      <4>1. CASE k.read = -1
        <5>1. content[k.thread] \in Nat \cup {-1}
          BY <1>5 DEF LoadCalls, ViewInv, ViewTypes
        <5>2. QED
          BY <4>1, <5>1
      <4>2. CASE k.read # -1
        <5>1. PICK j \in loads \ {l} : k = j \/ k = [j EXCEPT !.latest = FALSE]
          BY <1>5, <4>2 DEF Kept
        <5>2. j \in LoadCalls
          BY DEF ViewInv, ViewTypes
        <5>3. ~j.latest
          BY <3>1 DEF ViewInv, LoadsInv, OneLatest
        <5>4. k.read = j.read /\ k.thread = j.thread /\ ~k.latest
          BY <5>1, <5>2, <5>3 DEF LoadCalls
        <5>5. QED
          BY <5>4 DEF ViewInv, ReadsForward
      <4>3. QED
        BY <4>1, <4>2
    <3>4. shown'.content <= content[shown'.thread]
      BY <3>1, <3>2
    <3>5. \A k \in loads' : k.read = -1 => ~(k.read >= 0)
      OBVIOUS
    <3>6. QED
      BY <1>6, <3>3, <3>4, <3>5 DEF ReadsForward
  <2>2. CASE ~Shows(l)
    BY <1>1, <1>5, <1>6, <2>2, KeptLoadsAreFine
  <2>3. QED
    BY <2>1, <2>2
<1>8. ShowsSelected'
  BY <1>1, <1>6 DEF ViewInv, ShowsSelected, Shows
<1>9. CatchesUp'
  <2> SUFFICES ASSUME ~effectDue, selected \in exists, missed' = FALSE, ~ReadAgain
               PROVE  Current' \/ HintComes' \/ RefreshFollows' \/ RefreshAgain' \/ LatestBrings'
    BY <1>4, <1>6, ReadAgainBrings DEF CatchesUp, ViewTypes
  <2>1. /\ missed = FALSE
        /\ \A k \in loads \ {l} : k.latest /\ k.thread = selected => k \in loads'
        /\ RefreshAgain => RefreshAgain'
        /\ RefreshFollows => effect' = effect
    BY <1>5, <1>6 DEF StaysAsIs, RefreshAgain
  <2>2. RefreshFollows => RefreshFollows'
    BY <2>1 DEF RefreshFollows
  <2>3. HintComes => HintComes'
    BY <1>1 DEF HintComes
  <2>4. CASE Current
    <3>1. CASE Shows(l)
      <4>1. l.thread = selected /\ shown'.content = l.read /\ l.read <= content[l.thread]
        BY <1>1, <3>1 DEF Shows, ViewInv, ReadsForward
      <4>2. content[selected] <= l.read
        BY <1>1, <2>4, <3>1 DEF Shows, Current, ViewInv, ReadsForward
      <4>3. content[selected] \in Nat
        BY DEF ViewInv, ViewTypes, Created
      <4>4. l.read = content[selected]
        BY <1>2, <4>1, <4>2, <4>3
      <4>5. QED
        BY <1>1, <1>6, <3>1, <4>1, <4>4 DEF Current
    <3>2. CASE ~Shows(l)
      BY <1>1, <1>6, <2>4, <3>2 DEF Current
    <3>3. QED
      BY <3>1, <3>2
  <2>5. CASE LatestBrings
    <3>1. PICK k \in loads : k.latest /\ k.thread = selected /\ k.read \in {-1, content[selected]}
      BY <2>5 DEF LatestBrings
    <3>2. CASE k = l
      <4>1. l.read = content[selected] /\ Shows(l)
        BY <1>2, <3>1, <3>2 DEF Shows
      <4>2. QED
        BY <1>1, <1>6, <3>1, <3>2, <4>1 DEF Current
    <3>3. CASE k # l
      BY <1>6, <2>1, <3>1, <3>3 DEF LatestBrings
    <3>4. QED
      BY <3>2, <3>3
  <2>6. QED
    BY <2>1, <2>2, <2>3, <2>4, <2>5 DEF ViewInv, CatchesUp
<1>10. QED
  BY <1>4, <1>7, <1>8, <1>9 DEF ViewInv

LEMMA LoadFailsKeeps ==
  ASSUME ViewInv, NEW l \in loads, LoadFails(l)
  PROVE  ViewInv'
<1>1. /\ Ended(l, Shows(l))
      /\ UNCHANGED <<threadVars, threads, selected, effectDue, stream, hints, shown, callVars>>
  BY DEF LoadFails
<1>2. PICK old \in BOOLEAN : old = Shows(l)
  <2>1. l.latest \in BOOLEAN
    BY DEF ViewInv, ViewTypes, LoadCalls
  <2>2. QED
    BY <2>1 DEF Shows
<1>3. Ended(l, old) /\ (old => l.thread = selected)
  BY <1>1, <1>2 DEF Shows
<1>4. ViewTypes' /\ LoadsInv' /\ EffectServes'
  BY <1>1, <1>3, EndKeeps DEF ViewInv, ViewTypes
<1>5. /\ loads' \subseteq LoadCalls /\ Kept(loads \ {l})
      /\ ~effectDue => \/ ReadAgain
                       \/ /\ StaysAsIs(loads \ {l}) /\ (old => missed')
                          /\ RefreshFollows => effect' = effect
  BY <1>3, EndedIs DEF ViewInv
<1>6. /\ content' = content /\ exists' = exists /\ selected' = selected /\ effectDue' = effectDue
      /\ shown' = shown
  BY <1>1 DEF threadVars
<1>7. ReadsForward'
  BY <1>5, <1>6, KeptLoadsAreFine
<1>8. ShowsSelected'
  BY <1>6 DEF ViewInv, ShowsSelected
<1>9. CatchesUp'
  <2> SUFFICES ASSUME ~effectDue, selected \in exists, missed' = FALSE, ~ReadAgain
               PROVE  Current' \/ HintComes' \/ RefreshFollows' \/ RefreshAgain' \/ LatestBrings'
    BY <1>4, <1>6, ReadAgainBrings DEF CatchesUp, ViewTypes
  <2>1. /\ missed = FALSE
        /\ \A k \in loads \ {l} : k.latest /\ k.thread = selected => k \in loads'
        /\ RefreshAgain => RefreshAgain'
        /\ RefreshFollows => effect' = effect
        /\ ~Shows(l)
    BY <1>2, <1>5, <1>6 DEF StaysAsIs, RefreshAgain
  <2>2. RefreshFollows => RefreshFollows'
    BY <2>1 DEF RefreshFollows
  <2>3. (HintComes => HintComes') /\ (Current => Current')
    BY <1>1, <1>6 DEF HintComes, Current
  <2>4. LatestBrings => LatestBrings'
    BY <1>6, <2>1 DEF LatestBrings, Shows
  <2>5. QED
    BY <2>1, <2>2, <2>3, <2>4 DEF ViewInv, CatchesUp
<1>10. QED
  BY <1>4, <1>7, <1>8, <1>9 DEF ViewInv

\* The selected thread is refreshed.
LEMMA RefreshKeeps ==
  ASSUME ViewInv, selected \in Threads, RequestRefresh(loads, selected),
         UNCHANGED <<content, exists, threads, selected, effectDue, effect, stream, shown, creation, deletion>>,
         hints' \in Nat, hints' > 0 => stream = "open", turn' # NoLoad => turn'.thread \in Threads
  PROVE  ViewInv'
<1>1. /\ loads' \subseteq LoadCalls /\ missed' \in BOOLEAN
      /\ DOMAIN refreshing' \subseteq Threads /\ refreshing' \in [DOMAIN refreshing' -> BOOLEAN]
      /\ LoadsInv' /\ Kept(loads) /\ EffectLoadStays(loads) /\ ReadAgain
  BY RefreshRequested DEF ViewInv, LoadsInv
<1>2. ViewTypes'
  BY <1>1 DEF ViewInv, ViewTypes, Created, CreatedIsNew
<1>3. ReadsForward'
  BY <1>1, KeptLoadsAreFine
<1>4. \A k \in loads' : k.owner = "effect" => stream' # "none" /\ k.thread = effect'.thread
  BY <1>1, KeptLoadsServe, NoneServe
<1>5. EffectServes'
  BY <1>1, <1>4 DEF ViewInv, EffectServes, EffectLoadStays
<1>6. ShowsSelected' /\ CatchesUp'
  BY <1>1, ReadAgainBrings DEF ViewInv, ShowsSelected
<1>7. QED
  BY <1>1, <1>2, <1>3, <1>5, <1>6 DEF ViewInv

\* So is a thread that is not selected any more.
LEMMA RefreshOfOther ==
  ASSUME ViewInv, effectDue, NEW t \in Threads, RequestRefresh(loads, t),
         UNCHANGED <<content, exists, threads, selected, effectDue, effect, stream, shown, creation, deletion>>,
         hints' \in Nat, hints' > 0 => stream = "open", turn' # NoLoad => turn'.thread \in Threads
  PROVE  ViewInv'
<1>1. /\ loads' \subseteq LoadCalls /\ missed' \in BOOLEAN
      /\ DOMAIN refreshing' \subseteq Threads /\ refreshing' \in [DOMAIN refreshing' -> BOOLEAN]
      /\ LoadsInv' /\ Kept(loads) /\ EffectLoadStays(loads)
  BY RefreshRequested DEF ViewInv, LoadsInv
<1>2. ViewTypes'
  BY <1>1 DEF ViewInv, ViewTypes, Created, CreatedIsNew
<1>3. ReadsForward'
  BY <1>1, KeptLoadsAreFine
<1>4. \A k \in loads' : k.owner = "effect" => stream' # "none" /\ k.thread = effect'.thread
  BY <1>1, KeptLoadsServe, NoneServe
<1>5. EffectServes'
  BY <1>1, <1>4 DEF ViewInv, EffectServes, EffectLoadStays
<1>6. ShowsSelected' /\ CatchesUp'
  BY DEF ShowsSelected, CatchesUp
<1>7. QED
  BY <1>1, <1>2, <1>3, <1>5, <1>6 DEF ViewInv

LEMMA HintArrivesKeeps ==
  ASSUME ViewInv, HintArrives
  PROVE  ViewInv'
<1>1. /\ hints > 0 /\ hints' = hints - 1
      /\ UNCHANGED <<threadVars, threads, selected, effectDue, stream, shown, callVars, boundVars>>
  BY DEF HintArrives
<1>2. hints \in Nat /\ stream = "open" /\ effect \in Effect
  BY <1>1 DEF ViewInv, ViewTypes, EffectServes
<1>3. hints' \in Nat
  BY <1>1, <1>2
<1>4. CASE effect.pending
  <2>1. effect' = [effect EXCEPT !.queued = TRUE] /\ UNCHANGED <<loads, refreshing, missed>>
    BY <1>4 DEF HintArrives
  <2>2. effect' \in Effect /\ effect'.pending /\ effect'.queued /\ effect'.thread = effect.thread
    BY <1>2, <1>4, <2>1 DEF Effect
  <2>3. ViewTypes'
    BY <1>1, <1>3, <2>1 DEF ViewInv, ViewTypes, threadVars, callVars, Created, CreatedIsNew
  <2>4. LoadsInv' /\ ReadsForward' /\ ShowsSelected'
    BY <1>1, <2>1 DEF ViewInv, LoadsInv, ReadsForward, ShowsSelected, threadVars
  <2>5. EffectServes'
    BY <1>1, <1>2, <1>4, <2>1, <2>2 DEF ViewInv, EffectServes
  <2>6. CatchesUp'
    BY <2>2 DEF CatchesUp, RefreshFollows
  <2>7. QED
    BY <2>3, <2>4, <2>5, <2>6 DEF ViewInv
<1>5. CASE ~effect.pending
  <2>1. RequestRefresh(loads, effect.thread) /\ effect' = effect /\ effect.thread \in Threads
    BY <1>2, <1>5 DEF HintArrives, Effect
  <2>2. /\ UNCHANGED <<content, exists, threads, selected, effectDue, effect, stream, shown, creation, deletion>>
        /\ turn' # NoLoad => turn'.thread \in Threads
    BY <1>1, <2>1 DEF threadVars, callVars, ViewInv, ViewTypes
  <2>3. CASE effectDue
    BY <1>2, <1>3, <2>1, <2>2, <2>3, RefreshOfOther
  <2>4. CASE ~effectDue
    <3>1. effect.thread = selected
      BY <1>2, <2>4 DEF ViewInv, EffectServes
    <3>2. QED
      BY <1>2, <1>3, <2>1, <2>2, <3>1, RefreshKeeps
  <2>5. QED
    BY <2>3, <2>4
<1>6. QED
  BY <1>4, <1>5

\* Nothing that the panel shows or awaits changes.
PanelVars == <<content, selected, effectDue, effect, stream, hints, loads, refreshing, shown, missed>>

LEMMA PanelStays ==
  ASSUME ViewInv, UNCHANGED PanelVars, exists' \subseteq exists, threads' \subseteq Created,
         turn' # NoLoad => turn'.thread \in Threads,
         deletion' # NoLoad => deletion'.thread \in Threads /\ deletion'.list \subseteq Created,
         CreatedIsNew'
  PROVE  ViewInv'
<1>1. ViewTypes'
  BY DEF PanelVars, ViewInv, ViewTypes, Created
<1>2. LoadsInv' /\ ReadsForward' /\ EffectServes' /\ ShowsSelected'
  BY DEF PanelVars, ViewInv, LoadsInv, ReadsForward, EffectServes, ShowsSelected
<1>3. CatchesUp'
  BY DEF PanelVars, ViewInv, CatchesUp, Current, HintComes, RefreshFollows, RefreshAgain, LatestBrings
<1>4. QED
  BY <1>1, <1>2, <1>3 DEF ViewInv

\* Something happens to a thread: its stream has a hint, or is about to begin with one.
LEMMA HappensKeeps ==
  ASSUME ViewInv, NEW t \in exists, Happens(t),
         UNCHANGED <<exists, threads, selected, effectDue, effect, stream, loads, refreshing, shown,
                     creation, deletion, missed>>,
         turn' # NoLoad => turn'.thread \in Threads
  PROVE  ViewInv'
<1>1. t \in Threads /\ content[t] \in Nat /\ content' = [content EXCEPT ![t] = @ + 1]
  BY DEF ViewInv, ViewTypes, Created, Happens
<1>2. /\ content' \in [Threads -> Nat \cup {-1}]
      /\ \A u \in Threads : content'[u] = IF u = t THEN content[u] + 1 ELSE content[u]
  BY <1>1 DEF ViewInv, ViewTypes
<1>3. \A u \in Threads : content[u] \in Nat \cup {-1} /\ content[u] <= content'[u]
  BY <1>1, <1>2 DEF ViewInv, ViewTypes
<1>4. Created' = Created
  BY <1>1, <1>2 DEF Created
<1>5. /\ hints' = IF stream = "open" /\ effect.thread = t THEN hints + 1 ELSE hints
      /\ hints \in Nat
  BY DEF Happens, ViewInv, ViewTypes
<1>6. hints' \in Nat /\ (hints' > 0 => hints > 0 \/ stream = "open")
  BY <1>5
<1>7. ViewTypes'
  BY <1>2, <1>4, <1>6 DEF ViewInv, ViewTypes, CreatedIsNew
<1>8. LoadsInv' /\ ShowsSelected'
  BY DEF ViewInv, LoadsInv, ShowsSelected
<1>9. EffectServes'
  BY <1>6 DEF ViewInv, EffectServes
<1>10. ReadsForward'
  <2>1. shown.thread # NoThread => shown.content <= content'[shown.thread]
    <3>1. shown.thread # NoThread => shown.thread \in Threads
      BY DEF ViewInv, ViewTypes
    <3>2. shown.content \in Nat
      BY DEF ViewInv, ViewTypes
    <3>3. QED
      BY <1>2, <1>3, <3>1, <3>2 DEF ViewInv, ReadsForward
  <2>2. ASSUME NEW l \in loads
        PROVE  l.read <= content'[l.thread]
    <3>1. l.thread \in Threads /\ l.read \in Nat \cup {-1}
      BY DEF ViewInv, ViewTypes, LoadCalls
    <3>2. QED
      BY <1>2, <1>3, <3>1 DEF ViewInv, ReadsForward
  <2>3. QED
    BY <2>1, <2>2 DEF ViewInv, ReadsForward
<1>11. CatchesUp'
  <2>1. CASE t = selected /\ ~effectDue
    <3>1. stream # "none" /\ effect.thread = t
      BY <1>1, <2>1, ViewAssumption DEF ViewInv, EffectServes
    <3>2. stream = "opening" \/ hints' > 0
      BY <1>5, <3>1 DEF ViewInv, ViewTypes
    <3>3. QED
      BY <3>2 DEF CatchesUp, HintComes
  <2>2. CASE t # selected
    <3>1. selected \in exists => content'[selected] = content[selected]
      BY <1>2, <2>2 DEF ViewInv, ViewTypes, Created
    <3>2. HintComes => HintComes'
      BY <1>5 DEF HintComes
    <3>3. (RefreshFollows => RefreshFollows') /\ (RefreshAgain => RefreshAgain')
      BY DEF RefreshFollows, RefreshAgain
    <3>4. selected \in exists => (Current => Current') /\ (LatestBrings => LatestBrings')
      BY <3>1 DEF Current, LatestBrings
    <3>5. QED
      BY <3>2, <3>3, <3>4 DEF ViewInv, CatchesUp
  <2>3. CASE effectDue
    BY <2>3 DEF CatchesUp
  <2>4. QED
    BY <2>1, <2>2, <2>3
<1>12. QED
  BY <1>7, <1>8, <1>9, <1>10, <1>11 DEF ViewInv

LEMMA EffectRunsKeeps ==
  ASSUME ViewInv, EffectRuns
  PROVE  ViewInv'
<1>1. PICK ls : ls = {IF l.owner = "effect" THEN [l EXCEPT !.owner = "nobody"] ELSE l : l \in loads}
  OBVIOUS
<1>2. /\ effectDue' = FALSE /\ shown' = NoSnapshot /\ hints' = 0
      /\ UNCHANGED <<threadVars, threads, selected, refreshing, callVars, boundVars>>
      /\ IF selected = NoThread
         THEN /\ effect' = NoLoad /\ stream' = "none"
              /\ loads' = {l \in ls : l.latest \/ l.owner # "nobody"} /\ UNCHANGED missed
         ELSE /\ effect' = [thread |-> selected, pending |-> TRUE, queued |-> FALSE]
              /\ stream' = "opening" /\ Load(ls, selected, "effect")
  BY <1>1 DEF EffectRuns
\* The loads are the same, but for those of the effect.
<1>3. ASSUME NEW k \in ls
      PROVE  /\ k \in LoadCalls /\ k.owner # "effect"
             /\ \E l \in loads : /\ k.thread = l.thread /\ k.read = l.read
                                 /\ k.owner = "queue" => k = l
  <2>1. PICK l \in loads : k = IF l.owner = "effect" THEN [l EXCEPT !.owner = "nobody"] ELSE l
    BY <1>1
  <2>2. l \in LoadCalls
    BY DEF ViewInv, ViewTypes
  <2>3. CASE l.owner = "effect"
    BY <2>1, <2>2, <2>3 DEF LoadCalls, Owners
  <2>4. CASE l.owner # "effect"
    BY <2>1, <2>2, <2>4 DEF LoadCalls, Owners
  <2>5. QED
    BY <2>3, <2>4
<1>4. OneOfEach(ls)
  BY <1>3 DEF ViewInv, LoadsInv, OneOfEach
<1>5. Queued(ls) = Queued(loads)
  <2>1. \A k \in ls : k.owner = "queue" => k \in loads
    BY <1>3
  <2>2. \A k \in loads : k.owner = "queue" => k \in ls
    BY <1>1
  <2>3. QED
    BY <2>1, <2>2 DEF Queued
<1>6. \A k \in ls : content[k.thread] \in Nat \cup {-1} /\ k.read <= content[k.thread]
  BY <1>3 DEF ViewInv, ViewTypes, ReadsForward, LoadCalls
<1>7. NoSnapshot \in [thread : Threads \cup {NoThread}, content : Nat] /\ NoSnapshot.thread = NoThread
  BY DEF NoSnapshot
<1>8. CASE selected = NoThread
  <2>1. /\ effect' = NoLoad /\ stream' = "none" /\ missed' = missed
        /\ loads' = {l \in ls : l.latest \/ l.owner # "nobody"}
    BY <1>2, <1>8
  <2>2. loads' \subseteq ls /\ loads' \subseteq LoadCalls
    BY <1>3, <2>1
  <2>3. ViewTypes'
    BY <1>2, <1>7, <2>1, <2>2 DEF ViewInv, ViewTypes, threadVars, callVars, Created, CreatedIsNew
  <2>4. LoadsInv'
    <3>1. Queued(loads') = Queued(ls)
      BY <2>1 DEF Queued
    <3>2. OneOfEach(loads')
      BY <1>4, <2>2 DEF OneOfEach
    <3>3. ASSUME NEW k \in loads', NEW l \in loads', k.latest, l.latest
          PROVE  k = l
      <4>1. PICK a, b \in loads : /\ k = IF a.owner = "effect" THEN [a EXCEPT !.owner = "nobody"] ELSE a
                                  /\ l = IF b.owner = "effect" THEN [b EXCEPT !.owner = "nobody"] ELSE b
        BY <1>1, <2>2
      <4>2. a \in LoadCalls /\ b \in LoadCalls
        BY DEF ViewInv, ViewTypes
      <4>3. a.latest /\ b.latest
        BY <3>3, <4>1, <4>2 DEF LoadCalls
      <4>4. a = b
        BY <4>3 DEF ViewInv, LoadsInv, OneLatest
      <4>5. QED
        BY <4>1, <4>4
    <3>4. QED
      BY <1>2, <1>5, <3>1, <3>2, <3>3 DEF ViewInv, LoadsInv, OneLatest
  <2>5. ReadsForward'
    BY <1>2, <1>6, <1>7, <2>2, ViewAssumption DEF ReadsForward, threadVars, LoadCalls
  <2>6. EffectServes'
    BY <1>2, <1>3, <1>8, <2>1, <2>2 DEF EffectServes
  <2>7. ShowsSelected' /\ CatchesUp'
    <3>1. selected \notin exists
      BY <1>8, ViewAssumption DEF ViewInv, ViewTypes, Created
    <3>2. QED
      BY <1>2, <1>7, <3>1 DEF ShowsSelected, CatchesUp, threadVars
  <2>8. QED
    BY <2>3, <2>4, <2>5, <2>6, <2>7 DEF ViewInv
<1>9. CASE selected # NoThread
  <2>1. /\ effect' = [thread |-> selected, pending |-> TRUE, queued |-> FALSE]
        /\ stream' = "opening" /\ Load(ls, selected, "effect")
    BY <1>2, <1>9
  <2>2. selected \in Threads /\ "effect" \in Owners /\ ls \subseteq LoadCalls
    BY <1>3, <1>9 DEF ViewInv, ViewTypes, Created, Owners
  <2>3. PICK new \in loads' :
          /\ new = [thread |-> selected, owner |-> "effect", latest |-> TRUE, read |-> -1]
          /\ \A k \in loads' : k = new \/ \E j \in ls : /\ j.owner # "nobody"
                                                       /\ k = [j EXCEPT !.latest = FALSE]
    BY <2>1, <2>2, LoadIs
  <2>4. loads' \subseteq LoadCalls
    BY <2>1, <2>2, LoadIs
  <2>5. Queued(loads') = Queued(ls) /\ OneOfEach(loads') /\ OneLatest(loads')
    BY <1>4, <2>1, <2>2, LoadKeepsOrder
  <2>6. effect' \in Effect /\ effect'.thread = selected /\ missed' = FALSE
    BY <2>1, <2>2 DEF Effect, Load
  <2>7. ViewTypes'
    BY <1>2, <1>7, <2>1, <2>4, <2>6 DEF ViewInv, ViewTypes, threadVars, callVars, Created, CreatedIsNew
  <2>8. LoadsInv'
    BY <1>2, <1>5, <2>5 DEF ViewInv, LoadsInv
  <2>9. \A k \in loads' : k = new \/ (k.owner # "effect" /\ k.read <= content[k.thread])
    BY <1>3, <1>6, <2>3 DEF LoadCalls
  <2>10. ReadsForward'
    <3>1. content[selected] \in Nat
      BY <2>2, <1>9 DEF ViewInv, ViewTypes, Created
    <3>2. \A k \in loads' : k.read <= content[k.thread] /\ k.thread # NoThread
      BY <2>3, <2>4, <2>9, <3>1, ViewAssumption DEF LoadCalls
    <3>3. QED
      BY <1>2, <1>7, <3>2 DEF ReadsForward, threadVars
  <2>11. EffectServes'
    BY <1>2, <2>1, <2>3, <2>6, <2>9 DEF EffectServes
  <2>12. ShowsSelected' /\ CatchesUp'
    BY <1>2, <1>7, <2>3 DEF ShowsSelected, CatchesUp, LatestBrings
  <2>13. QED
    BY <2>7, <2>8, <2>10, <2>11, <2>12 DEF ViewInv
<1>10. QED
  BY <1>8, <1>9

LEMMA StreamKeeps ==
  ASSUME ViewInv, StreamOpens \/ StreamDrops
  PROVE  ViewInv'
<1>1. UNCHANGED <<threadVars, threads, selected, effectDue, effect, loads, refreshing, shown, callVars, missed>>
  BY DEF StreamOpens, StreamDrops
<1>2. /\ stream # "none" /\ stream' \in {"opening", "open"}
      /\ (stream' = "opening" /\ hints' = 0) \/ (stream' = "open" /\ hints' = hints + 1)
  BY DEF StreamOpens, StreamDrops
<1>3. hints \in Nat
  BY DEF ViewInv, ViewTypes
<1>4. hints' \in Nat /\ (hints' > 0 => stream' = "open") /\ (stream' = "opening" \/ hints' > 0)
  BY <1>2, <1>3
<1>5. ViewTypes'
  BY <1>1, <1>2, <1>4 DEF ViewInv, ViewTypes, threadVars, callVars, Created, CreatedIsNew
<1>6. LoadsInv' /\ ReadsForward' /\ ShowsSelected'
  BY <1>1 DEF ViewInv, LoadsInv, ReadsForward, ShowsSelected, threadVars
<1>7. EffectServes'
  BY <1>1, <1>2, <1>4 DEF ViewInv, EffectServes
<1>8. CatchesUp'
  BY <1>4 DEF CatchesUp, HintComes
<1>9. QED
  BY <1>5, <1>6, <1>7, <1>8 DEF ViewInv

\* The user selects, opens or deletes a thread.
LEMMA ChoicesKeep ==
  ASSUME ViewInv, \/ SelectThread \/ BeginNewConversation
                  \/ CreateStores \/ CreateAnswers \/ RemoveAnswers
  PROVE  ViewInv'
<1>1. CASE SelectThread /\ selected' = selected
  <2>1. PICK t \in threads : Choose(t) /\ (t # selected \/ shown.thread # t)
    BY <1>1 DEF SelectThread
  <2>2. t = selected /\ effectDue' = effectDue /\ selected \in Threads
    BY <1>1, <2>1 DEF Choose, ViewInv, ViewTypes, Created
  <2>3. /\ Load(loads, selected, "nobody") /\ shown' = shown
        /\ UNCHANGED <<threadVars, threads, effectVars, refreshing, callVars, losses>>
    BY <1>1 DEF SelectThread
  <2>4. /\ loads \subseteq LoadCalls /\ OneOfEach(loads) /\ "nobody" \in Owners
        /\ "nobody" \in {"queue", "nobody"}
    BY DEF ViewInv, ViewTypes, LoadsInv, Owners
  <2>5. loads' \subseteq LoadCalls
    BY <2>2, <2>3, <2>4, LoadIs
  <2>6. /\ Queued(loads') = Queued(loads) \cup (IF "nobody" = "queue" THEN {selected} ELSE {})
        /\ OneOfEach(loads') /\ OneLatest(loads')
    BY <2>2, <2>3, <2>4, LoadKeepsOrder
  <2>7. Queued(loads') = Queued(loads)
    BY <2>6
  <2>8. Kept(loads) /\ EffectLoadStays(loads) /\ ReadAgain /\ missed' = FALSE
    <3>1. /\ Kept(loads) /\ EffectLoadStays(loads)
          /\ IF selected = selected THEN ReadAgain /\ missed' = FALSE ELSE StaysAsIs(loads)
      BY <2>2, <2>3, <2>4, LoadForRefresh DEF ViewInv
    <3>2. QED
      BY <3>1
  <2>9. ViewTypes'
    BY <1>1, <2>2, <2>3, <2>5, <2>8 DEF ViewInv, ViewTypes, threadVars, effectVars, callVars, Created,
       CreatedIsNew
  <2>10. LoadsInv'
    BY <2>3, <2>6, <2>7 DEF ViewInv, LoadsInv
  <2>11. ReadsForward'
    BY <2>3, <2>5, <2>8, KeptLoadsAreFine DEF threadVars
  <2>12. EffectServes'
    <3>1. \A k \in loads' : k.owner = "effect" => stream' # "none" /\ k.thread = effect'.thread
      BY <2>3, <2>8, KeptLoadsServe, NoneServe DEF effectVars
    <3>2. QED
      BY <1>1, <2>2, <2>3, <2>8, <3>1 DEF ViewInv, EffectServes, EffectLoadStays, effectVars
  <2>13. ShowsSelected' /\ CatchesUp'
    BY <1>1, <2>2, <2>3, <2>8, ReadAgainBrings DEF ViewInv, ShowsSelected
  <2>14. QED
    BY <2>9, <2>10, <2>11, <2>12, <2>13 DEF ViewInv
\* Otherwise the effect is due.
<1>2. CASE \/ SelectThread /\ selected' # selected
           \/ BeginNewConversation \/ CreateAnswers
           \/ RemoveAnswers /\ selected = deletion.thread
  <2>1. /\ effectDue' = TRUE /\ UNCHANGED <<threadVars, effectVars, loads, refreshing, turn, missed>>
        /\ threads' \subseteq Created /\ selected' \in Created \cup {NoThread}
        /\ deletion' # NoLoad => deletion' = deletion
        /\ creation' # NoLoad /\ creation'.at = "stored" =>
             creation' = creation /\ selected' # creation.thread /\ creation.thread \notin threads'
        /\ shown' \in {shown, NoSnapshot} \cup [thread : Created, content : {0}]
    <3>1. CASE SelectThread /\ selected' # selected
      <4>1. PICK t \in threads : Choose(t)
        BY <3>1 DEF SelectThread
      <4>2. /\ selected' = t /\ effectDue' = TRUE
            /\ UNCHANGED <<threadVars, threads, effectVars, loads, refreshing, callVars, missed, shown>>
        BY <3>1, <4>1 DEF SelectThread, Choose
      <4>3. QED
        BY <4>2 DEF ViewInv, ViewTypes, CreatedIsNew, callVars
    <3>2. CASE BeginNewConversation
      <4>1. /\ selected' = NoThread /\ effectDue' = TRUE /\ shown' = NoSnapshot
            /\ UNCHANGED <<threadVars, threads, effectVars, loads, refreshing, callVars, missed>>
        BY <3>2 DEF BeginNewConversation, Choose
      <4>2. NoThread \notin Created
        BY ViewAssumption DEF Created
      <4>3. QED
        BY <4>1, <4>2 DEF ViewInv, ViewTypes, CreatedIsNew, callVars
    <3>3. CASE CreateAnswers
      <4>1. /\ creation # NoLoad /\ creation.at = "stored" /\ creation' = NoLoad
            /\ threads' = threads \cup {creation.thread} /\ selected' = creation.thread
            /\ effectDue' = (effectDue \/ creation.thread # selected)
            /\ shown' = [thread |-> creation.thread, content |-> 0]
            /\ UNCHANGED <<threadVars, effectVars, loads, refreshing, turn, deletion, missed>>
        BY <3>3 DEF CreateAnswers, Choose
      <4>2. creation.thread \in Created /\ creation.thread # selected
        BY <4>1 DEF ViewInv, ViewTypes, CreatedIsNew
      <4>3. QED
        BY <4>1, <4>2 DEF ViewInv, ViewTypes
    <3>4. CASE RemoveAnswers /\ selected = deletion.thread
      <4>1. PICK t \in (IF threads' = {} THEN {NoThread} ELSE threads') : Choose(t)
        BY <3>4 DEF RemoveAnswers
      <4>2. /\ deletion # NoLoad /\ deletion' = NoLoad /\ threads' = deletion.list \ {deletion.thread}
            /\ selected' = t /\ effectDue' = (effectDue \/ t # selected) /\ shown' = NoSnapshot
            /\ UNCHANGED <<threadVars, effectVars, loads, refreshing, turn, creation, missed>>
        BY <3>4, <4>1 DEF RemoveAnswers, Choose
      <4>3. /\ threads' \subseteq Created /\ NoThread \notin Created
            /\ \/ t = NoThread /\ threads' = {}
               \/ t \in threads'
        BY <4>1, <4>2, ViewAssumption DEF ViewInv, ViewTypes, Created
      <4>4. t # deletion.thread
        <5>1. CASE t \in threads'
          BY <4>2, <5>1
        <5>2. CASE t = NoThread
          BY <4>2, <5>2, ViewAssumption DEF ViewInv, ViewTypes
        <5>3. QED
          BY <4>3, <5>1, <5>2
      <4>5. creation # NoLoad /\ creation.at = "stored" =>
              t # creation.thread /\ creation.thread \notin threads'
        BY <4>2, <4>3 DEF ViewInv, ViewTypes, CreatedIsNew
      <4>6. QED
        BY <3>4, <4>2, <4>3, <4>4, <4>5
    <3>5. QED
      BY <1>2, <3>1, <3>2, <3>3, <3>4
  <2>2. content' = content /\ exists' = exists /\ Created' = Created
    BY <2>1 DEF threadVars, Created
  <2>3. ViewTypes'
    <3>1. shown' \in [thread : Threads \cup {NoThread}, content : Nat]
      BY <2>1 DEF ViewInv, ViewTypes, NoSnapshot, Created
    <3>2. CreatedIsNew'
      BY <2>1, <2>2 DEF ViewInv, ViewTypes, CreatedIsNew
    <3>3. QED
      BY <2>1, <2>2, <3>1, <3>2 DEF ViewInv, ViewTypes, effectVars
  <2>4. LoadsInv'
    BY <2>1 DEF ViewInv, LoadsInv
  <2>5. ReadsForward'
    <3>1. CASE shown' = shown
      BY <2>1, <2>2, <3>1 DEF ViewInv, ReadsForward
    <3>2. CASE shown' = NoSnapshot \/ shown' \in [thread : Created, content : {0}]
      <4>1. shown'.content = 0 /\ (shown'.thread = NoThread \/ shown'.thread \in Created)
        BY <3>2 DEF NoSnapshot
      <4>2. \A l \in loads : l.read <= content[l.thread]
        BY DEF ViewInv, ReadsForward
      <4>3. shown'.thread # NoThread => 0 <= content[shown'.thread]
        BY <4>1 DEF Created
      <4>4. loads' = loads
        BY <2>1
      <4>5. QED
        BY <2>2, <4>1, <4>2, <4>3, <4>4 DEF ReadsForward
    <3>3. QED
      BY <2>1, <3>1, <3>2
  <2>6. EffectServes' /\ ShowsSelected' /\ CatchesUp'
    BY <2>1 DEF ViewInv, EffectServes, ShowsSelected, CatchesUp, effectVars
  <2>7. QED
    BY <2>3, <2>4, <2>5, <2>6 DEF ViewInv
<1>3. CASE RemoveAnswers /\ selected # deletion.thread
  <2>1. /\ deletion # NoLoad /\ deletion' = NoLoad /\ threads' = deletion.list \ {deletion.thread}
        /\ UNCHANGED <<selected, effectDue, shown, threadVars, effectVars, loads, refreshing, turn, creation, missed>>
    BY <1>3 DEF RemoveAnswers
  <2>2. CreatedIsNew'
    BY <2>1 DEF ViewInv, ViewTypes, CreatedIsNew, Created, threadVars
  <2>3. threads' \subseteq Created /\ UNCHANGED PanelVars /\ exists' = exists
    BY <2>1 DEF ViewInv, ViewTypes, PanelVars, threadVars, effectVars
  <2>4. QED
    BY <2>1, <2>2, <2>3, PanelStays DEF ViewInv, ViewTypes
<1>4. CASE CreateStores
  <2>1. PICK t \in Threads :
          /\ content[t] = -1 /\ content' = [content EXCEPT ![t] = 0]
          /\ exists' = exists \cup {t} /\ creation' = [at |-> "stored", thread |-> t]
    BY <1>4 DEF CreateStores
  <2>2. UNCHANGED <<threads, selected, effectDue, effectVars, loads, refreshing, shown, turn, deletion, missed>>
    BY <1>4 DEF CreateStores
  <2>3. /\ t \notin Created /\ Created' = Created \cup {t}
        /\ \A u \in Threads \ {t} : content'[u] = content[u]
        /\ content'[t] = 0 /\ content' \in [Threads -> Nat \cup {-1}]
    BY <2>1 DEF ViewInv, ViewTypes, Created
  <2>4. t # selected /\ t \notin exists /\ t \notin threads /\ NoThread \notin Created
    BY <2>1, <2>3, ViewAssumption DEF ViewInv, ViewTypes, Created
  <2>5. CreatedIsNew'
    BY <2>1, <2>2, <2>3, <2>4 DEF ViewInv, ViewTypes, CreatedIsNew
  <2>6. ViewTypes'
    BY <2>1, <2>2, <2>3, <2>5 DEF ViewInv, ViewTypes, effectVars
  <2>7. LoadsInv' /\ EffectServes' /\ ShowsSelected'
    BY <2>2 DEF ViewInv, LoadsInv, EffectServes, ShowsSelected, effectVars
  <2>8. \A u \in Threads : content[u] <= content'[u]
    BY <2>1, <2>3 DEF ViewInv, ViewTypes
  <2>9. ReadsForward'
    <3>1. shown.thread # NoThread => shown.content <= content'[shown.thread]
      <4>1. shown.thread # NoThread => shown.thread \in Threads
        BY DEF ViewInv, ViewTypes
      <4>2. shown.content \in Nat
        BY DEF ViewInv, ViewTypes
      <4>3. \A u \in Threads : content[u] \in Nat \cup {-1} /\ content'[u] \in Nat \cup {-1}
        BY <2>3 DEF ViewInv, ViewTypes
      <4>4. QED
        BY <2>8, <4>1, <4>2, <4>3 DEF ViewInv, ReadsForward
    <3>2. ASSUME NEW l \in loads
          PROVE  l.read <= content'[l.thread]
      <4>1. l.thread \in Threads /\ l.read \in Nat \cup {-1}
        BY DEF ViewInv, ViewTypes, LoadCalls
      <4>2. content[l.thread] \in Nat \cup {-1} /\ content'[l.thread] \in Nat \cup {-1}
        BY <2>3, <4>1 DEF ViewInv, ViewTypes
      <4>3. QED
        BY <2>8, <4>1, <4>2 DEF ViewInv, ReadsForward
    <3>3. QED
      BY <2>2, <3>1, <3>2 DEF ViewInv, ReadsForward
  <2>10. CatchesUp'
    <3>1. selected \in Threads => content'[selected] = content[selected]
      BY <2>3, <2>4
    <3>2. selected' \in exists' => selected \in exists /\ selected \in Threads
      BY <2>1, <2>2, <2>4 DEF ViewInv, ViewTypes, Created
    <3>3. selected \in Threads => /\ Current => Current'
                                  /\ LatestBrings => LatestBrings'
      BY <2>2, <3>1 DEF Current, LatestBrings
    <3>4. /\ HintComes => HintComes'
          /\ RefreshFollows => RefreshFollows'
          /\ RefreshAgain => RefreshAgain'
      BY <2>2 DEF HintComes, RefreshFollows, RefreshAgain, effectVars
    <3>5. QED
      BY <2>2, <3>2, <3>3, <3>4 DEF ViewInv, CatchesUp
  <2>11. QED
    BY <2>6, <2>7, <2>9, <2>10 DEF ViewInv
<1>5. QED
  BY <1>1, <1>2, <1>3, <1>4

LEMMA ViewSteps ==
  ASSUME ViewInv, ViewNext
  PROVE  ViewInv'
<1>1. CASE \E l \in loads : LoadReads(l) \/ LoadAnswers(l) \/ LoadFails(l)
  BY <1>1, LoadReadsKeeps, LoadAnswersKeeps, LoadFailsKeeps
<1>2. CASE EffectRuns \/ StreamOpens \/ StreamDrops \/ HintArrives
  BY <1>2, EffectRunsKeeps, StreamKeeps, HintArrivesKeeps
<1>3. CASE Event
  <2>1. PICK t \in exists : Happens(t)
    BY <1>3 DEF Event
  <2>2. /\ UNCHANGED <<exists, threads, selected, effectDue, effect, stream, loads, refreshing, shown,
                       creation, deletion, missed>>
        /\ turn' = turn
    BY <1>3 DEF Event, callVars
  <2>3. QED
    BY <2>1, <2>2, HappensKeeps DEF ViewInv, ViewTypes
<1>4. CASE MessageStores
  <2>1. turn.thread \in exists /\ Happens(turn.thread) /\ turn' = [turn EXCEPT !.at = "done"]
    BY <1>4 DEF MessageStores
  <2>2. turn # NoLoad /\ turn'.thread \in Threads
    BY <1>4, <2>1 DEF MessageStores, ViewInv, ViewTypes, Created
  <2>3. UNCHANGED <<exists, threads, selected, effectDue, effect, stream, loads, refreshing, shown,
                    creation, deletion, missed>>
    BY <1>4 DEF MessageStores
  <2>4. QED
    BY <2>1, <2>2, <2>3, HappensKeeps
<1>5. CASE SelectThread \/ BeginNewConversation \/ CreateStores \/ CreateAnswers \/ RemoveAnswers
  BY <1>5, ChoicesKeep
<1>6. CASE MessageAnswers
  <2>1. /\ turn # NoLoad /\ turn' = NoLoad /\ turn.thread \in Threads
        /\ UNCHANGED <<threadVars, threads, selected, effectDue, effectVars, shown, creation, deletion>>
    BY <1>6 DEF MessageAnswers, ViewInv, ViewTypes
  <2>2. CASE selected = turn.thread
    <3>1. RequestRefresh(loads, selected)
      BY <1>6, <2>2 DEF MessageAnswers
    <3>2. hints \in Nat /\ (hints > 0 => stream = "open")
      BY DEF ViewInv, ViewTypes, EffectServes
    <3>3. /\ UNCHANGED <<content, exists, threads, selected, effectDue, effect, stream, shown, creation, deletion>>
          /\ hints' = hints
      BY <2>1 DEF threadVars, effectVars
    <3>4. QED
      BY <2>1, <2>2, <3>1, <3>2, <3>3, RefreshKeeps
  <2>3. CASE selected # turn.thread
    <3>1. UNCHANGED PanelVars /\ UNCHANGED <<exists, threads, creation, deletion>>
      BY <1>6, <2>1, <2>3 DEF MessageAnswers, PanelVars, threadVars, effectVars
    <3>2. CreatedIsNew'
      BY <3>1 DEF ViewInv, ViewTypes, CreatedIsNew, Created, PanelVars
    <3>3. QED
      BY <2>1, <3>1, <3>2, PanelStays DEF ViewInv, ViewTypes
  <2>4. QED
    BY <2>2, <2>3
<1>7. CASE CreateThread \/ SendMessage
  <2>1. /\ UNCHANGED PanelVars /\ UNCHANGED <<exists, threads, deletion>>
        /\ turn' = turn \/ turn'.thread \in Threads
        /\ creation' = creation \/ creation'.at = "asked"
    <3>1. CASE CreateThread
      BY <3>1 DEF CreateThread, PanelVars, threadVars, effectVars
    <3>2. CASE SendMessage
      BY <3>2 DEF SendMessage, PanelVars, threadVars, effectVars, ViewInv, ViewTypes
    <3>3. QED
      BY <1>7, <3>1, <3>2
  <2>2. CreatedIsNew'
    BY <2>1 DEF ViewInv, ViewTypes, CreatedIsNew, Created, PanelVars
  <2>3. QED
    BY <2>1, <2>2, PanelStays DEF ViewInv, ViewTypes
<1>8. CASE RemoveThread
  <2>1. PICK t \in threads : deletion' = [thread |-> t, at |-> "asked", list |-> threads]
    BY <1>8 DEF RemoveThread
  <2>2. UNCHANGED PanelVars /\ UNCHANGED <<exists, threads, turn, creation>>
    BY <1>8 DEF RemoveThread, PanelVars, threadVars, effectVars
  <2>3. deletion'.thread \in Threads /\ deletion'.list = threads /\ threads \subseteq Created
    BY <2>1 DEF ViewInv, ViewTypes, Created
  <2>4. CreatedIsNew'
    BY <2>2, <2>3 DEF ViewInv, ViewTypes, CreatedIsNew, Created, PanelVars
  <2>5. QED
    BY <2>2, <2>3, <2>4, PanelStays DEF ViewInv, ViewTypes
<1>9. CASE RemoveStores
  <2>1. /\ deletion # NoLoad /\ deletion' = [deletion EXCEPT !.at = "done"]
        /\ exists' \subseteq exists /\ UNCHANGED PanelVars /\ UNCHANGED <<threads, turn, creation>>
    BY <1>9 DEF RemoveStores, PanelVars, effectVars
  <2>2. deletion'.list \subseteq Created /\ deletion'.thread \in Threads
    BY <2>1 DEF ViewInv, ViewTypes
  <2>3. CreatedIsNew'
    BY <2>1 DEF ViewInv, ViewTypes, CreatedIsNew, Created, PanelVars
  <2>4. QED
    BY <2>1, <2>2, <2>3, PanelStays DEF ViewInv, ViewTypes
<1>10. QED
  BY <1>1, <1>2, <1>3, <1>4, <1>5, <1>6, <1>7, <1>8, <1>9 DEF ViewNext

LEMMA ViewStutters ==
  ASSUME ViewInv, UNCHANGED viewVars
  PROVE  ViewInv'
<1>1. UNCHANGED PanelVars /\ UNCHANGED <<exists, threads, turn, creation, deletion>>
  BY DEF viewVars, PanelVars
<1>2. CreatedIsNew'
  BY <1>1 DEF ViewInv, ViewTypes, CreatedIsNew, Created, PanelVars
<1>3. QED
  BY <1>1, <1>2, PanelStays DEF ViewInv, ViewTypes

\* The invariant of the chat panel: its refresh queue, its latest load, the effect of the
\* selection, and what is under way for the selected thread.
THEOREM ViewInvariant == ViewSpec => []ViewInv
<1>1. ViewInv /\ [ViewNext]_viewVars => ViewInv'
  BY ViewSteps, ViewStutters
<1>2. QED
  BY ViewBegins, <1>1, PTL DEF ViewSpec

\* The panel shows the selected thread and no other, and, when nothing is under way, all
\* of its events, unless a load failed or was overtaken by that of another thread.
THEOREM PanelFollows == ViewSpec => []ViewFollows
<1>1. ASSUME ViewInv
      PROVE  ViewFollows
  <2>1. ShowsSelected
    BY <1>1 DEF ViewInv
  <2>2. ASSUME Quiet, selected \in exists, ~missed
        PROVE  shown = [thread |-> selected, content |-> content[selected]]
    <3>1. loads = {} /\ hints = 0 /\ stream \in {"open", "none"} /\ ~effectDue
      BY <2>2 DEF Quiet
    <3>2. DOMAIN refreshing = {}
      BY <1>1, <3>1 DEF ViewInv, LoadsInv, Queued
    <3>3. stream # "none"
      BY <1>1, <2>2, <3>1, ViewAssumption DEF ViewInv, ViewTypes, EffectServes, Created
    <3>4. ~effect.pending
      BY <1>1, <3>1, <3>3 DEF ViewInv, EffectServes
    <3>5. ~HintComes /\ ~RefreshFollows /\ ~RefreshAgain /\ ~LatestBrings
      BY <3>1, <3>2, <3>4 DEF HintComes, RefreshFollows, RefreshAgain, LatestBrings
    <3>6. QED
      BY <1>1, <2>2, <3>1, <3>5 DEF ViewInv, CatchesUp, Current
  <2>3. QED
    BY <2>1, <2>2 DEF ViewFollows, ShowsAllEvents
<1>2. QED
  BY ViewInvariant, <1>1, PTL

-----------------------------------------------------------------------------
(* The execution coordinator.  A step is proved in terms of records of all *)
(* variables, as the model makes it: each operator takes a record that     *)
(* satisfies the invariant, but for what the step is in the middle of, to  *)
(* one that does.                                                          *)

LEMMA ConstantFacts ==
  /\ IsFiniteSet(Tasks) /\ IsFiniteSet(Calls) /\ IsFiniteSet(LeaseIds)
  /\ Limit \in Nat /\ LeaseIds \subseteq Nat /\ Calls \subseteq Nat /\ Entries \subseteq Nat
  /\ Nil \notin Tasks /\ Nil \notin Calls /\ Nil \notin Entries /\ Nil \notin LeaseIds
  /\ Nil \notin TaskStatuses /\ Nil \notin Claims /\ Nil \notin Rows
  /\ Nil \notin Objects /\ Nil \notin AsyncCalls
BY CoordinatorAssumption

LEMMA NowTyped ==
  Typed(Now) <=>
    /\ status \in [Tasks -> TaskStatuses] /\ archived \in [Tasks -> BOOLEAN]
    /\ hasThread \in [Tasks -> BOOLEAN] /\ claim \in [Tasks -> Claims \cup {Nil}]
    /\ row \in [Tasks -> Rows \cup {Nil}] /\ entries \in [Tasks -> Entries \cup {Nil}]
    /\ object \in [Entries -> Objects \cup {Nil}] /\ call \in [Calls -> AsyncCalls \cup {Nil}]
    /\ queue \in Seq(Tasks) /\ lease \in [Tasks -> LeaseIds \cup {Nil}] /\ closed \in BOOLEAN
    /\ recovery \in [left : SUBSET Tasks, at : Calls \cup {Nil}] /\ enabled \in BOOLEAN
    /\ toWake \in SUBSET Tasks /\ waking \in SUBSET Entries /\ restarts \in 0..MaxRestarts
BY SMTT(30) DEF Now, Typed, Fields

LEMMA BecomeIs ==
  ASSUME NEW s, Typed(s), Become(s)
  PROVE  Collects(s, Now')
<1>1. /\ status' = s.status /\ archived' = s.archived /\ hasThread' = s.hasThread
      /\ claim' = s.claim /\ row' = s.row /\ entries' = s.entries
      /\ object' = [e \in Entries |-> IF Referenced(s, e) THEN s.object[e] ELSE Nil]
      /\ call' = s.call /\ queue' = s.queue /\ lease' = s.lease
      /\ closed' = s.closed /\ recovery' = s.recovery
      /\ enabled' = s.enabled /\ toWake' = s.toWake /\ waking' = s.waking
      /\ restarts' = s.restarts
  BY DEF Become
<1>2. /\ s.status \in [Tasks -> TaskStatuses] /\ s.archived \in [Tasks -> BOOLEAN]
      /\ s.hasThread \in [Tasks -> BOOLEAN] /\ s.claim \in [Tasks -> Claims \cup {Nil}]
      /\ s.row \in [Tasks -> Rows \cup {Nil}] /\ s.entries \in [Tasks -> Entries \cup {Nil}]
      /\ s.object \in [Entries -> Objects \cup {Nil}]
      /\ s.call \in [Calls -> AsyncCalls \cup {Nil}]
      /\ s.queue \in Seq(Tasks) /\ s.lease \in [Tasks -> LeaseIds \cup {Nil}]
      /\ s.closed \in BOOLEAN /\ s.enabled \in BOOLEAN
      /\ s.recovery \in [left : SUBSET Tasks, at : Calls \cup {Nil}]
      /\ s.toWake \in SUBSET Tasks /\ s.waking \in SUBSET Entries /\ s.restarts \in 0..MaxRestarts
  BY SMTT(30) DEF Typed, Fields
<1>3. object' \in [Entries -> Objects \cup {Nil}]
  BY <1>1, <1>2
<1>4. /\ status' \in [Tasks -> TaskStatuses] /\ archived' \in [Tasks -> BOOLEAN]
      /\ hasThread' \in [Tasks -> BOOLEAN] /\ claim' \in [Tasks -> Claims \cup {Nil}]
      /\ row' \in [Tasks -> Rows \cup {Nil}] /\ entries' \in [Tasks -> Entries \cup {Nil}]
      /\ object' \in [Entries -> Objects \cup {Nil}]
      /\ call' \in [Calls -> AsyncCalls \cup {Nil}]
      /\ queue' \in Seq(Tasks) /\ lease' \in [Tasks -> LeaseIds \cup {Nil}]
      /\ closed' \in BOOLEAN /\ enabled' \in BOOLEAN
      /\ recovery' \in [left : SUBSET Tasks, at : Calls \cup {Nil}]
      /\ toWake' \in SUBSET Tasks /\ waking' \in SUBSET Entries /\ restarts' \in 0..MaxRestarts
  BY <1>1, <1>2, <1>3, Zenon
<1>5. Typed(Now')
  BY <1>4, SMTT(30) DEF Now, Typed, Fields
<1>6. QED
  BY <1>1, <1>5, SMTT(30) DEF Now, Collects

\* A record keeps the invariant when the objects nobody refers to are collected.
LEMMA CollectKeeps ==
  ASSUME NEW s, NEW r, IndInv(s), Collects(s, r)
  PROVE  IndInv(r)
<1> USE DEF Collects
<1>1. LeasesApart(r) /\ WithinLimit(r) /\ QueueWaits(r) /\ QueueMapped(r) /\ LeasesMatch(r, Nil)
  BY DEF IndInv, Core, Scheduled, Placed, LeasesApart, WithinLimit, Active, QueueWaits,
         QueueMapped, LeasesMatch, Holds, GaveBack
<1>2. LeasesOwned(r, Nil) /\ OneCall(r) /\ RunsPlaced(r, Nil)
  BY DEF IndInv, Core, Scheduled, Placed, LeasesOwned, HeldBy, AwaitedBy, WaitsFor, OneCall, RunsPlaced
<1>3. FreshUnarchived(r) /\ RunsClaimed(r, Nil) /\ RecoveryLeft(r) /\ RunningRows(r)
  BY DEF IndInv, Core, Scheduled, Placed, FreshUnarchived, RunsClaimed, RecoveryLeft, RunningRows, Pending
<1>4. \A p \in Calls : s.call[p] # Nil /\ s.call[p].entry \in Entries =>
         r.object[s.call[p].entry] = s.object[s.call[p].entry]
  BY DEF Referenced
<1>5. \A t \in Tasks : s.entries[t] # Nil =>
         s.entries[t] \in Entries /\ r.object[s.entries[t]] = s.object[s.entries[t]]
  BY SMTT(30) DEF Referenced, IndInv, Core, Typed
<1>6. \A e \in Entries : /\ r.object[e] # Nil => r.object[e] = s.object[e]
                         /\ e \in s.waking => r.object[e] = s.object[e]
  BY DEF Referenced
<1>7. LaunchesPlaced(r, Nil) /\ LaunchesMapped(r, Nil)
  BY <1>4 DEF IndInv, Core, Scheduled, Placed, LaunchesPlaced, LaunchesMapped, Launch, Pending
<1>8. TimersIdle(r, Nil)
  BY <1>6 DEF IndInv, Core, Scheduled, Placed, TimersIdle
<1>9. MapKept(r) /\ PendingHeld(r) /\ Alive(r, Nil)
  BY <1>5 DEF IndInv, Core, Scheduled, Placed, MapKept, PendingHeld, WorkedOn, Alive, Pending
<1>10. WakingQuiet(r)
  <2>1. s.waking \subseteq Entries
    BY SMTT(30) DEF IndInv, Core, Scheduled, Placed, Typed
  <2>2. QED
    BY <1>6, <2>1 DEF IndInv, Core, Scheduled, Placed, WakingQuiet, Launch
<1>11. QED
  BY <1>1, <1>2, <1>3, <1>7, <1>8, <1>9, <1>10 DEF IndInv, Core, Scheduled, Placed

-----------------------------------------------------------------------------
(* The scheduler.                                                          *)

\* The values of a function on a finite set are not more than its arguments.
LEMMA ImageSize ==
  ASSUME NEW S, IsFiniteSet(S), NEW f, DOMAIN f = S, f = [z \in S |-> f[z]]
  PROVE  /\ IsFiniteSet({f[z] : z \in S})
         /\ Cardinality({f[z] : z \in S}) <= Cardinality(S)
<1>1. f \in Surjection(S, {f[z] : z \in S})
  BY DEF Surjection
<1>2. QED
  BY <1>1, FS_Surjection

\* There are more identities than leases in use.
LEMMA FreshLeaseIsNew ==
  ASSUME NEW s, Typed(s)
  PROVE  /\ FreshLease(s) \in LeaseIds
         /\ \A t \in Tasks : s.lease[t] # FreshLease(s)
         /\ \A p \in Calls : s.call[p] # Nil => s.call[p].lease # FreshLease(s)
<1> DEFINE f == [t \in Tasks |-> s.lease[t]]
           g == [p \in Calls |-> s.call[p].lease]
           F == {f[t] : t \in Tasks}
           G == {g[p] : p \in Calls}
           Free == {l \in LeaseIds : /\ \A t \in Tasks : s.lease[t] # l
                                     /\ \A p \in Calls : s.call[p] # Nil => s.call[p].lease # l}
<1>1. IsFiniteSet(F) /\ Cardinality(F) <= Cardinality(Tasks)
  <2>1. DOMAIN f = Tasks /\ f = [t \in Tasks |-> f[t]]
    OBVIOUS
  <2> HIDE DEF f
  <2>2. QED
    BY <2>1, ConstantFacts, ImageSize
<1>2. IsFiniteSet(G) /\ Cardinality(G) <= Cardinality(Calls)
  <2>1. DOMAIN g = Calls /\ g = [p \in Calls |-> g[p]]
    OBVIOUS
  <2> HIDE DEF g
  <2>2. QED
    BY <2>1, ConstantFacts, ImageSize
<1>3. LeaseIds \ (F \cup G) \subseteq Free
  OBVIOUS
<1>4. Free # {}
  <2> HIDE DEF F, G, Free
  <2>1. SUFFICES ASSUME LeaseIds \subseteq F \cup G
                 PROVE  FALSE
    BY <1>3
  <2>2. /\ IsFiniteSet(F \cup G)
        /\ Cardinality(F \cup G) = Cardinality(F) + Cardinality(G) - Cardinality(F \cap G)
    BY <1>1, <1>2, FS_Union
  <2>3. IsFiniteSet(F \cap G)
    BY <1>1, FS_Intersection
  <2>4. /\ Cardinality(F \cap G) \in Nat /\ Cardinality(F) \in Nat /\ Cardinality(G) \in Nat
        /\ Cardinality(Tasks) \in Nat /\ Cardinality(Calls) \in Nat /\ Cardinality(LeaseIds) \in Nat
    BY <1>1, <1>2, <2>3, ConstantFacts, FS_CardinalityType
  <2>5. Cardinality(LeaseIds) <= Cardinality(F \cup G)
    BY <2>1, <2>2, FS_Subset
  <2>6. Cardinality(LeaseIds) > Cardinality(Tasks) + Cardinality(Calls)
    BY CoordinatorAssumption
  <2>7. QED
    BY <1>1, <1>2, <2>2, <2>4, <2>5, <2>6
<1>5. Free \subseteq Nat
  BY ConstantFacts
<1>6. Min(Free) \in Free
  <2> HIDE DEF Free
  <2>1. QED
    BY <1>4, <1>5, MinExists
<1>7. FreshLease(s) = Min(Free)
  BY DEF FreshLease
<1>8. QED
  BY <1>6, <1>7

\* A grant disturbs nothing of reservations and entries.
LEMMA GrantsPlaced ==
  ASSUME NEW s, NEW r, NEW y, NEW w, Typed(s), Placed(s, y, w), Grants(s, r)
  PROVE  Placed(r, y, w)
<1> USE DEF Grants
<1>1. OneCall(r)
  BY DEF Placed, OneCall
<1>2. RunsPlaced(r, w)
  BY DEF Placed, RunsPlaced
<1>3. LaunchesPlaced(r, w)
  BY DEF Placed, LaunchesPlaced, Launch, Pending
<1>4. LaunchesMapped(r, w)
  BY DEF Placed, LaunchesMapped, Launch
<1>5. FreshUnarchived(r)
  BY DEF Placed, FreshUnarchived
<1>6. RunsClaimed(r, w)
  BY DEF Placed, RunsClaimed
<1>7. TimersIdle(r, w)
  BY DEF Placed, TimersIdle
<1>8. MapKept(r)
  BY DEF Placed, MapKept
<1>9. PendingHeld(r)
  BY DEF Placed, PendingHeld, WorkedOn
<1>10. RecoveryLeft(r)
  BY DEF Placed, RecoveryLeft, Pending
<1>11. RunningRows(r)
  BY DEF Placed, RunningRows
<1>12. Alive(r, y)
  BY DEF Placed, Alive, WorkedOn, Pending
<1>13. QED
  BY <1>1, <1>2, <1>3, <1>4, <1>5, <1>6, <1>7, <1>8, <1>9, <1>10, <1>11, <1>12 DEF Placed

LEMMA GrantsSelf ==
  ASSUME NEW s, Typed(s)
  PROVE  Grants(s, s)
BY DEF Grants

LEMMA GrantsTwice ==
  ASSUME NEW s, NEW r, NEW q, Grants(s, r), Grants(r, q)
  PROVE  Grants(s, q)
BY DEF Grants

LEMMA FieldTypes ==
  ASSUME NEW s, Typed(s)
  PROVE  /\ s.status \in [Tasks -> TaskStatuses] /\ s.archived \in [Tasks -> BOOLEAN]
         /\ s.hasThread \in [Tasks -> BOOLEAN] /\ s.claim \in [Tasks -> Claims \cup {Nil}]
         /\ s.row \in [Tasks -> Rows \cup {Nil}] /\ s.entries \in [Tasks -> Entries \cup {Nil}]
         /\ s.object \in [Entries -> Objects \cup {Nil}]
         /\ s.call \in [Calls -> AsyncCalls \cup {Nil}]
         /\ s.queue \in Seq(Tasks) /\ s.lease \in [Tasks -> LeaseIds \cup {Nil}]
         /\ s.closed \in BOOLEAN /\ s.enabled \in BOOLEAN
         /\ s.recovery \in [left : SUBSET Tasks, at : Calls \cup {Nil}]
         /\ s.toWake \in SUBSET Tasks /\ s.waking \in SUBSET Entries /\ s.restarts \in 0..MaxRestarts
BY SMTT(30) DEF Typed, Fields

\* What drain() does when it grants: the oldest request gets a lease that is new.
LEMMA DrainIs ==
  ASSUME NEW s, Typed(s), s.queue # <<>>, Cardinality(Active(s)) < Limit
  PROVE  LET t == Head(s.queue)
             l == FreshLease(s)
             r == Drain(s)
         IN  /\ r.queue = Tail(s.queue)
             /\ r.lease = [s.lease EXCEPT ![t] = l]
             /\ r.call = [p \in Calls |-> IF WaitsFor(s, p, t)
                                          THEN [s.call[p] EXCEPT !.lease = l] ELSE s.call[p]]
             /\ Grants(s, r)
<1> DEFINE t == Head(s.queue)
           l == FreshLease(s)
           c == [p \in Calls |-> IF WaitsFor(s, p, t)
                                 THEN [s.call[p] EXCEPT !.lease = l] ELSE s.call[p]]
           r == [s EXCEPT !.queue = Tail(@), !.lease[t] = l, !.call = c]
<1>1. t \in Tasks /\ Tail(s.queue) \in Seq(Tasks)
  <2>1. s.queue \in Seq(Tasks)
    BY FieldTypes
  <2>2. QED
    BY <2>1, HeadTailProperties
<1>2. l \in LeaseIds
  BY FreshLeaseIsNew
<1>3. Drain(s) = r
  <2>1. Cardinality(Active(s)) \in Nat /\ Limit \in Nat
    <3>1. Active(s) \in SUBSET Tasks
      BY DEF Active
    <3>2. IsFiniteSet(Active(s))
      BY <3>1, ConstantFacts, FS_Subset
    <3>3. QED
      BY <3>2, ConstantFacts, FS_CardinalityType
  <2>2. ~(Cardinality(Active(s)) >= Limit)
    BY <2>1
  <2>3. QED
    BY <2>2 DEF Drain
<1> HIDE DEF t, l
<1>4. c \in [Calls -> AsyncCalls \cup {Nil}]
  <2>1. ASSUME NEW p \in Calls, WaitsFor(s, p, t)
        PROVE  [s.call[p] EXCEPT !.lease = l] \in AsyncCalls
    <3>1. s.call[p] \in AsyncCalls
      BY <2>1, FieldTypes DEF WaitsFor
    <3>2. QED
      BY <3>1, <1>2 DEF AsyncCalls
  <2>2. s.call \in [Calls -> AsyncCalls \cup {Nil}]
    BY FieldTypes
  <2>3. QED
    BY <2>1, <2>2
<1>5. \A p \in Calls : WaitsFor(s, p, t) =>
        /\ c[p] \in AsyncCalls /\ c[p].lease = l
        /\ c[p].pc = s.call[p].pc /\ c[p].task = s.call[p].task
        /\ c[p].entry = s.call[p].entry /\ c[p].background = s.call[p].background
        /\ c[p].fresh = s.call[p].fresh /\ c[p].seen = s.call[p].seen
  <2>1. TAKE p \in Calls
  <2>2. HAVE WaitsFor(s, p, t)
  <2>3. s.call[p] \in AsyncCalls
    BY <2>2, FieldTypes DEF WaitsFor
  <2>4. QED
    BY <2>2, <2>3, <1>2 DEF AsyncCalls
<1>6. \A p \in Calls : ~WaitsFor(s, p, t) => c[p] = s.call[p]
  OBVIOUS
<1> HIDE DEF c
<1>7. /\ Typed(r)
      /\ r.queue = Tail(s.queue) /\ r.lease = [s.lease EXCEPT ![t] = l] /\ r.call = c
      /\ r.status = s.status /\ r.archived = s.archived /\ r.hasThread = s.hasThread
      /\ r.claim = s.claim /\ r.row = s.row /\ r.entries = s.entries /\ r.object = s.object
      /\ r.closed = s.closed /\ r.recovery = s.recovery
      /\ r.enabled = s.enabled /\ r.toWake = s.toWake /\ r.waking = s.waking
      /\ r.restarts = s.restarts
  <2>1. s.lease \in [Tasks -> LeaseIds \cup {Nil}]
    BY FieldTypes
  <2>2. [s.lease EXCEPT ![t] = l] \in [Tasks -> LeaseIds \cup {Nil}]
    BY <1>1, <1>2, <2>1
  <2>3. QED
    BY <1>1, <1>4, <2>2, SMTT(30) DEF Typed, Fields
<1>9. Grants(s, r)
  BY <1>2, <1>5, <1>6, <1>7, ConstantFacts DEF Grants, WaitsFor
<1>10. QED
  BY <1>3, <1>7, <1>9 DEF t, l, c

\* Without room, or without a request, drain() changes nothing.
LEMMA DrainWaits ==
  ASSUME NEW s, s.queue = <<>> \/ Cardinality(Active(s)) >= Limit
  PROVE  Drain(s) = s
BY DEF Drain

LEMMA ActiveSize ==
  ASSUME NEW s
  PROVE  IsFiniteSet(Active(s)) /\ Cardinality(Active(s)) \in Nat
<1>1. Active(s) \in SUBSET Tasks
  BY DEF Active
<1>2. IsFiniteSet(Active(s))
  BY <1>1, ConstantFacts, FS_Subset
<1>3. QED
  BY <1>2, FS_CardinalityType

\* Whatever drain() grants, leases stay apart and within the limit.
LEMMA DrainKeeps ==
  ASSUME NEW s, NEW x, NEW z, Typed(s), Scheduled(s, x, z)
  PROVE  Scheduled(Drain(s), x, z) /\ Grants(s, Drain(s))
<1>1. CASE s.queue = <<>> \/ Cardinality(Active(s)) >= Limit
  BY <1>1, DrainWaits, GrantsSelf
<1>2. CASE s.queue # <<>> /\ Cardinality(Active(s)) < Limit
  <2>1. PICK t, l, r : t = Head(s.queue) /\ l = FreshLease(s) /\ r = Drain(s)
    OBVIOUS
  <2>2. /\ r.queue = Tail(s.queue)
        /\ r.lease = [s.lease EXCEPT ![t] = l]
        /\ r.call = [p \in Calls |-> IF WaitsFor(s, p, t)
                                     THEN [s.call[p] EXCEPT !.lease = l] ELSE s.call[p]]
        /\ Grants(s, r)
    BY <1>2, <2>1, DrainIs
  <2>3. s.queue \in Seq(Tasks) /\ s.lease \in [Tasks -> LeaseIds \cup {Nil}]
        /\ s.call \in [Calls -> AsyncCalls \cup {Nil}]
    BY FieldTypes
  <2>4. /\ t \in Tasks /\ Len(s.queue) \in Nat /\ t = s.queue[1] /\ 1 \in 1..Len(s.queue)
        /\ Len(r.queue) = Len(s.queue) - 1
        /\ \A i \in 1..Len(r.queue) : r.queue[i] = s.queue[i + 1]
    BY <1>2, <2>1, <2>2, <2>3, HeadTailProperties, LenProperties
  <2>5. /\ l \in LeaseIds /\ l # Nil
        /\ \A u \in Tasks : s.lease[u] # l
        /\ \A p \in Calls : s.call[p] # Nil => s.call[p].lease # l
    BY <2>1, FreshLeaseIsNew, ConstantFacts
  <2>6. s.lease[t] = Nil
    BY <2>4 DEF Scheduled, QueueWaits
  <2>7. /\ r.lease[t] = l
        /\ \A u \in Tasks : u # t => r.lease[u] = s.lease[u]
    BY <2>2, <2>3, <2>4
  <2>8. \A p \in Calls :
          IF WaitsFor(s, p, t)
          THEN /\ r.call[p] # Nil /\ r.call[p].lease = l
               /\ r.call[p].pc = "lease" /\ r.call[p].task = t
          ELSE r.call[p] = s.call[p]
    <3>1. TAKE p \in Calls
    <3>2. CASE ~WaitsFor(s, p, t)
      BY <2>2, <3>2
    <3>3. CASE WaitsFor(s, p, t)
      <4>1. s.call[p] \in AsyncCalls /\ s.call[p].pc = "lease" /\ s.call[p].task = t
        BY <3>3, <2>3 DEF WaitsFor
      <4>2. r.call[p] = [s.call[p] EXCEPT !.lease = l]
        BY <3>3, <2>2
      <4>3. [s.call[p] EXCEPT !.lease = l] \in AsyncCalls
        BY <4>1, <2>5 DEF AsyncCalls
      <4>4. QED
        BY <3>3, <4>1, <4>2, <4>3, ConstantFacts DEF AsyncCalls
    <3>4. QED
      BY <3>2, <3>3
  <2> HIDE <2>1, <2>2
  <2>9. \A i \in 1..Len(r.queue) : /\ i + 1 \in 1..Len(s.queue) /\ r.queue[i] = s.queue[i + 1]
                                   /\ r.queue[i] # t /\ r.queue[i] \in Tasks
    <3>1. TAKE i \in 1..Len(r.queue)
    <3>2. i + 1 \in 1..Len(s.queue) /\ i + 1 # 1
      BY <2>4
    <3>3. s.queue[i + 1] \in Tasks
      BY <3>2, <2>3, ElementOfSeq
    <3>4. QED
      BY <2>4, <3>2, <3>3 DEF Scheduled, QueueWaits
  <2>10. LeasesApart(r)
    BY <2>5, <2>7 DEF Scheduled, LeasesApart
  <2>11. WithinLimit(r)
    <3>1. Active(r) = Active(s) \cup {t}
      BY <2>4, <2>5, <2>7 DEF Active
    <3>2. t \notin Active(s)
      BY <2>6 DEF Active
    <3>3. Cardinality(Active(r)) = Cardinality(Active(s)) + 1
      BY <3>1, <3>2, ActiveSize, FS_AddElement
    <3>4. QED
      BY <1>2, <3>3, ActiveSize, ConstantFacts DEF WithinLimit
  <2>12. QueueWaits(r)
    <3>1. \A i \in 1..Len(r.queue) : r.lease[r.queue[i]] = Nil
      BY <2>7, <2>9 DEF Scheduled, QueueWaits
    <3>2. ASSUME NEW i \in 1..Len(r.queue), NEW j \in 1..Len(r.queue), r.queue[i] = r.queue[j]
          PROVE  i = j
      <4>1. i + 1 = j + 1
        BY <2>9, <3>2 DEF Scheduled, QueueWaits
      <4>2. QED
        BY <4>1
    <3>3. QED
      BY <3>1, <3>2 DEF QueueWaits
  <2>13. QueueMapped(r)
    BY <2>2, <2>9 DEF Scheduled, QueueMapped, Grants
  <2>14. LeasesMatch(r, x)
    <3>1. SUFFICES ASSUME NEW p \in Calls, r.call[p] # Nil
                   PROVE  IF p = x THEN GaveBack(r, p) ELSE Holds(r, p)
      BY DEF LeasesMatch
    <3>2. CASE WaitsFor(s, p, t)
      <4>1. p # x
        BY <3>2 DEF Scheduled, LeasesMatch, GaveBack, WaitsFor
      <4>2. Holds(r, p)
        BY <3>2, <2>7, <2>8, <2>5 DEF Holds
      <4>3. QED
        BY <4>1, <4>2
    <3>3. CASE ~WaitsFor(s, p, t)
      <4>1. r.call[p] = s.call[p] /\ s.call[p] # Nil /\ s.call[p].task \in Tasks
        BY <3>1, <3>3, <2>8, <2>3 DEF AsyncCalls
      <4>2. IF p = x THEN GaveBack(s, p) ELSE Holds(s, p)
        BY <4>1 DEF Scheduled, LeasesMatch
      <4>3. GaveBack(s, p) => GaveBack(r, p)
        BY <4>1, <2>5, <2>7 DEF GaveBack
      <4>4. Holds(s, p) => Holds(r, p)
        BY <4>1, <2>6, <2>7 DEF Holds
      <4>5. QED
        BY <4>2, <4>3, <4>4
    <3>4. QED
      BY <3>2, <3>3
  <2>15. LeasesOwned(r, z)
    <3>1. SUFFICES ASSUME ~ArchiveMidway, ~r.closed
                   PROVE  /\ \A u \in Tasks : u # z /\ r.lease[u] # Nil => HeldBy(r, u)
                          /\ \A i \in 1..Len(r.queue) :
                               r.queue[i] # z => AwaitedBy(r, r.queue[i])
      BY DEF LeasesOwned
    <3>2. /\ \A u \in Tasks : u # z /\ s.lease[u] # Nil => HeldBy(s, u)
          /\ \A i \in 1..Len(s.queue) : s.queue[i] # z => AwaitedBy(s, s.queue[i])
      BY <3>1, <2>2 DEF Scheduled, LeasesOwned, Grants
    <3>3. t # z => HeldBy(r, t)
      BY <2>4, <2>7, <2>8, <3>2 DEF AwaitedBy, HeldBy, WaitsFor
    <3>4. \A u \in Tasks : u # z /\ u # t /\ r.lease[u] # Nil => HeldBy(r, u)
      BY <2>7, <2>8, <3>2 DEF HeldBy, WaitsFor
    <3>5. \A i \in 1..Len(r.queue) : r.queue[i] # z => AwaitedBy(r, r.queue[i])
      <4>1. TAKE i \in 1..Len(r.queue)
      <4>2. HAVE r.queue[i] # z
      <4>3. /\ i + 1 \in 1..Len(s.queue) /\ r.queue[i] = s.queue[i + 1] /\ r.queue[i] # t
        BY <2>9
      <4>4. PICK q \in Calls : WaitsFor(s, q, r.queue[i])
        BY <3>2, <4>2, <4>3 DEF AwaitedBy
      <4>5. ~WaitsFor(s, q, t)
        BY <4>3, <4>4 DEF WaitsFor
      <4>6. WaitsFor(r, q, r.queue[i])
        BY <2>8, <4>4, <4>5 DEF WaitsFor
      <4>7. QED
        BY <4>6 DEF AwaitedBy
    <3>6. QED
      BY <3>3, <3>4, <3>5
  <2>16. QED
    BY <2>1, <2>2, <2>10, <2>11, <2>12, <2>13, <2>14, <2>15 DEF Scheduled
<1>3. QED
  BY <1>1, <1>2, ActiveSize, ConstantFacts

\* A lease that goes back: nobody else held it, and the next in line may get a new one.
LEMMA ReleaseKeeps ==
  ASSUME NEW s, NEW x, NEW p \in Calls, Typed(s), Scheduled(s, x, Nil), OneCall(s),
         x = Nil \/ x = p,
         s.call[p] # Nil, s.call[p].lease # Nil
  PROVE  Scheduled(Release(s, s.call[p].lease), p, Nil) /\ Grants(s, Release(s, s.call[p].lease))
<1>1. PICK l, r : /\ l = s.call[p].lease
                  /\ r = [s EXCEPT !.lease = [t \in Tasks |-> IF s.lease[t] = l THEN Nil
                                                              ELSE s.lease[t]]]
  OBVIOUS
<1>2. s.lease \in [Tasks -> LeaseIds \cup {Nil}] /\ s.call \in [Calls -> AsyncCalls \cup {Nil}]
      /\ s.queue \in Seq(Tasks)
  BY FieldTypes
<1>3. [t \in Tasks |-> IF s.lease[t] = l THEN Nil ELSE s.lease[t]] \in [Tasks -> LeaseIds \cup {Nil}]
  BY <1>2
<1>4. Typed(r) /\ r.call = s.call /\ r.queue = s.queue
      /\ r.lease = [t \in Tasks |-> IF s.lease[t] = l THEN Nil ELSE s.lease[t]]
  BY <1>1, <1>3, SMTT(30) DEF Typed, Fields
<1>5. Grants(s, r)
  BY <1>1, <1>3, SMTT(30) DEF Typed, Fields, Grants
<1>6. \A t \in Tasks : r.lease[t] = IF s.lease[t] = l THEN Nil ELSE s.lease[t]
  BY <1>4
<1>7. LeasesApart(r)
  BY <1>6 DEF Scheduled, LeasesApart
<1>8. WithinLimit(r)
  <2>1. Active(r) \in SUBSET Active(s)
    BY <1>6 DEF Active
  <2>2. Cardinality(Active(r)) <= Cardinality(Active(s))
    BY <2>1, ActiveSize, FS_Subset
  <2>3. QED
    BY <2>2, ActiveSize, ConstantFacts DEF Scheduled, WithinLimit
<1>9. QueueWaits(r) /\ QueueMapped(r)
  <2>1. \A i \in 1..Len(s.queue) : s.queue[i] \in Tasks
    BY <1>2, ElementOfSeq
  <2>2. QueueWaits(r)
    BY <1>4, <1>6, <2>1 DEF Scheduled, QueueWaits
  <2>3. QueueMapped(r)
    BY <1>4, <1>5 DEF Scheduled, QueueMapped, Grants
  <2>4. QED
    BY <2>2, <2>3
<1>10. LeasesMatch(r, p)
  <2>1. SUFFICES ASSUME NEW q \in Calls, r.call[q] # Nil
                 PROVE  IF q = p THEN GaveBack(r, q) ELSE Holds(r, q)
    BY DEF LeasesMatch
  <2>2. s.call[q] # Nil /\ r.call[q] = s.call[q] /\ s.call[q].task \in Tasks
    BY <1>2, <1>4, <2>1 DEF AsyncCalls
  <2>3. CASE q = p
    BY <1>1, <1>6, <2>2, <2>3 DEF GaveBack
  <2>4. CASE q # p
    <3>1. Holds(s, q)
      BY <1>2, <2>2, <2>4, ConstantFacts DEF Scheduled, LeasesMatch
    <3>2. s.call[q].lease # Nil => s.call[q].lease # l
      <4>1. CASE x = p
        BY <1>1, <2>2, <2>4, <3>1, <4>1 DEF Scheduled, LeasesMatch, GaveBack, Holds
      <4>2. CASE x = Nil
        <5>1. Holds(s, p) /\ s.call[p].task \in Tasks
          BY <1>2, <4>2, ConstantFacts DEF Scheduled, LeasesMatch, AsyncCalls
        <5>2. ASSUME s.call[q].lease = l
              PROVE  s.call[q].task = s.call[p].task
          BY <1>1, <2>2, <3>1, <5>1, <5>2 DEF Scheduled, LeasesApart, Holds
        <5>3. QED
          BY <2>2, <2>4, <5>2 DEF OneCall
      <4>3. QED
        BY <4>1, <4>2
    <3>3. QED
      BY <1>6, <2>2, <2>4, <3>1, <3>2 DEF Holds
  <2>5. QED
    BY <2>3, <2>4
<1>11. LeasesOwned(r, Nil)
  BY <1>4, <1>5, <1>6 DEF Scheduled, LeasesOwned, HeldBy, AwaitedBy, WaitsFor, Grants
<1>12. Scheduled(r, p, Nil)
  BY <1>7, <1>8, <1>9, <1>10, <1>11 DEF Scheduled
<1>13. Scheduled(Drain(r), p, Nil) /\ Grants(r, Drain(r))
  BY <1>4, <1>12, DrainKeeps
<1>14. Release(s, l) = Drain(r)
  BY <1>1 DEF Release
<1>15. QED
  BY <1>1, <1>5, <1>13, <1>14, GrantsTwice

-----------------------------------------------------------------------------
(* Tasks.                                                                  *)

\* Such a step keeps the scheduler's parts,
LEMMA AlikeScheduled ==
  ASSUME NEW s, NEW r, NEW x, NEW z, NEW w, Scheduled(s, x, z), Alike(s, r, w)
  PROVE  Scheduled(r, x, z)
<1> USE DEF Alike, CallAlike
<1>1. LeasesApart(r) /\ WithinLimit(r) /\ QueueWaits(r) /\ QueueMapped(r)
  BY DEF Scheduled, LeasesApart, WithinLimit, Active, QueueWaits, QueueMapped
<1>2. LeasesMatch(r, x)
  BY DEF Scheduled, LeasesMatch, GaveBack, Holds
<1>3. LeasesOwned(r, z)
  BY DEF Scheduled, LeasesOwned, HeldBy, AwaitedBy, WaitsFor
<1>4. QED
  BY <1>1, <1>2, <1>3 DEF Scheduled

\* and those of the reservations.
LEMMA AlikePlaced ==
  ASSUME NEW s, NEW r, NEW y, NEW w, Typed(s), Placed(s, y, w), Alike(s, r, w)
  PROVE  Placed(r, y, w)
<1> USE DEF Alike, CallAlike
<1>1. OneCall(r) /\ RunsPlaced(r, w) /\ FreshUnarchived(r)
  BY DEF Placed, OneCall, RunsPlaced, FreshUnarchived
<1>2. LaunchesPlaced(r, w) /\ LaunchesMapped(r, w)
  BY DEF Placed, LaunchesPlaced, LaunchesMapped, Launch, Pending
<1>3. RunsClaimed(r, w)
  <2>1. SUFFICES ASSUME NEW p \in Calls, p # w, r.call[p] # Nil, r.call[p].pc \in {"prepare", "run"}
                 PROVE  /\ r.claim[r.call[p].task] # Nil
                        /\ r.claim[r.call[p].task].by = p /\ r.claim[r.call[p].task].run
    BY DEF RunsClaimed
  <2>2. s.call[p] # Nil /\ s.call[p].pc \in {"prepare", "run"} /\ s.call[p].task = r.call[p].task
    BY <2>1
  <2>3. s.call[p].task \in Tasks
    BY <2>2, FieldTypes DEF AsyncCalls
  <2>4. /\ s.claim[s.call[p].task] # Nil
        /\ s.claim[s.call[p].task].by = p /\ s.claim[s.call[p].task].run
    BY <2>1, <2>2 DEF Placed, RunsClaimed
  <2>5. QED
    BY <2>1, <2>2, <2>3, <2>4
<1>4. TimersIdle(r, w) /\ MapKept(r)
  BY DEF Placed, TimersIdle, MapKept
<1>5. PendingHeld(r)
  BY DEF Placed, PendingHeld, WorkedOn
<1>6. RecoveryLeft(r) /\ RunningRows(r)
  BY DEF Placed, RecoveryLeft, RunningRows, Pending
<1>7. Alive(r, y)
  BY DEF Placed, Alive, WorkedOn, Pending
<1>8. QED
  BY <1>1, <1>2, <1>3, <1>4, <1>5, <1>6, <1>7 DEF Placed

LEMMA AlikeSelf ==
  ASSUME NEW s, NEW w, Typed(s)
  PROVE  Alike(s, s, w)
BY DEF Alike, CallAlike

\* What SetTask does to the record.
LEMMA SetTaskIs ==
  ASSUME NEW s, Typed(s), NEW t \in Tasks, NEW st \in TaskStatuses, NEW th \in BOOLEAN
  PROVE  /\ Alike(s, SetTask(s, t, st, th), Nil)
         /\ \A u \in Tasks : s.claim[u] = Nil => SetTask(s, t, st, th).claim[u] = Nil
         /\ SetTask(s, t, st, th).status = [s.status EXCEPT ![t] = st]
         /\ SetTask(s, t, st, th).hasThread = [s.hasThread EXCEPT ![t] = th]
<1>1. PICK m : m = IF s.claim[t] = Nil \/ s.status[t] = st THEN s.claim[t]
                   ELSE [s.claim[t] EXCEPT !.moved = TRUE]
  OBVIOUS
<1>2. PICK c : c = [p \in Calls |-> IF s.call[p] # Nil /\ s.call[p].task = t
                                    THEN [s.call[p] EXCEPT !.fresh = FALSE] ELSE s.call[p]]
  OBVIOUS
<1>3. PICK r : r = SetTask(s, t, st, th)
  OBVIOUS
<1>4. r = [s EXCEPT !.status[t] = st, !.hasThread[t] = th, !.claim[t] = m, !.call = c]
  BY <1>1, <1>2, <1>3 DEF SetTask
<1>5. /\ s.claim[t] \in Claims \cup {Nil}
      /\ s.call \in [Calls -> AsyncCalls \cup {Nil}]
      /\ s.claim \in [Tasks -> Claims \cup {Nil}]
  BY FieldTypes
<1>6. /\ m \in Claims \cup {Nil} /\ (s.claim[t] = Nil => m = Nil)
      /\ s.claim[t] # Nil => m # Nil /\ m.by = s.claim[t].by /\ m.run = s.claim[t].run
  BY <1>1, <1>5, ConstantFacts DEF Claims
<1>7. \A p \in Calls : /\ c[p] \in AsyncCalls \cup {Nil} /\ (s.call[p] = Nil => c[p] = Nil)
                       /\ s.call[p] # Nil =>
                            /\ c[p] # Nil /\ c[p].pc = s.call[p].pc /\ c[p].task = s.call[p].task
                            /\ c[p].entry = s.call[p].entry /\ c[p].lease = s.call[p].lease
                            /\ c[p].background = s.call[p].background
                            /\ c[p].seen = s.call[p].seen
  <2>1. TAKE p \in Calls
  <2>2. CASE s.call[p] # Nil /\ s.call[p].task = t
    <3>1. s.call[p] \in AsyncCalls /\ c[p] = [s.call[p] EXCEPT !.fresh = FALSE]
      BY <1>2, <1>5, <2>2
    <3>2. QED
      BY <2>2, <3>1, ConstantFacts DEF AsyncCalls
  <2>3. CASE ~(s.call[p] # Nil /\ s.call[p].task = t)
    BY <1>2, <1>5, <2>3
  <2>4. QED
    BY <2>2, <2>3
<1>8. c \in [Calls -> AsyncCalls \cup {Nil}]
  BY <1>2, <1>7
<1>9. [s.claim EXCEPT ![t] = m] \in [Tasks -> Claims \cup {Nil}]
  BY <1>5, <1>6
<1>10. Typed(r)
  BY <1>4, <1>8, <1>9, SMTT(30) DEF Typed, Fields
<1>11. /\ r.archived = s.archived
       /\ r.row = s.row /\ r.entries = s.entries /\ r.object = s.object
       /\ r.queue = s.queue /\ r.lease = s.lease
       /\ r.closed = s.closed /\ r.recovery = s.recovery
       /\ r.enabled = s.enabled /\ r.toWake = s.toWake /\ r.waking = s.waking
       /\ r.restarts = s.restarts
       /\ r.call = c /\ r.claim = [s.claim EXCEPT ![t] = m]
       /\ r.status = [s.status EXCEPT ![t] = st] /\ r.hasThread = [s.hasThread EXCEPT ![t] = th]
  BY <1>4, SMTT(30) DEF Typed, Fields
<1>12. \A p \in Calls : CallAlike(s, r, p)
  BY <1>7, <1>11 DEF CallAlike
<1>13. \A u \in Tasks : s.claim[u] # Nil =>
         r.claim[u] # Nil /\ r.claim[u].by = s.claim[u].by /\ r.claim[u].run = s.claim[u].run
  BY <1>5, <1>6, <1>11
<1>14. \A u \in Tasks : s.claim[u] = Nil => r.claim[u] = Nil
  BY <1>5, <1>6, <1>11
<1>15. QED
  BY <1>3, <1>10, <1>11, <1>12, <1>13, <1>14 DEF Alike

\* SetStatus, ReleaseTask and Settle are such steps too.
LEMMA SetStatusIs ==
  ASSUME NEW s, Typed(s), NEW t \in Tasks, NEW st \in TaskStatuses
  PROVE  Alike(s, SetStatus(s, t, st), Nil)
<1>1. s.hasThread[t] \in BOOLEAN
  BY FieldTypes
<1>2. QED
  BY <1>1, SetTaskIs, AlikeSelf DEF SetStatus

LEMMA AlikeTwice ==
  ASSUME NEW s, NEW r, NEW q, NEW w, Typed(s), Alike(s, r, w), Alike(r, q, Nil)
  PROVE  Alike(s, q, w)
<1>1. \A p \in Calls : CallAlike(s, q, p)
  BY DEF Alike, CallAlike
<1>2. \A t \in Tasks : s.claim[t] # Nil /\ s.claim[t].by # w =>
        q.claim[t] # Nil /\ q.claim[t].by = s.claim[t].by /\ q.claim[t].run = s.claim[t].run
  <2>1. TAKE t \in Tasks
  <2>2. HAVE s.claim[t] # Nil /\ s.claim[t].by # w
  <2>3. s.claim[t] \in Claims
    BY <2>2, FieldTypes
  <2>4. s.claim[t].by # Nil
    BY <2>3, ConstantFacts DEF Claims
  <2>5. QED
    BY <2>2, <2>4 DEF Alike
<1>3. QED
  BY <1>1, <1>2 DEF Alike

LEMMA AlikeMore ==
  ASSUME NEW s, NEW r, NEW w, Typed(s), Alike(s, r, Nil)
  PROVE  Alike(s, r, w)
<1>1. \A t \in Tasks : s.claim[t] # Nil => s.claim[t].by # Nil
  BY FieldTypes, ConstantFacts DEF Claims
<1>2. QED
  BY <1>1 DEF Alike

LEMMA WithoutClaim ==
  ASSUME NEW s, Typed(s), NEW t \in Tasks, NEW w, s.claim[t] # Nil => s.claim[t].by = w
  PROVE  LET r == [s EXCEPT !.claim[t] = Nil]
         IN  Alike(s, r, w) /\ r.status = s.status /\ r.hasThread = s.hasThread
<1>1. PICK r : r = [s EXCEPT !.claim[t] = Nil]
  OBVIOUS
<1>2. [s.claim EXCEPT ![t] = Nil] \in [Tasks -> Claims \cup {Nil}] /\ s.claim \in [Tasks -> Claims \cup {Nil}]
  BY FieldTypes
<1>3. Typed(r)
  BY <1>1, <1>2, SMTT(30) DEF Typed, Fields
<1>4. /\ r.archived = s.archived /\ r.status = s.status /\ r.hasThread = s.hasThread
      /\ r.row = s.row /\ r.entries = s.entries /\ r.object = s.object
      /\ r.queue = s.queue /\ r.lease = s.lease
      /\ r.closed = s.closed /\ r.recovery = s.recovery
      /\ r.enabled = s.enabled /\ r.toWake = s.toWake /\ r.waking = s.waking
      /\ r.restarts = s.restarts /\ r.call = s.call
      /\ r.claim = [s.claim EXCEPT ![t] = Nil]
  BY <1>1, SMTT(30) DEF Typed, Fields
<1>5. \A p \in Calls : CallAlike(s, r, p)
  BY <1>4 DEF CallAlike
<1>6. \A u \in Tasks : s.claim[u] # Nil /\ s.claim[u].by # w => r.claim[u] = s.claim[u]
  BY <1>2, <1>4
<1>7. QED
  BY <1>1, <1>3, <1>4, <1>5, <1>6 DEF Alike

LEMMA ReleaseTaskIs ==
  ASSUME NEW s, Typed(s), NEW p \in Calls, s.call[p] # Nil
  PROVE  Alike(s, ReleaseTask(s, p), p)
<1>1. PICK t, freed : t = s.call[p].task /\ freed = [s EXCEPT !.claim[t] = Nil]
  OBVIOUS
<1>2. t \in Tasks
  BY <1>1, FieldTypes DEF AsyncCalls
<1>3. CASE s.claim[t] = Nil \/ s.claim[t].by # p
  BY <1>1, <1>3, AlikeSelf DEF ReleaseTask
<1>4. CASE ~(s.claim[t] = Nil \/ s.claim[t].by # p)
  <2>1. Alike(s, freed, p)
    BY <1>1, <1>2, <1>4, WithoutClaim
  <2>2. Typed(freed)
    BY <2>1 DEF Alike
  <2>3. "todo" \in TaskStatuses
    BY DEF TaskStatuses
  <2>4. Alike(freed, SetTask(freed, t, "todo", FALSE), Nil)
    BY <1>2, <2>2, <2>3, SetTaskIs
  <2>5. Alike(s, SetTask(freed, t, "todo", FALSE), p)
    BY <2>1, <2>4, AlikeTwice
  <2>6. QED
    BY <1>1, <1>4, <2>1, <2>5 DEF ReleaseTask
<1>5. QED
  BY <1>3, <1>4

LEMMA SettleIs ==
  ASSUME NEW s, Typed(s), NEW t \in Tasks, NEW result \in TaskStatuses, NEW p \in Calls,
         s.claim[t] # Nil, s.claim[t].by = p
  PROVE  Alike(s, Settle(s, t, result), p)
<1>1. PICK m : m = IF /\ s.status[t] = "in_progress" /\ ~s.archived[t] /\ ~s.claim[t].moved
                      /\ result # "in_progress"
                   THEN SetTask(s, t, result, s.hasThread[t]) ELSE s
  OBVIOUS
<1>2. s.hasThread[t] \in BOOLEAN
  BY FieldTypes
<1>3. Alike(s, m, Nil)
  BY <1>1, <1>2, SetTaskIs, AlikeSelf
<1>4. Typed(m) /\ m.claim[t] # Nil /\ m.claim[t].by = p
  <2>1. s.claim[t].by # Nil
    BY ConstantFacts
  <2>2. QED
    BY <1>3, <2>1 DEF Alike
<1>5. Alike(m, [m EXCEPT !.claim[t] = Nil], p)
  BY <1>4, WithoutClaim
<1>6. Settle(s, t, result) = [m EXCEPT !.claim[t] = Nil]
  BY <1>1 DEF Settle
<1>7. Alike(s, [m EXCEPT !.claim[t] = Nil], p)
  <2>1. PICK r : r = [m EXCEPT !.claim[t] = Nil]
    OBVIOUS
  <2>2. Alike(m, r, p)
    BY <1>5, <2>1
  <2>3. \A q \in Calls : CallAlike(s, r, q)
    BY <1>3, <2>2 DEF Alike, CallAlike
  <2>4. \A u \in Tasks : s.claim[u] # Nil /\ s.claim[u].by # p =>
          r.claim[u] # Nil /\ r.claim[u].by = s.claim[u].by /\ r.claim[u].run = s.claim[u].run
    <3>1. \A u \in Tasks : s.claim[u] # Nil => s.claim[u].by # Nil
      BY FieldTypes, ConstantFacts DEF Claims
    <3>2. QED
      BY <1>3, <2>2, <3>1 DEF Alike
  <2>5. Alike(s, r, p)
    BY <1>3, <2>2, <2>3, <2>4 DEF Alike
  <2>6. QED
    BY <2>1, <2>5
<1>8. QED
  BY <1>6, <1>7

-----------------------------------------------------------------------------
(* Reservations and calls.                                                 *)

LEMMA ScheduledSame ==
  ASSUME NEW s, NEW r, NEW x, NEW z, Scheduled(s, x, z),
         r.queue = s.queue, r.lease = s.lease, r.closed = s.closed, r.call = s.call,
         \A i \in 1..Len(s.queue) : s.entries[s.queue[i]] # Nil => r.entries[s.queue[i]] # Nil
  PROVE  Scheduled(r, x, z)
<1>1. LeasesApart(r) /\ WithinLimit(r) /\ QueueWaits(r) /\ QueueMapped(r)
  BY DEF Scheduled, LeasesApart, WithinLimit, Active, QueueWaits, QueueMapped
<1>2. LeasesMatch(r, x)
  BY DEF Scheduled, LeasesMatch, GaveBack, Holds
<1>3. LeasesOwned(r, z)
  BY DEF Scheduled, LeasesOwned, HeldBy, AwaitedBy, WaitsFor
<1>4. QED
  BY <1>1, <1>2, <1>3 DEF Scheduled

\* What SetRow does to the record,
LEMMA SetRowIs ==
  ASSUME NEW s, Typed(s), NEW t \in Tasks, s.row[t] # Nil,
         NEW state \in {"delayed", "queued", "running"}
  PROVE  LET r == SetRow(s, t, state) IN
         /\ Typed(r)
         /\ r.status = s.status /\ r.archived = s.archived /\ r.hasThread = s.hasThread
         /\ r.claim = s.claim /\ r.entries = s.entries /\ r.object = s.object /\ r.call = s.call
         /\ r.queue = s.queue /\ r.lease = s.lease
         /\ r.closed = s.closed /\ r.recovery = s.recovery
         /\ r.enabled = s.enabled /\ r.toWake = s.toWake /\ r.waking = s.waking
         /\ r.restarts = s.restarts
         /\ \A u \in Tasks : u # t => r.row[u] = s.row[u]
         /\ r.row[t] # Nil /\ r.row[t].state = state /\ r.row[t].ready = s.row[t].ready
<1>1. PICK m, r : /\ m = [s.row[t] EXCEPT !.state = state]
                  /\ r = [s EXCEPT !.row = [s.row EXCEPT ![t] = m]]
  OBVIOUS
<1>2. s.row \in [Tasks -> Rows \cup {Nil}] /\ s.row[t] \in Rows
  BY FieldTypes
<1>3. m \in Rows /\ m.state = state /\ m.ready = s.row[t].ready /\ m # Nil
  BY <1>1, <1>2, ConstantFacts DEF Rows
<1>4. [s.row EXCEPT ![t] = m] \in [Tasks -> Rows \cup {Nil}]
  BY <1>2, <1>3
<1>5. Typed(r)
  BY <1>1, <1>4, SMTT(30) DEF Typed, Fields
<1>6. /\ r.status = s.status /\ r.archived = s.archived /\ r.hasThread = s.hasThread
      /\ r.claim = s.claim /\ r.entries = s.entries /\ r.object = s.object /\ r.call = s.call
      /\ r.queue = s.queue /\ r.lease = s.lease
      /\ r.closed = s.closed /\ r.recovery = s.recovery
      /\ r.enabled = s.enabled /\ r.toWake = s.toWake /\ r.waking = s.waking
      /\ r.restarts = s.restarts /\ r.row = [s.row EXCEPT ![t] = m]
  BY <1>1, SMTT(30) DEF Typed, Fields
<1>7. SetRow(s, t, state) = r
  BY <1>1 DEF SetRow
<1>8. QED
  BY <1>2, <1>3, <1>5, <1>6, <1>7

\* and that the rows of a launch may change between delayed and queued.
LEMMA SetRowPlaced ==
  ASSUME NEW s, NEW y, NEW w, Typed(s), Placed(s, y, w), NEW t \in Tasks, Pending(s, t),
         NEW state \in {"delayed", "queued"}
  PROVE  Placed(SetRow(s, t, state), y, w)
<1>1. PICK r : r = SetRow(s, t, state)
  OBVIOUS
<1>2. s.row[t] # Nil /\ s.row[t].state # "running" /\ state \in {"delayed", "queued", "running"}
  BY DEF Pending
<1>3. /\ Typed(r)
      /\ r.status = s.status /\ r.archived = s.archived /\ r.hasThread = s.hasThread
      /\ r.claim = s.claim /\ r.entries = s.entries /\ r.object = s.object /\ r.call = s.call
      /\ r.queue = s.queue /\ r.lease = s.lease
      /\ r.closed = s.closed /\ r.recovery = s.recovery
      /\ r.enabled = s.enabled /\ r.toWake = s.toWake /\ r.waking = s.waking
      /\ \A u \in Tasks : u # t => r.row[u] = s.row[u]
      /\ r.row[t] # Nil /\ r.row[t].state = state /\ r.row[t].ready = s.row[t].ready
  BY <1>1, <1>2, SetRowIs
<1>4. /\ \A u \in Tasks : Pending(r, u) <=> Pending(s, u)
      /\ \A u \in Tasks : s.row[u] # Nil => r.row[u] # Nil /\ r.row[u].ready = s.row[u].ready
      /\ \A u \in Tasks : r.row[u] # Nil /\ r.row[u].state = "running" <=>
                            s.row[u] # Nil /\ s.row[u].state = "running"
  BY <1>2, <1>3 DEF Pending
<1>5. \A p \in Calls : s.call[p] # Nil => s.call[p].task \in Tasks
  BY FieldTypes DEF AsyncCalls
<1>6. OneCall(r) /\ RunsPlaced(r, w) /\ FreshUnarchived(r) /\ RunsClaimed(r, w)
  BY <1>3, <1>4, <1>5 DEF Placed, OneCall, RunsPlaced, FreshUnarchived, RunsClaimed
<1>7. LaunchesPlaced(r, w) /\ LaunchesMapped(r, w)
  <2>1. LaunchesPlaced(r, w)
    <3>1. SUFFICES ASSUME NEW p \in Calls, p # w, Launch(s, p)
                   PROVE  /\ s.call[p].entry \in Entries /\ s.object[s.call[p].entry] # Nil
                          /\ s.object[s.call[p].entry].task = s.call[p].task
                          /\ s.object[s.call[p].entry].pending => s.call[p].pc = "lease"
                          /\ Pending(r, s.call[p].task) /\ r.row[s.call[p].task].ready
      BY <1>3 DEF LaunchesPlaced, Launch
    <3>2. /\ s.call[p].entry \in Entries /\ s.object[s.call[p].entry] # Nil
          /\ s.object[s.call[p].entry].task = s.call[p].task
          /\ s.object[s.call[p].entry].pending => s.call[p].pc = "lease"
          /\ Pending(s, s.call[p].task) /\ s.row[s.call[p].task].ready
      BY <3>1 DEF Placed, LaunchesPlaced
    <3>3. s.call[p].task \in Tasks /\ s.row[s.call[p].task] # Nil
      BY <1>5, <3>1, <3>2 DEF Launch, Pending
    <3>4. QED
      BY <1>4, <3>2, <3>3
  <2>2. LaunchesMapped(r, w)
    BY <1>3 DEF Placed, LaunchesMapped, Launch
  <2>3. QED
    BY <2>1, <2>2
<1>8. TimersIdle(r, w) /\ MapKept(r) /\ PendingHeld(r)
  BY <1>3 DEF Placed, TimersIdle, MapKept, PendingHeld, WorkedOn
<1>9. RecoveryLeft(r)
  <2>1. s.recovery.left \subseteq Tasks
    BY FieldTypes
  <2>2. QED
    BY <1>3, <1>4, <2>1 DEF Placed, RecoveryLeft
<1>10. RunningRows(r)
  BY <1>3, <1>4 DEF Placed, RunningRows
<1>11. Alive(r, y)
  BY <1>3, <1>4 DEF Placed, Alive, WorkedOn
<1>12. QED
  BY <1>1, <1>6, <1>7, <1>8, <1>9, <1>10, <1>11 DEF Placed

Shorter(s, r) ==
  \A i \in 1..Len(r.queue) : \E j \in 1..Len(s.queue) : r.queue[i] = s.queue[j]

LEMMA DrainShorter ==
  ASSUME NEW s, Typed(s)
  PROVE  Shorter(s, Drain(s)) /\ Grants(s, Drain(s))
<1>1. CASE s.queue = <<>> \/ Cardinality(Active(s)) >= Limit
  BY <1>1, DrainWaits, GrantsSelf DEF Shorter
<1>2. CASE s.queue # <<>> /\ Cardinality(Active(s)) < Limit
  <2>1. Drain(s).queue = Tail(s.queue) /\ Grants(s, Drain(s))
    BY <1>2, DrainIs
  <2>2. s.queue \in Seq(Tasks)
    BY FieldTypes
  <2>3. /\ Len(s.queue) \in Nat /\ Len(Tail(s.queue)) = Len(s.queue) - 1
        /\ \A i \in 1..Len(Tail(s.queue)) : Tail(s.queue)[i] = s.queue[i + 1]
    BY <1>2, <2>2, HeadTailProperties, LenProperties
  <2>4. ASSUME NEW i \in 1..Len(Tail(s.queue))
        PROVE  \E j \in 1..Len(s.queue) : Tail(s.queue)[i] = s.queue[j]
    <3>1. i + 1 \in 1..Len(s.queue) /\ Tail(s.queue)[i] = s.queue[i + 1]
      BY <2>3
    <3>2. QED
      BY <3>1
  <2>5. QED
    BY <2>1, <2>4 DEF Shorter
<1>3. QED
  BY <1>1, <1>2, ActiveSize, ConstantFacts

LEMMA ReleaseShorter ==
  ASSUME NEW s, NEW l, Typed(s)
  PROVE  Shorter(s, Release(s, l)) /\ Grants(s, Release(s, l))
<1>1. PICK r : r = [s EXCEPT !.lease = [t \in Tasks |-> IF s.lease[t] = l THEN Nil
                                                        ELSE s.lease[t]]]
  OBVIOUS
<1>2. s.lease \in [Tasks -> LeaseIds \cup {Nil}]
  BY FieldTypes
<1>3. [t \in Tasks |-> IF s.lease[t] = l THEN Nil ELSE s.lease[t]] \in [Tasks -> LeaseIds \cup {Nil}]
  BY <1>2
<1>4. Typed(r) /\ r.queue = s.queue
  BY <1>1, <1>3, SMTT(30) DEF Typed, Fields
<1>5. Grants(s, r)
  BY <1>1, <1>3, SMTT(30) DEF Typed, Fields, Grants
<1>6. Shorter(r, Drain(r)) /\ Grants(r, Drain(r))
  BY <1>4, DrainShorter
<1>7. Release(s, l) = Drain(r)
  BY <1>1 DEF Release
<1>8. QED
  BY <1>4, <1>5, <1>6, <1>7, GrantsTwice DEF Shorter

-----------------------------------------------------------------------------
(* A call ends.                                                            *)

\* Once it has ended, the reservations are in order again,
LEMMA EndPlaced ==
  ASSUME NEW s, NEW r, NEW p \in Calls, Typed(s), Placed(s, Nil, p), Ending(s, p),
         Ends(s, r, p),
         LET t == s.call[p].task IN
         ~(r.row[t] # Nil /\ r.row[t].state = "running")
  PROVE  Placed(r, Nil, Nil)
<1>1. PICK t : t = s.call[p].task
  OBVIOUS
<1>2. /\ s.call \in [Calls -> AsyncCalls \cup {Nil}] /\ s.entries \in [Tasks -> Entries \cup {Nil}]
      /\ s.object \in [Entries -> Objects \cup {Nil}]
      /\ s.recovery.left \subseteq Tasks
      /\ \A q \in Calls : s.call[q] # Nil => s.call[q].task \in Tasks
  BY FieldTypes DEF AsyncCalls
<1>3. t \in Tasks
  BY <1>1, <1>2 DEF Ending
<1>4. /\ r.call[p] = Nil
      /\ \A q \in Calls : q # p => r.call[q] = s.call[q]
      /\ \A q \in Calls : r.call[q] # Nil => /\ q # p /\ r.call[q] = s.call[q]
                                             /\ s.call[q].task # t /\ s.call[q].task \in Tasks
  BY <1>1, <1>2 DEF Ends, Ending, Placed, OneCall
<1>5. /\ \A u \in Tasks : u # t => r.row[u] = s.row[u] /\ r.entries[u] = s.entries[u]
      /\ r.entries[t] = Nil \/ r.entries[t] = s.entries[t]
      /\ r.row[t] = Nil \/ r.row[t] = s.row[t]
      /\ ~(r.row[t] # Nil /\ r.row[t].state = "running")
  BY <1>1 DEF Ends
<1>6. \A o \in Entries :
       /\ r.object[o] = Nil <=> s.object[o] = Nil
       /\ s.object[o] # Nil =>
            /\ r.object[o].task = s.object[o].task
            /\ r.object[o].pending => s.object[o].pending
            /\ s.object[o].task # t =>
                 r.object[o].pending = s.object[o].pending /\ r.object[o].timer = s.object[o].timer
            /\ s.object[o].task = t /\ r.object[o].timer => s.closed \/ r.entries[t] = o
  BY <1>1 DEF Ends
<1>7. OneCall(r)
  BY <1>4 DEF Placed, OneCall
<1>8. RunsPlaced(r, Nil)
  BY <1>4, <1>5 DEF Placed, RunsPlaced
<1>9. LaunchesPlaced(r, Nil)
  <2>1. SUFFICES ASSUME NEW q \in Calls, Launch(r, q)
                 PROVE  /\ r.call[q].entry \in Entries /\ r.object[r.call[q].entry] # Nil
                        /\ r.object[r.call[q].entry].task = r.call[q].task
                        /\ r.object[r.call[q].entry].pending => r.call[q].pc = "lease"
                        /\ Pending(r, r.call[q].task) /\ r.row[r.call[q].task].ready
    BY DEF LaunchesPlaced
  <2>2. r.call[q] = s.call[q] /\ q # p /\ Launch(s, q) /\ s.call[q].task # t /\ s.call[q].task \in Tasks
    BY <1>4, <2>1 DEF Launch
  <2>3. /\ s.call[q].entry \in Entries /\ s.object[s.call[q].entry] # Nil
        /\ s.object[s.call[q].entry].task = s.call[q].task
        /\ s.object[s.call[q].entry].pending => s.call[q].pc = "lease"
        /\ Pending(s, s.call[q].task) /\ s.row[s.call[q].task].ready
    BY <2>2 DEF Placed, LaunchesPlaced
  <2>4. QED
    BY <2>2, <2>3, <1>5, <1>6 DEF Pending
<1>10. LaunchesMapped(r, Nil)
  <2>1. SUFFICES ASSUME ~r.closed, NEW q \in Calls, Launch(r, q)
                 PROVE  /\ r.entries[r.call[q].task] = r.call[q].entry
                        /\ r.call[q].pc = "lease" /\ r.call[q].lease = Nil =>
                             r.object[r.call[q].entry].pending
    BY DEF LaunchesMapped
  <2>2. r.call[q] = s.call[q] /\ q # p /\ Launch(s, q) /\ s.call[q].task # t /\ s.call[q].task \in Tasks
    BY <1>4, <2>1 DEF Launch
  <2>3. /\ s.call[q].entry \in Entries /\ s.object[s.call[q].entry] # Nil
        /\ s.object[s.call[q].entry].task = s.call[q].task
    BY <2>2 DEF Placed, LaunchesPlaced
  <2>4. /\ s.entries[s.call[q].task] = s.call[q].entry
        /\ s.call[q].pc = "lease" /\ s.call[q].lease = Nil => s.object[s.call[q].entry].pending
    BY <2>1, <2>2 DEF Placed, LaunchesMapped, Ends
  <2>5. QED
    BY <2>2, <2>3, <2>4, <1>5, <1>6
<1>11. FreshUnarchived(r)
  BY <1>4 DEF Placed, FreshUnarchived, Ends
<1>12. RunsClaimed(r, Nil)
  BY <1>4 DEF Placed, RunsClaimed, Ends
<1>13. TimersIdle(r, Nil)
  <2>1. SUFFICES ASSUME NEW o \in Entries, r.object[o] # Nil, r.object[o].timer
                 PROVE  /\ \A q \in Calls : r.call[q] # Nil => r.call[q].task # r.object[o].task
                        /\ ~r.closed => r.entries[r.object[o].task] = o
    BY DEF TimersIdle
  <2>2. s.object[o] # Nil /\ r.object[o].task = s.object[o].task /\ r.closed = s.closed
    BY <1>6, <2>1 DEF Ends
  <2>3. CASE s.object[o].task = t
    BY <2>1, <2>2, <2>3, <1>4, <1>6
  <2>4. CASE s.object[o].task # t
    <3>1. s.object[o].timer /\ s.object[o].task \in Tasks
      BY <1>2, <1>6, <2>1, <2>2, <2>4 DEF Objects
    <3>2. QED
      BY <3>1, <2>2, <2>4, <1>4, <1>5 DEF Placed, TimersIdle
  <2>5. QED
    BY <2>3, <2>4
<1>14. MapKept(r)
  BY <1>2, <1>3, <1>5, <1>6 DEF Placed, MapKept, Ends
<1>15. ASSUME NEW u \in Tasks, u # t, s.entries[u] # Nil, WorkedOn(s, s.entries[u])
       PROVE  WorkedOn(r, r.entries[u])
  <2>1. PICK q \in Calls : s.call[q] # Nil /\ s.call[q].entry = s.entries[u]
    BY <1>15 DEF WorkedOn
  <2>2. q # p
    BY <1>1, <1>15, <2>1 DEF Ending, Placed, MapKept
  <2>3. QED
    BY <1>4, <1>5, <1>15, <2>1, <2>2 DEF WorkedOn
<1>16. PendingHeld(r)
  <2>1. SUFFICES ASSUME ~ArchiveMidway, NEW u \in Tasks, r.entries[u] # Nil,
                        r.object[r.entries[u]].pending
                 PROVE  WorkedOn(r, r.entries[u])
    BY DEF PendingHeld
  <2>2. u # t
    BY <1>1, <2>1 DEF Ends
  <2>3. /\ r.entries[u] = s.entries[u] /\ s.entries[u] \in Entries /\ s.entries[u] # Nil
        /\ s.object[s.entries[u]] # Nil
    BY <1>2, <1>5, <2>1, <2>2 DEF Placed, MapKept
  <2>4. WorkedOn(s, s.entries[u])
    BY <1>6, <2>1, <2>3 DEF Placed, PendingHeld
  <2>5. QED
    BY <1>15, <2>2, <2>3, <2>4
<1>17. RecoveryLeft(r)
  <2>1. SUFFICES ASSUME NEW u \in r.recovery.left
                 PROVE  ~r.closed /\ Pending(r, u) /\ r.entries[u] = Nil
    BY DEF RecoveryLeft
  <2>2. u \in s.recovery.left /\ u # t /\ u \in Tasks
    BY <1>1, <1>2, <2>1 DEF Ends, Ending
  <2>3. QED
    BY <1>5, <2>2 DEF Placed, RecoveryLeft, Ends, Pending
<1>18. RunningRows(r)
  <2>1. SUFFICES ASSUME NEW u \in Tasks, r.row[u] # Nil, r.row[u].state = "running"
                 PROVE  \E q \in Calls : r.call[q] # Nil /\ r.call[q].pc = "run" /\ r.call[q].task = u
    BY DEF RunningRows
  <2>2. u # t /\ s.row[u] # Nil /\ s.row[u].state = "running"
    BY <1>5, <2>1
  <2>3. PICK q \in Calls : s.call[q] # Nil /\ s.call[q].pc = "run" /\ s.call[q].task = u
    BY <2>2 DEF Placed, RunningRows
  <2>4. QED
    BY <1>1, <1>4, <2>2, <2>3
<1>19. Alive(r, Nil)
  <2>1. SUFFICES ASSUME ~ArchiveMidway, NEW u \in Tasks, r.entries[u] # Nil, Pending(r, u)
                 PROVE  \/ r.object[r.entries[u]].timer
                        \/ WorkedOn(r, r.entries[u])
                        \/ u \in r.toWake \/ r.entries[u] \in r.waking
                        \/ ~r.enabled
    BY DEF Alive
  <2>2. CASE u = t
    BY <1>1, <2>1, <2>2 DEF Ends
  <2>3. CASE u # t
    <3>1. /\ r.entries[u] = s.entries[u] /\ s.entries[u] \in Entries /\ s.entries[u] # Nil
          /\ s.object[s.entries[u]] # Nil /\ s.object[s.entries[u]].task = u /\ Pending(s, u)
      BY <1>2, <1>5, <2>1, <2>3 DEF Placed, MapKept, Pending
    <3>2. \/ s.object[s.entries[u]].timer
          \/ WorkedOn(s, s.entries[u])
          \/ u \in s.toWake \/ s.entries[u] \in s.waking
          \/ ~s.enabled
      BY <2>1, <3>1 DEF Placed, Alive
    <3>3. CASE s.object[s.entries[u]].timer
      BY <3>1, <3>3, <2>3, <1>6
    <3>4. CASE WorkedOn(s, s.entries[u])
      BY <3>1, <3>4, <2>3, <1>15
    <3>5. CASE u \in s.toWake \/ s.entries[u] \in s.waking \/ ~s.enabled
      BY <3>1, <3>5 DEF Ends
    <3>6. QED
      BY <3>2, <3>3, <3>4, <3>5
  <2>4. QED
    BY <2>2, <2>3
<1>20. QED
  BY <1>7, <1>8, <1>9, <1>10, <1>11, <1>12, <1>13, <1>14, <1>16, <1>17, <1>18, <1>19 DEF Placed

\* and so are the leases, when its own went back before.
LEMMA EndScheduled ==
  ASSUME NEW s, NEW r, NEW p \in Calls, NEW x, Typed(s), Scheduled(s, x, Nil), Ends(s, r, p),
         s.call[p] # Nil,
         x = p \/ (x = Nil /\ s.call[p].pc = "package" /\ s.call[p].lease = Nil),
         LET t == s.call[p].task IN
         \/ r.entries[t] = s.entries[t]
         \/ \A i \in 1..Len(s.queue) : s.queue[i] # t
  PROVE  Scheduled(r, Nil, Nil)
<1>1. r.queue = s.queue /\ r.lease = s.lease /\ r.closed = s.closed /\ r.call[p] = Nil
      /\ \A q \in Calls : q # p => r.call[q] = s.call[q]
  BY DEF Ends
<1>2. LeasesApart(r) /\ WithinLimit(r) /\ QueueWaits(r)
  BY <1>1 DEF Scheduled, LeasesApart, WithinLimit, Active, QueueWaits
<1>3. QueueMapped(r)
  <2>1. \A i \in 1..Len(s.queue) : s.queue[i] \in Tasks
    BY FieldTypes, ElementOfSeq
  <2>2. QED
    BY <1>1, <2>1 DEF Scheduled, QueueMapped, Ends
<1>4. LeasesMatch(r, Nil)
  <2>1. Nil \notin Calls
    BY ConstantFacts
  <2>2. QED
    BY <1>1, <2>1 DEF Scheduled, LeasesMatch, Holds
<1>5. LeasesOwned(r, Nil)
  <2>1. SUFFICES ASSUME ~ArchiveMidway, ~r.closed
                 PROVE  /\ \A u \in Tasks : u # Nil /\ r.lease[u] # Nil => HeldBy(r, u)
                        /\ \A i \in 1..Len(r.queue) : r.queue[i] # Nil => AwaitedBy(r, r.queue[i])
    BY DEF LeasesOwned
  <2>2. /\ \A u \in Tasks : u # Nil /\ s.lease[u] # Nil => HeldBy(s, u)
        /\ \A i \in 1..Len(s.queue) : s.queue[i] # Nil => AwaitedBy(s, s.queue[i])
    BY <1>1, <2>1 DEF Scheduled, LeasesOwned
  <2>3. /\ \A u \in Tasks : s.lease[u] # Nil => s.call[p].lease # s.lease[u]
        /\ \A u : ~WaitsFor(s, p, u)
    BY DEF Scheduled, LeasesMatch, GaveBack, WaitsFor
  <2>4. \A u \in Tasks : s.lease[u] # Nil /\ HeldBy(s, u) => HeldBy(r, u)
    BY <1>1, <2>3 DEF HeldBy
  <2>5. \A u : AwaitedBy(s, u) => AwaitedBy(r, u)
    BY <1>1, <2>3 DEF AwaitedBy, WaitsFor
  <2>6. QED
    BY <1>1, <2>2, <2>4, <2>5
<1>6. QED
  BY <1>2, <1>3, <1>4, <1>5 DEF Scheduled

LEMMA OverIs ==
  ASSUME NEW s, NEW p \in Calls, Typed(s), s.call[p] # Nil,
         s.call[p].entry \in Entries, s.object[s.call[p].entry] # Nil
  PROVE  Stopped(s, Over(s, p), p) /\ Over(s, p).recovery = s.recovery
<1>1. PICK e, c, m : /\ e = s.call[p].entry
                     /\ c = [s EXCEPT !.call = [s.call EXCEPT ![p] = Nil]]
                     /\ m = [s.object[e] EXCEPT !.pending = FALSE]
  OBVIOUS
<1>2. /\ s.call \in [Calls -> AsyncCalls \cup {Nil}] /\ s.object \in [Entries -> Objects \cup {Nil}]
      /\ s.object[e] \in Objects
  BY <1>1, FieldTypes
<1>3. m \in Objects /\ m # Nil /\ m.task = s.object[e].task /\ m.timer = s.object[e].timer
      /\ ~m.pending
  BY <1>1, <1>2, ConstantFacts DEF Objects
<1>4. [s.call EXCEPT ![p] = Nil] \in [Calls -> AsyncCalls \cup {Nil}]
  BY <1>2
<1>5. [s.object EXCEPT ![e] = m] \in [Entries -> Objects \cup {Nil}]
  BY <1>1, <1>2, <1>3
<1>6. Typed(c) /\ c.object = s.object
  BY <1>1, <1>4, SMTT(30) DEF Typed, Fields
<1>7. CASE ~s.call[p].background
  <2>1. Over(s, p) = c
    BY <1>1, <1>7 DEF Over
  <2>2. QED
    BY <1>1, <1>6, <2>1, SMTT(30) DEF Typed, Fields, Stopped
<1>8. CASE s.call[p].background
  <2>1. PICK r : r = [s EXCEPT !.call = [s.call EXCEPT ![p] = Nil], !.object = [s.object EXCEPT ![e] = m]]
    OBVIOUS
  <2>2. Over(s, p) = r
    <3>1. Over(s, p) = [c EXCEPT !.object[e].pending = FALSE]
      BY <1>1, <1>8 DEF Over
    <3>2. [c EXCEPT !.object[e].pending = FALSE] = [c EXCEPT !.object = [s.object EXCEPT ![e] = m]]
      BY <1>1, <1>6
    <3>3. QED
      BY <1>1, <2>1, <3>1, <3>2, SMTT(30) DEF Typed, Fields
  <2>3. /\ Typed(r)
        /\ r.status = s.status /\ r.archived = s.archived /\ r.hasThread = s.hasThread
        /\ r.claim = s.claim /\ r.row = s.row /\ r.entries = s.entries
        /\ r.queue = s.queue /\ r.lease = s.lease
        /\ r.closed = s.closed /\ r.enabled = s.enabled /\ r.toWake = s.toWake /\ r.waking = s.waking
        /\ r.recovery = s.recovery
        /\ r.call = [s.call EXCEPT ![p] = Nil]
        /\ r.object = [s.object EXCEPT ![e] = m]
    BY <2>1, <1>4, <1>5, SMTT(30) DEF Typed, Fields
  <2>4. \A o \in Entries :
       /\ r.object[o] = Nil <=> s.object[o] = Nil
       /\ o # s.call[p].entry => r.object[o] = s.object[o]
       /\ s.object[o] # Nil =>
            /\ r.object[o].task = s.object[o].task /\ r.object[o].timer = s.object[o].timer
            /\ r.object[o].pending => s.object[o].pending
    BY <1>1, <1>2, <1>3, <2>3
  <2>5. QED
    BY <2>2, <2>3, <2>4 DEF Stopped
<1>9. QED
  BY <1>7, <1>8

LEMMA StoppedMore ==
  ASSUME NEW s, NEW c, NEW p \in Calls, NEW rec, Typed(s), Stopped(s, c, p), c.recovery = s.recovery,
         rec \in [left : SUBSET Tasks, at : Calls \cup {Nil}], rec.left \subseteq s.recovery.left
  PROVE  Stopped(s, [c EXCEPT !.recovery = rec], p)
<1>1. PICK r : r = [c EXCEPT !.recovery = rec]
  OBVIOUS
<1>2. /\ Typed(r)
      /\ r.status = c.status /\ r.archived = c.archived /\ r.hasThread = c.hasThread
      /\ r.claim = c.claim /\ r.row = c.row /\ r.entries = c.entries
      /\ r.queue = c.queue /\ r.lease = c.lease
      /\ r.closed = c.closed /\ r.enabled = c.enabled /\ r.toWake = c.toWake /\ r.waking = c.waking
      /\ r.recovery = rec
      /\ r.call = c.call /\ r.object = c.object
  <2>1. Typed(c)
    BY DEF Stopped
  <2>2. QED
    BY <1>1, <2>1, SMTT(30) DEF Typed, Fields
<1>3. Stopped(s, r, p)
  BY <1>2 DEF Stopped
<1>4. QED
  BY <1>1, <1>3

LEMMA ReturnIs ==
  ASSUME NEW s, NEW p \in Calls, Typed(s), s.call[p] # Nil,
         s.call[p].entry \in Entries, s.object[s.call[p].entry] # Nil
  PROVE  Stopped(s, Return(s, p), p) /\ Stopped(s, Throw(s, p), p)
<1>1. PICK c : c = Over(s, p)
  OBVIOUS
<1>2. Stopped(s, c, p) /\ c.recovery = s.recovery
  BY <1>1, OverIs
<1>3. s.recovery \in [left : SUBSET Tasks, at : Calls \cup {Nil}]
  BY FieldTypes
<1>4. PICK rec : rec = [s.recovery EXCEPT !.at = Nil]
  OBVIOUS
<1>5. rec \in [left : SUBSET Tasks, at : Calls \cup {Nil}] /\ rec.left \subseteq s.recovery.left
  BY <1>3, <1>4
<1>6. Idle \in [left : SUBSET Tasks, at : Calls \cup {Nil}] /\ Idle.left \subseteq s.recovery.left
  BY DEF Idle
<1>7. Return(s, p) = c \/ Return(s, p) = [c EXCEPT !.recovery = rec]
  <2>1. CASE c.recovery.at = p
    <3>1. Return(s, p) = [c EXCEPT !.recovery.at = Nil]
      BY <1>1, <2>1 DEF Return, Returned
    <3>2. [c EXCEPT !.recovery.at = Nil] = [c EXCEPT !.recovery = rec]
      BY <1>2, <1>4
    <3>3. QED
      BY <3>1, <3>2
  <2>2. CASE c.recovery.at # p
    BY <1>1, <2>2 DEF Return, Returned
  <2>3. QED
    BY <2>1, <2>2
<1>8. Throw(s, p) = c \/ Throw(s, p) = [c EXCEPT !.recovery = Idle]
  BY <1>1 DEF Throw, Abandoned
<1>9. QED
  BY <1>2, <1>5, <1>6, <1>7, <1>8, StoppedMore

\* The end of a launch keeps the invariant.
LEMMA LastWordKeeps ==
  ASSUME NEW s, NEW q, NEW r, NEW x, NEW p \in Calls, Typed(s), Scheduled(s, x, Nil),
         Placed(s, Nil, p), LastCall(s, p), LastWord(s, q, p),
         x = p \/ (x = Nil /\ s.call[p].pc = "package" /\ s.call[p].lease = Nil),
         r = Return(q, p) \/ r = Throw(q, p)
  PROVE  Core(r) /\ r.waking = s.waking
<1>1. PICK t, e : t = s.call[p].task /\ e = s.call[p].entry
  OBVIOUS
<1>2. /\ s.call[p] # Nil /\ e \in Entries /\ s.object[e] # Nil /\ s.object[e].task = t
      /\ \A o \in Entries : o # e /\ s.object[o] # Nil /\ s.object[o].timer => s.object[o].task # t
      /\ t \notin s.recovery.left
  BY <1>1 DEF LastCall
<1>3. /\ Typed(q)
      /\ q.archived = s.archived /\ q.claim = s.claim
      /\ q.queue = s.queue /\ q.lease = s.lease
      /\ q.closed = s.closed /\ q.enabled = s.enabled /\ q.toWake = s.toWake
      /\ q.waking = s.waking /\ q.recovery = s.recovery /\ q.call = s.call
      /\ \A u \in Tasks : u # t => q.row[u] = s.row[u] /\ q.entries[u] = s.entries[u]
      /\ q.row[t] = Nil \/ q.row[t] = s.row[t]
      /\ ~(q.row[t] # Nil /\ q.row[t].state = "running")
      /\ q.entries[t] = Nil \/ q.entries[t] = s.entries[t]
      /\ \A o \in Entries :
           /\ q.object[o] = Nil <=> s.object[o] = Nil
           /\ o # e => q.object[o] = s.object[o]
      /\ q.object[e].task = t
      /\ q.object[e].pending => s.object[e].pending
      /\ q.entries[t] = Nil \/ q.entries[t] = e
      /\ q.object[e].timer => q.closed \/ q.entries[t] = e
      /\ ~ArchiveMidway /\ q.entries[t] # Nil =>
           ~q.object[e].pending /\ (q.object[e].timer \/ ~q.enabled)
      /\ \/ q.entries[t] = s.entries[t]
         \/ \A i \in 1..Len(s.queue) : s.queue[i] # t
  BY <1>1 DEF LastWord
<1>4. q.call[p] # Nil /\ q.call[p].entry = e /\ q.object[e] # Nil
  BY <1>1, <1>2, <1>3
<1>5. Stopped(q, r, p)
  BY <1>2, <1>3, <1>4, ReturnIs
<1>6. /\ Typed(r)
      /\ r.archived = s.archived /\ r.claim = s.claim
      /\ r.queue = s.queue /\ r.lease = s.lease
      /\ r.closed = s.closed /\ r.enabled = s.enabled /\ r.toWake = s.toWake
      /\ r.waking = s.waking
      /\ r.recovery.left \subseteq s.recovery.left
      /\ r.row = q.row /\ r.entries = q.entries
  BY <1>3, <1>5 DEF Stopped
<1>7. r.call[p] = Nil /\ \A u \in Calls : u # p => r.call[u] = s.call[u]
  <2>1. r.call = [q.call EXCEPT ![p] = Nil] /\ q.call \in [Calls -> AsyncCalls \cup {Nil}]
    BY <1>3, <1>5, FieldTypes DEF Stopped
  <2>2. QED
    BY <1>3, <2>1
<1>8. \A o \in Entries :
     /\ r.object[o] = Nil <=> s.object[o] = Nil
     /\ s.object[o] # Nil =>
          /\ r.object[o].task = s.object[o].task
          /\ r.object[o].pending => s.object[o].pending
          /\ s.object[o].task # t =>
               r.object[o].pending = s.object[o].pending /\ r.object[o].timer = s.object[o].timer
          /\ s.object[o].task = t /\ r.object[o].timer => s.closed \/ r.entries[t] = o
  <2>1. TAKE o \in Entries
  <2>2. /\ r.object[o] = Nil <=> q.object[o] = Nil
        /\ o # e => r.object[o] = q.object[o]
        /\ q.object[o] # Nil =>
             /\ r.object[o].task = q.object[o].task /\ r.object[o].timer = q.object[o].timer
             /\ r.object[o].pending => q.object[o].pending
    BY <1>4, <1>5 DEF Stopped
  <2>3. CASE o = e
    BY <1>2, <1>3, <1>6, <2>2, <2>3
  <2>4. CASE o # e
    BY <1>2, <1>3, <2>2, <2>4
  <2>5. QED
    BY <2>3, <2>4
<1>9. ~ArchiveMidway /\ r.entries[t] # Nil =>
        ~r.object[e].pending /\ (r.object[e].timer \/ ~r.enabled) /\ r.entries[t] = e
  BY <1>2, <1>3, <1>4, <1>5, <1>6 DEF Stopped
<1>10. Ends(s, r, p)
  <2>1. ~ArchiveMidway /\ r.entries[t] # Nil =>
          /\ ~r.object[r.entries[t]].pending
          /\ r.object[r.entries[t]].timer \/ ~r.enabled
    BY <1>9
  <2>2. /\ \A u \in Tasks : u # t => r.row[u] = s.row[u] /\ r.entries[u] = s.entries[u]
        /\ r.row[t] = Nil \/ r.row[t] = s.row[t]
        /\ r.entries[t] = Nil \/ r.entries[t] = s.entries[t]
    BY <1>3, <1>6
  <2>3. QED
    BY <1>1, <1>6, <1>7, <1>8, <2>1, <2>2 DEF Ends
<1>11. Placed(r, Nil, Nil)
  <2>1. ~(r.row[t] # Nil /\ r.row[t].state = "running")
    BY <1>3, <1>6
  <2>2. Ending(s, p)
    BY <1>1, <1>2 DEF Ending
  <2>3. QED
    BY <1>1, <1>10, <2>1, <2>2, EndPlaced
<1>12. Scheduled(r, Nil, Nil)
  <2>1. LET u == s.call[p].task IN
        \/ r.entries[u] = s.entries[u]
        \/ \A i \in 1..Len(s.queue) : s.queue[i] # u
    BY <1>1, <1>3, <1>6
  <2>2. QED
    BY <1>2, <1>10, <2>1, EndScheduled
<1>13. QED
  BY <1>6, <1>11, <1>12 DEF Core

\* The catch block of launch() keeps the invariant.
LEMMA FailKeeps ==
  ASSUME NEW s, NEW x, NEW p \in Calls, x = Nil \/ x = p, Typed(s),
         Scheduled(s, x, Nil), Placed(s, Nil, p), Failing(s, p)
  PROVE  Core(Fail(s, p)) /\ Fail(s, p).waking = s.waking
<1>1. PICK t, e, l, s1, s2, s3 :
        /\ t = s.call[p].task /\ e = s.call[p].entry /\ l = s.call[p].lease
        /\ s1 = Release(s, l) /\ s2 = SetRow(s1, t, "delayed")
        /\ s3 = IF s2.status[t] = "queued" \/ (s2.status[t] = "in_progress" /\ ~s2.hasThread[t])
                THEN SetStatus(s2, t, "todo") ELSE s2
  OBVIOUS
<1>2. /\ s.call[p] # Nil /\ l # Nil /\ e \in Entries /\ s.object[e] # Nil /\ s.object[e].task = t
      /\ \A o \in Entries : s.object[o] # Nil /\ s.object[o].timer => s.object[o].task # t
      /\ t \notin s.recovery.left
      /\ \A i \in 1..Len(s.queue) : s.queue[i] # t
      /\ Pending(s, t)
      /\ ~s.closed => s.entries[t] = e
  BY <1>1 DEF Failing
<1>3. t \in Tasks
  BY <1>1, <1>2, FieldTypes DEF AsyncCalls
<1>4. Scheduled(s1, p, Nil) /\ Grants(s, s1) /\ Shorter(s, s1)
  <2>1. OneCall(s)
    BY DEF Placed
  <2>2. QED
    BY <1>1, <1>2, <2>1, ReleaseKeeps, ReleaseShorter
<1>5. /\ Typed(s1) /\ Placed(s1, Nil, p) /\ s1.call[p] = s.call[p] /\ s1.row = s.row
      /\ s1.object = s.object /\ s1.entries = s.entries /\ s1.closed = s.closed
      /\ s1.recovery = s.recovery /\ s1.waking = s.waking
      /\ \A i \in 1..Len(s1.queue) : s1.queue[i] # t
  <2>1. Placed(s1, Nil, p)
    BY <1>4, GrantsPlaced
  <2>2. s1.call[p] = s.call[p]
    BY <1>1, <1>2, <1>4 DEF Grants
  <2>3. QED
    BY <2>1, <2>2, <1>2, <1>4 DEF Grants, Shorter
<1>6. /\ Typed(s2)
      /\ s2.entries = s1.entries /\ s2.object = s1.object /\ s2.call = s1.call
      /\ s2.queue = s1.queue /\ s2.lease = s1.lease
      /\ s2.closed = s1.closed /\ s2.recovery = s1.recovery /\ s2.waking = s1.waking
      /\ s2.row[t] # Nil /\ s2.row[t].state = "delayed"
      /\ Placed(s2, Nil, p)
  <2>1. Pending(s1, t)
    BY <1>2, <1>5 DEF Pending
  <2>2. s1.row[t] # Nil /\ "delayed" \in {"delayed", "queued", "running"}
        /\ "delayed" \in {"delayed", "queued"}
    BY <2>1 DEF Pending
  <2>3. Placed(s2, Nil, p)
    BY <1>1, <1>3, <1>5, <2>1, <2>2, SetRowPlaced
  <2>4. /\ Typed(s2)
        /\ s2.entries = s1.entries /\ s2.object = s1.object /\ s2.call = s1.call
        /\ s2.queue = s1.queue /\ s2.lease = s1.lease
        /\ s2.closed = s1.closed /\ s2.recovery = s1.recovery /\ s2.waking = s1.waking
        /\ s2.row[t] # Nil /\ s2.row[t].state = "delayed"
    <3>1. s2 = SetRow(s1, t, "delayed") /\ Typed(s1) /\ t \in Tasks /\ s1.row[t] # Nil
          /\ "delayed" \in {"delayed", "queued", "running"}
      BY <1>1, <1>3, <1>5, <2>2
    <3>2. QED
      BY ONLY <3>1, SetRowIs
  <2>5. QED
    BY <2>3, <2>4
<1>7. Scheduled(s2, p, Nil)
  BY <1>4, <1>6, ScheduledSame
<1>8. Alike(s2, s3, Nil)
  <2>1. "todo" \in TaskStatuses
    BY DEF TaskStatuses
  <2>2. QED
    BY <1>1, <1>3, <1>6, <2>1, SetStatusIs, AlikeSelf
<1>9. /\ Typed(s3) /\ Scheduled(s3, p, Nil) /\ Placed(s3, Nil, p)
      /\ s3.call[p] # Nil /\ s3.call[p].task = t /\ s3.call[p].entry = e
      /\ s3.row = s2.row /\ s3.entries = s.entries /\ s3.object = s.object
      /\ s3.closed = s.closed /\ s3.recovery = s.recovery /\ s3.waking = s.waking
      /\ \A i \in 1..Len(s3.queue) : s3.queue[i] # t
  <2>1. Scheduled(s3, p, Nil)
    BY <1>7, <1>8, AlikeScheduled
  <2>2. Alike(s2, s3, p)
    BY <1>6, <1>8, AlikeMore
  <2>3. Placed(s3, Nil, p)
    BY <1>6, <2>2, AlikePlaced
  <2>4. CallAlike(s2, s3, p) /\ s2.call[p] = s.call[p]
    BY <1>5, <1>6, <1>8 DEF Alike
  <2>5. s3.call[p] # Nil /\ s3.call[p].task = t /\ s3.call[p].entry = e
    BY <1>1, <1>2, <2>4 DEF CallAlike
  <2>6. QED
    BY <1>5, <1>6, <1>8, <2>1, <2>3, <2>5 DEF Alike
<1>10. LastCall(s3, p)
  BY <1>2, <1>9 DEF LastCall
<1>11. ASSUME NEW s4, LastWord(s3, s4, p)
       PROVE  Core(Throw(s4, p)) /\ Throw(s4, p).waking = s.waking
  BY <1>9, <1>10, <1>11, LastWordKeeps
<1>12. /\ s3.object \in [Entries -> Objects \cup {Nil}] /\ s3.object[e] \in Objects
       /\ s3.entries \in [Tasks -> Entries \cup {Nil}] /\ s3.row \in [Tasks -> Rows \cup {Nil}]
  BY <1>2, <1>9, FieldTypes
<1>13. CASE s.closed \/ s.object[e].retries >= MaxLaunchRetries
  <2>1. PICK s4 : s4 = [s3 EXCEPT !.entries[t] = Nil, !.row[t] = IF s.closed THEN @ ELSE Nil]
    OBVIOUS
  <2>2. PICK m : m = IF s.closed THEN s3.row[t] ELSE Nil
    OBVIOUS
  <2>3. s4 = [s3 EXCEPT !.entries = [s3.entries EXCEPT ![t] = Nil], !.row = [s3.row EXCEPT ![t] = m]]
    BY <2>1, <2>2
  <2>4. /\ [s3.entries EXCEPT ![t] = Nil] \in [Tasks -> Entries \cup {Nil}]
        /\ [s3.row EXCEPT ![t] = m] \in [Tasks -> Rows \cup {Nil}]
    BY <1>12, <1>3, <2>2
  <2>5. /\ Typed(s4)
        /\ s4.archived = s3.archived /\ s4.claim = s3.claim
        /\ s4.queue = s3.queue /\ s4.lease = s3.lease
        /\ s4.closed = s3.closed /\ s4.enabled = s3.enabled /\ s4.toWake = s3.toWake
        /\ s4.waking = s3.waking /\ s4.recovery = s3.recovery /\ s4.call = s3.call
        /\ s4.object = s3.object
        /\ s4.entries = [s3.entries EXCEPT ![t] = Nil] /\ s4.row = [s3.row EXCEPT ![t] = m]
    BY <1>9, <2>3, <2>4, SMTT(30) DEF Typed, Fields
  <2>6. /\ \A u \in Tasks : u # t => s4.row[u] = s3.row[u] /\ s4.entries[u] = s3.entries[u]
        /\ s4.row[t] = Nil \/ s4.row[t] = s3.row[t]
        /\ s4.entries[t] = Nil
    BY <1>3, <1>12, <2>2, <2>5
  <2>7. s4.object[e].task = t /\ ~s4.object[e].timer
    BY <1>2, <1>9, <2>5
  <2>8. LastWord(s3, s4, p)
    BY <1>6, <1>9, <2>5, <2>6, <2>7 DEF LastWord
  <2>9. Fail(s, p) = Throw(s4, p)
    <3>1. s3.closed = s.closed /\ s3.object[e].retries = s.object[e].retries
      BY <1>9
    <3>2. QED
      BY <1>1, <1>13, <2>1, <3>1 DEF Fail
  <2>10. QED
    BY <1>11, <2>8, <2>9
<1>14. CASE ~(s.closed \/ s.object[e].retries >= MaxLaunchRetries)
  <2>1. PICK m : m = [s3.object[e] EXCEPT !.retries = @ + 1, !.launching = FALSE,
                                          !.pending = FALSE, !.timer = TRUE]
    OBVIOUS
  <2>2. PICK s4 : s4 = [s3 EXCEPT !.entries = [s3.entries EXCEPT ![t] = e],
                                  !.object = [s3.object EXCEPT ![e] = m]]
    OBVIOUS
  <2>3. s3.object[e].retries + 1 \in 0..MaxLaunchRetries
    <3>1. s3.object[e].retries \in 0..MaxLaunchRetries /\ MaxLaunchRetries \in Nat
      BY <1>12, CoordinatorAssumption DEF Objects
    <3>2. s3.object[e].retries < MaxLaunchRetries
      BY <1>9, <1>14, <3>1
    <3>3. QED
      BY <3>1, <3>2
  <2>4. m \in Objects /\ m.task = t /\ ~m.pending /\ m.timer /\ m # Nil
    <3>1. m \in Objects /\ m.task = s3.object[e].task /\ m.pending = FALSE /\ m.timer = TRUE
      BY <1>12, <2>1, <2>3 DEF Objects
    <3>2. QED
      BY <1>2, <1>9, <3>1, ConstantFacts
  <2>5. /\ [s3.entries EXCEPT ![t] = e] \in [Tasks -> Entries \cup {Nil}]
        /\ [s3.object EXCEPT ![e] = m] \in [Entries -> Objects \cup {Nil}]
    BY <1>2, <1>12, <2>4
  <2>6. /\ Typed(s4)
        /\ s4.archived = s3.archived /\ s4.claim = s3.claim
        /\ s4.queue = s3.queue /\ s4.lease = s3.lease
        /\ s4.closed = s3.closed /\ s4.enabled = s3.enabled /\ s4.toWake = s3.toWake
        /\ s4.waking = s3.waking /\ s4.recovery = s3.recovery /\ s4.call = s3.call
        /\ s4.row = s3.row /\ s4.entries = [s3.entries EXCEPT ![t] = e]
        /\ s4.object = [s3.object EXCEPT ![e] = m]
    BY <1>9, <2>2, <2>5, SMTT(30) DEF Typed, Fields
  <2>7. /\ s4.object[e] = m /\ s4.entries[t] = e /\ s3.entries[t] = e /\ s3.object[e] # Nil
        /\ \A u \in Tasks : u # t => s4.entries[u] = s3.entries[u]
        /\ \A o \in Entries : o # e => s4.object[o] = s3.object[o]
    BY <1>2, <1>3, <1>9, <1>12, <1>14, <2>6
  <2>8. LastWord(s3, s4, p)
    BY <1>2, <1>6, <1>9, <2>4, <2>6, <2>7 DEF LastWord
  <2>9. Fail(s, p) = Throw(s4, p)
    <3>1. s3.closed = s.closed /\ s3.object[e].retries = s.object[e].retries
      BY <1>9
    <3>2. s4 = [s3 EXCEPT !.entries[t] = e,
                          !.object[e].retries = @ + 1, !.object[e].launching = FALSE,
                          !.object[e].pending = FALSE, !.object[e].timer = TRUE]
      BY <2>1, <2>2, <1>2, <1>12
    <3>3. QED
      BY <1>1, <1>14, <3>1, <3>2 DEF Fail
  <2>10. QED
    BY <1>11, <2>8, <2>9
<1>15. QED
  BY <1>13, <1>14

\* A step to a record without a waking entry.
LEMMA BecomeKeeps ==
  ASSUME NEW s, Core(s), s.waking = {}, Become(s)
  PROVE  IndInv(Now')
<1>1. Collects(s, Now')
  BY BecomeIs DEF Core
<1>2. IndInv(s)
  BY DEF IndInv, WakingQuiet
<1>3. QED
  BY <1>1, <1>2, CollectKeeps

LEMMA CanFail ==
  ASSUME NEW s, NEW p \in Calls, Core(s), Launch(s, p), s.call[p].lease # Nil
  PROVE  Failing(s, p)
<1>1. PICK t, e : t = s.call[p].task /\ e = s.call[p].entry
  OBVIOUS
<1>2. Typed(s) /\ Nil \notin Calls /\ Nil \notin Entries
  BY ConstantFacts DEF Core
<1>3. s.call[p] # Nil /\ t \in Tasks
  BY <1>1, <1>2, FieldTypes DEF AsyncCalls, Launch
<1>4. e \in Entries /\ s.object[e] # Nil /\ s.object[e].task = t /\ Pending(s, t)
  BY <1>1, <1>2 DEF Core, Placed, LaunchesPlaced
<1>5. \A o \in Entries : s.object[o] # Nil /\ s.object[o].timer => s.object[o].task # t
  BY <1>1, <1>2, <1>3 DEF Core, Placed, TimersIdle
<1>6. ~s.closed => s.entries[t] = e
  BY <1>1, <1>2 DEF Core, Placed, LaunchesMapped
<1>7. t \notin s.recovery.left
  BY <1>2, <1>4, <1>6 DEF Core, Placed, RecoveryLeft
<1>8. s.lease[t] # Nil
  BY <1>1, <1>2, <1>3 DEF Core, Scheduled, LeasesMatch, Holds
<1>9. \A i \in 1..Len(s.queue) : s.queue[i] # t
  BY <1>8 DEF Core, Scheduled, QueueWaits
<1>10. QED
  BY <1>1, <1>3, <1>4, <1>5, <1>6, <1>7, <1>9 DEF Failing

LEMMA FailingAlike ==
  ASSUME NEW s, NEW r, NEW p \in Calls, NEW w, Failing(s, p), Alike(s, r, w)
  PROVE  Failing(r, p)
<1>1. CallAlike(s, r, p)
  BY DEF Alike
<1>2. r.call[p] # Nil /\ r.call[p].task = s.call[p].task /\ r.call[p].entry = s.call[p].entry
      /\ r.call[p].lease = s.call[p].lease
  BY <1>1 DEF Failing, CallAlike
<1>3. /\ r.row = s.row /\ r.entries = s.entries /\ r.object = s.object /\ r.queue = s.queue
      /\ r.closed = s.closed /\ r.recovery = s.recovery
  BY DEF Alike
<1>4. QED
  BY <1>2, <1>3 DEF Failing, Pending

\* Any launch whose lease is there may fail, with or without giving its claim back.
LEMMA LaunchFails ==
  ASSUME NEW s, NEW p \in Calls, Core(s), Launch(s, p), s.call[p].lease # Nil
  PROVE  /\ Core(Fail(s, p)) /\ Fail(s, p).waking = s.waking
         /\ Core(Fail(ReleaseTask(s, p), p)) /\ Fail(ReleaseTask(s, p), p).waking = s.waking
<1>1. PICK r : r = ReleaseTask(s, p)
  OBVIOUS
<1>2. Typed(s) /\ Scheduled(s, Nil, Nil) /\ Placed(s, Nil, p) /\ Failing(s, p)
  <2>1. Placed(s, Nil, Nil) => Placed(s, Nil, p)
    BY ConstantFacts DEF Placed, RunsPlaced, LaunchesPlaced, LaunchesMapped, RunsClaimed, TimersIdle
  <2>2. QED
    BY <2>1, CanFail DEF Core
<1>3. Alike(s, r, p)
  BY <1>1, <1>2, ReleaseTaskIs DEF Failing
<1>4. Typed(r) /\ Scheduled(r, Nil, Nil) /\ Placed(r, Nil, p) /\ Failing(r, p) /\ r.waking = s.waking
  <2>1. Scheduled(r, Nil, Nil)
    BY <1>2, <1>3, AlikeScheduled
  <2>2. Placed(r, Nil, p)
    BY <1>2, <1>3, AlikePlaced
  <2>3. Failing(r, p)
    BY <1>2, <1>3, FailingAlike
  <2>4. Typed(r) /\ r.waking = s.waking
    BY <1>3 DEF Alike
  <2>5. QED
    BY <2>1, <2>2, <2>3, <2>4
<1>5. QED
  BY <1>1, <1>2, <1>4, FailKeeps

-----------------------------------------------------------------------------
(* A launch goes on.                                                       *)

\* Such a step keeps the invariant.
LEMMA AdvanceKeeps ==
  ASSUME NEW s, NEW r, NEW p \in Calls, Core(s), Launch(s, p), s.call[p].lease # Nil,
         Advances(s, r, p)
  PROVE  Core(r)
<1>1. PICK t, e : t = s.call[p].task /\ e = s.call[p].entry
  OBVIOUS
<1>2. /\ Typed(s) /\ Nil \notin Calls /\ Nil \notin Entries
      /\ \A q \in Calls : s.call[q] # Nil => s.call[q].task \in Tasks
      /\ s.entries \in [Tasks -> Entries \cup {Nil}]
  BY ConstantFacts, FieldTypes DEF Core, AsyncCalls
<1>3. /\ s.call[p] # Nil /\ t \in Tasks /\ e \in Entries /\ s.object[e] # Nil
      /\ s.object[e].task = t
  BY <1>1, <1>2 DEF Launch, Core, Placed, LaunchesPlaced
<1>4. /\ r.archived = s.archived /\ r.row = s.row /\ r.entries = s.entries
      /\ r.queue = s.queue /\ r.lease = s.lease
      /\ r.closed = s.closed /\ r.recovery = s.recovery
      /\ r.enabled = s.enabled /\ r.toWake = s.toWake /\ r.waking = s.waking
      /\ r.call[p] # Nil /\ r.call[p].pc \notin {"package", "lease", "run"}
      /\ r.call[p].task = t /\ r.call[p].entry = e /\ r.call[p].lease = s.call[p].lease
      /\ r.object[e] # Nil /\ r.object[e].task = t /\ ~r.object[e].pending
      /\ r.object[e].timer = s.object[e].timer
      /\ \A o \in Entries : o # e => r.object[o] = s.object[o]
  BY <1>1 DEF Advances
<1>5. \A q \in Calls : q # p =>
        IF s.call[q] = Nil THEN r.call[q] = Nil
        ELSE /\ r.call[q] # Nil
             /\ r.call[q].pc = s.call[q].pc /\ r.call[q].task = s.call[q].task
             /\ r.call[q].entry = s.call[q].entry /\ r.call[q].lease = s.call[q].lease
  BY DEF Advances, CallAlike
<1>6. \A q \in Calls :
        /\ s.call[q] = Nil <=> r.call[q] = Nil
        /\ r.call[q] # Nil => /\ r.call[q].task = s.call[q].task
                              /\ r.call[q].entry = s.call[q].entry
                              /\ r.call[q].lease = s.call[q].lease
                              /\ r.call[q].pc = "run" <=> s.call[q].pc = "run"
                              /\ r.call[q].pc \in {"package", "lease"} =>
                                   q # p /\ r.call[q].pc = s.call[q].pc
  BY <1>1, <1>3, <1>4, <1>5 DEF Launch
<1>7. \A q \in Calls : q # p /\ Launch(s, q) => s.call[q].entry # e
  BY <1>1, <1>2, <1>3 DEF Launch, Core, Placed, LaunchesPlaced, OneCall
<1>8. LeasesApart(r) /\ WithinLimit(r) /\ QueueWaits(r) /\ QueueMapped(r)
  BY <1>4 DEF Core, Scheduled, LeasesApart, WithinLimit, Active, QueueWaits, QueueMapped
<1>9. LeasesMatch(r, Nil)
  <2>1. SUFFICES ASSUME NEW q \in Calls, r.call[q] # Nil
                 PROVE  Holds(r, q)
    BY <1>2 DEF LeasesMatch
  <2>2. Holds(s, q)
    BY <1>2, <1>6, <2>1 DEF Core, Scheduled, LeasesMatch
  <2>3. CASE q = p
    BY <1>1, <1>3, <1>4, <2>2, <2>3 DEF Holds
  <2>4. CASE q # p
    BY <1>4, <1>5, <2>1, <2>2, <2>4 DEF Holds
  <2>5. QED
    BY <2>3, <2>4
<1>10. LeasesOwned(r, Nil)
  <2>1. SUFFICES ASSUME ~ArchiveMidway, ~r.closed
                 PROVE  /\ \A u \in Tasks : u # Nil /\ r.lease[u] # Nil => HeldBy(r, u)
                        /\ \A i \in 1..Len(r.queue) : r.queue[i] # Nil => AwaitedBy(r, r.queue[i])
    BY DEF LeasesOwned
  <2>2. /\ \A u \in Tasks : u # Nil /\ s.lease[u] # Nil => HeldBy(s, u)
        /\ \A i \in 1..Len(s.queue) : s.queue[i] # Nil => AwaitedBy(s, s.queue[i])
    BY <1>4, <2>1 DEF Core, Scheduled, LeasesOwned
  <2>3. \A u \in Tasks : HeldBy(s, u) => HeldBy(r, u)
    BY <1>4, <1>6 DEF HeldBy
  <2>4. \A u : AwaitedBy(s, u) => AwaitedBy(r, u)
    BY <1>5 DEF AwaitedBy, WaitsFor
  <2>5. QED
    BY <1>4, <2>2, <2>3, <2>4
<1>11. OneCall(r)
  BY <1>6 DEF Core, Placed, OneCall
<1>12. RunsPlaced(r, Nil)
  BY <1>2, <1>4, <1>6 DEF Core, Placed, RunsPlaced
<1>13. LaunchesPlaced(r, Nil)
  <2>1. SUFFICES ASSUME NEW q \in Calls, Launch(r, q)
                 PROVE  /\ r.call[q].entry \in Entries /\ r.object[r.call[q].entry] # Nil
                        /\ r.object[r.call[q].entry].task = r.call[q].task
                        /\ r.object[r.call[q].entry].pending => r.call[q].pc = "lease"
                        /\ Pending(r, r.call[q].task) /\ r.row[r.call[q].task].ready
    BY DEF LaunchesPlaced
  <2>2. Launch(s, q)
    BY <1>6, <2>1 DEF Launch
  <2>3. /\ s.call[q].entry \in Entries /\ s.object[s.call[q].entry] # Nil
        /\ s.object[s.call[q].entry].task = s.call[q].task
        /\ s.object[s.call[q].entry].pending => s.call[q].pc = "lease"
        /\ Pending(s, s.call[q].task) /\ s.row[s.call[q].task].ready
    BY <1>2, <2>2 DEF Core, Placed, LaunchesPlaced
  <2>4. CASE q = p
    BY <1>1, <1>3, <1>4, <2>3, <2>4 DEF Pending
  <2>5. CASE q # p
    BY <1>4, <1>5, <1>7, <2>2, <2>3, <2>5 DEF Pending, Launch
  <2>6. QED
    BY <2>4, <2>5
<1>14. LaunchesMapped(r, Nil)
  <2>1. SUFFICES ASSUME ~r.closed, NEW q \in Calls, Launch(r, q)
                 PROVE  /\ r.entries[r.call[q].task] = r.call[q].entry
                        /\ r.call[q].pc = "lease" /\ r.call[q].lease = Nil =>
                             r.object[r.call[q].entry].pending
    BY DEF LaunchesMapped
  <2>2. /\ Launch(s, q) /\ r.call[q].task = s.call[q].task /\ r.call[q].entry = s.call[q].entry
        /\ r.call[q].lease = s.call[q].lease
        /\ r.call[q].pc = "lease" => q # p /\ s.call[q].pc = "lease"
    BY <1>6, <2>1 DEF Launch
  <2>3. q # Nil /\ s.call[q].entry \in Entries
    BY <1>2, <2>2 DEF Core, Placed, LaunchesPlaced
  <2>4. /\ s.entries[s.call[q].task] = s.call[q].entry
        /\ s.call[q].pc = "lease" /\ s.call[q].lease = Nil => s.object[s.call[q].entry].pending
    BY <1>4, <2>1, <2>2, <2>3 DEF Core, Placed, LaunchesMapped
  <2>5. CASE r.call[q].pc = "lease"
    <3>1. r.object[s.call[q].entry] = s.object[s.call[q].entry]
      BY <1>4, <1>7, <2>2, <2>3, <2>5
    <3>2. QED
      BY <1>4, <2>2, <2>4, <3>1
  <2>6. CASE r.call[q].pc # "lease"
    BY <1>4, <2>2, <2>4, <2>6
  <2>7. QED
    BY <2>5, <2>6
<1>15. FreshUnarchived(r)
  BY <1>4, <1>6 DEF Core, Placed, FreshUnarchived
<1>16. RunsClaimed(r, Nil)
  <2>1. SUFFICES ASSUME NEW q \in Calls, r.call[q] # Nil, r.call[q].pc \in {"prepare", "run"}
                 PROVE  /\ r.claim[r.call[q].task] # Nil
                        /\ r.claim[r.call[q].task].by = q /\ r.claim[r.call[q].task].run
    BY DEF RunsClaimed
  <2>2. CASE q = p
    BY <1>1, <1>4, <2>1, <2>2 DEF Advances
  <2>3. CASE q # p
    <3>1. s.call[q] # Nil /\ s.call[q].pc \in {"prepare", "run"} /\ s.call[q].task = r.call[q].task
          /\ s.call[q].task \in Tasks
      BY <1>2, <1>5, <2>1, <2>3
    <3>2. /\ s.claim[s.call[q].task] # Nil
          /\ s.claim[s.call[q].task].by = q /\ s.claim[s.call[q].task].run
      BY <1>2, <3>1 DEF Core, Placed, RunsClaimed
    <3>3. QED
      BY <2>3, <3>1, <3>2 DEF Advances
  <2>4. QED
    BY <2>2, <2>3
<1>17. TimersIdle(r, Nil)
  <2>1. \A o \in Entries : /\ r.object[o] = Nil <=> s.object[o] = Nil
                           /\ r.object[o] # Nil => r.object[o].task = s.object[o].task
                                                   /\ r.object[o].timer = s.object[o].timer
    BY <1>3, <1>4
  <2>2. QED
    BY <2>1, <1>2, <1>4, <1>6 DEF Core, Placed, TimersIdle
<1>18. MapKept(r)
  BY <1>2, <1>3, <1>4 DEF Core, Placed, MapKept
<1>19. \A o \in Entries : WorkedOn(s, o) <=> WorkedOn(r, o)
  BY <1>6 DEF WorkedOn
<1>20. PendingHeld(r)
  BY <1>2, <1>4, <1>19 DEF Core, Placed, PendingHeld
<1>21. RecoveryLeft(r) /\ RunningRows(r)
  BY <1>4, <1>6 DEF Core, Placed, RecoveryLeft, RunningRows, Pending
<1>22. Alive(r, Nil)
  <2>1. \A o \in Entries : s.object[o].timer => r.object[o].timer
    BY <1>4
  <2>2. QED
    BY <2>1, <1>2, <1>4, <1>19 DEF Core, Placed, Alive, Pending
<1>23. Typed(r)
  BY DEF Advances
<1>24. QED
  BY <1>8, <1>9, <1>10, <1>11, <1>12, <1>13, <1>14, <1>15, <1>16, <1>17, <1>18, <1>20, <1>21,
     <1>22, <1>23 DEF Core, Scheduled, Placed

LEMMA NowIs ==
  /\ Now.status = status /\ Now.archived = archived /\ Now.hasThread = hasThread
  /\ Now.claim = claim /\ Now.row = row /\ Now.entries = entries /\ Now.object = object
  /\ Now.call = call /\ Now.queue = queue /\ Now.lease = lease /\ Now.closed = closed
  /\ Now.recovery = recovery /\ Now.enabled = enabled /\ Now.toWake = toWake
  /\ Now.waking = waking /\ Now.restarts = restarts
BY DEF Now

\* What a lease in hand says of a launch.
LEMMA LaunchFacts ==
  ASSUME NEW s, NEW p \in Calls, Core(s), Launch(s, p)
  PROVE  LET t == s.call[p].task
             e == s.call[p].entry
         IN  /\ s.call[p] \in AsyncCalls /\ s.call[p] # Nil /\ t \in Tasks
             /\ e \in Entries /\ s.object[e] \in Objects /\ s.object[e] # Nil
             /\ s.object[e].task = t
             /\ s.object[e].pending => s.call[p].pc = "lease"
             /\ Pending(s, t) /\ s.row[t] # Nil /\ s.row[t].ready /\ ~s.object[e].timer
             /\ ~s.closed => s.entries[t] = e
             /\ t \notin s.recovery.left
<1>1. PICK t, e : t = s.call[p].task /\ e = s.call[p].entry
  OBVIOUS
<1>2. Typed(s) /\ Nil \notin Calls /\ Nil \notin Entries
  BY ConstantFacts DEF Core
<1>3. s.call[p] # Nil /\ s.call[p] \in AsyncCalls /\ t \in Tasks
  BY <1>1, <1>2, FieldTypes DEF AsyncCalls, Launch
<1>4. /\ e \in Entries /\ s.object[e] # Nil /\ s.object[e].task = t /\ Pending(s, t)
      /\ s.object[e].pending => s.call[p].pc = "lease"
      /\ s.row[t].ready
  BY <1>1, <1>2 DEF Core, Placed, LaunchesPlaced
<1>5. ~s.object[e].timer
  BY <1>1, <1>2, <1>3, <1>4 DEF Core, Placed, TimersIdle
<1>6. ~s.closed => s.entries[t] = e
  BY <1>1, <1>2 DEF Core, Placed, LaunchesMapped
<1>7. t \notin s.recovery.left
  BY <1>2, <1>4, <1>6 DEF Core, Placed, RecoveryLeft
<1>8. s.object[e] \in Objects /\ s.row[t] # Nil
  BY <1>2, <1>4, FieldTypes DEF Pending
<1>9. QED
  BY <1>1, <1>3, <1>4, <1>5, <1>6, <1>7, <1>8

LEMMA LeaseInHand ==
  ASSUME NEW s, NEW p \in Calls, Core(s), Launch(s, p), s.call[p].pc \notin {"package", "lease"}
  PROVE  s.call[p].lease # Nil
BY ConstantFacts DEF Launch, Core, Scheduled, LeasesMatch, Holds

\* r is k with another object m for e, another call c for p and another claim b for t.
Rewrites(k, r, e, m, p, c, t, b) ==
  /\ Typed(r)
  /\ r.archived = k.archived /\ r.row = k.row /\ r.entries = k.entries
  /\ r.queue = k.queue /\ r.lease = k.lease
  /\ r.closed = k.closed /\ r.recovery = k.recovery
  /\ r.enabled = k.enabled /\ r.toWake = k.toWake /\ r.waking = k.waking
  /\ r.object = [k.object EXCEPT ![e] = m]
  /\ r.call = [k.call EXCEPT ![p] = c]
  /\ r.claim = [k.claim EXCEPT ![t] = b]

\* Call p goes on to another pc, with the claims, statuses and threads of record k.
MayGoOn(s, k, p, c, m, b) ==
  LET t == s.call[p].task IN
  /\ Launch(s, p) /\ s.call[p].lease # Nil /\ Alike(s, k, Nil)
  /\ c \in AsyncCalls /\ c.pc \notin {"package", "lease", "run"}
  /\ c.task = t /\ c.entry = s.call[p].entry /\ c.lease = s.call[p].lease
  /\ b \in Claims \cup {Nil}
  /\ s.claim[t] = Nil \/ s.claim[t].by = p \/ b = k.claim[t]
  /\ c.pc = "prepare" => b # Nil /\ b.by = p /\ b.run
  /\ m \in Objects /\ m.task = t /\ ~m.pending /\ ~m.timer

LEMMA GoesOn ==
  ASSUME NEW s, NEW k, NEW r, NEW p \in Calls, NEW c, NEW m, NEW b, Core(s),
         MayGoOn(s, k, p, c, m, b),
         Rewrites(k, r, s.call[p].entry, m, p, c, s.call[p].task, b)
  PROVE  Core(r) /\ r.waking = s.waking
<1>1. PICK t, e : t = s.call[p].task /\ e = s.call[p].entry
  OBVIOUS
<1>2. /\ t \in Tasks /\ e \in Entries /\ s.object[e] # Nil /\ ~s.object[e].timer
      /\ m # Nil /\ c # Nil
  BY <1>1, LaunchFacts, ConstantFacts DEF MayGoOn
<1>3. /\ Typed(k) /\ k.object = s.object
      /\ k.object \in [Entries -> Objects \cup {Nil}] /\ k.call \in [Calls -> AsyncCalls \cup {Nil}]
      /\ k.claim \in [Tasks -> Claims \cup {Nil}]
  BY FieldTypes DEF Alike, MayGoOn
<1>5. /\ Typed(r)
      /\ r.archived = k.archived /\ r.row = k.row /\ r.entries = k.entries
      /\ r.queue = k.queue /\ r.lease = k.lease
      /\ r.closed = k.closed /\ r.recovery = k.recovery
      /\ r.enabled = k.enabled /\ r.toWake = k.toWake /\ r.waking = k.waking
      /\ r.object = [k.object EXCEPT ![e] = m] /\ r.call = [k.call EXCEPT ![p] = c]
      /\ r.claim = [k.claim EXCEPT ![t] = b]
  BY <1>1 DEF Rewrites
<1>6. /\ r.object[e] = m /\ r.call[p] = c /\ r.claim[t] = b
      /\ \A o \in Entries : o # e => r.object[o] = s.object[o]
      /\ \A q \in Calls : q # p => r.call[q] = k.call[q]
      /\ \A u \in Tasks : u # t => r.claim[u] = k.claim[u]
  BY <1>2, <1>3, <1>5
<1>7. \A q \in Calls : q # p => CallAlike(s, r, q)
  BY <1>6 DEF Alike, CallAlike, MayGoOn
<1>8. \A u \in Tasks : s.claim[u] # Nil /\ s.claim[u].by # p =>
        r.claim[u] # Nil /\ r.claim[u].by = s.claim[u].by /\ r.claim[u].run = s.claim[u].run
  <2>1. SUFFICES ASSUME NEW u \in Tasks, s.claim[u] # Nil, s.claim[u].by # p
                 PROVE  r.claim[u] # Nil /\ r.claim[u].by = s.claim[u].by
                        /\ r.claim[u].run = s.claim[u].run
    OBVIOUS
  <2>2. s.claim[u] \in Claims
    BY <2>1, FieldTypes DEF Core
  <2>3. s.claim[u].by # Nil
    BY <2>2, ConstantFacts DEF Claims
  <2>4. r.claim[u] = k.claim[u]
    BY <1>1, <1>6, <2>1 DEF MayGoOn
  <2>5. QED
    BY <2>1, <2>3, <2>4 DEF Alike, MayGoOn
<1>9. r.archived = s.archived /\ r.row = s.row /\ r.entries = s.entries
      /\ r.queue = s.queue /\ r.lease = s.lease
      /\ r.closed = s.closed /\ r.recovery = s.recovery
      /\ r.enabled = s.enabled /\ r.toWake = s.toWake /\ r.waking = s.waking
  BY <1>5 DEF Alike, MayGoOn
<1>10. Advances(s, r, p)
  <2>1. /\ r.call[p] # Nil /\ r.call[p].pc \notin {"package", "lease", "run"}
        /\ r.call[p].task = t /\ r.call[p].entry = e /\ r.call[p].lease = s.call[p].lease
        /\ r.call[p].pc = "prepare" => r.claim[t] # Nil /\ r.claim[t].by = p /\ r.claim[t].run
    BY <1>1, <1>2, <1>6 DEF MayGoOn
  <2>2. /\ r.object[e] # Nil /\ r.object[e].task = t /\ ~r.object[e].pending
        /\ r.object[e].timer = s.object[e].timer
    <3>1. m.timer \in BOOLEAN /\ s.object[e].timer \in BOOLEAN
      BY <1>1, LaunchFacts DEF Objects, MayGoOn
    <3>2. QED
      BY <3>1, <1>1, <1>2, <1>6 DEF MayGoOn
  <2>3. QED
    BY <1>1, <1>5, <1>6, <1>7, <1>8, <1>9, <2>1, <2>2 DEF Advances
<1>11. QED
  BY <1>1, <1>9, <1>10, AdvanceKeeps DEF MayGoOn

LEMMA StartLaunchKeeps ==
  ASSUME Core(Now), Now.waking = {}, NEW p \in Calls, StartLaunch(p), ~closed
  PROVE  IndInv(Now')
<1>1. PICK s, t, e, m, c, r :
        /\ s = Now /\ t = s.call[p].task /\ e = s.call[p].entry
        /\ m = [s.object[e] EXCEPT !.launching = TRUE, !.pending = FALSE]
        /\ c = [s.call[p] EXCEPT !.pc = "check", !.fresh = TRUE, !.seen = s.status[t]]
        /\ r = [s EXCEPT !.object = [s.object EXCEPT ![e] = m], !.call = [s.call EXCEPT ![p] = c]]
  OBVIOUS
<1>2. Core(s) /\ Typed(s) /\ s.waking = {} /\ s.call[p].lease # Nil /\ Launch(s, p)
  BY <1>1, NowIs DEF StartLaunch, Core, Launch
<1>3. /\ s.call[p] \in AsyncCalls /\ t \in Tasks /\ e \in Entries /\ s.object[e] \in Objects
      /\ s.object[e].task = t /\ ~s.object[e].timer
      /\ s.object \in [Entries -> Objects \cup {Nil}] /\ s.call \in [Calls -> AsyncCalls \cup {Nil}]
      /\ s.claim \in [Tasks -> Claims \cup {Nil}] /\ s.status[t] \in TaskStatuses
  BY <1>1, <1>2, LaunchFacts, FieldTypes
<1>4. /\ m \in Objects /\ m.task = t /\ m.timer = s.object[e].timer /\ m.pending = FALSE
      /\ c \in AsyncCalls /\ c.pc = "check"
      /\ c.task = s.call[p].task /\ c.entry = s.call[p].entry /\ c.lease = s.call[p].lease
  BY <1>1, <1>3 DEF Objects, AsyncCalls
<1>5. [s.object EXCEPT ![e] = m] \in [Entries -> Objects \cup {Nil}]
      /\ [s.call EXCEPT ![p] = c] \in [Calls -> AsyncCalls \cup {Nil}]
      /\ s.claim = [s.claim EXCEPT ![t] = s.claim[t]]
  BY <1>3, <1>4
<1>6. /\ Typed(r)
      /\ r.archived = s.archived /\ r.row = s.row /\ r.entries = s.entries
      /\ r.queue = s.queue /\ r.lease = s.lease
      /\ r.closed = s.closed /\ r.recovery = s.recovery
      /\ r.enabled = s.enabled /\ r.toWake = s.toWake /\ r.waking = s.waking
      /\ r.object = [s.object EXCEPT ![e] = m] /\ r.call = [s.call EXCEPT ![p] = c]
      /\ r.claim = s.claim
  BY <1>1, <1>2, <1>5, SMTT(30) DEF Typed, Fields
<1>7. Rewrites(s, r, e, m, p, c, t, s.claim[t])
  BY <1>5, <1>6 DEF Rewrites
<1>8. Alike(s, s, Nil) /\ s.claim[t] \in Claims \cup {Nil}
  BY <1>2, <1>3, AlikeSelf
<1>9. Core(r) /\ r.waking = s.waking
  <2>1. ~m.pending /\ ~m.timer
    BY <1>3, <1>4
  <2>2. MayGoOn(s, s, p, c, m, s.claim[t])
    BY <1>1, <1>2, <1>4, <1>8, <2>1 DEF MayGoOn
  <2>3. QED
    BY <1>1, <1>2, <1>7, <2>2, GoesOn
<1>10. Become(r)
  <2>1. /\ s.object = object /\ s.call = call /\ s.status = status
    BY <1>1, NowIs
  <2>2. Become([s EXCEPT !.object[e].launching = TRUE, !.object[e].pending = FALSE,
                         !.call[p].pc = "check", !.call[p].fresh = TRUE,
                         !.call[p].seen = s.status[t]])
    BY <1>1, <2>1 DEF StartLaunch
  <2>3. r = [s EXCEPT !.object[e].launching = TRUE, !.object[e].pending = FALSE,
                      !.call[p].pc = "check", !.call[p].fresh = TRUE,
                      !.call[p].seen = s.status[t]]
    BY <1>1, <1>3
  <2>4. QED
    BY <2>2, <2>3
<1>11. QED
  BY <1>2, <1>9, <1>10, BecomeKeeps

\* A step that only moves call p on.
MayMoveOn(s, p, c, b) ==
  LET t == s.call[p].task IN
         /\ c \in AsyncCalls /\ c.pc \notin {"package", "lease", "run"}
         /\ c.task = t /\ c.entry = s.call[p].entry /\ c.lease = s.call[p].lease
         /\ b \in Claims \cup {Nil}
         /\ s.claim[t] = Nil \/ s.claim[t].by = p \/ b = s.claim[t]
         /\ c.pc = "prepare" => b # Nil /\ b.by = p /\ b.run

MovedOn(s, p, c, b) ==
  [s EXCEPT !.claim = [s.claim EXCEPT ![s.call[p].task] = b],
            !.call = [s.call EXCEPT ![p] = c]]

LEMMA MovesOn ==
  ASSUME NEW s, NEW p \in Calls, NEW c, NEW b, Core(s), Launch(s, p),
         s.call[p].pc \notin {"package", "lease"}, MayMoveOn(s, p, c, b)
  PROVE  Core(MovedOn(s, p, c, b)) /\ MovedOn(s, p, c, b).waking = s.waking
<1>1. PICK t, e, m, r : /\ t = s.call[p].task /\ e = s.call[p].entry /\ m = s.object[e]
                        /\ r = MovedOn(s, p, c, b)
                        /\ r = [s EXCEPT !.claim = [s.claim EXCEPT ![t] = b],
                                         !.call = [s.call EXCEPT ![p] = c]]
  BY DEF MovedOn
<1>2. /\ c \in AsyncCalls /\ c.pc \notin {"package", "lease", "run"}
      /\ c.task = t /\ c.entry = e /\ c.lease = s.call[p].lease
      /\ b \in Claims \cup {Nil}
      /\ s.claim[t] = Nil \/ s.claim[t].by = p \/ b = s.claim[t]
      /\ c.pc = "prepare" => b # Nil /\ b.by = p /\ b.run
  BY <1>1 DEF MayMoveOn
<1>3. /\ t \in Tasks /\ e \in Entries /\ m \in Objects /\ m.task = t /\ ~m.timer /\ ~m.pending
      /\ s.call[p].lease # Nil /\ Typed(s) /\ Alike(s, s, Nil)
  BY <1>1, LaunchFacts, LeaseInHand, AlikeSelf DEF Core
<1>4. /\ s.object \in [Entries -> Objects \cup {Nil}] /\ s.call \in [Calls -> AsyncCalls \cup {Nil}]
      /\ s.claim \in [Tasks -> Claims \cup {Nil}]
  BY <1>3, FieldTypes
<1>5. /\ [s.object EXCEPT ![e] = m] = s.object
      /\ [s.call EXCEPT ![p] = c] \in [Calls -> AsyncCalls \cup {Nil}]
      /\ [s.claim EXCEPT ![t] = b] \in [Tasks -> Claims \cup {Nil}]
  BY <1>1, <1>2, <1>3, <1>4
<1>6. /\ Typed(r)
      /\ r.archived = s.archived /\ r.row = s.row /\ r.entries = s.entries
      /\ r.queue = s.queue /\ r.lease = s.lease
      /\ r.closed = s.closed /\ r.recovery = s.recovery
      /\ r.enabled = s.enabled /\ r.toWake = s.toWake /\ r.waking = s.waking
      /\ r.object = s.object /\ r.call = [s.call EXCEPT ![p] = c]
      /\ r.claim = [s.claim EXCEPT ![t] = b]
  BY <1>1, <1>3, <1>5, SMTT(30) DEF Typed, Fields
<1>7. Rewrites(s, r, e, m, p, c, t, b)
  BY <1>5, <1>6 DEF Rewrites
<1>8. MayGoOn(s, s, p, c, m, b)
  BY <1>1, <1>2, <1>3 DEF MayGoOn
<1>9. QED
  BY <1>1, <1>7, <1>8, GoesOn

\* The same without a change of the claim.
LEMMA MovesCall ==
  ASSUME NEW s, NEW p \in Calls, NEW c, Core(s), Launch(s, p),
         s.call[p].pc \notin {"package", "lease"},
         c \in AsyncCalls, c.pc \notin {"package", "lease", "run", "prepare"},
         c.task = s.call[p].task, c.entry = s.call[p].entry, c.lease = s.call[p].lease
  PROVE  LET r == [s EXCEPT !.call = [s.call EXCEPT ![p] = c]]
         IN  Core(r) /\ r.waking = s.waking
<1>1. PICK t, e, m, r : /\ t = s.call[p].task /\ e = s.call[p].entry /\ m = s.object[e]
                        /\ r = [s EXCEPT !.call = [s.call EXCEPT ![p] = c]]
  OBVIOUS
<1>2. /\ t \in Tasks /\ e \in Entries /\ m \in Objects /\ m.task = t /\ ~m.timer /\ ~m.pending
      /\ s.call[p].lease # Nil /\ Typed(s) /\ Alike(s, s, Nil)
  BY <1>1, LaunchFacts, LeaseInHand, AlikeSelf DEF Core
<1>3. /\ s.object \in [Entries -> Objects \cup {Nil}] /\ s.call \in [Calls -> AsyncCalls \cup {Nil}]
      /\ s.claim \in [Tasks -> Claims \cup {Nil}]
  BY <1>2, FieldTypes
<1>4. /\ [s.object EXCEPT ![e] = m] = s.object
      /\ [s.call EXCEPT ![p] = c] \in [Calls -> AsyncCalls \cup {Nil}]
      /\ [s.claim EXCEPT ![t] = s.claim[t]] = s.claim /\ s.claim[t] \in Claims \cup {Nil}
  BY <1>1, <1>2, <1>3
<1>5. /\ Typed(r)
      /\ r.archived = s.archived /\ r.row = s.row /\ r.entries = s.entries
      /\ r.queue = s.queue /\ r.lease = s.lease
      /\ r.closed = s.closed /\ r.recovery = s.recovery
      /\ r.enabled = s.enabled /\ r.toWake = s.toWake /\ r.waking = s.waking
      /\ r.object = s.object /\ r.call = [s.call EXCEPT ![p] = c]
      /\ r.claim = s.claim
  BY <1>1, <1>2, <1>4, SMTT(30) DEF Typed, Fields
<1>6. Rewrites(s, r, e, m, p, c, t, s.claim[t])
  BY <1>4, <1>5 DEF Rewrites
<1>7. MayGoOn(s, s, p, c, m, s.claim[t])
  BY <1>1, <1>2, <1>4 DEF MayGoOn
<1>8. QED
  BY <1>1, <1>6, <1>7, GoesOn

LEMMA VerifyKeeps ==
  ASSUME Core(Now), Now.waking = {}, NEW p \in Calls, Verify(p)
  PROVE  IndInv(Now')
<1>1. PICK s, c : s = Now /\ c = [s.call[p] EXCEPT !.pc = "turn", !.fresh = FALSE]
  OBVIOUS
<1>2. /\ Core(s) /\ Launch(s, p) /\ s.call[p].pc = "thread" /\ s.waking = {}
      /\ Become(IF s.call[p].fresh
                THEN [s EXCEPT !.call[p].pc = "turn", !.call[p].fresh = FALSE]
                ELSE Fail(ReleaseTask(s, p), p))
  BY <1>1, NowIs DEF Verify, Launch
<1>3. s.call[p] \in AsyncCalls /\ s.call[p].lease # Nil
  BY <1>2, LaunchFacts, LeaseInHand
<1>4. CASE s.call[p].fresh
  <2>1. /\ c \in AsyncCalls /\ c.pc \notin {"package", "lease", "run", "prepare"}
        /\ c.task = s.call[p].task /\ c.entry = s.call[p].entry /\ c.lease = s.call[p].lease
    BY <1>1, <1>3 DEF AsyncCalls
  <2>2. PICK r : r = [s EXCEPT !.call = [s.call EXCEPT ![p] = c]]
    OBVIOUS
  <2>3. Core(r) /\ r.waking = s.waking
    BY <1>2, <2>1, <2>2, MovesCall
  <2>4. r = [s EXCEPT !.call[p].pc = "turn", !.call[p].fresh = FALSE]
    BY <1>1, <1>3, <2>2
  <2>5. QED
    BY <1>2, <1>4, <2>3, <2>4, BecomeKeeps
<1>5. CASE ~s.call[p].fresh
  BY <1>2, <1>3, <1>5, LaunchFails, BecomeKeeps
<1>6. QED
  BY <1>3, <1>4, <1>5

LEMMA BindRunKeeps ==
  ASSUME Core(Now), Now.waking = {}, NEW p \in Calls, BindRun(p)
  PROVE  IndInv(Now')
<1>1. PICK s, t, c, b : /\ s = Now /\ t = s.call[p].task
                        /\ c = [s.call[p] EXCEPT !.pc = "prepare"]
                        /\ b = [s.claim[t] EXCEPT !.run = TRUE]
  OBVIOUS
<1>2. /\ Core(s) /\ Launch(s, p) /\ s.call[p].pc = "turn" /\ s.waking = {}
      /\ Become(IF s.claim[t] # Nil /\ s.claim[t].by = p /\ ~s.claim[t].run
                THEN [s EXCEPT !.claim[t].run = TRUE, !.call[p].pc = "prepare"]
                ELSE Fail(ReleaseTask(s, p), p))
  BY <1>1, NowIs DEF BindRun, Launch
<1>3. s.call[p] \in AsyncCalls /\ s.call[p].lease # Nil /\ t \in Tasks
      /\ s.claim[t] \in Claims \cup {Nil}
  <2>1. s.call[p] \in AsyncCalls /\ s.call[p].lease # Nil
    BY <1>2, LaunchFacts, LeaseInHand
  <2>4. t \in Tasks
    BY <1>1, <1>2, LaunchFacts
  <2>2. s.claim \in [Tasks -> Claims \cup {Nil}]
    BY <1>2, FieldTypes DEF Core
  <2>3. QED
    BY <2>1, <2>2, <2>4
<1>4. CASE s.claim[t] # Nil /\ s.claim[t].by = p /\ ~s.claim[t].run
  <2>1. /\ c \in AsyncCalls /\ c.pc = "prepare"
        /\ c.task = s.call[p].task /\ c.entry = s.call[p].entry /\ c.lease = s.call[p].lease
    BY <1>1, <1>3 DEF AsyncCalls
  <2>2. b \in Claims /\ b # Nil /\ b.by = p /\ b.run
    BY <1>1, <1>3, <1>4, ConstantFacts DEF Claims
  <2>3. PICK r : r = MovedOn(s, p, c, b)
    OBVIOUS
  <2>4. Core(r) /\ r.waking = s.waking
    <3>1. MayMoveOn(s, p, c, b)
      BY <1>1, <1>4, <2>1, <2>2 DEF MayMoveOn
    <3>2. Launch(s, p) /\ s.call[p].pc \notin {"package", "lease"} /\ Core(s)
      BY <1>2
    <3>3. QED
      BY <2>3, <3>1, <3>2, MovesOn
  <2>5. r = [s EXCEPT !.claim[t].run = TRUE, !.call[p].pc = "prepare"]
    BY <1>1, <1>3, <2>3 DEF MovedOn
  <2>6. QED
    BY <1>2, <1>4, <2>4, <2>5, BecomeKeeps
<1>5. CASE ~(s.claim[t] # Nil /\ s.claim[t].by = p /\ ~s.claim[t].run)
  BY <1>2, <1>3, <1>5, LaunchFails, BecomeKeeps
<1>6. QED
  BY <1>4, <1>5

LEMMA StartFailsKeeps ==
  ASSUME Core(Now), Now.waking = {}, NEW p \in Calls, StartFails(p)
  PROVE  IndInv(Now')
<1>1. PICK s : s = Now
  OBVIOUS
<1>2. /\ Core(s) /\ Launch(s, p) /\ s.call[p].pc \notin {"package", "lease"} /\ s.waking = {}
      /\ Become(Fail(ReleaseTask(s, p), p))
  BY <1>1, NowIs DEF StartFails, Launch
<1>3. s.call[p].lease # Nil
  BY <1>2, LeaseInHand
<1>4. QED
  BY <1>2, <1>3, LaunchFails, BecomeKeeps

-----------------------------------------------------------------------------
(* Launches that end.                                                      *)

LEMMA PlacedEnding ==
  ASSUME NEW s, NEW p \in Calls, Placed(s, Nil, Nil)
  PROVE  Placed(s, Nil, p)
BY ConstantFacts DEF Placed, RunsPlaced, LaunchesPlaced, LaunchesMapped, RunsClaimed, TimersIdle

\* A call that is the last of its task: the object m of its entry may arm a timer.
MayArm(s, p, m) ==
  LET t == s.call[p].task
      e == s.call[p].entry
  IN  /\ m \in Objects /\ m.task = t
      /\ m.pending = s.object[e].pending
      /\ s.object[e].timer => m.timer
      /\ m.timer => s.closed \/ s.entries[t] = e

WithObject(s, e, m) == [s EXCEPT !.object = [s.object EXCEPT ![e] = m]]

LEMMA ObjectPlaced ==
  ASSUME NEW s, NEW r, NEW p \in Calls, NEW m, Typed(s), Placed(s, Nil, p), LastCall(s, p),
         MayArm(s, p, m), r = WithObject(s, s.call[p].entry, m)
  PROVE  /\ Typed(r) /\ Placed(r, Nil, p) /\ LastCall(r, p)
         /\ r.status = s.status /\ r.archived = s.archived /\ r.hasThread = s.hasThread
         /\ r.claim = s.claim /\ r.row = s.row /\ r.entries = s.entries /\ r.call = s.call
         /\ r.queue = s.queue /\ r.lease = s.lease
         /\ r.closed = s.closed /\ r.recovery = s.recovery
         /\ r.enabled = s.enabled /\ r.toWake = s.toWake /\ r.waking = s.waking
         /\ r.object[s.call[p].entry] = m
<1>1. PICK t, e : t = s.call[p].task /\ e = s.call[p].entry
  OBVIOUS
<1>2. /\ s.call[p] # Nil /\ e \in Entries /\ s.object[e] # Nil /\ s.object[e].task = t
      /\ \A o \in Entries : o # e /\ s.object[o] # Nil /\ s.object[o].timer => s.object[o].task # t
      /\ t \notin s.recovery.left
  BY <1>1 DEF LastCall
<1>3. /\ s.object \in [Entries -> Objects \cup {Nil}] /\ s.entries \in [Tasks -> Entries \cup {Nil}]
      /\ \A q \in Calls : s.call[q] # Nil => s.call[q].task \in Tasks
  BY FieldTypes DEF AsyncCalls
<1>4. [s.object EXCEPT ![e] = m] \in [Entries -> Objects \cup {Nil}]
  BY <1>3 DEF MayArm
<1>5. /\ Typed(r)
      /\ r.status = s.status /\ r.archived = s.archived /\ r.hasThread = s.hasThread
      /\ r.claim = s.claim /\ r.row = s.row /\ r.entries = s.entries /\ r.call = s.call
      /\ r.queue = s.queue /\ r.lease = s.lease
      /\ r.closed = s.closed /\ r.recovery = s.recovery
      /\ r.enabled = s.enabled /\ r.toWake = s.toWake /\ r.waking = s.waking
      /\ r.object = [s.object EXCEPT ![e] = m]
  BY <1>1, <1>4, SMTT(30) DEF Typed, Fields, WithObject
<1>6. /\ r.object[e] = m /\ m # Nil /\ m.task = t /\ m.pending = s.object[e].pending
      /\ s.object[e].timer => m.timer
      /\ m.timer => s.closed \/ s.entries[t] = e
      /\ \A o \in Entries : o # e => r.object[o] = s.object[o]
  BY <1>1, <1>2, <1>3, <1>5, ConstantFacts DEF MayArm
<1>7. \A o \in Entries : /\ r.object[o] = Nil <=> s.object[o] = Nil
                         /\ r.object[o] # Nil => /\ r.object[o].task = s.object[o].task
                                                 /\ r.object[o].pending = s.object[o].pending
                         /\ s.object[o].timer => r.object[o].timer
  BY <1>2, <1>6
<1>8. OneCall(r) /\ RunsPlaced(r, p) /\ FreshUnarchived(r) /\ RunsClaimed(r, p)
      /\ RecoveryLeft(r) /\ RunningRows(r)
  <2>1. OneCall(r) /\ RunsPlaced(r, p)
    BY <1>5 DEF Placed, OneCall, RunsPlaced
  <2>2. FreshUnarchived(r) /\ RunsClaimed(r, p)
    BY <1>5 DEF Placed, FreshUnarchived, RunsClaimed
  <2>3. RecoveryLeft(r) /\ RunningRows(r)
    BY <1>5 DEF Placed, RecoveryLeft, RunningRows, Pending
  <2>4. QED
    BY <2>1, <2>2, <2>3
<1>9. LaunchesPlaced(r, p)
  BY <1>5, <1>7 DEF Placed, LaunchesPlaced, Launch, Pending
<1>10. LaunchesMapped(r, p)
  <2>1. \A q \in Calls : q # p /\ Launch(s, q) => s.call[q].entry \in Entries
                                                  /\ s.object[s.call[q].entry] # Nil
    BY DEF Placed, LaunchesPlaced
  <2>2. QED
    BY <1>5, <1>7, <2>1 DEF Placed, LaunchesMapped, Launch
<1>11. TimersIdle(r, p)
  <2>1. SUFFICES ASSUME NEW o \in Entries, r.object[o] # Nil, r.object[o].timer
                 PROVE  /\ \A q \in Calls : q # p /\ r.call[q] # Nil =>
                                              r.call[q].task # r.object[o].task
                        /\ ~r.closed => r.entries[r.object[o].task] = o
    BY DEF TimersIdle
  <2>2. CASE o = e
    BY <1>1, <1>2, <1>5, <1>6, <2>1, <2>2 DEF Placed, OneCall
  <2>3. CASE o # e
    BY <1>5, <1>6, <2>1, <2>3 DEF Placed, TimersIdle
  <2>4. QED
    BY <2>2, <2>3
<1>12. MapKept(r) /\ PendingHeld(r)
  <2>1. MapKept(r)
    BY <1>3, <1>5, <1>7 DEF Placed, MapKept
  <2>2. PendingHeld(r)
    BY <1>3, <1>5, <1>7, <2>1 DEF Placed, PendingHeld, WorkedOn, MapKept
  <2>3. QED
    BY <2>1, <2>2
<1>13. Alive(r, Nil)
  BY <1>3, <1>5, <1>7 DEF Placed, Alive, WorkedOn, Pending
<1>14. LastCall(r, p)
  BY <1>1, <1>2, <1>5, <1>6 DEF LastCall
<1>15. Placed(r, Nil, p)
  BY <1>8, <1>9, <1>10, <1>11, <1>12, <1>13 DEF Placed
<1>16. QED
  BY <1>1, <1>5, <1>6, <1>14, <1>15

\* The lease of a launch goes back.
LEMMA FailingReleases ==
  ASSUME NEW s, NEW p \in Calls, Typed(s), Scheduled(s, Nil, Nil), Placed(s, Nil, p), Failing(s, p)
  PROVE  LET r == Release(s, s.call[p].lease)
             t == s.call[p].task
         IN  /\ Typed(r) /\ Scheduled(r, p, Nil) /\ Placed(r, Nil, p) /\ LastCall(r, p)
             /\ r.call[p] = s.call[p]
             /\ r.status = s.status /\ r.archived = s.archived /\ r.hasThread = s.hasThread
             /\ r.claim = s.claim /\ r.row = s.row /\ r.entries = s.entries /\ r.object = s.object
             /\ r.closed = s.closed /\ r.recovery = s.recovery
             /\ r.enabled = s.enabled /\ r.toWake = s.toWake /\ r.waking = s.waking
             /\ \A i \in 1..Len(r.queue) : r.queue[i] # t
<1>1. PICK r, t : r = Release(s, s.call[p].lease) /\ t = s.call[p].task
  OBVIOUS
<1>2. OneCall(s) /\ s.call[p] # Nil /\ s.call[p].lease # Nil
  BY DEF Placed, Failing
<1>4. Scheduled(r, p, Nil) /\ Grants(s, r) /\ Shorter(s, r)
  BY <1>1, <1>2, ReleaseKeeps, ReleaseShorter
<1>5. Placed(r, Nil, p)
  BY <1>2, <1>4, GrantsPlaced
<1>6. r.call[p] = s.call[p]
  BY <1>2, <1>4 DEF Grants
<1>7. LastCall(r, p)
  BY <1>4, <1>6 DEF LastCall, Failing, Grants
<1>8. \A i \in 1..Len(r.queue) : r.queue[i] # t
  BY <1>1, <1>4 DEF Failing, Shorter
<1>9. QED
  BY <1>1, <1>4, <1>5, <1>6, <1>7, <1>8 DEF Grants

LEMMA LaunchReleases ==
  ASSUME NEW s, NEW p \in Calls, Core(s), Launch(s, p), s.call[p].lease # Nil
  PROVE  LET r == Release(s, s.call[p].lease)
             t == s.call[p].task
         IN  /\ Typed(r) /\ Scheduled(r, p, Nil) /\ Placed(r, Nil, p) /\ LastCall(r, p)
             /\ r.call[p] = s.call[p]
             /\ r.status = s.status /\ r.archived = s.archived /\ r.hasThread = s.hasThread
             /\ r.claim = s.claim /\ r.row = s.row /\ r.entries = s.entries /\ r.object = s.object
             /\ r.closed = s.closed /\ r.recovery = s.recovery
             /\ r.enabled = s.enabled /\ r.toWake = s.toWake /\ r.waking = s.waking
             /\ \A i \in 1..Len(r.queue) : r.queue[i] # t
<1>1. Typed(s) /\ Scheduled(s, Nil, Nil) /\ Placed(s, Nil, p)
  BY PlacedEnding DEF Core
<1>2. QED
  BY <1>1, CanFail, FailingReleases

\* StartLaunch after close().
LEMMA ClosedLaunchKeeps ==
  ASSUME Core(Now), Now.waking = {}, NEW p \in Calls, StartLaunch(p), closed
  PROVE  IndInv(Now')
<1>1. PICK s, r, t, e : /\ s = Now /\ r = Release(s, s.call[p].lease)
                        /\ t = s.call[p].task /\ e = s.call[p].entry
  OBVIOUS
<1>2. /\ Core(s) /\ Launch(s, p) /\ s.call[p].lease # Nil /\ s.waking = {} /\ s.closed
      /\ Become(Return(r, p))
  BY <1>1, NowIs DEF StartLaunch, Launch
<1>3. /\ Typed(r) /\ Scheduled(r, p, Nil) /\ Placed(r, Nil, p) /\ LastCall(r, p)
      /\ r.call[p] = s.call[p] /\ r.entries = s.entries /\ r.object = s.object
      /\ r.row = s.row /\ r.closed = s.closed /\ r.waking = s.waking
  <2>1. r = Release(s, s.call[p].lease) /\ Core(s) /\ Launch(s, p) /\ s.call[p].lease # Nil
    BY <1>1, <1>2
  <2>2. QED
    BY ONLY <2>1, LaunchReleases
<1>4. /\ t \in Tasks /\ e \in Entries /\ s.object[e].task = t /\ Pending(s, t)
      /\ ~s.object[e].timer
  BY <1>1, <1>2, LaunchFacts
<1>5. s.entries[t] = Nil
  BY <1>2, <1>4 DEF Core, Placed, MapKept
<1>6. LastWord(r, r, p)
  <2>1. ~(r.row[t] # Nil /\ r.row[t].state = "running")
    BY <1>3, <1>4 DEF Pending
  <2>2. QED
    BY <1>1, <1>3, <1>4, <1>5, <2>1 DEF LastWord
<1>7. Core(Return(r, p)) /\ Return(r, p).waking = {}
  BY <1>2, <1>3, <1>6, LastWordKeeps
<1>8. QED
  BY <1>2, <1>7, BecomeKeeps

\* The package is disabled: the launch is put off.
LEMMA PostponeKeeps ==
  ASSUME NEW s, NEW p \in Calls, Core(s), s.call[p] # Nil, s.call[p].pc = "check"
  PROVE  Core(Postpone(s, p)) /\ Postpone(s, p).waking = s.waking
<1>1. PICK t, e, s1, m1, s2, free, m2, late :
        /\ t = s.call[p].task /\ e = s.call[p].entry
        /\ s1 = Release(s, s.call[p].lease)
        /\ m1 = [s1.object[e] EXCEPT !.launching = FALSE]
        /\ s2 = [s1 EXCEPT !.object = [s1.object EXCEPT ![e] = m1]]
        /\ free = SetRow(s2, t, "queued")
        /\ m2 = [free.object[e] EXCEPT !.timer = TRUE]
        /\ late = [free EXCEPT !.object = [free.object EXCEPT ![e] = m2]]
  OBVIOUS
<1>2. Launch(s, p) /\ s.call[p].lease # Nil /\ Typed(s)
  BY LeaseInHand DEF Launch, Core
<1>3. /\ t \in Tasks /\ e \in Entries /\ s.object[e] \in Objects /\ s.object[e].task = t
      /\ ~s.object[e].pending /\ ~s.object[e].timer /\ Pending(s, t)
      /\ s.call[p] \in AsyncCalls /\ t \notin s.recovery.left
      /\ ~s.closed => s.entries[t] = e
  BY <1>1, <1>2, LaunchFacts
<1>4. s.closed => s.entries[t] = Nil
  BY <1>3 DEF Core, Placed, MapKept
<1>5. /\ Typed(s1) /\ Scheduled(s1, p, Nil) /\ Placed(s1, Nil, p) /\ LastCall(s1, p)
      /\ s1.call[p] = s.call[p] /\ s1.row = s.row /\ s1.entries = s.entries
      /\ s1.object = s.object /\ s1.closed = s.closed /\ s1.recovery = s.recovery
      /\ s1.waking = s.waking
      /\ \A i \in 1..Len(s1.queue) : s1.queue[i] # t
  <2>1. s1 = Release(s, s.call[p].lease) /\ Core(s) /\ Launch(s, p) /\ s.call[p].lease # Nil
        /\ t = s.call[p].task
    BY <1>1, <1>2
  <2>2. QED
    BY ONLY <2>1, LaunchReleases
<1>6. /\ m1 \in Objects /\ m1.task = t /\ m1.pending = s1.object[e].pending
      /\ m1.timer = s1.object[e].timer /\ ~m1.pending /\ ~m1.timer
  BY <1>1, <1>3, <1>5 DEF Objects
<1>7. /\ Typed(s2) /\ Placed(s2, Nil, p) /\ LastCall(s2, p)
      /\ s2.row = s1.row /\ s2.entries = s1.entries /\ s2.call = s1.call
      /\ s2.queue = s1.queue /\ s2.lease = s1.lease
      /\ s2.closed = s1.closed /\ s2.recovery = s1.recovery /\ s2.waking = s1.waking
      /\ s2.object[e] = m1
  <2>1. s1.call[p].task = t /\ s1.call[p].entry = e
    BY <1>1, <1>5
  <2>2. MayArm(s1, p, m1)
    BY <1>6, <2>1 DEF MayArm
  <2>3. s2 = WithObject(s1, s1.call[p].entry, m1)
    BY <1>1, <2>1 DEF WithObject
  <2>4. QED
    BY ONLY <1>5, <2>1, <2>2, <2>3, ObjectPlaced
<1>8. Scheduled(s2, p, Nil)
  BY <1>5, <1>7, ScheduledSame
<1>9. /\ Typed(free) /\ Placed(free, Nil, p) /\ LastCall(free, p)
      /\ free.entries = s2.entries /\ free.object = s2.object /\ free.call = s2.call
      /\ free.queue = s2.queue /\ free.lease = s2.lease
      /\ free.closed = s2.closed /\ free.recovery = s2.recovery /\ free.waking = s2.waking
      /\ free.row[t] # Nil /\ free.row[t].state = "queued"
  <2>1. Pending(s2, t) /\ s2.row[t] # Nil
    BY <1>3, <1>5, <1>7 DEF Pending
  <2>2. "queued" \in {"delayed", "queued", "running"} /\ "queued" \in {"delayed", "queued"}
    OBVIOUS
  <2>3. Placed(free, Nil, p)
    BY <1>1, <1>3, <1>7, <2>1, <2>2, SetRowPlaced
  <2>4. /\ Typed(free)
        /\ free.entries = s2.entries /\ free.object = s2.object /\ free.call = s2.call
        /\ free.queue = s2.queue /\ free.lease = s2.lease
        /\ free.closed = s2.closed /\ free.recovery = s2.recovery /\ free.waking = s2.waking
        /\ free.row[t] # Nil /\ free.row[t].state = "queued"
    <3>1. free = SetRow(s2, t, "queued") /\ Typed(s2) /\ t \in Tasks /\ s2.row[t] # Nil
          /\ "queued" \in {"delayed", "queued", "running"}
      BY <1>1, <1>3, <1>7, <2>1, <2>2
    <3>2. QED
      BY ONLY <3>1, SetRowIs
  <2>5. LastCall(free, p)
    BY <1>7, <2>4 DEF LastCall
  <2>6. QED
    BY <2>3, <2>4, <2>5
<1>10. Scheduled(free, p, Nil)
  BY <1>8, <1>9, ScheduledSame
<1>11. free.call[p] = s.call[p] /\ free.entries = s.entries /\ free.closed = s.closed
       /\ free.object[e] = m1 /\ free.waking = s.waking /\ free.recovery = s.recovery
       /\ \A i \in 1..Len(free.queue) : free.queue[i] # t
  BY <1>5, <1>7, <1>9
<1>12. m2 \in Objects /\ m2.task = t /\ m2.pending = m1.pending /\ ~m2.pending /\ m2.timer
  <2>1. m2 = [m1 EXCEPT !.timer = TRUE]
    BY <1>1, <1>11
  <2>2. QED
    BY <1>6, <2>1 DEF Objects
<1>13. /\ Typed(late) /\ Placed(late, Nil, p) /\ LastCall(late, p)
       /\ late.row = free.row /\ late.entries = free.entries /\ late.call = free.call
       /\ late.queue = free.queue /\ late.lease = free.lease
       /\ late.closed = free.closed /\ late.recovery = free.recovery /\ late.waking = free.waking
       /\ late.object[e] = m2
  <2>1. free.call[p].task = t /\ free.call[p].entry = e
    BY <1>1, <1>11
  <2>2. free.closed \/ free.entries[t] = e
    BY <1>3, <1>11
  <2>3. m2.pending = free.object[e].pending /\ (free.object[e].timer => m2.timer)
    BY <1>11, <1>12
  <2>4. MayArm(free, p, m2)
    BY <1>12, <2>1, <2>2, <2>3 DEF MayArm
  <2>5. late = WithObject(free, free.call[p].entry, m2)
    BY <1>1, <2>1 DEF WithObject
  <2>6. QED
    BY ONLY <1>9, <2>1, <2>4, <2>5, ObjectPlaced
<1>14. Scheduled(late, p, Nil)
  BY <1>10, <1>13, ScheduledSame
<1>15. ASSUME NEW q, Alike(late, q, Nil)
       PROVE  Core(Return(q, p)) /\ Return(q, p).waking = s.waking
  <2>1. Typed(q) /\ Scheduled(q, p, Nil) /\ Placed(q, Nil, p)
    <3>1. Scheduled(q, p, Nil)
      BY <1>14, <1>15, AlikeScheduled
    <3>2. Alike(late, q, p)
      BY <1>13, <1>15, AlikeMore
    <3>3. Placed(q, Nil, p)
      BY <1>13, <3>2, AlikePlaced
    <3>4. QED
      BY <3>1, <3>3, <1>15 DEF Alike
  <2>2. /\ q.row = late.row /\ q.entries = late.entries /\ q.object = late.object
        /\ q.queue = late.queue /\ q.closed = late.closed /\ q.recovery = late.recovery
        /\ q.waking = late.waking
        /\ q.call[p] # Nil /\ q.call[p].task = t /\ q.call[p].entry = e
    <3>1. CallAlike(late, q, p) /\ late.call[p] = s.call[p]
      BY <1>11, <1>13, <1>15 DEF Alike
    <3>2. q.call[p] # Nil /\ q.call[p].task = t /\ q.call[p].entry = e
      BY <1>1, <3>1 DEF CallAlike
    <3>3. QED
      BY <3>2, <1>15 DEF Alike
  <2>3. late.call[p] # Nil /\ late.call[p].task = t /\ late.call[p].entry = e
    <3>1. late.call[p] = s.call[p]
      BY <1>11, <1>13
    <3>2. QED
      BY <1>1, <3>1
  <2>4. LastCall(q, p)
    BY <1>13, <2>2, <2>3 DEF LastCall
  <2>5. LastWord(q, q, p)
    <3>1. ~(q.row[t] # Nil /\ q.row[t].state = "running")
      BY <1>9, <1>13, <2>2
    <3>2. q.object[e].task = t /\ q.object[e].timer /\ ~q.object[e].pending
      BY <1>12, <1>13, <2>2
    <3>3. q.entries[t] = Nil \/ q.entries[t] = e
      BY <1>3, <1>4, <1>11, <1>13, <2>2
    <3>4. q.closed \/ q.entries[t] = e
      BY <1>3, <1>11, <1>13, <2>2
    <3>5. QED
      BY <2>1, <2>2, <3>1, <3>2, <3>3, <3>4 DEF LastWord
  <2>6. QED
    BY <1>11, <1>13, <2>1, <2>2, <2>4, <2>5, LastWordKeeps
<1>16. Core(Fail(free, p)) /\ Fail(free, p).waking = s.waking
  <2>1. \A o \in Entries : free.object[o] # Nil /\ free.object[o].timer => free.object[o].task # t
    <3>1. free.call[p].task = t /\ free.call[p].entry = e /\ ~free.object[e].timer
      BY <1>1, <1>6, <1>11
    <3>2. \A o \in Entries : o # e /\ free.object[o] # Nil /\ free.object[o].timer =>
                               free.object[o].task # t
      BY <1>9, <3>1 DEF LastCall
    <3>3. QED
      BY <3>1, <3>2
  <2>2. Pending(free, t)
    BY <1>9 DEF Pending
  <2>3. Failing(free, p)
    <3>1. /\ free.call[p].task = t /\ free.call[p].entry = e /\ free.call[p] # Nil
          /\ free.call[p].lease # Nil
      BY <1>1, <1>2, <1>11
    <3>2. free.object[e] # Nil /\ free.object[e].task = t
      BY <1>9, <3>1 DEF LastCall
    <3>3. QED
      BY <1>3, <1>11, <2>1, <2>2, <3>1, <3>2 DEF Failing
  <2>4. QED
    BY <1>9, <1>10, <1>11, <2>3, FailKeeps
<1>17. Alike(late, late, Nil) /\ Alike(late, SetStatus(late, t, "queued"), Nil)
  <2>1. "queued" \in TaskStatuses
    BY DEF TaskStatuses
  <2>2. QED
    BY <1>3, <1>13, <2>1, AlikeSelf, SetStatusIs
<1>18. \/ Postpone(s, p) = Return(late, p)
       \/ Postpone(s, p) = Fail(free, p)
       \/ Postpone(s, p) = Return(SetStatus(late, t, "queued"), p)
  <2>1. s2 = [s1 EXCEPT !.object[e].launching = FALSE]
    BY <1>1
  <2>2. late = [free EXCEPT !.object[e].timer = TRUE]
    BY <1>1
  <2>3. QED
    BY <1>1, <2>1, <2>2 DEF Postpone
<1>19. QED
  BY <1>15, <1>16, <1>17, <1>18

LEMMA CheckPackageKeeps ==
  ASSUME Core(Now), Now.waking = {}, NEW p \in Calls, CheckPackage(p)
  PROVE  IndInv(Now')
<1>1. PICK s, c : s = Now /\ c = [s.call[p] EXCEPT !.pc = "read", !.seen = Nil]
  OBVIOUS
<1>2. /\ Core(s) /\ s.call[p] # Nil /\ Launch(s, p) /\ s.call[p].pc = "check" /\ s.waking = {}
      /\ Become(IF enabled
                THEN [s EXCEPT !.call[p].pc = "read", !.call[p].seen = Nil]
                ELSE Postpone(s, p))
  BY <1>1, NowIs DEF CheckPackage, Launch
<1>3. s.call[p] \in AsyncCalls
  BY <1>2, LaunchFacts
<1>4. CASE enabled
  <2>1. /\ c \in AsyncCalls /\ c.pc \notin {"package", "lease", "run", "prepare"}
        /\ c.task = s.call[p].task /\ c.entry = s.call[p].entry /\ c.lease = s.call[p].lease
    BY <1>1, <1>3 DEF AsyncCalls
  <2>2. PICK r : r = [s EXCEPT !.call = [s.call EXCEPT ![p] = c]]
    OBVIOUS
  <2>3. Core(r) /\ r.waking = s.waking
    <3>1. s.call[p].pc \notin {"package", "lease"}
      BY <1>2
    <3>2. QED
      BY <1>2, <2>1, <2>2, <3>1, MovesCall
  <2>4. r = [s EXCEPT !.call[p].pc = "read", !.call[p].seen = Nil]
    BY <1>1, <1>3, <2>2
  <2>5. QED
    BY <1>2, <1>4, <2>3, <2>4, BecomeKeeps
<1>5. CASE ~enabled
  BY <1>2, <1>5, PostponeKeeps, BecomeKeeps
<1>6. QED
  BY <1>4, <1>5

LEMMA ClaimKeeps ==
  ASSUME Core(Now), Now.waking = {}, NEW p \in Calls, Claim(p)
  PROVE  IndInv(Now')
<1>1. PICK s, t, e : s = Now /\ t = s.call[p].task /\ e = s.call[p].entry
  OBVIOUS
<1>2. PICK k : k = SetTask(s, t, "in_progress", TRUE)
  OBVIOUS
<1>3. /\ Core(s) /\ Launch(s, p) /\ s.call[p].pc \notin {"package", "lease"} /\ s.waking = {}
      /\ Become(IF MayClaim(p)
                THEN [k EXCEPT !.claim[t] = [by |-> p, run |-> FALSE, moved |-> FALSE],
                               !.call[p].pc = "thread", !.call[p].fresh = TRUE]
                ELSE Fail(s, p))
  BY <1>1, <1>2, NowIs DEF Claim, Launch
<1>4. /\ t \in Tasks /\ e \in Entries /\ s.object[e] \in Objects /\ s.object[e].task = t
      /\ ~s.object[e].pending /\ ~s.object[e].timer /\ s.call[p].lease # Nil
  BY <1>1, <1>3, LaunchFacts, LeaseInHand
<1>5. CASE MayClaim(p)
  <2>1. s.claim[t] = Nil
    BY <1>1, <1>5, NowIs DEF MayClaim
  <2>2. Alike(s, k, Nil)
    <3>1. "in_progress" \in TaskStatuses /\ TRUE \in BOOLEAN
      BY DEF TaskStatuses
    <3>2. QED
      BY <1>2, <1>3, <1>4, <3>1, SetTaskIs DEF Core
  <2>3. /\ Typed(k) /\ k.object = s.object /\ CallAlike(s, k, p)
        /\ k.object \in [Entries -> Objects \cup {Nil}] /\ k.call \in [Calls -> AsyncCalls \cup {Nil}]
        /\ k.claim \in [Tasks -> Claims \cup {Nil}]
    BY <2>2, FieldTypes DEF Alike
  <2>4. /\ k.call[p] \in AsyncCalls /\ k.call[p].task = t /\ k.call[p].entry = e
        /\ k.call[p].lease = s.call[p].lease
    BY <1>1, <1>3, <2>3 DEF CallAlike, Launch
  <2>5. PICK c, m, b : /\ c = [k.call[p] EXCEPT !.pc = "thread", !.fresh = TRUE]
                       /\ m = s.object[e] /\ b = [by |-> p, run |-> FALSE, moved |-> FALSE]
    OBVIOUS
  <2>6. /\ c \in AsyncCalls /\ c.pc = "thread" /\ c.task = t /\ c.entry = e
        /\ c.lease = s.call[p].lease /\ b \in Claims
    BY <2>4, <2>5 DEF AsyncCalls, Claims
  <2>7. PICK r : r = [k EXCEPT !.claim = [k.claim EXCEPT ![t] = b],
                               !.call = [k.call EXCEPT ![p] = c]]
    OBVIOUS
  <2>8. /\ [k.claim EXCEPT ![t] = b] \in [Tasks -> Claims \cup {Nil}]
        /\ [k.call EXCEPT ![p] = c] \in [Calls -> AsyncCalls \cup {Nil}]
        /\ [k.object EXCEPT ![e] = m] = k.object
    BY <2>3, <2>5, <2>6
  <2>9. /\ Typed(r)
        /\ r.archived = k.archived /\ r.row = k.row /\ r.entries = k.entries
        /\ r.queue = k.queue /\ r.lease = k.lease
        /\ r.closed = k.closed /\ r.recovery = k.recovery
        /\ r.enabled = k.enabled /\ r.toWake = k.toWake /\ r.waking = k.waking
        /\ r.object = k.object /\ r.call = [k.call EXCEPT ![p] = c]
        /\ r.claim = [k.claim EXCEPT ![t] = b]
    BY <2>3, <2>7, <2>8, SMTT(30) DEF Typed, Fields
  <2>10. Rewrites(k, r, s.call[p].entry, m, p, c, s.call[p].task, b)
    BY <1>1, <2>8, <2>9 DEF Rewrites
  <2>11. MayGoOn(s, k, p, c, m, b)
    BY <1>1, <1>3, <1>4, <2>1, <2>2, <2>5, <2>6 DEF MayGoOn
  <2>12. Core(r) /\ r.waking = {}
    BY <1>3, <2>10, <2>11, GoesOn
  <2>13. r = [k EXCEPT !.claim[t] = [by |-> p, run |-> FALSE, moved |-> FALSE],
                       !.call[p].pc = "thread", !.call[p].fresh = TRUE]
    BY <2>3, <2>5, <2>7
  <2>14. QED
    BY <1>3, <1>5, <2>12, <2>13, BecomeKeeps
<1>6. CASE ~MayClaim(p)
  BY <1>3, <1>4, <1>6, LaunchFails, BecomeKeeps
<1>7. QED
  BY <1>5, <1>6

\* A reservation is dropped while the run it was made for is the task's only call.
WithoutRow(s, t) == [s EXCEPT !.row = [s.row EXCEPT ![t] = Nil]]

LEMMA RowDropped ==
  ASSUME NEW s, NEW r, NEW p \in Calls, Typed(s), Placed(s, Nil, p), s.call[p] # Nil,
         s.call[p].task \notin s.recovery.left,
         r = WithoutRow(s, s.call[p].task)
  PROVE  /\ Typed(r) /\ Placed(r, Nil, p)
         /\ r.status = s.status /\ r.archived = s.archived /\ r.hasThread = s.hasThread
         /\ r.claim = s.claim /\ r.entries = s.entries /\ r.object = s.object /\ r.call = s.call
         /\ r.queue = s.queue /\ r.lease = s.lease
         /\ r.closed = s.closed /\ r.recovery = s.recovery
         /\ r.enabled = s.enabled /\ r.toWake = s.toWake /\ r.waking = s.waking
         /\ r.row = [s.row EXCEPT ![s.call[p].task] = Nil]
<1>1. PICK t : t = s.call[p].task
  OBVIOUS
<1>2. /\ t \in Tasks /\ s.row \in [Tasks -> Rows \cup {Nil}] /\ s.recovery.left \subseteq Tasks
      /\ \A q \in Calls : s.call[q] # Nil => s.call[q].task \in Tasks
  BY <1>1, FieldTypes DEF AsyncCalls
<1>3. [s.row EXCEPT ![t] = Nil] \in [Tasks -> Rows \cup {Nil}]
  BY <1>2
<1>4. /\ Typed(r)
      /\ r.status = s.status /\ r.archived = s.archived /\ r.hasThread = s.hasThread
      /\ r.claim = s.claim /\ r.entries = s.entries /\ r.object = s.object /\ r.call = s.call
      /\ r.queue = s.queue /\ r.lease = s.lease
      /\ r.closed = s.closed /\ r.recovery = s.recovery
      /\ r.enabled = s.enabled /\ r.toWake = s.toWake /\ r.waking = s.waking
      /\ r.row = [s.row EXCEPT ![t] = Nil]
  BY <1>1, <1>3, SMTT(30) DEF Typed, Fields, WithoutRow
<1>5. r.row[t] = Nil /\ \A u \in Tasks : u # t => r.row[u] = s.row[u]
  BY <1>2, <1>4
<1>6. \A q \in Calls : q # p /\ s.call[q] # Nil => s.call[q].task # t
  BY <1>1 DEF Placed, OneCall
<1>7. OneCall(r) /\ FreshUnarchived(r) /\ RunsClaimed(r, p) /\ LaunchesMapped(r, p)
  <2>1. OneCall(r)
    BY <1>4 DEF Placed, OneCall
  <2>2. FreshUnarchived(r)
    BY <1>4 DEF Placed, FreshUnarchived
  <2>3. RunsClaimed(r, p)
    BY <1>4 DEF Placed, RunsClaimed
  <2>4. LaunchesMapped(r, p)
    BY <1>4 DEF Placed, LaunchesMapped, Launch
  <2>5. QED
    BY <2>1, <2>2, <2>3, <2>4
<1>8. RunsPlaced(r, p)
  BY <1>2, <1>4, <1>5, <1>6 DEF Placed, RunsPlaced
<1>9. LaunchesPlaced(r, p)
  BY <1>2, <1>4, <1>5, <1>6 DEF Placed, LaunchesPlaced, Launch, Pending
<1>10. TimersIdle(r, p) /\ MapKept(r) /\ PendingHeld(r)
  BY <1>4 DEF Placed, TimersIdle, MapKept, PendingHeld, WorkedOn
<1>11. RecoveryLeft(r)
  BY <1>1, <1>2, <1>4, <1>5 DEF Placed, RecoveryLeft, Pending
<1>12. RunningRows(r)
  BY <1>4, <1>5 DEF Placed, RunningRows
<1>13. Alive(r, Nil)
  BY <1>4, <1>5 DEF Placed, Alive, Pending, WorkedOn
<1>14. QED
  BY <1>1, <1>4, <1>7, <1>8, <1>9, <1>10, <1>11, <1>12, <1>13 DEF Placed

LEMMA PreparationBlockedKeeps ==
  ASSUME Core(Now), Now.waking = {}, NEW p \in Calls, PreparationBlocked(p)
  PROVE  IndInv(Now')
<1>1. PICK s, t, e : s = Now /\ t = s.call[p].task /\ e = s.call[p].entry
  OBVIOUS
<1>2. PICK k, freed : k = Settle(s, t, "blocked") /\ freed = Release(k, s.call[p].lease)
  OBVIOUS
<1>3. /\ Core(s) /\ s.call[p] # Nil /\ s.call[p].pc = "prepare" /\ Launch(s, p) /\ s.waking = {}
      /\ Become(Throw([freed EXCEPT !.row[t] = Nil, !.entries[t] = Nil], p))
  BY <1>1, <1>2, NowIs DEF PreparationBlocked, Launch
<1>4. /\ Typed(s) /\ Scheduled(s, Nil, Nil) /\ Placed(s, Nil, p) /\ Failing(s, p)
      /\ t \in Tasks /\ s.claim[t] # Nil /\ s.claim[t].by = p
  <2>1. s.call[p].lease # Nil
    BY <1>3, LeaseInHand
  <2>2. t \in Tasks
    BY <1>1, <1>3, LaunchFacts
  <2>3. s.claim[t] # Nil /\ s.claim[t].by = p
    BY <1>1, <1>3, ConstantFacts DEF Core, Placed, RunsClaimed
  <2>4. QED
    BY <1>3, <2>1, <2>2, <2>3, CanFail, PlacedEnding DEF Core
<1>5. Alike(s, k, p)
  <2>1. "blocked" \in TaskStatuses
    BY DEF TaskStatuses
  <2>2. QED
    BY <1>2, <1>4, <2>1, SettleIs
<1>6. Typed(k) /\ Scheduled(k, Nil, Nil) /\ Placed(k, Nil, p) /\ Failing(k, p) /\ k.waking = {}
  <2>1. Scheduled(k, Nil, Nil)
    BY <1>4, <1>5, AlikeScheduled
  <2>2. Placed(k, Nil, p)
    BY <1>4, <1>5, AlikePlaced
  <2>3. Failing(k, p)
    BY <1>4, <1>5, FailingAlike
  <2>4. QED
    BY <1>3, <1>5, <2>1, <2>2, <2>3 DEF Alike
<1>7. k.call[p].task = t /\ k.call[p].entry = e /\ k.call[p].lease = s.call[p].lease /\ k.call[p] # Nil
  BY <1>1, <1>3, <1>5 DEF Alike, CallAlike
<1>8. /\ Typed(freed) /\ Scheduled(freed, p, Nil) /\ Placed(freed, Nil, p) /\ LastCall(freed, p)
      /\ freed.call[p] = k.call[p] /\ freed.waking = k.waking
      /\ \A i \in 1..Len(freed.queue) : freed.queue[i] # t
      /\ freed.object = k.object
  <2>1. freed = Release(k, k.call[p].lease) /\ t = k.call[p].task
    BY <1>2, <1>7
  <2>2. QED
    BY ONLY <1>6, <2>1, FailingReleases
<1>9. /\ freed.row \in [Tasks -> Rows \cup {Nil}] /\ freed.entries \in [Tasks -> Entries \cup {Nil}]
  BY <1>8, FieldTypes
<1>10. PICK q : q = [freed EXCEPT !.row = [freed.row EXCEPT ![t] = Nil],
                                  !.entries = [freed.entries EXCEPT ![t] = Nil]]
  OBVIOUS
<1>11. /\ [freed.row EXCEPT ![t] = Nil] \in [Tasks -> Rows \cup {Nil}]
       /\ [freed.entries EXCEPT ![t] = Nil] \in [Tasks -> Entries \cup {Nil}]
  BY <1>9
<1>12. /\ Typed(q)
       /\ q.archived = freed.archived /\ q.claim = freed.claim
       /\ q.queue = freed.queue /\ q.lease = freed.lease
       /\ q.closed = freed.closed /\ q.enabled = freed.enabled /\ q.toWake = freed.toWake
       /\ q.waking = freed.waking /\ q.recovery = freed.recovery /\ q.call = freed.call
       /\ q.object = freed.object
       /\ q.row = [freed.row EXCEPT ![t] = Nil] /\ q.entries = [freed.entries EXCEPT ![t] = Nil]
  BY <1>8, <1>10, <1>11, SMTT(30) DEF Typed, Fields
<1>13. LastWord(freed, q, p)
  <2>1. /\ freed.call[p].task = t /\ freed.call[p].entry = e
        /\ freed.object[e].task = t /\ ~freed.object[e].timer
    <3>1. freed.call[p].task = t /\ freed.call[p].entry = e
      BY <1>7, <1>8
    <3>2. freed.object[e].task = t
      BY <1>8, <3>1 DEF LastCall
    <3>3. ~freed.object[e].timer
      BY <1>6, <1>7, <1>8 DEF Failing
    <3>4. QED
      BY <3>1, <3>2, <3>3
  <2>2. /\ q.row[t] = Nil /\ q.entries[t] = Nil
        /\ \A u \in Tasks : u # t => q.row[u] = freed.row[u] /\ q.entries[u] = freed.entries[u]
    BY <1>4, <1>9, <1>12
  <2>3. QED
    BY <1>8, <1>12, <2>1, <2>2 DEF LastWord
<1>14. Core(Throw(q, p)) /\ Throw(q, p).waking = {}
  BY <1>6, <1>8, <1>13, LastWordKeeps
<1>15. q = [freed EXCEPT !.row[t] = Nil, !.entries[t] = Nil]
  BY <1>10
<1>16. QED
  BY <1>3, <1>14, <1>15, BecomeKeeps

\* ReadPackage with the package disabled: the call just returns.
LEMMA DisabledKeeps ==
  ASSUME Core(Now), Now.waking = {}, NEW p \in Calls, ReadPackage(p), ~enabled
  PROVE  IndInv(Now')
<1>1. PICK s, t, e : s = Now /\ t = s.call[p].task /\ e = s.call[p].entry
  OBVIOUS
<1>2. /\ Core(s) /\ s.call[p] # Nil /\ s.call[p].pc = "package" /\ Launch(s, p) /\ s.waking = {}
      /\ ~s.enabled
      /\ Become(Return(s, p))
  BY <1>1, NowIs DEF ReadPackage, Launch
<1>3. /\ t \in Tasks /\ e \in Entries /\ s.object[e] # Nil /\ s.object[e].task = t
      /\ ~s.object[e].pending /\ ~s.object[e].timer /\ Pending(s, t)
      /\ t \notin s.recovery.left /\ (~s.closed => s.entries[t] = e)
  BY <1>1, <1>2, LaunchFacts
<1>4. s.closed => s.entries[t] = Nil
  BY <1>2, <1>3 DEF Core, Placed, MapKept
<1>5. Typed(s) /\ Scheduled(s, Nil, Nil) /\ Placed(s, Nil, p)
  BY <1>2, PlacedEnding DEF Core
<1>6. \A o \in Entries : s.object[o] # Nil /\ s.object[o].timer => s.object[o].task # t
  BY <1>1, <1>2, ConstantFacts DEF Core, Placed, TimersIdle
<1>7. LastCall(s, p)
  BY <1>1, <1>2, <1>3, <1>6 DEF LastCall
<1>8. LastWord(s, s, p)
  <2>1. ~(s.row[t] # Nil /\ s.row[t].state = "running")
    BY <1>3 DEF Pending
  <2>2. QED
    BY <1>1, <1>2, <1>3, <1>4, <1>5, <2>1 DEF LastWord
<1>9. s.call[p].lease = Nil
  BY <1>2, ConstantFacts DEF Core, Scheduled, LeasesMatch, Holds
<1>10. Core(Return(s, p)) /\ Return(s, p).waking = {}
  BY <1>2, <1>5, <1>7, <1>8, <1>9, LastWordKeeps
<1>11. QED
  BY <1>2, <1>10, BecomeKeeps

LEMMA RunEndsKeeps ==
  ASSUME Core(Now), Now.waking = {}, NEW p \in Calls, RunEnds(p)
  PROVE  IndInv(Now')
<1>1. PICK s, t, l : s = Now /\ t = s.call[p].task /\ l = s.call[p].lease
  OBVIOUS
<1>2. /\ Core(s) /\ s.call[p] # Nil /\ s.call[p].pc = "run" /\ s.waking = {}
      /\ Typed(s) /\ Scheduled(s, Nil, Nil) /\ Placed(s, Nil, p) /\ OneCall(s) /\ p # Nil
  BY <1>1, NowIs, PlacedEnding, ConstantFacts DEF RunEnds, Core, Placed
<1>3. /\ t \in Tasks /\ s.claim[t] # Nil /\ s.claim[t].by = p /\ s.claim[t].run
      /\ s.call[p].entry = Nil /\ s.entries[t] = Nil
      /\ s.row[t] # Nil /\ s.row[t].state = "running" /\ l # Nil
  <2>1. t \in Tasks
    BY <1>1, <1>2, FieldTypes DEF AsyncCalls
  <2>2. s.claim[t] # Nil /\ s.claim[t].by = p /\ s.claim[t].run
    BY <1>1, <1>2 DEF Core, Placed, RunsClaimed
  <2>3. s.call[p].entry = Nil /\ s.entries[t] = Nil /\ s.row[t] # Nil /\ s.row[t].state = "running"
    BY <1>1, <1>2 DEF Core, Placed, RunsPlaced
  <2>4. l # Nil
    BY <1>1, <1>2 DEF Scheduled, LeasesMatch, Holds
  <2>5. QED
    BY <2>1, <2>2, <2>3, <2>4
<1>4. /\ \A o \in Entries : s.object[o] # Nil /\ s.object[o].timer => s.object[o].task # t
      /\ t \notin s.recovery.left
  BY <1>1, <1>2, <1>3 DEF Core, Placed, TimersIdle, RecoveryLeft, Pending
<1>5. PICK result \in {"done", "blocked", "in_progress"} :
        Become([Release(ClearAfterRun(Settle(s, t, result), t), l) EXCEPT !.call[p] = Nil])
  BY <1>1, <1>3, NowIs DEF RunEnds
<1>6. PICK k, cl, rel, r : /\ k = Settle(s, t, result) /\ cl = ClearAfterRun(k, t)
                           /\ rel = Release(cl, l)
                           /\ r = [rel EXCEPT !.call = [rel.call EXCEPT ![p] = Nil]]
  OBVIOUS
<1>7. Alike(s, k, p)
  <2>1. result \in TaskStatuses
    BY DEF TaskStatuses
  <2>2. QED
    BY <1>2, <1>3, <1>6, <2>1, SettleIs
<1>8. Typed(k) /\ Scheduled(k, Nil, Nil) /\ Placed(k, Nil, p)
  <2>1. Scheduled(k, Nil, Nil)
    BY <1>2, <1>7, AlikeScheduled
  <2>2. Placed(k, Nil, p)
    BY <1>2, <1>7, AlikePlaced
  <2>3. QED
    BY <1>7, <2>1, <2>2 DEF Alike
<1>9. /\ k.call[p] # Nil /\ k.call[p].task = t /\ k.call[p].lease = l /\ k.call[p].entry = Nil
      /\ k.recovery = s.recovery /\ k.row = s.row /\ k.entries = s.entries /\ k.object = s.object
      /\ k.waking = s.waking
  <2>1. CallAlike(s, k, p)
    BY <1>7 DEF Alike
  <2>2. k.call[p] # Nil /\ k.call[p].task = t /\ k.call[p].lease = l /\ k.call[p].entry = Nil
    BY <1>1, <1>2, <1>3, <2>1 DEF CallAlike
  <2>3. QED
    BY <1>7, <2>2 DEF Alike
<1>10. cl = WithoutRow(k, k.call[p].task)
  <2>1. k.row[t] # Nil /\ k.row[t].state = "running" /\ k.call[p].task = t
    BY <1>3, <1>9
  <2>2. cl = ClearAfterRun(k, t)
    BY <1>6
  <2>3. QED
    BY <2>1, <2>2 DEF ClearAfterRun, WithoutRow
<1>11. /\ Typed(cl) /\ Placed(cl, Nil, p) /\ cl.call = k.call /\ cl.entries = k.entries
       /\ cl.object = k.object /\ cl.recovery = k.recovery /\ cl.queue = k.queue
       /\ cl.lease = k.lease /\ cl.closed = k.closed /\ cl.waking = k.waking
       /\ cl.row = [k.row EXCEPT ![k.call[p].task] = Nil]
  <2>1. k.call[p] # Nil /\ k.call[p].task \notin k.recovery.left
    BY <1>4, <1>9
  <2>2. QED
    BY ONLY <1>8, <1>10, <2>1, RowDropped
<1>12. Scheduled(cl, Nil, Nil) /\ OneCall(cl)
  <2>1. Scheduled(cl, Nil, Nil)
    BY <1>8, <1>11, ScheduledSame
  <2>2. QED
    BY <1>11, <2>1 DEF Placed
<1>13. /\ Scheduled(rel, p, Nil) /\ Grants(cl, rel)
  <2>1. cl.call[p] # Nil /\ cl.call[p].lease # Nil /\ rel = Release(cl, cl.call[p].lease)
    BY <1>3, <1>6, <1>9, <1>11
  <2>2. QED
    BY <1>11, <1>12, <2>1, ReleaseKeeps
<1>14. /\ Typed(rel) /\ Placed(rel, Nil, p)
       /\ rel.call[p] = k.call[p] /\ rel.entries = s.entries /\ rel.object = s.object
       /\ rel.recovery = s.recovery /\ rel.row = cl.row /\ rel.waking = s.waking
  <2>1. Placed(rel, Nil, p)
    BY <1>11, <1>13, GrantsPlaced
  <2>2. cl.call[p].lease # Nil
    BY <1>3, <1>9, <1>11
  <2>3. QED
    BY <1>9, <1>11, <1>13, <2>1, <2>2 DEF Grants
<1>15. rel.call \in [Calls -> AsyncCalls \cup {Nil}]
  BY <1>14, FieldTypes
<1>16. [rel.call EXCEPT ![p] = Nil] \in [Calls -> AsyncCalls \cup {Nil}]
  BY <1>15
<1>17. /\ Typed(r)
       /\ r.archived = rel.archived /\ r.claim = rel.claim /\ r.row = rel.row
       /\ r.entries = rel.entries /\ r.object = rel.object
       /\ r.queue = rel.queue /\ r.lease = rel.lease
       /\ r.closed = rel.closed /\ r.enabled = rel.enabled /\ r.toWake = rel.toWake
       /\ r.waking = rel.waking /\ r.recovery = rel.recovery
       /\ r.call = [rel.call EXCEPT ![p] = Nil]
  BY <1>6, <1>14, <1>16, SMTT(30) DEF Typed, Fields
<1>18. rel.call[p].task = t /\ rel.call[p] # Nil /\ rel.call[p].entry = Nil
  BY <1>9, <1>14
<1>19. r.row[t] = Nil
  <2>1. k.row \in [Tasks -> Rows \cup {Nil}]
    BY <1>8, FieldTypes
  <2>2. QED
    BY <1>3, <1>9, <1>11, <1>14, <1>17, <2>1
<1>20. Ends(rel, r, p)
  <2>1. r.call[p] = Nil /\ \A q \in Calls : q # p => r.call[q] = rel.call[q]
    BY <1>15, <1>17
  <2>2. \A o \in Entries : rel.object[o] # Nil /\ rel.object[o].task = t => ~r.object[o].timer
    BY <1>4, <1>14, <1>17
  <2>3. r.entries[t] = Nil
    BY <1>3, <1>14, <1>17
  <2>4. QED
    BY <1>17, <1>18, <2>1, <2>2, <2>3 DEF Ends
<1>21. Placed(r, Nil, Nil)
  <2>1. Ending(rel, p)
    BY <1>4, <1>14, <1>18 DEF Ending
  <2>2. QED
    BY <1>14, <1>18, <1>19, <1>20, <2>1, EndPlaced
<1>22. Scheduled(r, Nil, Nil)
  <2>1. LET u == rel.call[p].task IN
        \/ r.entries[u] = rel.entries[u]
        \/ \A i \in 1..Len(rel.queue) : rel.queue[i] # u
    BY <1>17
  <2>2. QED
    BY <1>13, <1>14, <1>18, <1>20, <2>1, EndScheduled
<1>23. Core(r) /\ r.waking = {}
  BY <1>2, <1>14, <1>17, <1>21, <1>22 DEF Core
<1>24. Become(r)
  BY <1>5, <1>6
<1>25. QED
  BY <1>23, <1>24, BecomeKeeps

\* With a run in place of its launch the invariant holds.
LEMMA RunsNowKeeps ==
  ASSUME NEW s, NEW r, NEW p \in Calls, Core(s), s.call[p] # Nil, s.call[p].pc = "prepare",
         RunsNow(s, r, p)
  PROVE  Core(r)
<1>1. PICK t, e : t = s.call[p].task /\ e = s.call[p].entry
  OBVIOUS
<1>2. Launch(s, p) /\ s.call[p].lease # Nil /\ Typed(s) /\ p # Nil /\ Nil \notin Calls
  BY LeaseInHand, ConstantFacts DEF Launch, Core
<1>3. /\ t \in Tasks /\ e \in Entries /\ s.object[e] # Nil /\ s.object[e].task = t
      /\ ~s.object[e].timer /\ t \notin s.recovery.left /\ Pending(s, t)
  BY <1>1, <1>2, LaunchFacts
<1>4. /\ s.call \in [Calls -> AsyncCalls \cup {Nil}] /\ s.entries \in [Tasks -> Entries \cup {Nil}]
      /\ s.object \in [Entries -> Objects \cup {Nil}] /\ s.recovery.left \subseteq Tasks
      /\ \A q \in Calls : s.call[q] # Nil => s.call[q].task \in Tasks
      /\ \A i \in 1..Len(s.queue) : s.queue[i] \in Tasks
  <2>1. \A i \in 1..Len(s.queue) : s.queue[i] \in Tasks
    BY <1>2, FieldTypes, ElementOfSeq
  <2>2. QED
    BY <1>2, <2>1, FieldTypes DEF AsyncCalls
<1>5. /\ Typed(r)
      /\ r.archived = s.archived /\ r.claim = s.claim
      /\ r.queue = s.queue /\ r.lease = s.lease
      /\ r.closed = s.closed /\ r.enabled = s.enabled /\ r.toWake = s.toWake /\ r.waking = s.waking
      /\ r.recovery.left = s.recovery.left
      /\ \A q \in Calls : q # p => r.call[q] = s.call[q]
      /\ r.call[p] # Nil /\ r.call[p].pc = "run" /\ r.call[p].task = t
      /\ r.call[p].lease = s.call[p].lease /\ r.call[p].entry = Nil
      /\ \A u \in Tasks : u # t => r.row[u] = s.row[u] /\ r.entries[u] = s.entries[u]
      /\ r.row[t] # Nil /\ r.row[t].state = "running" /\ r.entries[t] = Nil
      /\ \A o \in Entries : o # e => r.object[o] = s.object[o]
      /\ r.object[e] # Nil /\ r.object[e].task = t /\ ~r.object[e].timer
  BY <1>1 DEF RunsNow
<1>6. \A q \in Calls : q # p /\ s.call[q] # Nil => s.call[q].task # t
  BY <1>1, <1>2 DEF Core, Placed, OneCall, Launch
<1>7. s.lease[t] # Nil /\ Holds(s, p)
  BY <1>1, <1>2 DEF Core, Scheduled, LeasesMatch, Holds, Launch
<1>8. \A i \in 1..Len(s.queue) : s.queue[i] # t
  BY <1>7 DEF Core, Scheduled, QueueWaits
<1>9. LeasesApart(r) /\ WithinLimit(r) /\ QueueWaits(r)
  BY <1>5 DEF Core, Scheduled, LeasesApart, WithinLimit, Active, QueueWaits
<1>10. QueueMapped(r)
  BY <1>4, <1>5, <1>8 DEF Core, Scheduled, QueueMapped
<1>11. LeasesMatch(r, Nil)
  <2>1. SUFFICES ASSUME NEW q \in Calls, r.call[q] # Nil
                 PROVE  Holds(r, q)
    BY <1>2 DEF LeasesMatch
  <2>2. CASE q = p
    BY <1>1, <1>2, <1>5, <1>7, <2>2 DEF Holds
  <2>3. CASE q # p
    BY <1>2, <1>5, <2>1, <2>3 DEF Core, Scheduled, LeasesMatch, Holds
  <2>4. QED
    BY <2>2, <2>3
<1>12. LeasesOwned(r, Nil)
  <2>1. SUFFICES ASSUME ~ArchiveMidway, ~r.closed
                 PROVE  /\ \A u \in Tasks : u # Nil /\ r.lease[u] # Nil => HeldBy(r, u)
                        /\ \A i \in 1..Len(r.queue) : r.queue[i] # Nil => AwaitedBy(r, r.queue[i])
    BY DEF LeasesOwned
  <2>2. /\ \A u \in Tasks : u # Nil /\ s.lease[u] # Nil => HeldBy(s, u)
        /\ \A i \in 1..Len(s.queue) : s.queue[i] # Nil => AwaitedBy(s, s.queue[i])
    BY <1>5, <2>1 DEF Core, Scheduled, LeasesOwned
  <2>3. \A u \in Tasks : HeldBy(s, u) => HeldBy(r, u)
    BY <1>5 DEF HeldBy
  <2>4. \A u : AwaitedBy(s, u) => AwaitedBy(r, u)
    BY <1>5 DEF AwaitedBy, WaitsFor
  <2>5. QED
    BY <1>5, <2>2, <2>3, <2>4
<1>13. OneCall(r)
  BY <1>1, <1>5, <1>6 DEF Core, Placed, OneCall
<1>14. RunsPlaced(r, Nil)
  <2>1. SUFFICES ASSUME NEW q \in Calls, r.call[q] # Nil, r.call[q].pc = "run"
                 PROVE  /\ r.call[q].entry = Nil /\ r.entries[r.call[q].task] = Nil
                        /\ r.row[r.call[q].task] # Nil /\ r.row[r.call[q].task].state = "running"
    BY DEF RunsPlaced
  <2>2. CASE q = p
    BY <1>5, <2>2
  <2>3. CASE q # p
    BY <1>2, <1>4, <1>5, <1>6, <2>1, <2>3 DEF Core, Placed, RunsPlaced
  <2>4. QED
    BY <2>2, <2>3
<1>15. \A q \in Calls : Launch(r, q) => /\ q # p /\ q # Nil /\ r.call[q] = s.call[q] /\ Launch(s, q)
                                        /\ s.call[q].task # t /\ s.call[q].task \in Tasks
  BY <1>2, <1>4, <1>5, <1>6 DEF Launch
<1>16. \A q \in Calls : Launch(r, q) =>
         /\ s.call[q].entry \in Entries /\ s.object[s.call[q].entry] # Nil
         /\ s.object[s.call[q].entry].task = s.call[q].task
         /\ s.object[s.call[q].entry].pending => s.call[q].pc = "lease"
         /\ Pending(s, s.call[q].task) /\ s.row[s.call[q].task].ready
         /\ s.call[q].entry # e
  <2>1. SUFFICES ASSUME NEW q \in Calls, Launch(r, q)
                 PROVE  /\ s.call[q].entry \in Entries /\ s.object[s.call[q].entry] # Nil
                        /\ s.object[s.call[q].entry].task = s.call[q].task
                        /\ s.object[s.call[q].entry].pending => s.call[q].pc = "lease"
                        /\ Pending(s, s.call[q].task) /\ s.row[s.call[q].task].ready
                        /\ s.call[q].entry # e
    OBVIOUS
  <2>2. Launch(s, q) /\ q # Nil /\ s.call[q].task # t
    BY <1>15, <2>1
  <2>3. QED
    BY <1>3, <2>2 DEF Core, Placed, LaunchesPlaced
<1>17. LaunchesPlaced(r, Nil)
  BY <1>5, <1>15, <1>16 DEF LaunchesPlaced, Pending
<1>18. LaunchesMapped(r, Nil)
  BY <1>5, <1>15, <1>16 DEF Core, Placed, LaunchesMapped
<1>19. FreshUnarchived(r)
  BY <1>5 DEF Core, Placed, FreshUnarchived
<1>20. RunsClaimed(r, Nil)
  <2>1. SUFFICES ASSUME NEW q \in Calls, r.call[q] # Nil, r.call[q].pc \in {"prepare", "run"}
                 PROVE  /\ r.claim[r.call[q].task] # Nil
                        /\ r.claim[r.call[q].task].by = q /\ r.claim[r.call[q].task].run
    BY DEF RunsClaimed
  <2>2. s.call[q] # Nil /\ s.call[q].pc \in {"prepare", "run"} /\ s.call[q].task = r.call[q].task
        /\ q # Nil
    BY <1>1, <1>2, <1>5, <2>1 DEF Launch
  <2>3. QED
    BY <1>5, <2>2 DEF Core, Placed, RunsClaimed
<1>21. TimersIdle(r, Nil)
  <2>1. SUFFICES ASSUME NEW o \in Entries, r.object[o] # Nil, r.object[o].timer
                 PROVE  /\ \A q \in Calls : r.call[q] # Nil => r.call[q].task # r.object[o].task
                        /\ ~r.closed => r.entries[r.object[o].task] = o
    BY DEF TimersIdle
  <2>2. o # e /\ r.object[o] = s.object[o]
    BY <1>5, <2>1
  <2>3. /\ \A q \in Calls : s.call[q] # Nil => s.call[q].task # s.object[o].task
        /\ ~s.closed => s.entries[s.object[o].task] = o
    BY <1>2, <2>1, <2>2 DEF Core, Placed, TimersIdle
  <2>4. s.object[o].task # t /\ s.object[o].task \in Tasks
    BY <1>1, <1>2, <1>4, <2>1, <2>2, <2>3 DEF Objects, Launch
  <2>5. QED
    BY <1>1, <1>5, <2>2, <2>3, <2>4
<1>22. MapKept(r)
  BY <1>3, <1>4, <1>5 DEF Core, Placed, MapKept
<1>23. ASSUME NEW u \in Tasks, r.entries[u] # Nil
       PROVE  /\ u # t /\ r.entries[u] = s.entries[u] /\ s.entries[u] # Nil /\ s.entries[u] # e
              /\ s.entries[u] \in Entries /\ r.object[s.entries[u]] = s.object[s.entries[u]]
              /\ WorkedOn(s, s.entries[u]) => WorkedOn(r, s.entries[u])
  <2>1. u # t /\ r.entries[u] = s.entries[u] /\ s.entries[u] # Nil /\ s.entries[u] \in Entries
    BY <1>4, <1>5, <1>23
  <2>2. s.entries[u] # e
    BY <1>3, <2>1 DEF Core, Placed, MapKept
  <2>3. WorkedOn(s, s.entries[u]) => WorkedOn(r, s.entries[u])
    BY <1>1, <1>5, <2>2 DEF WorkedOn
  <2>4. QED
    BY <1>5, <2>1, <2>2, <2>3
<1>24. PendingHeld(r)
  BY <1>23 DEF Core, Placed, PendingHeld
<1>25. RecoveryLeft(r)
  BY <1>3, <1>4, <1>5 DEF Core, Placed, RecoveryLeft, Pending
<1>26. RunningRows(r)
  <2>1. SUFFICES ASSUME NEW u \in Tasks, r.row[u] # Nil, r.row[u].state = "running"
                 PROVE  \E q \in Calls : r.call[q] # Nil /\ r.call[q].pc = "run" /\ r.call[q].task = u
    BY DEF RunningRows
  <2>2. CASE u = t
    BY <1>5, <2>2
  <2>3. CASE u # t
    <3>1. PICK q \in Calls : s.call[q] # Nil /\ s.call[q].pc = "run" /\ s.call[q].task = u
      BY <1>5, <2>1, <2>3 DEF Core, Placed, RunningRows
    <3>2. q # p
      BY <1>1, <2>3, <3>1
    <3>3. QED
      BY <1>5, <3>1, <3>2
  <2>4. QED
    BY <2>2, <2>3
<1>27. Alive(r, Nil)
  <2>1. SUFFICES ASSUME ~ArchiveMidway, NEW u \in Tasks, r.entries[u] # Nil, Pending(r, u)
                 PROVE  \/ r.object[r.entries[u]].timer
                        \/ WorkedOn(r, r.entries[u])
                        \/ u \in r.toWake \/ r.entries[u] \in r.waking
                        \/ ~r.enabled
    BY DEF Alive
  <2>2. Pending(s, u) /\ s.entries[u] # Nil
    BY <1>5, <1>23, <2>1 DEF Pending
  <2>3. QED
    BY <1>5, <1>23, <2>1, <2>2 DEF Core, Placed, Alive
<1>28. QED
  BY <1>5, <1>9, <1>10, <1>11, <1>12, <1>13, <1>14, <1>17, <1>18, <1>19, <1>20, <1>21, <1>22,
     <1>24, <1>25, <1>26, <1>27 DEF Core, Scheduled, Placed

LEMMA StartedKeeps ==
  ASSUME Core(Now), Now.waking = {}, NEW p \in Calls, Started(p)
  PROVE  IndInv(Now')
<1>1. PICK s, t, e : s = Now /\ t = s.call[p].task /\ e = s.call[p].entry
  OBVIOUS
<1>2. PICK m, c, begun, w, q :
        /\ m = [s.object[e] EXCEPT !.pending = IF s.call[p].background THEN FALSE ELSE @]
        /\ c = [s.call[p] EXCEPT !.pc = "run", !.entry = Nil, !.background = FALSE]
        /\ begun = [s EXCEPT !.object = [s.object EXCEPT ![e] = m], !.call = [s.call EXCEPT ![p] = c]]
        /\ w = SetRow(begun, t, "running")
        /\ q = [w EXCEPT !.entries = [w.entries EXCEPT ![t] = Nil]]
  OBVIOUS
<1>3. /\ Core(s) /\ Typed(s) /\ s.call[p] # Nil /\ s.call[p].pc = "prepare" /\ Launch(s, p)
      /\ s.waking = {}
  BY <1>1, NowIs DEF Started, Launch, Core
<1>4. /\ s.call[p] \in AsyncCalls /\ t \in Tasks /\ e \in Entries /\ s.object[e] \in Objects
      /\ s.object[e].task = t /\ ~s.object[e].timer /\ s.row[t] # Nil
      /\ s.object \in [Entries -> Objects \cup {Nil}] /\ s.call \in [Calls -> AsyncCalls \cup {Nil}]
      /\ s.entries \in [Tasks -> Entries \cup {Nil}] /\ s.row \in [Tasks -> Rows \cup {Nil}]
      /\ s.recovery \in [left : SUBSET Tasks, at : Calls \cup {Nil}]
  BY <1>1, <1>3, LaunchFacts, FieldTypes
<1>5. m \in Objects /\ m # Nil /\ m.task = t /\ m.timer = s.object[e].timer
  <2>1. m \in Objects /\ m.task = t /\ m.timer = s.object[e].timer
    BY <1>2, <1>4 DEF Objects
  <2>2. QED
    BY <2>1, ConstantFacts
<1>6. /\ c \in AsyncCalls /\ c # Nil /\ c.pc = "run" /\ c.task = t /\ c.lease = s.call[p].lease
      /\ c.entry = Nil
  <2>1. c \in AsyncCalls /\ c.pc = "run" /\ c.task = t /\ c.lease = s.call[p].lease /\ c.entry = Nil
    BY <1>1, <1>2, <1>4 DEF AsyncCalls
  <2>2. QED
    BY <2>1, ConstantFacts
<1>7. /\ [s.object EXCEPT ![e] = m] \in [Entries -> Objects \cup {Nil}]
      /\ [s.call EXCEPT ![p] = c] \in [Calls -> AsyncCalls \cup {Nil}]
  BY <1>4, <1>5, <1>6
<1>8. /\ Typed(begun)
      /\ begun.archived = s.archived /\ begun.claim = s.claim /\ begun.row = s.row
      /\ begun.entries = s.entries /\ begun.queue = s.queue /\ begun.lease = s.lease
      /\ begun.closed = s.closed /\ begun.enabled = s.enabled /\ begun.toWake = s.toWake
      /\ begun.waking = s.waking /\ begun.recovery = s.recovery
      /\ begun.object = [s.object EXCEPT ![e] = m] /\ begun.call = [s.call EXCEPT ![p] = c]
  <2>1. begun = [s EXCEPT !.object = [s.object EXCEPT ![e] = m], !.call = [s.call EXCEPT ![p] = c]]
    BY <1>2
  <2>2. Typed(s)
    BY <1>3
  <2>3. QED
    BY ONLY <1>7, <2>1, <2>2, SMTT(30) DEF Typed, Fields
<1>9. /\ Typed(w)
      /\ w.archived = begun.archived /\ w.claim = begun.claim
      /\ w.entries = begun.entries /\ w.object = begun.object /\ w.call = begun.call
      /\ w.queue = begun.queue /\ w.lease = begun.lease
      /\ w.closed = begun.closed /\ w.recovery = begun.recovery
      /\ w.enabled = begun.enabled /\ w.toWake = begun.toWake /\ w.waking = begun.waking
      /\ \A u \in Tasks : u # t => w.row[u] = begun.row[u]
      /\ w.row[t] # Nil /\ w.row[t].state = "running"
  <2>1. w = SetRow(begun, t, "running") /\ Typed(begun) /\ t \in Tasks /\ begun.row[t] # Nil
        /\ "running" \in {"delayed", "queued", "running"}
    BY <1>2, <1>4, <1>8
  <2>2. QED
    BY ONLY <2>1, SetRowIs
<1>10. [w.entries EXCEPT ![t] = Nil] \in [Tasks -> Entries \cup {Nil}]
       /\ w.recovery \in [left : SUBSET Tasks, at : Calls \cup {Nil}]
       /\ w.entries = s.entries
  BY <1>4, <1>8, <1>9
<1>11. /\ Typed(q)
       /\ q.archived = w.archived /\ q.claim = w.claim /\ q.row = w.row
       /\ q.object = w.object /\ q.call = w.call
       /\ q.queue = w.queue /\ q.lease = w.lease
       /\ q.closed = w.closed /\ q.recovery = w.recovery
       /\ q.enabled = w.enabled /\ q.toWake = w.toWake /\ q.waking = w.waking
       /\ q.entries = [w.entries EXCEPT ![t] = Nil]
  <2>1. q = [w EXCEPT !.entries = [w.entries EXCEPT ![t] = Nil]]
    BY <1>2
  <2>2. Typed(w)
    BY <1>9
  <2>3. QED
    BY ONLY <1>10, <2>1, <2>2, SMTT(30) DEF Typed, Fields
<1>12. PICK rec, r : rec = [q.recovery EXCEPT !.at = Nil] /\ r = Returned(q, p)
  OBVIOUS
<1>13. rec \in [left : SUBSET Tasks, at : Calls \cup {Nil}] /\ rec.left = s.recovery.left
  BY <1>4, <1>8, <1>9, <1>11, <1>12
<1>14. /\ Typed(r)
       /\ r.archived = q.archived /\ r.claim = q.claim /\ r.row = q.row /\ r.entries = q.entries
       /\ r.object = q.object /\ r.call = q.call
       /\ r.queue = q.queue /\ r.lease = q.lease
       /\ r.closed = q.closed /\ r.recovery.left = s.recovery.left
       /\ r.enabled = q.enabled /\ r.toWake = q.toWake /\ r.waking = q.waking
  <2>1. CASE q.recovery.at # p
    BY <1>8, <1>9, <1>11, <1>12, <2>1 DEF Returned
  <2>2. CASE q.recovery.at = p
    <3>1. r = [q EXCEPT !.recovery = rec]
      BY <1>12, <2>2 DEF Returned
    <3>2. /\ Typed(r)
          /\ r.archived = q.archived /\ r.claim = q.claim /\ r.row = q.row /\ r.entries = q.entries
          /\ r.object = q.object /\ r.call = q.call
          /\ r.queue = q.queue /\ r.lease = q.lease
          /\ r.closed = q.closed /\ r.recovery = rec
          /\ r.enabled = q.enabled /\ r.toWake = q.toWake /\ r.waking = q.waking
      BY <1>11, <1>13, <3>1, SMTT(30) DEF Typed, Fields
    <3>3. QED
      BY <1>13, <3>2
  <2>3. QED
    BY <2>1, <2>2
<1>15. RunsNow(s, r, p)
  <2>1. /\ \A u \in Calls : u # p => r.call[u] = s.call[u]
        /\ r.call[p] = c
    BY <1>4, <1>8, <1>9, <1>11, <1>14
  <2>2. /\ \A u \in Tasks : u # t => r.row[u] = s.row[u] /\ r.entries[u] = s.entries[u]
        /\ r.row[t] # Nil /\ r.row[t].state = "running" /\ r.entries[t] = Nil
    BY <1>4, <1>8, <1>9, <1>10, <1>11, <1>14
  <2>3. /\ \A o \in Entries : o # e => r.object[o] = s.object[o]
        /\ r.object[e] = m
    BY <1>4, <1>8, <1>9, <1>11, <1>14
  <2>4. /\ Typed(r) /\ r.archived = s.archived /\ r.claim = s.claim
        /\ r.queue = s.queue /\ r.lease = s.lease
        /\ r.closed = s.closed /\ r.enabled = s.enabled /\ r.toWake = s.toWake /\ r.waking = s.waking
        /\ r.recovery.left = s.recovery.left
    BY <1>8, <1>9, <1>11, <1>14
  <2>5. QED
    BY <1>1, <1>4, <1>5, <1>6, <2>1, <2>2, <2>3, <2>4 DEF RunsNow
<1>16. Core(r) /\ r.waking = {}
  <2>1. r.waking = {}
    BY <1>3, <1>8, <1>9, <1>11, <1>14
  <2>2. QED
    BY <1>3, <1>15, <2>1, RunsNowKeeps
<1>17. Become(r)
  <2>1. begun = [s EXCEPT !.object[e].pending = IF s.call[p].background THEN FALSE ELSE @,
                        !.call[p].pc = "run", !.call[p].entry = Nil,
                        !.call[p].background = FALSE]
    BY <1>2, <1>4
  <2>2. s.call = call
    BY <1>1, NowIs
  <2>3. q = [w EXCEPT !.entries[t] = Nil]
    BY <1>2
  <2>4. Become(Returned([SetRow([Now EXCEPT
                 !.object[e].pending = IF s.call[p].background THEN FALSE ELSE @,
                 !.call[p].pc = "run", !.call[p].entry = Nil,
                 !.call[p].background = FALSE], t, "running") EXCEPT !.entries[t] = Nil], p))
    BY <1>1, <2>2 DEF Started
  <2>5. Become(Returned([SetRow(begun, t, "running") EXCEPT !.entries[t] = Nil], p))
    BY <1>1, <2>1, <2>4
  <2>6. w = SetRow(begun, t, "running") /\ r = Returned(q, p)
    BY <1>2, <1>12
  <2>7. QED
    BY <2>3, <2>5, <2>6
<1>18. QED
  BY <1>16, <1>17, BecomeKeeps

-----------------------------------------------------------------------------
(* A launch asks the scheduler.                                            *)

\* A request is granted, waits, or changes nothing.
LEMMA RequestKeeps ==
  ASSUME NEW s, NEW t \in Tasks, Typed(s), Scheduled(s, Nil, Nil), ~s.closed => s.entries[t] # Nil
  PROVE  /\ Scheduled(Request(s, t), Nil, t) /\ Grants(s, Request(s, t))
<1>1. CASE s.lease[t] # Nil \/ Contains(s.queue, t)
  <2>1. Request(s, t) = s
    BY <1>1 DEF Request
  <2>2. LeasesOwned(s, t)
    BY ElementOfSeq, FieldTypes, ConstantFacts DEF Scheduled, LeasesOwned
  <2>3. QED
    BY <2>1, <2>2, GrantsSelf DEF Scheduled
<1>2. CASE ~(s.lease[t] # Nil \/ Contains(s.queue, t))
  <2>1. PICK r : r = [s EXCEPT !.queue = Append(s.queue, t)]
    OBVIOUS
  <2>2. Request(s, t) = Drain(r)
    BY <1>2, <2>1 DEF Request
  <2>3. s.queue \in Seq(Tasks) /\ Append(s.queue, t) \in Seq(Tasks)
    BY FieldTypes, AppendProperties
  <2>4. /\ Typed(r) /\ r.queue = Append(s.queue, t)
        /\ r.lease = s.lease /\ r.call = s.call /\ r.closed = s.closed /\ r.entries = s.entries
    BY <2>1, <2>3, SMTT(30) DEF Typed, Fields
  <2>5. Grants(s, r)
    BY <2>1, <2>3, SMTT(30) DEF Typed, Fields, Grants
  <2>6. /\ Len(s.queue) \in Nat /\ Len(r.queue) = Len(s.queue) + 1
        /\ \A i \in 1..Len(s.queue) : r.queue[i] = s.queue[i]
        /\ r.queue[Len(s.queue) + 1] = t
    BY <2>3, <2>4, LenProperties, AppendProperties
  <2>7. \A i \in 1..Len(r.queue) :
          \/ i \in 1..Len(s.queue) /\ r.queue[i] = s.queue[i]
          \/ i = Len(s.queue) + 1 /\ r.queue[i] = t
    BY <2>6
  <2>8. \A i \in 1..Len(s.queue) : s.queue[i] # t
    BY <1>2 DEF Contains
  <2>9. QueueWaits(r)
    <3>1. \A i \in 1..Len(r.queue) : r.lease[r.queue[i]] = Nil
      BY <1>2, <2>4, <2>7 DEF Scheduled, QueueWaits
    <3>2. \A i, j \in 1..Len(r.queue) : r.queue[i] = r.queue[j] => i = j
      BY <2>7, <2>8 DEF Scheduled, QueueWaits
    <3>3. QED
      BY <3>1, <3>2 DEF QueueWaits
  <2>10. LeasesApart(r) /\ WithinLimit(r)
    BY <2>4 DEF Scheduled, LeasesApart, WithinLimit, Active
  <2>11. QueueMapped(r)
    BY <2>4, <2>7 DEF Scheduled, QueueMapped
  <2>12. LeasesMatch(r, Nil)
    BY <2>4 DEF Scheduled, LeasesMatch, Holds, GaveBack
  <2>13. LeasesOwned(r, t)
    <3>1. \A i \in 1..Len(s.queue) : s.queue[i] # Nil
      BY <2>3, ElementOfSeq, ConstantFacts
    <3>2. \A u \in Tasks : u # Nil
      BY ConstantFacts
    <3>3. QED
      BY <2>4, <2>7, <3>1, <3>2 DEF Scheduled, LeasesOwned, HeldBy, AwaitedBy, WaitsFor
  <2>14. Scheduled(r, Nil, t)
    BY <2>9, <2>10, <2>11, <2>12, <2>13 DEF Scheduled
  <2>15. QED
    BY <2>2, <2>4, <2>5, <2>14, DrainKeeps, GrantsTwice
<1>3. QED
  BY <1>1, <1>2

\* The answer keeps the invariant.
LEMMA AnsweredKeeps ==
  ASSUME NEW s, NEW r, NEW p \in Calls, Typed(s), Scheduled(s, Nil, s.call[p].task),
         Placed(s, Nil, p), Asking(s, p), Answered(s, r, p)
  PROVE  Core(r)
<1>1. PICK t, e : t = s.call[p].task /\ e = s.call[p].entry
  OBVIOUS
<1>2. /\ s.call[p] # Nil /\ s.call[p].pc = "package" /\ s.call[p].lease = Nil
      /\ t \in Tasks /\ e \in Entries /\ s.object[e] # Nil /\ s.object[e].task = t
      /\ s.object[e].pending
      /\ \A o \in Entries : s.object[o] # Nil /\ s.object[o].timer => s.object[o].task # t
      /\ Pending(s, t) /\ s.row[t].ready
      /\ ~s.closed => s.entries[t] = e
  BY <1>1 DEF Asking
<1>3. /\ Typed(r)
      /\ r.archived = s.archived /\ r.claim = s.claim /\ r.row = s.row /\ r.entries = s.entries
      /\ r.object = s.object /\ r.queue = s.queue /\ r.lease = s.lease
      /\ r.closed = s.closed /\ r.enabled = s.enabled /\ r.toWake = s.toWake /\ r.waking = s.waking
      /\ r.recovery.left = s.recovery.left
      /\ \A q \in Calls : q # p => r.call[q] = s.call[q]
      /\ r.call[p] # Nil /\ r.call[p].pc = "lease" /\ r.call[p].task = t
      /\ r.call[p].entry = e /\ r.call[p].lease = s.lease[t]
  BY <1>1 DEF Answered
<1>4. Nil \notin Calls /\ \A q \in Calls : s.call[q] # Nil /\ q # p => s.call[q].task # t
  BY <1>1, <1>2, ConstantFacts DEF Placed, OneCall
<1>5. \A q \in Calls : s.call[q] = Nil <=> r.call[q] = Nil
  BY <1>2, <1>3
<1>6. \A q \in Calls : s.call[q] # Nil => r.call[q].task = s.call[q].task
                                          /\ r.call[q].entry = s.call[q].entry
                                          /\ (s.call[q].pc = "run" <=> r.call[q].pc = "run")
                                          /\ (r.call[q].pc = "package" => s.call[q].pc = "package")
                                          /\ (r.call[q].pc \in {"prepare", "run"} => q # p)
  BY <1>1, <1>2, <1>3
<1>7. LeasesApart(r) /\ WithinLimit(r) /\ QueueWaits(r) /\ QueueMapped(r)
  BY <1>3 DEF Scheduled, LeasesApart, WithinLimit, Active, QueueWaits, QueueMapped
<1>8. LeasesMatch(r, Nil)
  <2>1. SUFFICES ASSUME NEW q \in Calls, r.call[q] # Nil
                 PROVE  Holds(r, q)
    BY <1>4 DEF LeasesMatch
  <2>2. CASE q = p
    BY <1>3, <2>2 DEF Holds
  <2>3. CASE q # p
    BY <1>3, <1>4, <2>1, <2>3 DEF Scheduled, LeasesMatch, Holds
  <2>4. QED
    BY <2>2, <2>3
<1>9. LeasesOwned(r, Nil)
  <2>1. SUFFICES ASSUME ~ArchiveMidway, ~r.closed
                 PROVE  /\ \A u \in Tasks : u # Nil /\ r.lease[u] # Nil => HeldBy(r, u)
                        /\ \A i \in 1..Len(r.queue) : r.queue[i] # Nil => AwaitedBy(r, r.queue[i])
    BY DEF LeasesOwned
  <2>2. /\ \A u \in Tasks : u # t /\ s.lease[u] # Nil => HeldBy(s, u)
        /\ \A i \in 1..Len(s.queue) : s.queue[i] # t => AwaitedBy(s, s.queue[i])
    BY <1>1, <1>3, <2>1 DEF Scheduled, LeasesOwned
  <2>3. \A u \in Tasks : s.lease[u] # Nil /\ HeldBy(s, u) => HeldBy(r, u)
    BY <1>2, <1>3 DEF HeldBy
  <2>4. \A u : AwaitedBy(s, u) => AwaitedBy(r, u)
    BY <1>2, <1>3 DEF AwaitedBy, WaitsFor
  <2>5. r.lease[t] # Nil => HeldBy(r, t)
    BY <1>3 DEF HeldBy
  <2>6. \A i \in 1..Len(r.queue) : r.queue[i] = t => AwaitedBy(r, r.queue[i])
    <3>1. \A i \in 1..Len(r.queue) : r.lease[r.queue[i]] = Nil
      BY <1>7 DEF QueueWaits
    <3>2. s.lease[t] = Nil => AwaitedBy(r, t)
      BY <1>3 DEF AwaitedBy, WaitsFor
    <3>3. QED
      BY <1>3, <3>1, <3>2
  <2>7. \A u \in Tasks : r.lease[u] # Nil => HeldBy(r, u)
    BY <1>3, <2>2, <2>3, <2>5
  <2>8. \A i \in 1..Len(r.queue) : AwaitedBy(r, r.queue[i])
    BY <1>3, <2>2, <2>4, <2>6
  <2>9. QED
    BY <2>7, <2>8
<1>10. OneCall(r)
  BY <1>5, <1>6 DEF Placed, OneCall
<1>11. RunsPlaced(r, Nil)
  <2>1. SUFFICES ASSUME NEW q \in Calls, r.call[q] # Nil, r.call[q].pc = "run"
                 PROVE  /\ r.call[q].entry = Nil /\ r.entries[r.call[q].task] = Nil
                        /\ r.row[r.call[q].task] # Nil /\ r.row[r.call[q].task].state = "running"
    BY DEF RunsPlaced
  <2>2. q # p /\ r.call[q] = s.call[q]
    BY <1>3, <2>1
  <2>3. QED
    BY <1>3, <2>1, <2>2 DEF Placed, RunsPlaced
<1>12. LaunchesPlaced(r, Nil)
  <2>1. SUFFICES ASSUME NEW q \in Calls, Launch(r, q)
                 PROVE  /\ r.call[q].entry \in Entries /\ r.object[r.call[q].entry] # Nil
                        /\ r.object[r.call[q].entry].task = r.call[q].task
                        /\ r.object[r.call[q].entry].pending => r.call[q].pc = "lease"
                        /\ Pending(r, r.call[q].task) /\ r.row[r.call[q].task].ready
    BY DEF LaunchesPlaced
  <2>2. CASE q = p
    BY <1>2, <1>3, <2>2 DEF Pending
  <2>3. CASE q # p
    <3>1. r.call[q] = s.call[q] /\ Launch(s, q)
      BY <1>3, <2>1, <2>3 DEF Launch
    <3>2. QED
      BY <1>3, <2>3, <3>1 DEF Placed, LaunchesPlaced, Pending
  <2>4. QED
    BY <2>2, <2>3
<1>13. LaunchesMapped(r, Nil)
  <2>1. SUFFICES ASSUME ~r.closed, NEW q \in Calls, Launch(r, q)
                 PROVE  /\ r.entries[r.call[q].task] = r.call[q].entry
                        /\ r.call[q].pc = "lease" /\ r.call[q].lease = Nil =>
                             r.object[r.call[q].entry].pending
    BY DEF LaunchesMapped
  <2>2. CASE q = p
    BY <1>2, <1>3, <2>1, <2>2
  <2>3. CASE q # p
    <3>1. r.call[q] = s.call[q] /\ Launch(s, q) /\ ~s.closed
      BY <1>3, <2>1, <2>3 DEF Launch
    <3>2. QED
      BY <1>3, <2>3, <3>1 DEF Placed, LaunchesMapped
  <2>4. QED
    BY <2>2, <2>3
<1>14. FreshUnarchived(r)
  BY <1>3, <1>5, <1>6 DEF Placed, FreshUnarchived
<1>15. RunsClaimed(r, Nil)
  <2>1. SUFFICES ASSUME NEW q \in Calls, r.call[q] # Nil, r.call[q].pc \in {"prepare", "run"}
                 PROVE  /\ r.claim[r.call[q].task] # Nil
                        /\ r.claim[r.call[q].task].by = q /\ r.claim[r.call[q].task].run
    BY DEF RunsClaimed
  <2>2. q # p /\ r.call[q] = s.call[q]
    BY <1>3, <2>1
  <2>3. QED
    BY <1>3, <2>1, <2>2 DEF Placed, RunsClaimed
<1>16. TimersIdle(r, Nil)
  <2>1. SUFFICES ASSUME NEW o \in Entries, r.object[o] # Nil, r.object[o].timer
                 PROVE  /\ \A q \in Calls : r.call[q] # Nil => r.call[q].task # r.object[o].task
                        /\ ~r.closed => r.entries[r.object[o].task] = o
    BY DEF TimersIdle
  <2>2. s.object[o].task # t
    BY <1>2, <1>3, <2>1
  <2>3. /\ \A q \in Calls : q # p /\ s.call[q] # Nil => s.call[q].task # s.object[o].task
        /\ ~s.closed => s.entries[s.object[o].task] = o
    BY <1>3, <2>1 DEF Placed, TimersIdle
  <2>4. QED
    BY <1>3, <2>2, <2>3
<1>17. MapKept(r)
  BY <1>3 DEF Placed, MapKept
<1>18. \A o \in Entries : WorkedOn(s, o) => WorkedOn(r, o)
  BY <1>5, <1>6 DEF WorkedOn
<1>19. s.entries \in [Tasks -> Entries \cup {Nil}]
  BY FieldTypes
<1>20. PendingHeld(r)
  BY <1>3, <1>18, <1>19 DEF Placed, PendingHeld
<1>21. RecoveryLeft(r)
  BY <1>3 DEF Placed, RecoveryLeft, Pending
<1>22. RunningRows(r)
  BY <1>3, <1>5, <1>6 DEF Placed, RunningRows
<1>23. Alive(r, Nil)
  BY <1>3, <1>18, <1>19 DEF Placed, Alive, Pending
<1>24. QED
  BY <1>3, <1>7, <1>8, <1>9, <1>10, <1>11, <1>12, <1>13, <1>14, <1>15, <1>16, <1>17, <1>20,
     <1>21, <1>22, <1>23 DEF Core, Scheduled, Placed

\* pump() sets leasePending on the entry of the launch it has begun.
MayWait(s, p, m) ==
  /\ m \in Objects /\ m.task = s.call[p].task /\ m.pending
  /\ m.timer = s.object[s.call[p].entry].timer

LEMMA PendingSet ==
  ASSUME NEW s, NEW r, NEW p \in Calls, NEW m, Core(s), s.call[p] # Nil, s.call[p].pc = "package",
         MayWait(s, p, m), r = WithObject(s, s.call[p].entry, m)
  PROVE  /\ Typed(r) /\ Scheduled(r, Nil, Nil) /\ Placed(r, Nil, p) /\ Asking(r, p)
         /\ r.archived = s.archived /\ r.waking = s.waking /\ r.enabled = s.enabled
         /\ r.call = s.call /\ r.closed = s.closed /\ r.entries = s.entries
<1>1. PICK t, e : t = s.call[p].task /\ e = s.call[p].entry
  OBVIOUS
<1>2. /\ Launch(s, p) /\ Typed(s) /\ s.call[p].lease = Nil /\ Nil \notin Calls
  <2>1. s.call[p].lease = Nil
    BY ConstantFacts DEF Core, Scheduled, LeasesMatch, Holds
  <2>2. QED
    BY <2>1, ConstantFacts DEF Launch, Core
<1>3. /\ t \in Tasks /\ e \in Entries /\ s.object[e] \in Objects /\ s.object[e] # Nil
      /\ s.object[e].task = t /\ ~s.object[e].timer /\ t \notin s.recovery.left
      /\ Pending(s, t) /\ s.row[t].ready
      /\ ~s.closed => s.entries[t] = e
      /\ s.object \in [Entries -> Objects \cup {Nil}] /\ s.entries \in [Tasks -> Entries \cup {Nil}]
      /\ \A q \in Calls : s.call[q] # Nil => s.call[q].task \in Tasks
  BY <1>1, <1>2, LaunchFacts, FieldTypes DEF AsyncCalls
<1>4. m \in Objects /\ m # Nil /\ m.task = t /\ ~m.timer /\ m.pending
  <2>1. m \in Objects /\ m.task = t /\ m.timer = s.object[e].timer /\ m.pending
    BY <1>1 DEF MayWait
  <2>2. QED
    BY <1>3, <2>1, ConstantFacts
<1>5. [s.object EXCEPT ![e] = m] \in [Entries -> Objects \cup {Nil}]
  BY <1>3, <1>4
<1>6. /\ Typed(r)
      /\ r.status = s.status /\ r.archived = s.archived /\ r.hasThread = s.hasThread
      /\ r.claim = s.claim /\ r.row = s.row /\ r.entries = s.entries /\ r.call = s.call
      /\ r.queue = s.queue /\ r.lease = s.lease
      /\ r.closed = s.closed /\ r.recovery = s.recovery
      /\ r.enabled = s.enabled /\ r.toWake = s.toWake /\ r.waking = s.waking
      /\ r.object = [s.object EXCEPT ![e] = m]
  <2>1. r = [s EXCEPT !.object = [s.object EXCEPT ![e] = m]]
    BY <1>1 DEF WithObject
  <2>2. QED
    BY ONLY <1>2, <1>5, <2>1, SMTT(30) DEF Typed, Fields
<1>7. r.object[e] = m /\ \A o \in Entries : o # e => r.object[o] = s.object[o]
  BY <1>3, <1>6
<1>8. Scheduled(r, Nil, Nil)
  BY <1>6, ScheduledSame DEF Core
<1>9. \A q \in Calls : q # p /\ s.call[q] # Nil => s.call[q].task # t
  BY <1>1, <1>2 DEF Core, Placed, OneCall, Launch
<1>10. \A o \in Entries : s.object[o] # Nil /\ s.object[o].timer => s.object[o].task # t
  BY <1>1, <1>2 DEF Core, Placed, TimersIdle, Launch
<1>11. \A o \in Entries : /\ r.object[o] = Nil <=> s.object[o] = Nil
                          /\ r.object[o] # Nil => r.object[o].task = s.object[o].task
                          /\ s.object[o].timer => r.object[o].timer
                          /\ r.object[o] # Nil /\ r.object[o].timer => s.object[o].timer
  BY <1>3, <1>4, <1>7
<1>12. OneCall(r) /\ FreshUnarchived(r)
  BY <1>6 DEF Core, Placed, OneCall, FreshUnarchived
<1>13. RunsPlaced(r, p) /\ RunsClaimed(r, p)
  <2>1. RunsPlaced(r, p)
    BY <1>2, <1>6 DEF Core, Placed, RunsPlaced
  <2>2. RunsClaimed(r, p)
    BY <1>2, <1>6 DEF Core, Placed, RunsClaimed
  <2>3. QED
    BY <2>1, <2>2
<1>14. \A q \in Calls : q # p /\ Launch(s, q) =>
         /\ q # Nil /\ s.call[q].entry \in Entries /\ s.object[s.call[q].entry] # Nil
         /\ s.object[s.call[q].entry].task = s.call[q].task
         /\ s.call[q].entry # e
  <2>1. SUFFICES ASSUME NEW q \in Calls, q # p, Launch(s, q)
                 PROVE  /\ q # Nil /\ s.call[q].entry \in Entries
                        /\ s.object[s.call[q].entry] # Nil
                        /\ s.object[s.call[q].entry].task = s.call[q].task
                        /\ s.call[q].entry # e
    OBVIOUS
  <2>2. q # Nil /\ s.call[q].task # t
    BY <1>2, <1>9, <2>1 DEF Launch
  <2>3. /\ s.call[q].entry \in Entries /\ s.object[s.call[q].entry] # Nil
        /\ s.object[s.call[q].entry].task = s.call[q].task
    BY <2>1, <2>2 DEF Core, Placed, LaunchesPlaced
  <2>4. QED
    BY <1>3, <2>2, <2>3
<1>15. LaunchesPlaced(r, p)
  BY <1>6, <1>7, <1>14 DEF Core, Placed, LaunchesPlaced, Launch, Pending
<1>16. LaunchesMapped(r, p)
  BY <1>6, <1>7, <1>14 DEF Core, Placed, LaunchesMapped, Launch
<1>17. TimersIdle(r, p)
  BY <1>6, <1>11, <1>2 DEF Core, Placed, TimersIdle
<1>18. MapKept(r)
  BY <1>3, <1>6, <1>11 DEF Core, Placed, MapKept
<1>19. PendingHeld(r)
  <2>1. SUFFICES ASSUME ~ArchiveMidway, NEW u \in Tasks, r.entries[u] # Nil,
                        r.object[r.entries[u]].pending
                 PROVE  WorkedOn(r, r.entries[u])
    BY DEF PendingHeld
  <2>2. CASE r.entries[u] = e
    BY <1>1, <1>2, <1>6, <2>2 DEF WorkedOn, Launch
  <2>3. CASE r.entries[u] # e
    <3>1. r.object[r.entries[u]] = s.object[s.entries[u]] /\ r.entries[u] = s.entries[u]
      BY <1>3, <1>6, <1>7, <2>1, <2>3
    <3>2. WorkedOn(s, s.entries[u])
      BY <2>1, <3>1 DEF Core, Placed, PendingHeld
    <3>3. QED
      BY <1>6, <3>1, <3>2 DEF WorkedOn
  <2>4. QED
    BY <2>2, <2>3
<1>20. RecoveryLeft(r) /\ RunningRows(r)
  BY <1>6 DEF Core, Placed, RecoveryLeft, RunningRows, Pending
<1>21. Alive(r, Nil)
  BY <1>3, <1>6, <1>11 DEF Core, Placed, Alive, WorkedOn, Pending
<1>22. Asking(r, p)
  <2>1. r.call[p] # Nil /\ r.call[p].pc = "package" /\ r.call[p].lease = Nil
        /\ r.call[p].task = t /\ r.call[p].entry = e
    BY <1>1, <1>2, <1>6
  <2>2. \A o \in Entries : r.object[o] # Nil /\ r.object[o].timer => r.object[o].task # t
    BY <1>10, <1>11
  <2>3. Pending(r, t) /\ r.row[t].ready /\ t \notin r.recovery.left
    BY <1>3, <1>6 DEF Pending
  <2>4. ~r.closed => r.entries[t] = e
    BY <1>3, <1>6
  <2>5. QED
    BY <1>3, <1>4, <1>7, <2>1, <2>2, <2>3, <2>4 DEF Asking
<1>23. Placed(r, Nil, p)
  BY <1>12, <1>13, <1>15, <1>16, <1>17, <1>18, <1>19, <1>20, <1>21 DEF Placed
<1>24. QED
  BY <1>6, <1>8, <1>22, <1>23

\* The call is written and, maybe, recover() goes on.
WithCall(s, p, c) == [s EXCEPT !.call = [s.call EXCEPT ![p] = c]]

LEMMA AnswerIs ==
  ASSUME NEW s, NEW p \in Calls, NEW c, NEW r, Typed(s), c \in AsyncCalls,
         r = WithCall(s, p, c) \/ r = Returned(WithCall(s, p, c), p)
  PROVE  /\ Typed(r)
         /\ r.archived = s.archived /\ r.claim = s.claim /\ r.row = s.row /\ r.entries = s.entries
         /\ r.object = s.object /\ r.queue = s.queue /\ r.lease = s.lease
         /\ r.closed = s.closed /\ r.enabled = s.enabled /\ r.toWake = s.toWake
         /\ r.waking = s.waking /\ r.recovery.left = s.recovery.left
         /\ \A q \in Calls : q # p => r.call[q] = s.call[q]
         /\ r.call[p] = c
<1>1. PICK q, rec : q = WithCall(s, p, c) /\ rec = [s.recovery EXCEPT !.at = Nil]
  OBVIOUS
<1>2. /\ s.call \in [Calls -> AsyncCalls \cup {Nil}]
      /\ s.recovery \in [left : SUBSET Tasks, at : Calls \cup {Nil}]
  BY FieldTypes
<1>3. /\ [s.call EXCEPT ![p] = c] \in [Calls -> AsyncCalls \cup {Nil}]
      /\ rec \in [left : SUBSET Tasks, at : Calls \cup {Nil}] /\ rec.left = s.recovery.left
  BY <1>1, <1>2
<1>4. /\ Typed(q)
      /\ q.archived = s.archived /\ q.claim = s.claim /\ q.row = s.row /\ q.entries = s.entries
      /\ q.object = s.object /\ q.queue = s.queue /\ q.lease = s.lease
      /\ q.closed = s.closed /\ q.enabled = s.enabled /\ q.toWake = s.toWake
      /\ q.waking = s.waking /\ q.recovery = s.recovery
      /\ q.call = [s.call EXCEPT ![p] = c]
  BY <1>1, <1>3, SMTT(30) DEF Typed, Fields, WithCall
<1>5. CASE r = q
  BY <1>2, <1>4, <1>5
<1>6. CASE r = Returned(q, p) /\ r # q
  <2>1. r = [q EXCEPT !.recovery = rec]
    <3>1. r = [q EXCEPT !.recovery.at = Nil]
      BY <1>6 DEF Returned
    <3>2. QED
      BY <1>1, <1>4, <3>1
  <2>2. /\ Typed(r)
        /\ r.archived = q.archived /\ r.claim = q.claim /\ r.row = q.row /\ r.entries = q.entries
        /\ r.object = q.object /\ r.queue = q.queue /\ r.lease = q.lease
        /\ r.closed = q.closed /\ r.enabled = q.enabled /\ r.toWake = q.toWake
        /\ r.waking = q.waking /\ r.recovery = rec
        /\ r.call = q.call
    <3>1. Typed(q)
      BY <1>4
    <3>2. QED
      BY ONLY <1>3, <2>1, <3>1, SMTT(30) DEF Typed, Fields
  <2>3. QED
    BY <1>2, <1>3, <1>4, <2>2
<1>7. QED
  BY <1>1, <1>5, <1>6

LEMMA AskKeeps ==
  ASSUME NEW s, NEW p \in Calls, Typed(s), Scheduled(s, Nil, Nil), Placed(s, Nil, p), Asking(s, p)
  PROVE  Core(AskScheduler(s, p)) /\ AskScheduler(s, p).waking = s.waking
<1>1. PICK t, e, r, w, k : /\ t = s.call[p].task /\ e = s.call[p].entry
                           /\ r = Request(s, t) /\ w = SetRow(r, t, "queued")
                           /\ k = SetStatus(w, t, "queued")
  OBVIOUS
<1>2. /\ t \in Tasks /\ e \in Entries /\ e # Nil /\ p # Nil
      /\ s.call[p] # Nil /\ s.call[p].pc = "package" /\ s.call[p].lease = Nil
  BY <1>1, ConstantFacts DEF Asking
<1>3. Scheduled(r, Nil, t) /\ Grants(s, r)
  <2>1. ~s.closed => s.entries[t] # Nil
    BY <1>1, <1>2 DEF Asking
  <2>2. QED
    BY <1>1, <1>2, <2>1, RequestKeeps
<1>4. Typed(r) /\ Placed(r, Nil, p) /\ r.call[p] = s.call[p] /\ r.waking = s.waking
  BY <1>2, <1>3, GrantsPlaced DEF Grants
<1>5. Asking(r, p)
  BY <1>3, <1>4 DEF Asking, Grants, Pending
<1>6. CASE r.lease[t] # Nil
  <2>1. PICK c, q : /\ c = [r.call[p] EXCEPT !.pc = "lease", !.lease = r.lease[t]]
                    /\ q = WithCall(r, p, c)
    OBVIOUS
  <2>2. r.call \in [Calls -> AsyncCalls \cup {Nil}] /\ r.lease[t] \in LeaseIds
    BY <1>2, <1>4, <1>6, FieldTypes
  <2>3. /\ c \in AsyncCalls /\ c.pc = "lease" /\ c.task = t /\ c.entry = e /\ c.lease = r.lease[t]
    <3>1. r.call[p] \in AsyncCalls /\ r.call[p].task = t /\ r.call[p].entry = e
      BY <1>1, <1>2, <1>4, <2>2
    <3>2. QED
      BY <2>1, <2>2, <3>1 DEF AsyncCalls
  <2>4. c # Nil
    BY <2>3, ConstantFacts
  <2>5. /\ Typed(q)
        /\ q.archived = r.archived /\ q.claim = r.claim /\ q.row = r.row /\ q.entries = r.entries
        /\ q.object = r.object /\ q.queue = r.queue /\ q.lease = r.lease
        /\ q.closed = r.closed /\ q.enabled = r.enabled /\ q.toWake = r.toWake
        /\ q.waking = r.waking /\ q.recovery.left = r.recovery.left
        /\ \A o \in Calls : o # p => q.call[o] = r.call[o]
        /\ q.call[p] = c
    <3>1. Typed(r) /\ c \in AsyncCalls /\ q = WithCall(r, p, c)
      BY <1>4, <2>1, <2>3
    <3>2. QED
      BY ONLY <3>1, AnswerIs
  <2>6. Answered(r, q, p)
    BY <1>1, <1>4, <2>3, <2>4, <2>5 DEF Answered
  <2>7. Core(q)
    BY <1>1, <1>3, <1>4, <1>5, <2>6, AnsweredKeeps
  <2>8. AskScheduler(s, p) = q
    <3>1. q = [r EXCEPT !.call[p].pc = "lease", !.call[p].lease = r.lease[t]]
      BY <2>1, <2>2 DEF WithCall
    <3>2. QED
      BY <1>1, <1>6, <3>1 DEF AskScheduler
  <2>9. QED
    BY <1>4, <2>5, <2>7, <2>8
<1>7. ASSUME r.lease[t] = Nil
      PROVE  /\ Typed(w) /\ Scheduled(w, Nil, t) /\ Placed(w, Nil, p) /\ Asking(w, p)
             /\ w.call[p] = s.call[p] /\ w.waking = s.waking /\ w.lease[t] = Nil
             /\ w.row[t].state = "queued"
  <2>1. Pending(r, t) /\ r.row[t] # Nil /\ r.row[t].ready
    BY <1>1, <1>4, <1>5 DEF Asking, Pending
  <2>2. "queued" \in {"delayed", "queued", "running"} /\ "queued" \in {"delayed", "queued"}
    OBVIOUS
  <2>3. Placed(w, Nil, p)
    BY <1>1, <1>2, <1>4, <2>1, <2>2, SetRowPlaced
  <2>4. /\ Typed(w)
        /\ w.entries = r.entries /\ w.object = r.object /\ w.call = r.call
        /\ w.queue = r.queue /\ w.lease = r.lease
        /\ w.closed = r.closed /\ w.recovery = r.recovery /\ w.waking = r.waking
        /\ w.row[t] # Nil /\ w.row[t].state = "queued" /\ w.row[t].ready = r.row[t].ready
    <3>1. w = SetRow(r, t, "queued") /\ Typed(r) /\ t \in Tasks /\ r.row[t] # Nil
          /\ "queued" \in {"delayed", "queued", "running"}
      BY <1>1, <1>2, <1>4, <2>1, <2>2
    <3>2. /\ w.entries = r.entries /\ w.object = r.object /\ w.call = r.call
          /\ w.queue = r.queue /\ w.lease = r.lease
          /\ w.closed = r.closed /\ w.recovery = r.recovery /\ w.waking = r.waking
      BY ONLY <3>1, SetRowIs
    <3>3. Typed(w) /\ w.row[t] # Nil /\ w.row[t].state = "queued"
          /\ w.row[t].ready = r.row[t].ready
      BY ONLY <3>1, SetRowIs
    <3>4. QED
      BY <3>2, <3>3
  <2>5. Scheduled(w, Nil, t)
    BY <1>3, <2>4, ScheduledSame
  <2>6. Asking(w, p)
    <3>1. Pending(w, t) /\ w.row[t].ready
      BY <2>1, <2>4 DEF Pending
    <3>2. w.call[p] = r.call[p] /\ r.call[p].task = t /\ r.call[p].entry = e
      BY <1>1, <1>4, <2>4
    <3>3. /\ r.call[p] # Nil /\ r.call[p].pc = "package" /\ r.call[p].lease = Nil
          /\ r.object[e] # Nil /\ r.object[e].task = t /\ r.object[e].pending
          /\ \A o \in Entries : r.object[o] # Nil /\ r.object[o].timer => r.object[o].task # t
          /\ ~r.closed => r.entries[t] = e
          /\ t \notin r.recovery.left
      BY <1>5, <3>2 DEF Asking
    <3>4. QED
      BY <1>2, <2>4, <3>1, <3>2, <3>3 DEF Asking
  <2>7. QED
    BY <1>4, <1>7, <2>3, <2>4, <2>5, <2>6
<1>8. CASE r.lease[t] = Nil /\ Refuses(w, t, "queued")
  <2>1. ArchiveMidway
    <3>1. w.call[p] # Nil /\ w.call[p].pc = "package" /\ w.call[p].task = t
      BY <1>1, <1>2, <1>7, <1>8
    <3>2. w.archived[t]
      BY <1>8 DEF Refuses
    <3>3. FreshUnarchived(w)
      BY <1>7, <1>8 DEF Placed
    <3>4. QED
      BY <3>1, <3>2, <3>3 DEF FreshUnarchived
  <2>2. Scheduled(w, Nil, Nil)
    BY <1>7, <1>8, <2>1 DEF Scheduled, LeasesOwned
  <2>3. w.call[p] # Nil /\ w.call[p].task = t /\ w.call[p].entry = e
        /\ w.call[p].pc = "package" /\ w.call[p].lease = Nil
    BY <1>1, <1>2, <1>7, <1>8
  <2>4. LastCall(w, p)
    BY <1>7, <1>8 DEF Asking, LastCall
  <2>5. LastWord(w, w, p)
    <3>1. ~(w.row[t] # Nil /\ w.row[t].state = "running")
      BY <1>7, <1>8
    <3>2. ~w.object[e].timer /\ w.object[e].task = t
      BY <1>7, <1>8, <2>3 DEF Asking
    <3>3. w.closed => w.entries[t] = Nil
      BY <1>2, <1>7, <1>8 DEF Placed, MapKept
    <3>4. w.entries[t] = Nil \/ w.entries[t] = e
      BY <1>7, <1>8, <2>3, <3>3 DEF Asking
    <3>5. QED
      BY <1>7, <1>8, <2>1, <2>3, <3>1, <3>2, <3>4 DEF LastWord
  <2>6. Core(Throw(w, p)) /\ Throw(w, p).waking = w.waking
    <3>1. Typed(w) /\ Placed(w, Nil, p)
      BY <1>7, <1>8
    <3>2. QED
      BY <2>2, <2>3, <2>4, <2>5, <3>1, LastWordKeeps
  <2>7. AskScheduler(s, p) = Throw(w, p)
    BY <1>1, <1>8 DEF AskScheduler
  <2>8. QED
    BY <1>7, <1>8, <2>6, <2>7
<1>9. CASE r.lease[t] = Nil /\ ~Refuses(w, t, "queued")
  <2>1. Alike(w, k, Nil) /\ Alike(w, k, p)
    <3>1. "queued" \in TaskStatuses /\ Typed(w)
      BY <1>7, <1>9 DEF TaskStatuses
    <3>2. Alike(w, k, Nil)
      BY <1>1, <1>2, <3>1, SetStatusIs
    <3>3. QED
      BY <3>1, <3>2, AlikeMore
  <2>2. /\ Typed(k) /\ Scheduled(k, Nil, t) /\ Placed(k, Nil, p) /\ k.waking = s.waking
        /\ k.lease = w.lease /\ k.row = w.row /\ k.entries = w.entries /\ k.object = w.object
        /\ k.closed = w.closed /\ k.recovery = w.recovery
    <3>1. Typed(w) /\ Scheduled(w, Nil, t) /\ Placed(w, Nil, p) /\ w.waking = s.waking
      BY <1>7, <1>9
    <3>2. Scheduled(k, Nil, t)
      BY <2>1, <3>1, AlikeScheduled
    <3>3. Placed(k, Nil, p)
      BY <2>1, <3>1, AlikePlaced
    <3>4. QED
      BY <2>1, <3>1, <3>2, <3>3 DEF Alike
  <2>3. /\ k.call[p] # Nil /\ k.call[p].task = t /\ k.call[p].entry = e
        /\ k.call[p].pc = "package" /\ k.call[p].lease = Nil
    <3>1. CallAlike(w, k, p) /\ w.call[p] = s.call[p]
      BY <1>7, <1>9, <2>1 DEF Alike
    <3>2. QED
      BY <1>1, <1>2, <3>1 DEF CallAlike
  <2>4. Asking(k, p)
    <3>1. Asking(w, p) /\ w.call[p].task = t /\ w.call[p].entry = e
      BY <1>1, <1>7, <1>9
    <3>2. QED
      BY <2>2, <2>3, <3>1 DEF Asking, Pending
  <2>5. PICK c, q, a : /\ c = [k.call[p] EXCEPT !.pc = "lease", !.background = TRUE]
                       /\ q = WithCall(k, p, c)
                       /\ a = Returned(q, p)
    OBVIOUS
  <2>6. k.call \in [Calls -> AsyncCalls \cup {Nil}]
    BY <2>2, FieldTypes
  <2>7. /\ c \in AsyncCalls /\ c.pc = "lease" /\ c.task = t /\ c.entry = e /\ c.lease = Nil
    <3>1. k.call[p] \in AsyncCalls
      BY <2>3, <2>6
    <3>2. QED
      BY <2>3, <2>5, <3>1 DEF AsyncCalls
  <2>8. c # Nil
    BY <2>7, ConstantFacts
  <2>9. /\ Typed(a)
        /\ a.archived = k.archived /\ a.claim = k.claim /\ a.row = k.row /\ a.entries = k.entries
        /\ a.object = k.object /\ a.queue = k.queue /\ a.lease = k.lease
        /\ a.closed = k.closed /\ a.enabled = k.enabled /\ a.toWake = k.toWake
        /\ a.waking = k.waking /\ a.recovery.left = k.recovery.left
        /\ \A o \in Calls : o # p => a.call[o] = k.call[o]
        /\ a.call[p] = c
    <3>1. Typed(k) /\ c \in AsyncCalls /\ a = Returned(WithCall(k, p, c), p)
      BY <2>2, <2>5, <2>7
    <3>2. QED
      BY ONLY <3>1, AnswerIs
  <2>10. k.lease[t] = Nil
    BY <1>7, <1>9, <2>2
  <2>11. Answered(k, a, p)
    BY <2>3, <2>7, <2>8, <2>9, <2>10 DEF Answered
  <2>12. Core(a)
    BY <2>2, <2>3, <2>4, <2>11, AnsweredKeeps
  <2>13. AskScheduler(s, p) = a
    <3>1. q = [k EXCEPT !.call[p].pc = "lease", !.call[p].background = TRUE]
      BY <2>5, <2>6 DEF WithCall
    <3>2. QED
      BY <1>1, <1>9, <2>5, <3>1 DEF AskScheduler
  <2>14. QED
    BY <2>2, <2>9, <2>12, <2>13
<1>10. QED
  BY <1>6, <1>8, <1>9

LEMMA ReadPackageKeeps ==
  ASSUME Core(Now), Now.waking = {}, NEW p \in Calls, ReadPackage(p)
  PROVE  IndInv(Now')
<1>1. CASE ~enabled
  BY <1>1, DisabledKeeps
<1>2. CASE enabled
  <2>1. PICK s, e, m, r : /\ s = Now /\ e = s.call[p].entry
                          /\ m = [s.object[s.call[p].entry] EXCEPT !.pending = TRUE]
                          /\ r = WithObject(s, s.call[p].entry, m)
    OBVIOUS
  <2>2. Core(s) /\ s.call[p] # Nil /\ s.call[p].pc = "package" /\ s.waking = {}
    BY <2>1, NowIs DEF ReadPackage
  <2>3. /\ Typed(r) /\ Scheduled(r, Nil, Nil) /\ Placed(r, Nil, p) /\ Asking(r, p)
        /\ r.waking = s.waking
    <3>1. m \in Objects /\ m.task = s.call[p].task /\ m.pending
          /\ m.timer = s.object[s.call[p].entry].timer
      <4>1. Launch(s, p)
        BY <2>2 DEF Launch
      <4>2. s.object[s.call[p].entry] \in Objects /\ s.object[s.call[p].entry].task = s.call[p].task
        BY <2>2, <4>1, LaunchFacts
      <4>3. QED
        BY <2>1, <4>2 DEF Objects
    <3>2. MayWait(s, p, m)
      BY <3>1 DEF MayWait
    <3>3. r = WithObject(s, s.call[p].entry, m)
      BY <2>1
    <3>4. QED
      BY ONLY <2>2, <3>2, <3>3, PendingSet
  <2>4. r = [s EXCEPT !.object[e].pending = TRUE]
    BY <2>1 DEF WithObject
  <2>5. Become(AskScheduler(r, p))
    <3>1. s.call = call
      BY <2>1, NowIs
    <3>2. Become(AskScheduler([Now EXCEPT !.object[call[p].entry].pending = TRUE], p))
      BY <1>2 DEF ReadPackage
    <3>3. QED
      BY <2>1, <2>4, <3>1, <3>2
  <2>6. Core(AskScheduler(r, p)) /\ AskScheduler(r, p).waking = {}
    BY <2>2, <2>3, AskKeeps
  <2>7. QED
    BY <2>5, <2>6, BecomeKeeps
<1>3. QED
  BY <1>1, <1>2

-----------------------------------------------------------------------------
(* Users, clocks and edits of the package.                                 *)

LEMMA AlikeCore ==
  ASSUME NEW s, NEW r, Core(s), Alike(s, r, Nil)
  PROVE  Core(r) /\ r.waking = s.waking
<1>1. Typed(s) /\ Scheduled(s, Nil, Nil) /\ Placed(s, Nil, Nil)
  BY DEF Core
<1>2. Scheduled(r, Nil, Nil)
  BY <1>1, AlikeScheduled
<1>3. Placed(r, Nil, Nil)
  BY <1>1, AlikePlaced
<1>4. QED
  BY <1>2, <1>3 DEF Core, Alike

LEMMA UserMovesKeeps ==
  ASSUME Core(Now), Now.waking = {}, NEW t \in Tasks, NEW st \in MoveTargets, UserMoves(t, st)
  PROVE  IndInv(Now')
<1>1. PICK s, r : s = Now /\ r = SetTask(s, t, st, s.hasThread[t])
  OBVIOUS
<1>2. Core(s) /\ Typed(s) /\ s.waking = {} /\ Become(r)
  BY <1>1, NowIs DEF UserMoves, Core
<1>3. st \in TaskStatuses /\ s.hasThread[t] \in BOOLEAN
  BY <1>2, FieldTypes, CoordinatorAssumption DEF TaskStatuses
<1>4. Alike(s, r, Nil)
  BY <1>1, <1>2, <1>3, SetTaskIs
<1>5. QED
  BY <1>2, <1>4, AlikeCore, BecomeKeeps

LEMMA UserArchivesKeeps ==
  ASSUME Core(Now), Now.waking = {}, NEW t \in Tasks, UserArchives(t)
  PROVE  IndInv(Now')
<1>1. PICK s, k, r : /\ s = Now /\ k = SetTask(s, t, s.status[t], s.hasThread[t])
                     /\ r = [k EXCEPT !.archived = [k.archived EXCEPT ![t] = TRUE]]
  OBVIOUS
<1>2. Core(s) /\ Typed(s) /\ s.waking = {} /\ s.call = call /\ (ArchiveMidway \/ ~Underway)
  BY <1>1, NowIs DEF UserArchives, Core
<1>3. s.status[t] \in TaskStatuses /\ s.hasThread[t] \in BOOLEAN
  BY <1>2, FieldTypes
<1>4. Alike(s, k, Nil)
  BY <1>1, <1>2, <1>3, SetTaskIs
<1>5. Core(k) /\ k.waking = {} /\ Typed(k)
  BY <1>2, <1>4, AlikeCore DEF Core
<1>6. ~ArchiveMidway => \A p \in Calls : k.call[p] # Nil => k.call[p].pc # "package"
  <2>1. SUFFICES ASSUME ~ArchiveMidway, NEW p \in Calls, k.call[p] # Nil
                 PROVE  k.call[p].pc # "package"
    OBVIOUS
  <2>2. CallAlike(s, k, p)
    BY <1>4 DEF Alike
  <2>3. s.call[p] # Nil /\ s.call[p].pc = k.call[p].pc
    BY <2>1, <2>2 DEF CallAlike
  <2>4. QED
    BY <1>2, <2>1, <2>3 DEF Underway
<1>7. k.archived \in [Tasks -> BOOLEAN] /\ [k.archived EXCEPT ![t] = TRUE] \in [Tasks -> BOOLEAN]
  BY <1>5, FieldTypes
<1>8. /\ Typed(r)
      /\ r.claim = k.claim /\ r.row = k.row /\ r.entries = k.entries /\ r.object = k.object
      /\ r.call = k.call /\ r.queue = k.queue /\ r.lease = k.lease
      /\ r.closed = k.closed /\ r.recovery = k.recovery
      /\ r.enabled = k.enabled /\ r.toWake = k.toWake /\ r.waking = k.waking
  BY <1>1, <1>5, <1>7, SMTT(30) DEF Typed, Fields
<1>9. Scheduled(r, Nil, Nil)
  BY <1>5, <1>8, ScheduledSame DEF Core
<1>10. OneCall(r) /\ RunsPlaced(r, Nil)
  BY <1>5, <1>8 DEF Core, Placed, OneCall, RunsPlaced
<1>11. LaunchesPlaced(r, Nil) /\ LaunchesMapped(r, Nil)
  BY <1>5, <1>8 DEF Core, Placed, LaunchesPlaced, LaunchesMapped, Launch, Pending
<1>12. FreshUnarchived(r) /\ RunsClaimed(r, Nil)
  <2>1. FreshUnarchived(r)
    BY <1>6, <1>8 DEF FreshUnarchived
  <2>2. RunsClaimed(r, Nil)
    BY <1>5, <1>8 DEF Core, Placed, RunsClaimed
  <2>3. QED
    BY <2>1, <2>2
<1>13. TimersIdle(r, Nil) /\ MapKept(r)
  BY <1>5, <1>8 DEF Core, Placed, TimersIdle, MapKept
<1>14. PendingHeld(r)
  BY <1>5, <1>8 DEF Core, Placed, PendingHeld, WorkedOn
<1>15. RecoveryLeft(r) /\ RunningRows(r)
  BY <1>5, <1>8 DEF Core, Placed, RecoveryLeft, RunningRows, Pending
<1>16. Alive(r, Nil)
  BY <1>5, <1>8 DEF Core, Placed, Alive, WorkedOn, Pending
<1>17. Core(r)
  BY <1>8, <1>9, <1>10, <1>11, <1>12, <1>13, <1>14, <1>15, <1>16 DEF Core, Placed
<1>18. Become(r)
  <2>1. s.status = status /\ s.hasThread = hasThread
    BY <1>1, NowIs
  <2>2. r = [k EXCEPT !.archived[t] = TRUE]
    BY <1>1
  <2>3. QED
    BY <1>1, <2>1, <2>2 DEF UserArchives
<1>19. QED
  BY <1>5, <1>8, <1>17, <1>18, BecomeKeeps

\* A row that becomes ready.
LEMMA ReadyIs ==
  ASSUME NEW s, Typed(s), NEW t \in Tasks, s.row[t] # Nil
  PROVE  LET r == [s EXCEPT !.row = [s.row EXCEPT ![t] = [s.row[t] EXCEPT !.ready = TRUE]]] IN
         /\ Typed(r)
         /\ r.status = s.status /\ r.archived = s.archived /\ r.hasThread = s.hasThread
         /\ r.claim = s.claim /\ r.entries = s.entries /\ r.object = s.object /\ r.call = s.call
         /\ r.queue = s.queue /\ r.lease = s.lease
         /\ r.closed = s.closed /\ r.recovery = s.recovery
         /\ r.enabled = s.enabled /\ r.toWake = s.toWake /\ r.waking = s.waking
         /\ \A u \in Tasks : u # t => r.row[u] = s.row[u]
         /\ r.row[t] # Nil /\ r.row[t].state = s.row[t].state /\ r.row[t].ready
<1>1. PICK m, r : /\ m = [s.row[t] EXCEPT !.ready = TRUE]
                  /\ r = [s EXCEPT !.row = [s.row EXCEPT ![t] = m]]
  OBVIOUS
<1>2. s.row \in [Tasks -> Rows \cup {Nil}] /\ s.row[t] \in Rows
  BY FieldTypes
<1>3. m \in Rows /\ m.state = s.row[t].state /\ m.ready /\ m # Nil
  BY <1>1, <1>2, ConstantFacts DEF Rows
<1>4. [s.row EXCEPT ![t] = m] \in [Tasks -> Rows \cup {Nil}]
  BY <1>2, <1>3
<1>5. /\ Typed(r)
      /\ r.status = s.status /\ r.archived = s.archived /\ r.hasThread = s.hasThread
      /\ r.claim = s.claim /\ r.entries = s.entries /\ r.object = s.object /\ r.call = s.call
      /\ r.queue = s.queue /\ r.lease = s.lease
      /\ r.closed = s.closed /\ r.recovery = s.recovery
      /\ r.enabled = s.enabled /\ r.toWake = s.toWake /\ r.waking = s.waking
      /\ r.row = [s.row EXCEPT ![t] = m]
  <2>1. r = [s EXCEPT !.row = [s.row EXCEPT ![t] = m]]
    BY <1>1
  <2>2. Typed(s)
    OBVIOUS
  <2>3. QED
    BY ONLY <1>4, <2>1, <2>2, SMTT(30) DEF Typed, Fields
<1>6. QED
  BY <1>1, <1>2, <1>3, <1>5

LEMMA ReadyKeeps ==
  ASSUME NEW s, Core(s), NEW t \in Tasks, s.row[t] # Nil
  PROVE  LET r == [s EXCEPT !.row = [s.row EXCEPT ![t] = [s.row[t] EXCEPT !.ready = TRUE]]] IN
         /\ Core(r)
         /\ r.status = s.status /\ r.archived = s.archived /\ r.entries = s.entries
         /\ r.object = s.object /\ r.call = s.call /\ r.closed = s.closed /\ r.waking = s.waking
         /\ r.row[t] # Nil /\ r.row[t].state = s.row[t].state
<1>1. PICK r : r = [s EXCEPT !.row = [s.row EXCEPT ![t] = [s.row[t] EXCEPT !.ready = TRUE]]]
  OBVIOUS
<1>2. Core(s) /\ Typed(s) /\ s.row[t] # Nil
  BY DEF Core
<1>3. /\ Typed(r)
      /\ r.status = s.status /\ r.archived = s.archived /\ r.hasThread = s.hasThread
      /\ r.claim = s.claim /\ r.entries = s.entries /\ r.object = s.object /\ r.call = s.call
      /\ r.queue = s.queue /\ r.lease = s.lease
      /\ r.closed = s.closed /\ r.recovery = s.recovery
      /\ r.enabled = s.enabled /\ r.toWake = s.toWake /\ r.waking = s.waking
      /\ \A u \in Tasks : u # t => r.row[u] = s.row[u]
      /\ r.row[t] # Nil /\ r.row[t].state = s.row[t].state /\ r.row[t].ready
  BY <1>1, <1>2, ReadyIs
<1>4. /\ \A u \in Tasks : Pending(r, u) <=> Pending(s, u)
      /\ \A u \in Tasks : s.row[u] # Nil => /\ r.row[u] # Nil /\ r.row[u].state = s.row[u].state
                                            /\ s.row[u].ready => r.row[u].ready
      /\ \A u \in Tasks : r.row[u] # Nil => s.row[u] # Nil
  BY <1>2, <1>3 DEF Pending
<1>5. /\ \A p \in Calls : s.call[p] # Nil => s.call[p].task \in Tasks
      /\ s.recovery.left \subseteq Tasks /\ Nil \notin Calls
  BY <1>2, FieldTypes, ConstantFacts DEF AsyncCalls
<1>6. Scheduled(r, Nil, Nil)
  BY <1>2, <1>3, ScheduledSame DEF Core
<1>7. OneCall(r)
  BY <1>2, <1>3 DEF Core, Placed, OneCall
<1>8. RunsPlaced(r, Nil)
  BY <1>2, <1>3, <1>4, <1>5 DEF Core, Placed, RunsPlaced
<1>9. LaunchesPlaced(r, Nil)
  <2>1. SUFFICES ASSUME NEW q \in Calls, Launch(s, q)
                 PROVE  /\ s.call[q].entry \in Entries /\ s.object[s.call[q].entry] # Nil
                        /\ s.object[s.call[q].entry].task = s.call[q].task
                        /\ s.object[s.call[q].entry].pending => s.call[q].pc = "lease"
                        /\ Pending(r, s.call[q].task) /\ r.row[s.call[q].task].ready
    BY <1>3 DEF LaunchesPlaced, Launch
  <2>2. /\ s.call[q].entry \in Entries /\ s.object[s.call[q].entry] # Nil
        /\ s.object[s.call[q].entry].task = s.call[q].task
        /\ s.object[s.call[q].entry].pending => s.call[q].pc = "lease"
        /\ Pending(s, s.call[q].task) /\ s.row[s.call[q].task].ready
    BY <1>2, <1>5, <2>1 DEF Core, Placed, LaunchesPlaced
  <2>3. s.call[q].task \in Tasks /\ s.row[s.call[q].task] # Nil
    BY <1>5, <2>1, <2>2 DEF Launch, Pending
  <2>4. QED
    BY <1>4, <2>2, <2>3
<1>10. LaunchesMapped(r, Nil)
  BY <1>2, <1>3 DEF Core, Placed, LaunchesMapped, Launch
<1>11. FreshUnarchived(r)
  BY <1>2, <1>3 DEF Core, Placed, FreshUnarchived
<1>12. RunsClaimed(r, Nil)
  BY <1>2, <1>3 DEF Core, Placed, RunsClaimed
<1>13. TimersIdle(r, Nil) /\ MapKept(r)
  BY <1>2, <1>3 DEF Core, Placed, TimersIdle, MapKept
<1>14. PendingHeld(r)
  BY <1>2, <1>3 DEF Core, Placed, PendingHeld, WorkedOn
<1>15. RecoveryLeft(r)
  BY <1>2, <1>3, <1>4, <1>5 DEF Core, Placed, RecoveryLeft
<1>16. RunningRows(r)
  BY <1>2, <1>3, <1>4 DEF Core, Placed, RunningRows
<1>17. Alive(r, Nil)
  BY <1>2, <1>3, <1>4 DEF Core, Placed, Alive, WorkedOn
<1>18. Core(r)
  BY <1>3, <1>6, <1>7, <1>8, <1>9, <1>10, <1>11, <1>12, <1>13, <1>14, <1>15, <1>16, <1>17
     DEF Core, Placed
<1>19. QED
  BY <1>1, <1>3, <1>18

LEMMA DelayPassesKeeps ==
  ASSUME Core(Now), Now.waking = {}, NEW t \in Tasks, DelayPasses(t)
  PROVE  IndInv(Now')
<1>1. PICK s, r : /\ s = Now
                  /\ r = [s EXCEPT !.row = [s.row EXCEPT ![t] = [s.row[t] EXCEPT !.ready = TRUE]]]
  OBVIOUS
<1>2. Core(s) /\ s.waking = {} /\ s.row[t] # Nil
  BY <1>1, NowIs DEF DelayPasses
<1>3. Core(r) /\ r.waking = s.waking
  BY <1>1, <1>2, ReadyKeeps
<1>4. Become(r)
  <2>1. r = [s EXCEPT !.row[t].ready = TRUE]
    BY <1>1
  <2>2. QED
    BY <1>1, <2>1 DEF DelayPasses
<1>5. QED
  BY <1>2, <1>3, <1>4, BecomeKeeps

\* An edit of the package, or wake(), which visits an entry: Alive is what they may break.
Woken(s, on, left, wak) == [s EXCEPT !.enabled = on, !.toWake = left, !.waking = wak]

LEMMA WokenIs ==
  ASSUME NEW s, NEW r, NEW y, NEW on \in BOOLEAN, NEW left \in SUBSET Tasks,
         NEW wak \in SUBSET Entries,
         Core(s), r = Woken(s, on, left, wak), Alive(r, y)
  PROVE  /\ Typed(r) /\ Scheduled(r, Nil, Nil) /\ Placed(r, y, Nil)
         /\ r.entries = s.entries /\ r.object = s.object /\ r.call = s.call /\ r.row = s.row
         /\ r.closed = s.closed /\ r.enabled = on /\ r.toWake = left /\ r.waking = wak
<1>1. Typed(s)
  BY DEF Core
<1>2. /\ Typed(r)
      /\ r.status = s.status /\ r.archived = s.archived /\ r.hasThread = s.hasThread
      /\ r.claim = s.claim /\ r.entries = s.entries /\ r.object = s.object /\ r.call = s.call
      /\ r.row = s.row /\ r.queue = s.queue /\ r.lease = s.lease
      /\ r.closed = s.closed /\ r.recovery = s.recovery
      /\ r.enabled = on /\ r.toWake = left /\ r.waking = wak
  <2>1. r = [s EXCEPT !.enabled = on, !.toWake = left, !.waking = wak]
    BY DEF Woken
  <2>2. on \in BOOLEAN /\ left \in SUBSET Tasks /\ wak \in SUBSET Entries
    OBVIOUS
  <2>3. QED
    BY ONLY <1>1, <2>1, <2>2, SMTT(30) DEF Typed, Fields
<1>3. Scheduled(r, Nil, Nil)
  BY <1>2, ScheduledSame DEF Core
<1>4. OneCall(r) /\ RunsPlaced(r, Nil)
  BY <1>2 DEF Core, Placed, OneCall, RunsPlaced
<1>5. LaunchesPlaced(r, Nil)
  BY <1>2 DEF Core, Placed, LaunchesPlaced, Launch, Pending
<1>6. LaunchesMapped(r, Nil)
  BY <1>2 DEF Core, Placed, LaunchesMapped, Launch
<1>7. FreshUnarchived(r)
  BY <1>2 DEF Core, Placed, FreshUnarchived
<1>8. RunsClaimed(r, Nil)
  BY <1>2 DEF Core, Placed, RunsClaimed
<1>9. TimersIdle(r, Nil)
  BY <1>2 DEF Core, Placed, TimersIdle
<1>10. MapKept(r)
  BY <1>2 DEF Core, Placed, MapKept
<1>11. PendingHeld(r)
  BY <1>2 DEF Core, Placed, PendingHeld, WorkedOn
<1>12. RecoveryLeft(r)
  BY <1>2 DEF Core, Placed, RecoveryLeft, Pending
<1>13. RunningRows(r)
  BY <1>2 DEF Core, Placed, RunningRows
<1>14. QED
  BY <1>2, <1>3, <1>4, <1>5, <1>6, <1>7, <1>8, <1>9, <1>10, <1>11, <1>12, <1>13 DEF Core, Placed

LEMMA WakeIs ==
  ASSUME NEW s, NEW r, NEW on \in BOOLEAN, NEW left \in SUBSET Tasks, NEW wak \in SUBSET Entries,
         Core(s), r = Woken(s, on, left, wak), Alive(r, Nil)
  PROVE  /\ Core(r)
         /\ r.entries = s.entries /\ r.object = s.object /\ r.call = s.call /\ r.row = s.row
         /\ r.closed = s.closed /\ r.enabled = on /\ r.toWake = left /\ r.waking = wak
<1>1. /\ Typed(r) /\ Scheduled(r, Nil, Nil) /\ Placed(r, Nil, Nil)
      /\ r.entries = s.entries /\ r.object = s.object /\ r.call = s.call /\ r.row = s.row
      /\ r.closed = s.closed /\ r.enabled = on /\ r.toWake = left /\ r.waking = wak
  BY WokenIs
<1>2. QED
  BY <1>1 DEF Core

LEMMA EditPackageKeeps ==
  ASSUME Core(Now), Now.waking = {}, NEW state \in BOOLEAN, EditPackage(state)
  PROVE  IndInv(Now')
<1>1. PICK s, left, r : /\ s = Now /\ left = {t \in Tasks : s.entries[t] # Nil}
                        /\ r = Woken(s, state, left, {})
  OBVIOUS
<1>2. Core(s) /\ Typed(s) /\ s.waking = {} /\ s.entries = entries
  BY <1>1, NowIs DEF Core
<1>3. left \in SUBSET Tasks /\ {} \in SUBSET Entries
  BY <1>1
<1>4. Become(r)
  <2>1. waking = {}
    BY <1>1, <1>2, NowIs
  <2>2. left = {t \in Tasks : entries[t] # Nil}
    BY <1>1, <1>2
  <2>3. r = [Now EXCEPT !.enabled = state, !.toWake = left]
    BY <1>1, <2>1 DEF Woken, Now
  <2>4. QED
    BY <2>2, <2>3 DEF EditPackage
<1>5. r.entries = s.entries /\ r.toWake = left
  BY <1>1, <1>2, <1>3, SMTT(30) DEF Typed, Fields, Woken
<1>6. Alive(r, Nil)
  BY <1>1, <1>5 DEF Alive
<1>7. Core(r) /\ r.waking = {}
  <2>1. r = Woken(s, state, left, {})
    BY <1>1
  <2>2. state \in BOOLEAN
    OBVIOUS
  <2>3. QED
    BY ONLY <1>2, <1>3, <1>6, <2>1, <2>2, WakeIs
<1>8. QED
  BY <1>4, <1>7, BecomeKeeps

LEMMA WakeEntryKeeps ==
  ASSUME Core(Now), Now.waking = {}, ~WakeMidway, NEW t \in Tasks, WakeEntry(t)
  PROVE  IndInv(Now')
<1>1. PICK s, left, wak, r :
        /\ s = Now /\ left = s.toWake \ {t}
        /\ wak = IF s.entries[t] = Nil THEN {} ELSE {s.entries[t]}
        /\ r = Woken(s, s.enabled, left, wak)
  OBVIOUS
<1>2. Core(s) /\ Typed(s) /\ s.waking = {} /\ s.entries = entries /\ s.call = call /\ s.object = object
  BY <1>1, NowIs DEF Core
<1>3. /\ s.enabled \in BOOLEAN /\ left \in SUBSET Tasks /\ wak \in SUBSET Entries
      /\ s.entries \in [Tasks -> Entries \cup {Nil}] /\ s.toWake \subseteq Tasks
      /\ s.call \in [Calls -> AsyncCalls \cup {Nil}]
  BY <1>1, <1>2, FieldTypes
<1>4. Become(r)
  <2>1. waking = {} /\ s.toWake = toWake /\ s.enabled = enabled
    BY <1>1, <1>2, NowIs
  <2>2. wak = IF entries[t] = Nil THEN waking ELSE waking \cup {entries[t]}
    BY <1>1, <1>2, <2>1
  <2>3. r = [Now EXCEPT !.toWake = toWake \ {t}, !.waking = wak]
    BY <1>1, <2>1 DEF Woken, Now
  <2>4. r = [Now EXCEPT !.toWake = @ \ {t},
                        !.waking = IF entries[t] = Nil THEN @ ELSE @ \cup {entries[t]}]
    BY <2>2, <2>3, NowIs
  <2>5. QED
    BY <2>4 DEF WakeEntry
<1>5. /\ r.entries = s.entries /\ r.toWake = left /\ r.waking = wak /\ r.row = s.row
      /\ r.object = s.object /\ r.call = s.call /\ r.enabled = s.enabled
  BY <1>1, <1>2, <1>3, SMTT(30) DEF Typed, Fields, Woken
<1>6. Alive(r, Nil)
  <2>1. SUFFICES ASSUME ~ArchiveMidway, NEW u \in Tasks, s.entries[u] # Nil, Pending(s, u)
                 PROVE  \/ s.object[s.entries[u]].timer
                        \/ WorkedOn(s, s.entries[u])
                        \/ u \in left \/ s.entries[u] \in wak
                        \/ ~s.enabled
    BY <1>5 DEF Alive, WorkedOn, Pending
  <2>2. \/ s.object[s.entries[u]].timer
        \/ WorkedOn(s, s.entries[u])
        \/ u \in s.toWake \/ s.entries[u] \in s.waking
        \/ ~s.enabled
    BY <1>2, <2>1 DEF Core, Placed, Alive
  <2>3. QED
    BY <1>1, <1>2, <2>1, <2>2
<1>7. Core(r)
  BY <1>1, <1>2, <1>3, <1>6, WakeIs
<1>8. WakingQuiet(r)
  <2>1. SUFFICES ASSUME NEW e \in wak
                 PROVE  /\ wak = {e} /\ ~s.closed
                        /\ s.object[e] # Nil /\ ~s.object[e].timer
                        /\ s.entries[s.object[e].task] = e
                        /\ \A p \in Calls : Launch(s, p) => /\ s.call[p].pc = "lease"
                                                            /\ s.call[p].lease = Nil
    <3>1. r.closed = s.closed
      BY <1>1, <1>2, <1>3, <1>6, WakeIs
    <3>2. QED
      BY <1>5, <3>1 DEF WakingQuiet, Launch
  <2>2. e = s.entries[t] /\ e # Nil /\ wak = {e} /\ e \in Entries
    BY <1>1, <1>3, <2>1
  <2>3. ~s.closed /\ s.object[e] # Nil /\ s.object[e].task = t
    BY <1>2, <2>2 DEF Core, Placed, MapKept
  <2>4. ~Underway
    BY DEF WakeEntry
  <2>5. ~s.object[e].timer
    BY <1>2, <2>2, <2>3, <2>4 DEF Underway
  <2>6. \A p \in Calls : Launch(s, p) => s.call[p].pc = "lease" /\ s.call[p].lease = Nil
    BY <1>2, <2>4 DEF Underway, Launch
  <2>7. QED
    BY <2>2, <2>3, <2>5, <2>6
<1>9. IndInv(r) /\ Typed(r)
  BY <1>7, <1>8 DEF IndInv, Core
<1>10. QED
  BY <1>4, <1>9, BecomeIs, CollectKeeps

-----------------------------------------------------------------------------
(* cancel(), for a task no call works on.                                  *)

LEMMA RejectedNone ==
  ASSUME NEW s, Typed(s), NEW t \in Tasks, Unattended(s, t)
  PROVE  Rejected(s, {t}) = [s EXCEPT !.call = s.call, !.object = s.object]
<1>1. s.call \in [Calls -> AsyncCalls \cup {Nil}] /\ s.object \in [Entries -> Objects \cup {Nil}]
  BY FieldTypes
<1>2. \A p \in Calls : ~ \E u \in {t} : WaitsFor(s, p, u)
  BY DEF Unattended, WaitsFor
<1>3. s.call = [p \in Calls |-> IF \E u \in {t} : WaitsFor(s, p, u) THEN Nil ELSE s.call[p]]
  BY <1>1, <1>2
<1>4. s.object = [e \in Entries |->
                   IF \E p \in Calls : (\E u \in {t} : WaitsFor(s, p, u)) /\ s.call[p].entry = e
                   THEN [s.object[e] EXCEPT !.pending = FALSE] ELSE s.object[e]]
  BY <1>1, <1>2
<1>5. QED
  BY ONLY <1>3, <1>4 DEF Rejected

\* The queue without a task.
LEMMA WithoutIs ==
  ASSUME NEW q \in Seq(Tasks), NEW t \in Tasks, Contains(q, t),
         \A i, j \in 1..Len(q) : q[i] = q[j] => i = j
  PROVE  /\ Without(q, t) \in Seq(Tasks)
         /\ \A i \in 1..Len(Without(q, t)) :
              Without(q, t)[i] # t /\ \E j \in 1..Len(q) : Without(q, t)[i] = q[j]
         /\ \A i, j \in 1..Len(Without(q, t)) : Without(q, t)[i] = Without(q, t)[j] => i = j
<1>1. PICK k : k = CHOOSE i \in 1..Len(q) : q[i] = t
  OBVIOUS
<1>2. k \in 1..Len(q) /\ q[k] = t
  BY <1>1 DEF Contains
<1>3. Without(q, t) = RemoveAt(q, k)
  BY <1>1 DEF Without
<1>4. RemoveAt(q, k) \in Seq(Tasks)
  BY <1>2, RemoveAtProperties
<1>5. /\ {RemoveAt(q, k)[j] : j \in 1..Len(RemoveAt(q, k))} = {q[j] : j \in 1..Len(q)} \ {q[k]}
      /\ \A i, j \in 1..Len(RemoveAt(q, k)) :
           RemoveAt(q, k)[i] = RemoveAt(q, k)[j] => i = j
  BY <1>2, RemoveAtOfDistinct
<1>6. ASSUME NEW i \in 1..Len(RemoveAt(q, k))
      PROVE  RemoveAt(q, k)[i] # t /\ \E j \in 1..Len(q) : RemoveAt(q, k)[i] = q[j]
  <2>1. RemoveAt(q, k)[i] \in {q[j] : j \in 1..Len(q)} \ {q[k]}
    BY <1>5
  <2>2. QED
    BY <1>2, <2>1
<1>7. QED
  BY <1>3, <1>4, <1>5, <1>6

\* So the task is left without entry and request, with its reservation.
LEMMA LeavesKeeps ==
  ASSUME NEW s, NEW k, NEW t \in Tasks, NEW e \in Entries, Typed(s), Scheduled(s, Nil, Nil),
         Placed(s, e, Nil), Unattended(s, t), s.object[e] # Nil, s.object[e].task = t, ~s.closed,
         s.entries[t] = e, Leaves(s, k, t, e)
  PROVE  Scheduled(k, Nil, Nil) /\ Placed(k, Nil, Nil)
<1>1. /\ s.entries \in [Tasks -> Entries \cup {Nil}] /\ s.queue \in Seq(Tasks)
      /\ s.recovery.left \subseteq Tasks /\ e # Nil /\ Nil \notin Calls
      /\ \A q \in Calls : s.call[q] # Nil => s.call[q].task \in Tasks
      /\ \A o \in Entries : s.object[o] # Nil => s.object[o].task \in Tasks
  BY FieldTypes, ConstantFacts DEF AsyncCalls, Objects
<1>2. /\ k.entries[t] = Nil /\ \A u \in Tasks : u # t => k.entries[u] = s.entries[u]
      /\ k.queue \in Seq(Tasks)
  BY <1>1, FieldTypes DEF Leaves
<1>3. /\ \A i \in 1..Len(k.queue) : k.queue[i] \in Tasks /\ k.queue[i] # t
      /\ \A i \in 1..Len(k.queue) : \E j \in 1..Len(s.queue) : k.queue[i] = s.queue[j]
  BY <1>2, ElementOfSeq DEF Leaves
<1>4. /\ \A o \in Entries : k.object[o] = Nil <=> s.object[o] = Nil
      /\ \A o \in Entries : s.object[o] # Nil => /\ k.object[o].task = s.object[o].task
                                                 /\ k.object[o].pending = s.object[o].pending
                                                 /\ k.object[o].timer => s.object[o].timer
  BY DEF Leaves
<1>5. LeasesApart(k) /\ WithinLimit(k)
  BY DEF Scheduled, LeasesApart, WithinLimit, Active, Leaves
<1>6. QueueWaits(k)
  BY <1>3 DEF Scheduled, QueueWaits, Leaves
<1>7. QueueMapped(k)
  BY <1>2, <1>3 DEF Scheduled, QueueMapped, Leaves
<1>8. LeasesMatch(k, Nil)
  BY DEF Scheduled, LeasesMatch, Holds, GaveBack, Leaves
<1>9. LeasesOwned(k, Nil)
  <2>1. SUFFICES ASSUME ~ArchiveMidway
                 PROVE  /\ \A u \in Tasks : u # Nil /\ s.lease[u] # Nil => HeldBy(s, u)
                        /\ \A i \in 1..Len(k.queue) : k.queue[i] # Nil => AwaitedBy(s, k.queue[i])
    BY DEF LeasesOwned, HeldBy, AwaitedBy, WaitsFor, Leaves
  <2>2. \A i \in 1..Len(s.queue) : s.queue[i] # Nil => AwaitedBy(s, s.queue[i])
    BY <2>1 DEF Scheduled, LeasesOwned
  <2>3. QED
    BY <1>3, <2>1, <2>2 DEF Scheduled, LeasesOwned
<1>10. OneCall(k) /\ FreshUnarchived(k) /\ RunsClaimed(k, Nil) /\ RunningRows(k)
  BY DEF Placed, OneCall, FreshUnarchived, RunsClaimed, RunningRows, Leaves
<1>11. RunsPlaced(k, Nil)
  BY <1>1, <1>2 DEF Placed, RunsPlaced, Leaves, Unattended
<1>12. LaunchesPlaced(k, Nil)
  <2>1. SUFFICES ASSUME NEW q \in Calls, Launch(s, q)
                 PROVE  /\ s.call[q].entry \in Entries /\ k.object[s.call[q].entry] # Nil
                        /\ k.object[s.call[q].entry].task = s.call[q].task
                        /\ k.object[s.call[q].entry].pending => s.call[q].pc = "lease"
                        /\ Pending(s, s.call[q].task) /\ s.row[s.call[q].task].ready
    BY DEF LaunchesPlaced, Launch, Leaves, Pending
  <2>2. /\ s.call[q].entry \in Entries /\ s.object[s.call[q].entry] # Nil
        /\ s.object[s.call[q].entry].task = s.call[q].task
        /\ s.object[s.call[q].entry].pending => s.call[q].pc = "lease"
        /\ Pending(s, s.call[q].task) /\ s.row[s.call[q].task].ready
    BY <1>1, <2>1 DEF Placed, LaunchesPlaced
  <2>3. QED
    BY <1>4, <2>2
<1>13. LaunchesMapped(k, Nil)
  <2>1. SUFFICES ASSUME NEW q \in Calls, Launch(s, q)
                 PROVE  /\ k.entries[s.call[q].task] = s.call[q].entry
                        /\ s.call[q].pc = "lease" /\ s.call[q].lease = Nil =>
                             k.object[s.call[q].entry].pending
    BY DEF LaunchesMapped, Launch, Leaves
  <2>2. /\ s.entries[s.call[q].task] = s.call[q].entry
        /\ s.call[q].pc = "lease" /\ s.call[q].lease = Nil => s.object[s.call[q].entry].pending
        /\ s.call[q].entry \in Entries /\ s.object[s.call[q].entry] # Nil
    BY <1>1, <2>1 DEF Placed, LaunchesMapped, LaunchesPlaced
  <2>3. s.call[q].task \in Tasks /\ s.call[q].task # t
    BY <1>1, <2>1 DEF Launch, Unattended
  <2>4. QED
    BY <1>2, <1>4, <2>2, <2>3
<1>14. TimersIdle(k, Nil)
  <2>1. SUFFICES ASSUME NEW o \in Entries, k.object[o] # Nil, k.object[o].timer
                 PROVE  /\ \A p \in Calls : s.call[p] # Nil => s.call[p].task # k.object[o].task
                        /\ k.entries[k.object[o].task] = o
    BY DEF TimersIdle, Leaves
  <2>2. o # e /\ k.object[o] = s.object[o]
    BY <2>1 DEF Leaves
  <2>3. /\ \A p \in Calls : s.call[p] # Nil => s.call[p].task # s.object[o].task
        /\ s.entries[s.object[o].task] = o
    BY <1>1, <2>1, <2>2 DEF Placed, TimersIdle
  <2>4. QED
    BY <1>1, <1>2, <2>1, <2>2, <2>3
<1>15. MapKept(k)
  BY <1>1, <1>2, <1>4 DEF Placed, MapKept, Leaves
<1>16. PendingHeld(k)
  <2>1. SUFFICES ASSUME ~ArchiveMidway, NEW u \in Tasks, k.entries[u] # Nil,
                        k.object[k.entries[u]].pending
                 PROVE  WorkedOn(s, k.entries[u])
    BY DEF PendingHeld, WorkedOn, Leaves
  <2>2. k.entries[u] = s.entries[u] /\ s.entries[u] \in Entries /\ s.object[s.entries[u]] # Nil
    BY <1>1, <1>2, <2>1 DEF Placed, MapKept
  <2>3. QED
    BY <1>4, <2>1, <2>2 DEF Placed, PendingHeld
<1>17. RecoveryLeft(k)
  BY <1>1, <1>2 DEF Placed, RecoveryLeft, Leaves, Pending
<1>18. Alive(k, Nil)
  <2>1. SUFFICES ASSUME ~ArchiveMidway, NEW u \in Tasks, k.entries[u] # Nil, Pending(s, u)
                 PROVE  \/ k.object[k.entries[u]].timer
                        \/ WorkedOn(s, k.entries[u])
                        \/ u \in s.toWake \/ k.entries[u] \in s.waking
                        \/ ~s.enabled
    BY DEF Alive, WorkedOn, Pending, Leaves
  <2>2. /\ u # t /\ k.entries[u] = s.entries[u] /\ s.entries[u] \in Entries
        /\ s.object[s.entries[u]] # Nil /\ s.object[s.entries[u]].task = u
    BY <1>1, <1>2, <2>1 DEF Placed, MapKept
  <2>3. s.entries[u] # e /\ k.object[s.entries[u]] = s.object[s.entries[u]]
    BY <2>2 DEF Leaves
  <2>4. \/ s.object[s.entries[u]].timer
        \/ WorkedOn(s, s.entries[u])
        \/ u \in s.toWake \/ s.entries[u] \in s.waking
        \/ ~s.enabled
    BY <2>1, <2>2, <2>3 DEF Placed, Alive
  <2>5. QED
    BY <2>2, <2>3, <2>4
<1>19. QED
  BY <1>5, <1>6, <1>7, <1>8, <1>9, <1>10, <1>11, <1>12, <1>13, <1>14, <1>15, <1>16, <1>17, <1>18
     DEF Scheduled, Placed

\* A reservation is dropped while no call works on its task.
LEMMA RowGone ==
  ASSUME NEW s, NEW r, NEW t \in Tasks, Typed(s), Placed(s, Nil, Nil), Unattended(s, t),
         t \notin s.recovery.left, r = WithoutRow(s, t)
  PROVE  /\ Typed(r) /\ Placed(r, Nil, Nil)
         /\ r.entries = s.entries /\ r.call = s.call /\ r.queue = s.queue /\ r.lease = s.lease
         /\ r.closed = s.closed /\ r.waking = s.waking
<1>1. /\ s.row \in [Tasks -> Rows \cup {Nil}] /\ s.recovery.left \subseteq Tasks
      /\ \A q \in Calls : s.call[q] # Nil => s.call[q].task \in Tasks
  BY FieldTypes DEF AsyncCalls
<1>2. [s.row EXCEPT ![t] = Nil] \in [Tasks -> Rows \cup {Nil}]
  BY <1>1
<1>3. /\ Typed(r)
      /\ r.status = s.status /\ r.archived = s.archived /\ r.hasThread = s.hasThread
      /\ r.claim = s.claim /\ r.entries = s.entries /\ r.object = s.object /\ r.call = s.call
      /\ r.queue = s.queue /\ r.lease = s.lease
      /\ r.closed = s.closed /\ r.recovery = s.recovery
      /\ r.enabled = s.enabled /\ r.toWake = s.toWake /\ r.waking = s.waking
      /\ r.row = [s.row EXCEPT ![t] = Nil]
  BY <1>2, SMTT(30) DEF Typed, Fields, WithoutRow
<1>4. r.row[t] = Nil /\ \A u \in Tasks : u # t => r.row[u] = s.row[u]
  BY <1>1, <1>3
<1>5. OneCall(r) /\ FreshUnarchived(r) /\ RunsClaimed(r, Nil)
  BY <1>3 DEF Placed, OneCall, FreshUnarchived, RunsClaimed
<1>6. LaunchesMapped(r, Nil)
  BY <1>3 DEF Placed, LaunchesMapped, Launch
<1>7. RunsPlaced(r, Nil)
  BY <1>1, <1>3, <1>4 DEF Placed, RunsPlaced, Unattended
<1>8. LaunchesPlaced(r, Nil)
  BY <1>1, <1>3, <1>4 DEF Placed, LaunchesPlaced, Launch, Pending, Unattended
<1>9. TimersIdle(r, Nil) /\ MapKept(r) /\ PendingHeld(r)
  BY <1>3 DEF Placed, TimersIdle, MapKept, PendingHeld, WorkedOn
<1>10. RecoveryLeft(r)
  BY <1>1, <1>3, <1>4 DEF Placed, RecoveryLeft, Pending
<1>11. RunningRows(r)
  BY <1>3, <1>4 DEF Placed, RunningRows
<1>12. Alive(r, Nil)
  BY <1>3, <1>4 DEF Placed, Alive, Pending, WorkedOn
<1>13. QED
  BY <1>3, <1>5, <1>6, <1>7, <1>8, <1>9, <1>10, <1>11, <1>12 DEF Placed

MayCancel(s, t, e) ==
  /\ s.object[e] # Nil /\ s.object[e].task = t
  /\ ~s.closed /\ s.entries[t] = e /\ Unattended(s, t)

\* cancel() keeps the invariant.
LEMMA CancelKeeps ==
  ASSUME NEW s, NEW t \in Tasks, NEW e \in Entries, Typed(s), Scheduled(s, Nil, Nil),
         Placed(s, e, Nil), MayCancel(s, t, e)
  PROVE  Core(Cancel(s, t)) /\ Cancel(s, t).waking = s.waking
<1>1. PICK m, q : /\ m = [s.object[e] EXCEPT !.timer = FALSE]
                  /\ q = [s EXCEPT !.object = [s.object EXCEPT ![e] = m],
                                   !.entries = [s.entries EXCEPT ![t] = Nil]]
  OBVIOUS
<1>2. /\ s.object \in [Entries -> Objects \cup {Nil}] /\ s.object[e] \in Objects
      /\ s.entries \in [Tasks -> Entries \cup {Nil}] /\ e # Nil /\ s.queue \in Seq(Tasks)
  BY FieldTypes, ConstantFacts DEF MayCancel
<1>3. /\ m \in Objects /\ m # Nil /\ m.task = t /\ ~m.timer /\ m.pending = s.object[e].pending
  BY <1>1, <1>2, ConstantFacts DEF Objects, MayCancel
<1>4. /\ [s.object EXCEPT ![e] = m] \in [Entries -> Objects \cup {Nil}]
      /\ [s.entries EXCEPT ![t] = Nil] \in [Tasks -> Entries \cup {Nil}]
  BY <1>2, <1>3
<1>5. /\ Typed(q)
      /\ q.archived = s.archived /\ q.claim = s.claim /\ q.row = s.row
      /\ q.call = s.call /\ q.lease = s.lease /\ q.queue = s.queue
      /\ q.closed = s.closed /\ q.recovery = s.recovery
      /\ q.enabled = s.enabled /\ q.toWake = s.toWake /\ q.waking = s.waking
      /\ q.entries = [s.entries EXCEPT ![t] = Nil] /\ q.object = [s.object EXCEPT ![e] = m]
  <2>1. Typed(s) /\ q = [s EXCEPT !.object = [s.object EXCEPT ![e] = m],
                                  !.entries = [s.entries EXCEPT ![t] = Nil]]
    BY <1>1
  <2>2. QED
    BY ONLY <1>4, <2>1, SMTT(30) DEF Typed, Fields
<1>6. \A i, j \in 1..Len(s.queue) : s.queue[i] = s.queue[j] => i = j
  BY DEF Scheduled, QueueWaits
<1>7. PICK d : /\ CancelRequest(q, t) = d
               /\ Typed(d) /\ Scheduled(d, Nil, Nil) /\ Placed(d, Nil, Nil)
               /\ Unattended(d, t) /\ d.recovery = s.recovery /\ d.waking = s.waking
  <2>1. CASE ~Contains(q.queue, t)
    <3>1. CancelRequest(q, t) = q
      BY <2>1 DEF CancelRequest
    <3>2. \A i \in 1..Len(q.queue) : q.queue[i] # t
      BY <2>1 DEF Contains
    <3>3. /\ q.object[e] = m /\ \A o \in Entries : o # e => q.object[o] = s.object[o]
      BY <1>2, <1>5
    <3>4. Leaves(s, q, t, e)
      BY <1>3, <1>5, <1>6, <3>2, <3>3 DEF Leaves
    <3>5. Scheduled(q, Nil, Nil) /\ Placed(q, Nil, Nil)
      BY <3>4, LeavesKeeps DEF MayCancel
    <3>6. Unattended(q, t)
      BY <1>5 DEF Unattended, MayCancel
    <3>7. QED
      BY <1>5, <3>1, <3>5, <3>6
  <2>2. CASE Contains(q.queue, t)
    <3>1. PICK j, k : j = Rejected(q, {t}) /\ k = [j EXCEPT !.queue = Without(j.queue, t)]
      OBVIOUS
    <3>2. Unattended(q, t)
      BY <1>5 DEF Unattended, MayCancel
    <3>3. j = [q EXCEPT !.call = q.call, !.object = q.object]
      BY <1>5, <3>1, <3>2, RejectedNone
    <3>4. /\ Typed(j)
          /\ j.archived = q.archived /\ j.claim = q.claim /\ j.row = q.row
          /\ j.call = q.call /\ j.lease = q.lease /\ j.queue = q.queue
          /\ j.closed = q.closed /\ j.recovery = q.recovery
          /\ j.enabled = q.enabled /\ j.toWake = q.toWake /\ j.waking = q.waking
          /\ j.entries = q.entries /\ j.object = q.object
      <4>1. Typed(q)
        BY <1>5
      <4>2. QED
        BY ONLY <3>3, <4>1, SMTT(30) DEF Typed, Fields
    <3>5. CancelRequest(q, t) = Drain(k)
      BY <2>2, <3>1 DEF CancelRequest
    <3>6. /\ Without(q.queue, t) \in Seq(Tasks)
          /\ \A i \in 1..Len(Without(q.queue, t)) :
               /\ Without(q.queue, t)[i] # t
               /\ \E o \in 1..Len(q.queue) : Without(q.queue, t)[i] = q.queue[o]
          /\ \A i, o \in 1..Len(Without(q.queue, t)) :
               Without(q.queue, t)[i] = Without(q.queue, t)[o] => i = o
      <4>1. q.queue \in Seq(Tasks) /\ Contains(q.queue, t)
            /\ \A i, o \in 1..Len(q.queue) : q.queue[i] = q.queue[o] => i = o
        BY <1>2, <1>5, <1>6, <2>2
      <4>2. QED
        BY ONLY <4>1, WithoutIs
    <3>7. /\ Typed(k)
          /\ k.archived = q.archived /\ k.claim = q.claim /\ k.row = q.row
          /\ k.call = q.call /\ k.lease = q.lease /\ k.queue = Without(q.queue, t)
          /\ k.closed = q.closed /\ k.recovery = q.recovery
          /\ k.enabled = q.enabled /\ k.toWake = q.toWake /\ k.waking = q.waking
          /\ k.entries = q.entries /\ k.object = q.object
      <4>1. Without(j.queue, t) \in Seq(Tasks) /\ k = [j EXCEPT !.queue = Without(j.queue, t)]
        BY <3>1, <3>4, <3>6
      <4>2. QED
        BY ONLY <3>4, <4>1, SMTT(30) DEF Typed, Fields
    <3>8. /\ k.object[e] = m /\ \A o \in Entries : o # e => k.object[o] = s.object[o]
      BY <1>2, <1>5, <3>7
    <3>9. Leaves(s, k, t, e)
      BY <1>3, <1>5, <3>6, <3>7, <3>8 DEF Leaves
    <3>10. Scheduled(k, Nil, Nil) /\ Placed(k, Nil, Nil)
      BY <3>9, LeavesKeeps DEF MayCancel
    <3>11. Scheduled(Drain(k), Nil, Nil) /\ Grants(k, Drain(k))
      BY <3>7, <3>10, DrainKeeps
    <3>12. Typed(Drain(k)) /\ Placed(Drain(k), Nil, Nil)
      BY <3>7, <3>10, <3>11, GrantsPlaced DEF Grants
    <3>13. Unattended(Drain(k), t)
      BY <1>5, <3>7, <3>11 DEF Unattended, MayCancel, Grants
    <3>14. Drain(k).recovery = s.recovery /\ Drain(k).waking = s.waking
      BY <1>5, <3>7, <3>11 DEF Grants
    <3>15. QED
      BY <3>5, <3>11, <3>12, <3>13, <3>14
  <2>3. QED
    BY <2>1, <2>2
<1>8. t \notin s.recovery.left
  BY <1>2 DEF Placed, RecoveryLeft, MayCancel
<1>9. PICK r : r = WithoutRow(d, t)
  OBVIOUS
<1>10. /\ Typed(r) /\ Placed(r, Nil, Nil)
       /\ r.entries = d.entries /\ r.call = d.call /\ r.queue = d.queue /\ r.lease = d.lease
       /\ r.closed = d.closed /\ r.waking = d.waking
  BY <1>7, <1>8, <1>9, RowGone
<1>11. Scheduled(r, Nil, Nil)
  BY <1>7, <1>10, ScheduledSame
<1>12. Cancel(s, t) = r
  <2>1. q = [s EXCEPT !.object[e].timer = FALSE, !.entries[t] = Nil]
    BY <1>1
  <2>2. s.entries[t] = e /\ e # Nil
    BY <1>2 DEF MayCancel
  <2>3. Cancel(s, t) = [CancelRequest(q, t) EXCEPT !.row[t] = Nil]
    BY <2>1, <2>2 DEF Cancel
  <2>4. QED
    BY <1>7, <1>9, <2>3 DEF WithoutRow
<1>13. QED
  BY <1>7, <1>10, <1>11, <1>12 DEF Core

-----------------------------------------------------------------------------
(* pump()                                                                  *)

Pumpable(s, e) ==
  /\ e \in Entries /\ s.object[e] # Nil /\ ~s.object[e].timer
  /\ ~s.closed => s.entries[s.object[e].task] = e
  /\ ~s.closed /\ Pending(s, s.object[e].task) => Unattended(s, s.object[e].task)
  /\ \E p \in Calls : s.call[p] = Nil

\* The delay has not passed: pump() sets a timer.
LEMMA TimerSet ==
  ASSUME NEW s, NEW t \in Tasks, NEW e \in Entries, Typed(s), Scheduled(s, Nil, Nil),
         Placed(s, e, Nil), MayCancel(s, t, e)
  PROVE  LET r == [s EXCEPT !.object[e].timer = TRUE]
         IN  Core(r) /\ r.waking = s.waking
<1>1. PICK m, r : /\ m = [s.object[e] EXCEPT !.timer = TRUE] /\ r = WithObject(s, e, m)
  OBVIOUS
<1>2. /\ s.object \in [Entries -> Objects \cup {Nil}] /\ s.object[e] \in Objects
      /\ s.entries \in [Tasks -> Entries \cup {Nil}] /\ e # Nil
      /\ \A o \in Entries : s.object[o] # Nil => s.object[o].task \in Tasks
  BY FieldTypes, ConstantFacts DEF MayCancel, Objects
<1>3. m \in Objects /\ m # Nil /\ m.task = t /\ m.timer /\ m.pending = s.object[e].pending
  BY <1>1, <1>2, ConstantFacts DEF Objects, MayCancel
<1>4. [s.object EXCEPT ![e] = m] \in [Entries -> Objects \cup {Nil}]
  BY <1>2, <1>3
<1>5. /\ Typed(r)
      /\ r.status = s.status /\ r.archived = s.archived /\ r.hasThread = s.hasThread
      /\ r.claim = s.claim /\ r.row = s.row /\ r.entries = s.entries /\ r.call = s.call
      /\ r.queue = s.queue /\ r.lease = s.lease
      /\ r.closed = s.closed /\ r.recovery = s.recovery
      /\ r.enabled = s.enabled /\ r.toWake = s.toWake /\ r.waking = s.waking
      /\ r.object = [s.object EXCEPT ![e] = m]
  <2>1. Typed(s) /\ r = [s EXCEPT !.object = [s.object EXCEPT ![e] = m]]
    BY <1>1 DEF WithObject
  <2>2. QED
    BY ONLY <1>4, <2>1, SMTT(30) DEF Typed, Fields
<1>6. /\ r.object[e] = m /\ \A o \in Entries : o # e => r.object[o] = s.object[o]
      /\ \A o \in Entries : r.object[o] = Nil <=> s.object[o] = Nil
      /\ \A o \in Entries : s.object[o] # Nil => /\ r.object[o].task = s.object[o].task
                                                 /\ r.object[o].pending = s.object[o].pending
                                                 /\ s.object[o].timer => r.object[o].timer
  BY <1>2, <1>3, <1>5 DEF MayCancel
<1>7. Scheduled(r, Nil, Nil)
  BY <1>5, ScheduledSame
<1>8. OneCall(r) /\ FreshUnarchived(r) /\ RunsClaimed(r, Nil) /\ RunningRows(r) /\ RunsPlaced(r, Nil)
  BY <1>5 DEF Placed, OneCall, FreshUnarchived, RunsClaimed, RunningRows, RunsPlaced
<1>9. LaunchesPlaced(r, Nil)
  <2>1. SUFFICES ASSUME NEW q \in Calls, q # Nil, Launch(s, q)
                 PROVE  /\ s.call[q].entry \in Entries /\ r.object[s.call[q].entry] # Nil
                        /\ r.object[s.call[q].entry].task = s.call[q].task
                        /\ r.object[s.call[q].entry].pending => s.call[q].pc = "lease"
                        /\ Pending(s, s.call[q].task) /\ s.row[s.call[q].task].ready
    BY <1>5 DEF LaunchesPlaced, Launch, Pending
  <2>2. QED
    BY <1>6, <2>1 DEF Placed, LaunchesPlaced
<1>10. LaunchesMapped(r, Nil)
  <2>1. SUFFICES ASSUME ~s.closed, NEW q \in Calls, q # Nil, Launch(s, q)
                 PROVE  /\ s.entries[s.call[q].task] = s.call[q].entry
                        /\ s.call[q].pc = "lease" /\ s.call[q].lease = Nil =>
                             r.object[s.call[q].entry].pending
    BY <1>5 DEF LaunchesMapped, Launch
  <2>2. s.call[q].entry \in Entries /\ s.object[s.call[q].entry] # Nil
    BY <2>1 DEF Placed, LaunchesPlaced
  <2>3. QED
    BY <1>6, <2>1, <2>2 DEF Placed, LaunchesMapped
<1>11. TimersIdle(r, Nil)
  <2>1. SUFFICES ASSUME NEW o \in Entries, r.object[o] # Nil, r.object[o].timer
                 PROVE  /\ \A p \in Calls : p # Nil /\ s.call[p] # Nil =>
                                              s.call[p].task # r.object[o].task
                        /\ s.entries[r.object[o].task] = o
    BY <1>5 DEF TimersIdle, MayCancel
  <2>2. CASE o = e
    BY <1>3, <1>6, <2>2 DEF MayCancel, Unattended
  <2>3. CASE o # e
    BY <1>6, <2>1, <2>3 DEF Placed, TimersIdle, MayCancel
  <2>4. QED
    BY <2>2, <2>3
<1>12. MapKept(r)
  BY <1>2, <1>5, <1>6 DEF Placed, MapKept
<1>13. PendingHeld(r)
  BY <1>2, <1>5, <1>6 DEF Placed, PendingHeld, WorkedOn, MapKept
<1>14. RecoveryLeft(r)
  BY <1>5 DEF Placed, RecoveryLeft, Pending
<1>15. Alive(r, Nil)
  <2>1. SUFFICES ASSUME ~ArchiveMidway, NEW u \in Tasks, s.entries[u] # Nil, Pending(s, u)
                 PROVE  \/ r.object[s.entries[u]].timer
                        \/ WorkedOn(s, s.entries[u])
                        \/ u \in s.toWake \/ s.entries[u] \in s.waking
                        \/ ~s.enabled
    BY <1>5 DEF Alive, WorkedOn, Pending
  <2>2. CASE s.entries[u] = e
    BY <1>3, <1>6, <2>2
  <2>3. CASE s.entries[u] # e
    <3>1. s.entries[u] \in Entries
      BY <1>2, <2>1
    <3>2. r.object[s.entries[u]] = s.object[s.entries[u]]
      BY <1>6, <2>3, <3>1
    <3>3. QED
      BY <2>1, <2>3, <3>2 DEF Placed, Alive
  <2>4. QED
    BY <2>2, <2>3
<1>16. Core(r)
  BY <1>5, <1>7, <1>8, <1>9, <1>10, <1>11, <1>12, <1>13, <1>14, <1>15 DEF Core, Placed
<1>17. r = [s EXCEPT !.object[e].timer = TRUE]
  BY <1>1 DEF WithObject
<1>18. QED
  BY <1>5, <1>16, <1>17

\* The reservation is due: pump() goes on to read the package.
MayCall(s, p, c, e) ==
  LET t == s.object[e].task IN
  /\ p \in Calls /\ s.call[p] = Nil
  /\ c \in AsyncCalls /\ c.pc = "package" /\ c.task = t /\ c.entry = e /\ c.lease = Nil
  /\ ~s.object[e].pending /\ ~s.object[e].timer /\ Pending(s, t) /\ s.row[t].ready /\ ~s.archived[t]

\* It makes a call, the only one of the task.
LEMMA CallMade ==
  ASSUME NEW s, NEW t \in Tasks, NEW e \in Entries, NEW p \in Calls, NEW c, Typed(s),
         Scheduled(s, Nil, Nil), Placed(s, e, Nil), MayCancel(s, t, e), MayCall(s, p, c, e)
  PROVE  Core(WithCall(s, p, c)) /\ WithCall(s, p, c).waking = s.waking
<1>1. PICK r : r = WithCall(s, p, c)
  OBVIOUS
<1>2. /\ s.call \in [Calls -> AsyncCalls \cup {Nil}] /\ c \in AsyncCalls /\ c # Nil
      /\ s.entries \in [Tasks -> Entries \cup {Nil}] /\ e # Nil /\ p # Nil
      /\ \A o \in Entries : s.object[o] # Nil => s.object[o].task \in Tasks
  BY FieldTypes, ConstantFacts DEF MayCall, Objects
<1>3. [s.call EXCEPT ![p] = c] \in [Calls -> AsyncCalls \cup {Nil}]
  BY <1>2
<1>4. /\ Typed(r)
      /\ r.status = s.status /\ r.archived = s.archived /\ r.hasThread = s.hasThread
      /\ r.claim = s.claim /\ r.row = s.row /\ r.entries = s.entries /\ r.object = s.object
      /\ r.queue = s.queue /\ r.lease = s.lease
      /\ r.closed = s.closed /\ r.recovery = s.recovery
      /\ r.enabled = s.enabled /\ r.toWake = s.toWake /\ r.waking = s.waking
      /\ r.call = [s.call EXCEPT ![p] = c]
  <2>1. Typed(s) /\ r = [s EXCEPT !.call = [s.call EXCEPT ![p] = c]]
    BY <1>1 DEF WithCall
  <2>2. QED
    BY ONLY <1>3, <2>1, SMTT(30) DEF Typed, Fields
<1>5. /\ r.call[p] = c /\ \A q \in Calls : q # p => r.call[q] = s.call[q]
      /\ s.call[p] = Nil /\ \A q \in Calls : s.call[q] # Nil => q # p /\ r.call[q] = s.call[q]
  BY <1>2, <1>4 DEF MayCall
<1>6. /\ c.pc = "package" /\ c.task = t /\ c.entry = e /\ c.lease = Nil /\ ~s.object[e].pending
      /\ s.object[e].task = t /\ ~s.object[e].timer /\ Pending(s, t) /\ s.row[t].ready
      /\ ~s.archived[t] /\ s.object[e] # Nil
  BY DEF MayCall, MayCancel
<1>7. LeasesApart(r) /\ WithinLimit(r) /\ QueueWaits(r) /\ QueueMapped(r)
  BY <1>4 DEF Scheduled, LeasesApart, WithinLimit, Active, QueueWaits, QueueMapped
<1>8. LeasesMatch(r, Nil)
  <2>1. SUFFICES ASSUME NEW q \in Calls, r.call[q] # Nil
                 PROVE  Holds(r, q)
    BY <1>2, ConstantFacts DEF LeasesMatch
  <2>2. CASE q = p
    BY <1>5, <1>6, <2>2 DEF Holds
  <2>3. CASE q # p
    BY <1>4, <1>5, <2>1, <2>3, ConstantFacts DEF Scheduled, LeasesMatch, Holds
  <2>4. QED
    BY <2>2, <2>3
<1>9. LeasesOwned(r, Nil)
  <2>1. \A u \in Tasks : HeldBy(s, u) => HeldBy(r, u)
    BY <1>4, <1>5 DEF HeldBy
  <2>2. \A u : AwaitedBy(s, u) => AwaitedBy(r, u)
    BY <1>4, <1>5 DEF AwaitedBy, WaitsFor
  <2>3. QED
    BY <1>4, <2>1, <2>2 DEF Scheduled, LeasesOwned
<1>10. OneCall(r)
  <2>1. \A q \in Calls : q # p /\ r.call[q] # Nil => r.call[q].task # t
    BY <1>5 DEF MayCancel, Unattended
  <2>2. QED
    BY <1>5, <1>6, <2>1 DEF Placed, OneCall
<1>11. RunsPlaced(r, Nil)
  BY <1>4, <1>5, <1>6 DEF Placed, RunsPlaced
<1>12. LaunchesPlaced(r, Nil)
  <2>1. SUFFICES ASSUME NEW q \in Calls, q # Nil, Launch(r, q)
                 PROVE  /\ r.call[q].entry \in Entries /\ s.object[r.call[q].entry] # Nil
                        /\ s.object[r.call[q].entry].task = r.call[q].task
                        /\ s.object[r.call[q].entry].pending => r.call[q].pc = "lease"
                        /\ Pending(s, r.call[q].task) /\ s.row[r.call[q].task].ready
    BY <1>4 DEF LaunchesPlaced, Pending
  <2>2. CASE q = p
    BY <1>5, <1>6, <2>2
  <2>3. CASE q # p
    <3>1. r.call[q] = s.call[q] /\ Launch(s, q)
      BY <1>5, <2>1, <2>3 DEF Launch
    <3>2. QED
      BY <2>1, <3>1 DEF Placed, LaunchesPlaced
  <2>4. QED
    BY <2>2, <2>3
<1>13. LaunchesMapped(r, Nil)
  <2>1. SUFFICES ASSUME ~s.closed, NEW q \in Calls, q # Nil, Launch(r, q)
                 PROVE  /\ s.entries[r.call[q].task] = r.call[q].entry
                        /\ r.call[q].pc = "lease" /\ r.call[q].lease = Nil =>
                             s.object[r.call[q].entry].pending
    BY <1>4 DEF LaunchesMapped
  <2>2. CASE q = p
    BY <1>5, <1>6, <2>2 DEF MayCancel
  <2>3. CASE q # p
    <3>1. r.call[q] = s.call[q] /\ Launch(s, q)
      BY <1>5, <2>1, <2>3 DEF Launch
    <3>2. QED
      BY <2>1, <3>1 DEF Placed, LaunchesMapped
  <2>4. QED
    BY <2>2, <2>3
<1>14. FreshUnarchived(r)
  <2>1. SUFFICES ASSUME ~ArchiveMidway, NEW q \in Calls, r.call[q] # Nil, r.call[q].pc = "package"
                 PROVE  ~s.archived[r.call[q].task]
    BY <1>4 DEF FreshUnarchived
  <2>2. CASE q = p
    BY <1>5, <1>6, <2>2
  <2>3. CASE q # p
    BY <1>5, <2>1, <2>3 DEF Placed, FreshUnarchived
  <2>4. QED
    BY <2>2, <2>3
<1>15. RunsClaimed(r, Nil)
  BY <1>4, <1>5, <1>6 DEF Placed, RunsClaimed
<1>16. TimersIdle(r, Nil)
  <2>1. SUFFICES ASSUME NEW o \in Entries, s.object[o] # Nil, s.object[o].timer
                 PROVE  /\ \A q \in Calls : q # Nil /\ r.call[q] # Nil =>
                                              r.call[q].task # s.object[o].task
                        /\ s.entries[s.object[o].task] = o
    BY <1>4 DEF TimersIdle, MayCancel
  <2>2. /\ s.entries[s.object[o].task] = o
        /\ \A q \in Calls : q # Nil /\ s.call[q] # Nil => s.call[q].task # s.object[o].task
    BY <2>1 DEF Placed, TimersIdle, MayCancel
  <2>3. s.object[o].task # t
    BY <1>6, <2>1, <2>2 DEF MayCancel
  <2>4. QED
    BY <1>5, <1>6, <2>2, <2>3
<1>17. MapKept(r)
  BY <1>4 DEF Placed, MapKept
<1>18. \A o : WorkedOn(s, o) => WorkedOn(r, o)
  BY <1>5 DEF WorkedOn
<1>19. PendingHeld(r)
  BY <1>4, <1>18 DEF Placed, PendingHeld
<1>20. RecoveryLeft(r)
  BY <1>4 DEF Placed, RecoveryLeft, Pending
<1>21. RunningRows(r)
  BY <1>4, <1>5 DEF Placed, RunningRows
<1>22. WorkedOn(r, e)
  BY <1>2, <1>5, <1>6 DEF WorkedOn
<1>23. Alive(r, Nil)
  BY <1>2, <1>4, <1>18, <1>22 DEF Placed, Alive, Pending
<1>24. Core(r)
  BY <1>4, <1>7, <1>8, <1>9, <1>10, <1>11, <1>12, <1>13, <1>14, <1>15, <1>16, <1>17, <1>19, <1>20,
     <1>21, <1>23 DEF Core, Scheduled, Placed
<1>25. QED
  BY <1>1, <1>4, <1>24

\* A step that changes nothing: the entry being pumped has a call, or nothing to wait for.
LEMMA PumpedAlive ==
  ASSUME NEW s, NEW e \in Entries, Typed(s), Scheduled(s, Nil, Nil), Placed(s, e, Nil),
         \A t \in Tasks : ~ArchiveMidway /\ s.entries[t] = e /\ Pending(s, t) => WorkedOn(s, e)
  PROVE  Core(s)
<1>1. Alive(s, Nil)
  BY DEF Placed, Alive
<1>2. QED
  BY <1>1 DEF Placed, Core

\* pump() keeps the invariant, for an entry of the map no call works on.
LEMMA PumpKeeps ==
  ASSUME NEW s, NEW e \in Entries, Typed(s), Scheduled(s, Nil, Nil), Placed(s, e, Nil),
         Pumpable(s, e)
  PROVE  Core(Pump(s, e)) /\ Pump(s, e).waking = s.waking
<1>1. PICK t : t = s.object[e].task
  OBVIOUS
<1>2. s.object[e] \in Objects /\ t \in Tasks
  <2>1. s.object[e] # Nil /\ s.object \in [Entries -> Objects \cup {Nil}]
    BY FieldTypes DEF Pumpable
  <2>2. QED
    BY <1>1, <2>1 DEF Objects
<1>3. CASE s.closed \/ ~Pending(s, t)
  <2>1. Pump(s, e) = s
    BY <1>1, <1>3 DEF Pump
  <2>2. ASSUME NEW u \in Tasks, s.entries[u] = e, Pending(s, u)
        PROVE  FALSE
    <3>1. s.entries[u] # Nil
      BY <2>2, ConstantFacts
    <3>2. ~s.closed /\ s.object[e].task = u
      BY <2>2, <3>1 DEF Placed, MapKept
    <3>3. QED
      BY <1>1, <1>3, <2>2, <3>2
  <2>3. Core(s)
    BY <2>2, PumpedAlive
  <2>4. QED
    BY <2>1, <2>3
<1>4. CASE ~s.closed /\ Pending(s, t)
  <2>1. MayCancel(s, t, e)
    BY <1>1, <1>4 DEF MayCancel, Pumpable
  <2>2. CASE s.archived[t] \/ s.status[t] \notin Ready
    <3>1. Pump(s, e) = Cancel(s, t)
      BY <1>1, <1>4, <2>2 DEF Pump
    <3>2. QED
      BY <1>2, <2>1, <3>1, CancelKeeps
  <2>3. CASE ~(s.archived[t] \/ s.status[t] \notin Ready) /\ s.object[e].pending
    <3>1. Pump(s, e) = s
      BY <1>1, <1>4, <2>3 DEF Pump
    <3>2. ~ArchiveMidway => WorkedOn(s, e)
      BY <1>2, <2>1, <2>3, ConstantFacts DEF Placed, PendingHeld, MayCancel
    <3>3. Core(s)
      BY <3>2, PumpedAlive
    <3>4. QED
      BY <3>1, <3>3
  <2>4. CASE /\ ~(s.archived[t] \/ s.status[t] \notin Ready) /\ ~s.object[e].pending
             /\ ~s.row[t].ready
    <3>1. Pump(s, e) = [s EXCEPT !.object[e].timer = TRUE]
      BY <1>1, <1>4, <2>4 DEF Pump
    <3>2. QED
      BY <1>2, <2>1, <3>1, TimerSet
  <2>5. CASE /\ ~(s.archived[t] \/ s.status[t] \notin Ready) /\ ~s.object[e].pending
             /\ s.row[t].ready
    <3>1. PICK p, c : /\ p = FreshCall(s)
                      /\ c = [pc |-> "package", task |-> s.object[e].task, entry |-> e,
                              lease |-> Nil, background |-> FALSE, fresh |-> FALSE, seen |-> Nil]
      OBVIOUS
    <3>2. p \in Calls /\ s.call[p] = Nil
      <4>1. /\ {q \in Calls : s.call[q] = Nil} # {}
            /\ {q \in Calls : s.call[q] = Nil} \subseteq Nat
        BY ConstantFacts DEF Pumpable
      <4>2. p \in {q \in Calls : s.call[q] = Nil}
        BY <3>1, <4>1, MinExists DEF FreshCall
      <4>3. QED
        BY <4>2
    <3>3. /\ c \in AsyncCalls /\ c.pc = "package" /\ c.task = t /\ c.entry = e /\ c.lease = Nil
      BY <1>1, <1>2, <3>1 DEF AsyncCalls
    <3>4. MayCall(s, p, c, e)
      BY <1>1, <1>4, <2>5, <3>2, <3>3 DEF MayCall, Pumpable
    <3>5. Core(WithCall(s, p, c)) /\ WithCall(s, p, c).waking = s.waking
      BY <1>2, <2>1, <3>2, <3>4, CallMade
    <3>6. Pump(s, e) = NewCall(s, e)
      BY <1>1, <1>4, <2>5 DEF Pump
    <3>7. NewCall(s, e) = WithCall(s, p, c)
      BY <3>1 DEF NewCall, WithCall
    <3>8. QED
      BY <3>5, <3>6, <3>7
  <2>6. QED
    BY <2>2, <2>3, <2>4, <2>5
<1>5. QED
  BY <1>3, <1>4

-----------------------------------------------------------------------------
(* Timers and wake()                                                       *)

\* An entry's timer is cleared before it is pumped.
MayClear(s, e, m) ==
  /\ s.object[e] # Nil
  /\ m \in Objects /\ m.task = s.object[e].task /\ m.pending = s.object[e].pending /\ ~m.timer

LEMMA TimerCleared ==
  ASSUME NEW s, NEW r, NEW e \in Entries, NEW m, Core(s), MayClear(s, e, m),
         r = WithObject(s, e, m)
  PROVE  /\ Typed(r) /\ Scheduled(r, Nil, Nil) /\ Placed(r, e, Nil)
         /\ r.row = s.row /\ r.entries = s.entries /\ r.call = s.call
         /\ r.closed = s.closed /\ r.waking = s.waking
         /\ r.object[e] = m
<1>1. /\ s.object \in [Entries -> Objects \cup {Nil}]
      /\ s.entries \in [Tasks -> Entries \cup {Nil}] /\ Typed(s) /\ m \in Objects /\ m # Nil
      /\ Scheduled(s, Nil, Nil) /\ Placed(s, Nil, Nil)
  BY FieldTypes, ConstantFacts DEF MayClear, Core
<1>2. [s.object EXCEPT ![e] = m] \in [Entries -> Objects \cup {Nil}]
  BY <1>1
<1>3. /\ Typed(r)
      /\ r.status = s.status /\ r.archived = s.archived /\ r.hasThread = s.hasThread
      /\ r.claim = s.claim /\ r.row = s.row /\ r.entries = s.entries /\ r.call = s.call
      /\ r.queue = s.queue /\ r.lease = s.lease
      /\ r.closed = s.closed /\ r.recovery = s.recovery
      /\ r.enabled = s.enabled /\ r.toWake = s.toWake /\ r.waking = s.waking
      /\ r.object = [s.object EXCEPT ![e] = m]
  <2>1. Typed(s) /\ r = [s EXCEPT !.object = [s.object EXCEPT ![e] = m]]
    BY <1>1 DEF WithObject
  <2>2. QED
    BY ONLY <1>2, <2>1, SMTT(30) DEF Typed, Fields
<1>4. /\ r.object[e] = m /\ \A o \in Entries : o # e => r.object[o] = s.object[o]
      /\ \A o \in Entries : r.object[o] = Nil <=> s.object[o] = Nil
      /\ \A o \in Entries : s.object[o] # Nil => /\ r.object[o].task = s.object[o].task
                                                 /\ r.object[o].pending = s.object[o].pending
                                                 /\ r.object[o].timer => s.object[o].timer
  BY <1>1, <1>3 DEF MayClear
<1>5. Scheduled(r, Nil, Nil)
  <2>1. /\ Scheduled(s, Nil, Nil)
        /\ r.queue = s.queue /\ r.lease = s.lease /\ r.closed = s.closed /\ r.call = s.call
        /\ \A i \in 1..Len(s.queue) : s.entries[s.queue[i]] # Nil => r.entries[s.queue[i]] # Nil
    BY <1>1, <1>3
  <2>2. QED
    BY ONLY <2>1, ScheduledSame
<1>6. OneCall(r) /\ FreshUnarchived(r) /\ RunsClaimed(r, Nil) /\ RunningRows(r) /\ RunsPlaced(r, Nil)
  BY <1>1, <1>3 DEF Placed, OneCall, FreshUnarchived, RunsClaimed, RunningRows, RunsPlaced
<1>7. LaunchesPlaced(r, Nil)
  <2>1. SUFFICES ASSUME NEW q \in Calls, q # Nil, Launch(s, q)
                 PROVE  /\ s.call[q].entry \in Entries /\ r.object[s.call[q].entry] # Nil
                        /\ r.object[s.call[q].entry].task = s.call[q].task
                        /\ r.object[s.call[q].entry].pending => s.call[q].pc = "lease"
                        /\ Pending(s, s.call[q].task) /\ s.row[s.call[q].task].ready
    BY <1>3 DEF LaunchesPlaced, Launch, Pending
  <2>2. QED
    BY <1>1, <1>4, <2>1 DEF Placed, LaunchesPlaced
<1>8. LaunchesMapped(r, Nil)
  <2>1. SUFFICES ASSUME ~s.closed, NEW q \in Calls, q # Nil, Launch(s, q)
                 PROVE  /\ s.entries[s.call[q].task] = s.call[q].entry
                        /\ s.call[q].pc = "lease" /\ s.call[q].lease = Nil =>
                             r.object[s.call[q].entry].pending
    BY <1>3 DEF LaunchesMapped, Launch
  <2>2. s.call[q].entry \in Entries /\ s.object[s.call[q].entry] # Nil
    BY <1>1, <2>1 DEF Placed, LaunchesPlaced
  <2>3. QED
    BY <1>1, <1>4, <2>1, <2>2 DEF Placed, LaunchesMapped
<1>9. TimersIdle(r, Nil)
  <2>1. SUFFICES ASSUME NEW o \in Entries, r.object[o] # Nil, r.object[o].timer
                 PROVE  /\ \A p \in Calls : p # Nil /\ s.call[p] # Nil =>
                                              s.call[p].task # r.object[o].task
                        /\ ~s.closed => s.entries[r.object[o].task] = o
    BY <1>3 DEF TimersIdle
  <2>2. /\ s.object[o] # Nil /\ s.object[o].timer /\ r.object[o].task = s.object[o].task
    BY <1>4, <2>1
  <2>3. QED
    BY <1>1, <2>2 DEF Placed, TimersIdle
<1>10. MapKept(r)
  BY <1>1, <1>3, <1>4 DEF Placed, MapKept
<1>11. PendingHeld(r)
  BY <1>1, <1>3, <1>4 DEF Placed, PendingHeld, WorkedOn, MapKept
<1>12. RecoveryLeft(r)
  BY <1>1, <1>3 DEF Placed, RecoveryLeft, Pending
<1>13. Alive(r, e)
  <2>1. SUFFICES ASSUME ~ArchiveMidway, NEW u \in Tasks, s.entries[u] # Nil, s.entries[u] # e,
                        Pending(s, u)
                 PROVE  \/ r.object[s.entries[u]].timer
                        \/ WorkedOn(s, s.entries[u])
                        \/ u \in s.toWake \/ s.entries[u] \in s.waking
                        \/ ~s.enabled
    BY <1>3 DEF Alive, WorkedOn, Pending
  <2>2. r.object[s.entries[u]] = s.object[s.entries[u]]
    BY <1>1, <1>4, <2>1
  <2>3. QED
    BY <1>1, <2>1, <2>2 DEF Placed, Alive
<1>14. QED
  BY <1>3, <1>4, <1>5, <1>6, <1>7, <1>8, <1>9, <1>10, <1>11, <1>12, <1>13 DEF Placed

LEMMA TimerFiresKeeps ==
  ASSUME Core(Now), Now.waking = {}, NEW e \in Entries, TimerFires(e)
  PROVE  IndInv(Now')
<1>1. PICK s, m, r : /\ s = Now /\ m = [s.object[e] EXCEPT !.timer = FALSE]
                     /\ r = WithObject(s, e, m)
  OBVIOUS
<1>2. /\ Core(s) /\ s.waking = {} /\ s.object[e] # Nil /\ s.object[e].timer
      /\ \E p \in Calls : s.call[p] = Nil
  BY <1>1, NowIs DEF TimerFires, FreeCall
<1>3. s.object[e] \in Objects
  BY <1>2, FieldTypes DEF Core
<1>4. MayClear(s, e, m)
  BY <1>1, <1>2, <1>3 DEF MayClear, Objects
<1>5. /\ Typed(r) /\ Scheduled(r, Nil, Nil) /\ Placed(r, e, Nil)
      /\ r.row = s.row /\ r.entries = s.entries /\ r.call = s.call
      /\ r.closed = s.closed /\ r.waking = s.waking /\ r.object[e] = m
  <2>1. r = WithObject(s, e, m)
    BY <1>1
  <2>2. QED
    BY ONLY <1>2, <1>4, <2>1, TimerCleared
<1>6. /\ \A p \in Calls : s.call[p] # Nil => s.call[p].task # s.object[e].task
      /\ ~s.closed => s.entries[s.object[e].task] = e
  BY <1>2, ConstantFacts DEF Core, Placed, TimersIdle
<1>7. Pumpable(r, e)
  <2>1. m.task = s.object[e].task /\ m # Nil /\ ~m.timer
    BY <1>4, ConstantFacts DEF MayClear
  <2>2. QED
    BY <1>2, <1>5, <1>6, <2>1 DEF Pumpable, Unattended
<1>8. Core(Pump(r, e)) /\ Pump(r, e).waking = {}
  BY <1>2, <1>5, <1>7, PumpKeeps
<1>9. Become(Pump(r, e))
  <2>1. r = [s EXCEPT !.object[e].timer = FALSE]
    BY <1>1 DEF WithObject
  <2>2. QED
    BY <1>1, <2>1 DEF TimerFires
<1>10. QED
  BY <1>8, <1>9, BecomeKeeps

LEMMA WakePumpKeeps ==
  ASSUME IndInv(Now), NEW e \in Entries, WakePump(e)
  PROVE  IndInv(Now') /\ waking' = {}
<1>1. PICK s, r : s = Now /\ r = Woken(s, s.enabled, s.toWake, {})
  OBVIOUS
<1>2. /\ Core(s) /\ Typed(s) /\ e \in s.waking /\ s.object = object
      /\ \E p \in Calls : s.call[p] = Nil
  BY <1>1, NowIs DEF IndInv, Core, WakePump, FreeCall
<1>3. /\ s.waking = {e} /\ ~s.closed /\ s.object[e] # Nil /\ ~s.object[e].timer
      /\ s.entries[s.object[e].task] = e
      /\ \A p \in Calls : Launch(s, p) => s.call[p].pc = "lease" /\ s.call[p].lease = Nil
  BY <1>1, <1>2 DEF IndInv, WakingQuiet
<1>4. /\ s.enabled \in BOOLEAN /\ s.toWake \in SUBSET Tasks /\ {} \in SUBSET Entries
      /\ s.entries \in [Tasks -> Entries \cup {Nil}] /\ s.object[e].task \in Tasks
      /\ s.call \in [Calls -> AsyncCalls \cup {Nil}]
  <2>1. s.object \in [Entries -> Objects \cup {Nil}]
    BY <1>2, FieldTypes
  <2>2. s.object[e].task \in Tasks
    BY <1>3, <2>1 DEF Objects
  <2>3. QED
    BY <1>2, <2>2, FieldTypes
<1>5. /\ r.entries = s.entries /\ r.toWake = s.toWake /\ r.waking = {} /\ r.row = s.row
      /\ r.object = s.object /\ r.call = s.call /\ r.enabled = s.enabled
  <2>1. r = Woken(s, s.enabled, s.toWake, {})
    BY <1>1
  <2>2. QED
    BY ONLY <1>2, <1>4, <2>1, SMTT(30) DEF Typed, Fields, Woken
<1>6. Alive(r, e)
  BY <1>2, <1>3, <1>5 DEF Core, Placed, Alive, WorkedOn, Pending
<1>7. /\ Typed(r) /\ Scheduled(r, Nil, Nil) /\ Placed(r, e, Nil) /\ r.closed = s.closed
  <2>1. r = Woken(s, s.enabled, s.toWake, {})
    BY <1>1
  <2>2. QED
    BY ONLY <1>2, <1>4, <1>6, <2>1, WokenIs
<1>8. r = [Now EXCEPT !.waking = @ \ {e}]
  <2>1. waking \ {e} = {} /\ s.enabled = enabled /\ s.toWake = toWake
    BY <1>1, <1>3, NowIs
  <2>2. QED
    BY <1>1, <2>1, NowIs DEF Woken, Now
<1>9. CASE s.object[e].pending
  <2>1. Become(r)
    BY <1>2, <1>8, <1>9 DEF WakePump
  <2>2. \A t \in Tasks : ~ArchiveMidway /\ r.entries[t] = e /\ Pending(r, t) => WorkedOn(r, e)
    BY <1>2, <1>5, <1>9, ConstantFacts DEF Core, Placed, PendingHeld, WorkedOn
  <2>3. Core(r)
    BY <1>7, <2>2, PumpedAlive
  <2>4. IndInv(Now')
    BY <1>5, <2>1, <2>3, BecomeKeeps
  <2>5. waking' = r.waking
    BY <2>1 DEF Become
  <2>6. QED
    BY <1>5, <2>4, <2>5
<1>10. CASE ~s.object[e].pending
  <2>1. Become(Pump(r, e))
    BY <1>2, <1>8, <1>10 DEF WakePump
  <2>2. ASSUME Pending(s, s.object[e].task)
        PROVE  Unattended(s, s.object[e].task)
    <3>1. SUFFICES ASSUME NEW p \in Calls, s.call[p] # Nil, s.call[p].task = s.object[e].task
                   PROVE  FALSE
      BY DEF Unattended
    <3>2. p # Nil
      BY ConstantFacts
    <3>3. CASE s.call[p].pc = "run"
      BY <1>2, <2>2, <3>1, <3>2, <3>3 DEF Core, Placed, RunsPlaced, Pending
    <3>4. CASE s.call[p].pc # "run"
      <4>1. Launch(s, p)
        BY <3>1, <3>4 DEF Launch
      <4>2. /\ s.entries[s.call[p].task] = s.call[p].entry
            /\ s.call[p].pc = "lease" /\ s.call[p].lease = Nil => s.object[s.call[p].entry].pending
        BY <1>2, <1>3, <3>2, <4>1 DEF Core, Placed, LaunchesMapped
      <4>3. QED
        BY <1>3, <1>10, <3>1, <4>1, <4>2
    <3>5. QED
      BY <3>3, <3>4
  <2>3. Pumpable(r, e)
    BY <1>2, <1>3, <1>5, <2>2 DEF Pumpable, Unattended, Pending
  <2>4. Core(Pump(r, e)) /\ Pump(r, e).waking = {}
    BY <1>5, <1>7, <2>3, PumpKeeps
  <2>5. IndInv(Now')
    BY <2>1, <2>4, BecomeKeeps
  <2>6. waking' = Pump(r, e).waking
    BY <2>1 DEF Become
  <2>7. QED
    BY <2>4, <2>5, <2>6
<1>11. QED
  BY <1>9, <1>10

-----------------------------------------------------------------------------
(* schedule()                                                              *)

\* A reservation is made for a task that has none.
WithRow(s, t, m) == [s EXCEPT !.row = [s.row EXCEPT ![t] = m]]

LEMMA RowMade ==
  ASSUME NEW s, NEW r, NEW t \in Tasks, NEW m \in Rows, Core(s), Unattended(s, t), s.entries[t] = Nil,
         m.state = "delayed", r = WithRow(s, t, m)
  PROVE  /\ Core(r)
         /\ r.entries = s.entries /\ r.call = s.call /\ r.object = s.object
         /\ r.closed = s.closed /\ r.waking = s.waking /\ r.recovery = s.recovery
         /\ r.row[t] = m
<1>1. /\ s.row \in [Tasks -> Rows \cup {Nil}] /\ s.recovery.left \subseteq Tasks
      /\ Typed(s) /\ Scheduled(s, Nil, Nil) /\ Placed(s, Nil, Nil) /\ m # Nil
      /\ \A q \in Calls : s.call[q] # Nil => s.call[q].task \in Tasks
  BY FieldTypes, ConstantFacts DEF AsyncCalls, Core
<1>2. [s.row EXCEPT ![t] = m] \in [Tasks -> Rows \cup {Nil}]
  BY <1>1
<1>3. /\ Typed(r)
      /\ r.status = s.status /\ r.archived = s.archived /\ r.hasThread = s.hasThread
      /\ r.claim = s.claim /\ r.entries = s.entries /\ r.object = s.object /\ r.call = s.call
      /\ r.queue = s.queue /\ r.lease = s.lease
      /\ r.closed = s.closed /\ r.recovery = s.recovery
      /\ r.enabled = s.enabled /\ r.toWake = s.toWake /\ r.waking = s.waking
      /\ r.row = [s.row EXCEPT ![t] = m]
  <2>1. r = [s EXCEPT !.row = [s.row EXCEPT ![t] = m]]
    BY DEF WithRow
  <2>2. QED
    BY ONLY <1>1, <1>2, <2>1, SMTT(30) DEF Typed, Fields
<1>4. /\ r.row[t] = m /\ Pending(r, t)
      /\ \A u \in Tasks : u # t => r.row[u] = s.row[u] /\ (Pending(r, u) <=> Pending(s, u))
  BY <1>1, <1>3 DEF Pending
<1>5. Scheduled(r, Nil, Nil)
  <2>1. /\ Scheduled(s, Nil, Nil)
        /\ r.queue = s.queue /\ r.lease = s.lease /\ r.closed = s.closed /\ r.call = s.call
        /\ \A i \in 1..Len(s.queue) : s.entries[s.queue[i]] # Nil => r.entries[s.queue[i]] # Nil
    BY <1>1, <1>3
  <2>2. QED
    BY ONLY <2>1, ScheduledSame
<1>6. OneCall(r) /\ FreshUnarchived(r) /\ RunsClaimed(r, Nil)
  BY <1>1, <1>3 DEF Placed, OneCall, FreshUnarchived, RunsClaimed
<1>7. LaunchesMapped(r, Nil)
  BY <1>1, <1>3 DEF Placed, LaunchesMapped, Launch
<1>8. RunsPlaced(r, Nil)
  BY <1>1, <1>3, <1>4 DEF Placed, RunsPlaced, Unattended
<1>9. LaunchesPlaced(r, Nil)
  <2>1. SUFFICES ASSUME NEW q \in Calls, q # Nil, Launch(s, q)
                 PROVE  /\ s.call[q].entry \in Entries /\ s.object[s.call[q].entry] # Nil
                        /\ s.object[s.call[q].entry].task = s.call[q].task
                        /\ s.object[s.call[q].entry].pending => s.call[q].pc = "lease"
                        /\ Pending(r, s.call[q].task) /\ r.row[s.call[q].task].ready
    BY <1>3 DEF LaunchesPlaced, Launch
  <2>2. s.call[q].task \in Tasks /\ s.call[q].task # t
    BY <1>1, <2>1 DEF Launch, Unattended
  <2>3. QED
    BY <1>1, <1>4, <2>1, <2>2 DEF Placed, LaunchesPlaced
<1>10. TimersIdle(r, Nil) /\ MapKept(r) /\ PendingHeld(r)
  BY <1>1, <1>3 DEF Placed, TimersIdle, MapKept, PendingHeld, WorkedOn
<1>11. RecoveryLeft(r)
  BY <1>1, <1>3, <1>4 DEF Placed, RecoveryLeft
<1>12. RunningRows(r)
  BY <1>1, <1>3, <1>4 DEF Placed, RunningRows
<1>13. Alive(r, Nil)
  BY <1>1, <1>3, <1>4 DEF Placed, Alive, WorkedOn
<1>14. QED
  BY <1>3, <1>4, <1>5, <1>6, <1>7, <1>8, <1>9, <1>10, <1>11, <1>12, <1>13 DEF Core, Placed

\* A new entry for a task without one.
WithEntry(s, t, n, m) ==
  [s EXCEPT !.entries = [s.entries EXCEPT ![t] = n], !.object = [s.object EXCEPT ![n] = m]]

MayEnter(s, t, n, m) ==
  /\ ~s.closed /\ s.entries[t] = Nil /\ Unattended(s, t) /\ t \notin s.recovery.left
  /\ n \in Entries /\ ~Referenced(s, n) /\ \E p \in Calls : s.call[p] = Nil
  /\ m \in Objects /\ m.task = t /\ ~m.timer /\ ~m.pending

LEMMA EntryMade ==
  ASSUME NEW s, NEW r, NEW t \in Tasks, NEW n \in Entries, NEW m, Core(s), MayEnter(s, t, n, m),
         r = WithEntry(s, t, n, m)
  PROVE  /\ Typed(r) /\ Scheduled(r, Nil, Nil) /\ Placed(r, n, Nil) /\ Pumpable(r, n)
         /\ r.waking = s.waking
<1>1. /\ s.object \in [Entries -> Objects \cup {Nil}] /\ s.recovery.left \subseteq Tasks
      /\ s.entries \in [Tasks -> Entries \cup {Nil}] /\ Typed(s) /\ m # Nil /\ n # Nil
      /\ Scheduled(s, Nil, Nil) /\ Placed(s, Nil, Nil) /\ Nil \notin Calls
      /\ \A q \in Calls : s.call[q] # Nil => s.call[q].task \in Tasks
      /\ \A o \in Entries : s.object[o] # Nil => s.object[o].task \in Tasks
  BY FieldTypes, ConstantFacts DEF AsyncCalls, Objects, Core, MayEnter
<1>2. /\ ~s.closed /\ s.entries[t] = Nil /\ Unattended(s, t) /\ t \notin s.recovery.left
      /\ m \in Objects /\ m.task = t /\ ~m.timer /\ ~m.pending
      /\ \A u \in Tasks : s.entries[u] # n
      /\ \A p \in Calls : s.call[p] # Nil => s.call[p].entry # n
  BY DEF MayEnter, Referenced
<1>3. /\ [s.object EXCEPT ![n] = m] \in [Entries -> Objects \cup {Nil}]
      /\ [s.entries EXCEPT ![t] = n] \in [Tasks -> Entries \cup {Nil}]
  BY <1>1, <1>2
<1>4. /\ Typed(r)
      /\ r.status = s.status /\ r.archived = s.archived /\ r.hasThread = s.hasThread
      /\ r.claim = s.claim /\ r.row = s.row /\ r.call = s.call
      /\ r.queue = s.queue /\ r.lease = s.lease
      /\ r.closed = s.closed /\ r.recovery = s.recovery
      /\ r.enabled = s.enabled /\ r.toWake = s.toWake /\ r.waking = s.waking
      /\ r.entries = [s.entries EXCEPT ![t] = n]
      /\ r.object = [s.object EXCEPT ![n] = m]
  <2>1. r = [s EXCEPT !.entries = [s.entries EXCEPT ![t] = n],
                      !.object = [s.object EXCEPT ![n] = m]]
    BY DEF WithEntry
  <2>2. QED
    BY ONLY <1>1, <1>3, <2>1, SMTT(30) DEF Typed, Fields
<1>5. /\ r.object[n] = m /\ \A o \in Entries : o # n => r.object[o] = s.object[o]
      /\ r.entries[t] = n /\ \A u \in Tasks : u # t => r.entries[u] = s.entries[u]
  BY <1>1, <1>4
<1>6. Scheduled(r, Nil, Nil)
  <2>1. \A i \in 1..Len(s.queue) : s.queue[i] \in Tasks
    BY <1>1, FieldTypes, ElementOfSeq
  <2>2. /\ Scheduled(s, Nil, Nil)
        /\ r.queue = s.queue /\ r.lease = s.lease /\ r.closed = s.closed /\ r.call = s.call
        /\ \A i \in 1..Len(s.queue) : s.entries[s.queue[i]] # Nil => r.entries[s.queue[i]] # Nil
    BY <1>1, <1>2, <1>4, <1>5, <2>1
  <2>3. QED
    BY ONLY <2>2, ScheduledSame
<1>7. OneCall(r) /\ FreshUnarchived(r) /\ RunsClaimed(r, Nil) /\ RunningRows(r)
  BY <1>1, <1>4 DEF Placed, OneCall, FreshUnarchived, RunsClaimed, RunningRows
<1>8. RunsPlaced(r, Nil)
  BY <1>1, <1>2, <1>4, <1>5 DEF Placed, RunsPlaced, Unattended
<1>9. LaunchesPlaced(r, Nil)
  <2>1. SUFFICES ASSUME NEW q \in Calls, q # Nil, Launch(s, q)
                 PROVE  /\ s.call[q].entry \in Entries /\ r.object[s.call[q].entry] # Nil
                        /\ r.object[s.call[q].entry].task = s.call[q].task
                        /\ r.object[s.call[q].entry].pending => s.call[q].pc = "lease"
                        /\ Pending(s, s.call[q].task) /\ s.row[s.call[q].task].ready
    BY <1>4 DEF LaunchesPlaced, Launch, Pending
  <2>2. s.call[q].entry # n
    BY <1>2, <2>1 DEF Launch
  <2>3. QED
    BY <1>1, <1>5, <2>1, <2>2 DEF Placed, LaunchesPlaced
<1>10. LaunchesMapped(r, Nil)
  <2>1. SUFFICES ASSUME NEW q \in Calls, q # Nil, Launch(s, q)
                 PROVE  /\ r.entries[s.call[q].task] = s.call[q].entry
                        /\ s.call[q].pc = "lease" /\ s.call[q].lease = Nil =>
                             r.object[s.call[q].entry].pending
    BY <1>4 DEF LaunchesMapped, Launch
  <2>2. /\ s.call[q].entry # n /\ s.call[q].task # t /\ s.call[q].task \in Tasks
        /\ s.call[q].entry \in Entries
    BY <1>1, <1>2, <2>1 DEF Launch, Unattended, Placed, LaunchesPlaced
  <2>3. QED
    BY <1>1, <1>2, <1>5, <2>1, <2>2 DEF Placed, LaunchesMapped
<1>11. TimersIdle(r, Nil)
  <2>1. SUFFICES ASSUME NEW o \in Entries, r.object[o] # Nil, r.object[o].timer
                 PROVE  /\ \A p \in Calls : p # Nil /\ s.call[p] # Nil =>
                                              s.call[p].task # r.object[o].task
                        /\ r.entries[r.object[o].task] = o
    BY <1>4 DEF TimersIdle
  <2>2. o # n /\ r.object[o] = s.object[o]
    BY <1>2, <1>5, <2>1
  <2>3. /\ \A p \in Calls : p # Nil /\ s.call[p] # Nil => s.call[p].task # s.object[o].task
        /\ s.entries[s.object[o].task] = o
    BY <1>1, <1>2, <2>1, <2>2 DEF Placed, TimersIdle
  <2>4. s.object[o].task # t /\ s.object[o].task \in Tasks
    BY <1>1, <1>2, <2>1, <2>2, <2>3, ConstantFacts
  <2>5. QED
    BY <1>5, <2>2, <2>3, <2>4
<1>12. MapKept(r)
  BY <1>1, <1>2, <1>4, <1>5 DEF Placed, MapKept
<1>13. PendingHeld(r)
  BY <1>1, <1>2, <1>4, <1>5 DEF Placed, PendingHeld, WorkedOn, MapKept
<1>14. RecoveryLeft(r)
  BY <1>1, <1>2, <1>4, <1>5 DEF Placed, RecoveryLeft, Pending
<1>15. Alive(r, n)
  <2>1. SUFFICES ASSUME ~ArchiveMidway, NEW u \in Tasks, r.entries[u] # Nil, r.entries[u] # n,
                        Pending(s, u)
                 PROVE  \/ r.object[r.entries[u]].timer
                        \/ WorkedOn(s, r.entries[u])
                        \/ u \in s.toWake \/ r.entries[u] \in s.waking
                        \/ ~s.enabled
    BY <1>4 DEF Alive, WorkedOn, Pending
  <2>2. u # t /\ r.entries[u] = s.entries[u] /\ s.entries[u] \in Entries
    BY <1>1, <1>5, <2>1
  <2>3. r.object[s.entries[u]] = s.object[s.entries[u]]
    BY <1>2, <1>5, <2>2
  <2>4. QED
    BY <1>1, <2>1, <2>2, <2>3 DEF Placed, Alive
<1>16. Pumpable(r, n)
  BY <1>1, <1>2, <1>4, <1>5 DEF Pumpable, Unattended, MayEnter
<1>17. QED
  BY <1>4, <1>6, <1>7, <1>8, <1>9, <1>10, <1>11, <1>12, <1>13, <1>14, <1>15, <1>16 DEF Placed

HasRoom(s) == (\E p \in Calls : s.call[p] = Nil) /\ \E x \in Entries : ~Referenced(s, x)

LEMMA FreeEntryIs ==
  ASSUME NEW s, HasRoom(s)
  PROVE  FreshEntry(s) \in Entries /\ ~Referenced(s, FreshEntry(s))
<1>1. /\ {x \in Entries : ~Referenced(s, x)} # {}
      /\ {x \in Entries : ~Referenced(s, x)} \subseteq Nat
  BY ConstantFacts DEF HasRoom
<1>2. FreshEntry(s) \in {x \in Entries : ~Referenced(s, x)}
  BY <1>1, MinExists DEF FreshEntry
<1>3. QED
  BY <1>2

\* A pending reservation in the map, not due yet, has no call.
LEMMA NotDue ==
  ASSUME NEW s, Core(s), NEW t \in Tasks, Pending(s, t), ~s.row[t].ready
  PROVE  Unattended(s, t)
<1>1. SUFFICES ASSUME NEW p \in Calls, s.call[p] # Nil, s.call[p].task = t
               PROVE  FALSE
  BY DEF Unattended
<1>2. p # Nil
  BY ConstantFacts
<1>3. CASE s.call[p].pc = "run"
  BY <1>1, <1>2, <1>3 DEF Core, Placed, RunsPlaced, Pending
<1>4. CASE s.call[p].pc # "run"
  BY <1>1, <1>2, <1>4 DEF Core, Placed, LaunchesPlaced, Launch
<1>5. QED
  BY <1>3, <1>4

\* Neither has a task that has no entry, before the shutdown, and no running row.
LEMMA NotMapped ==
  ASSUME NEW s, Core(s), NEW t \in Tasks, ~s.closed, s.entries[t] = Nil,
         s.row[t] = Nil \/ Pending(s, t)
  PROVE  Unattended(s, t)
<1>1. SUFFICES ASSUME NEW p \in Calls, s.call[p] # Nil, s.call[p].task = t
               PROVE  FALSE
  BY DEF Unattended
<1>2. p # Nil
  BY ConstantFacts
<1>3. CASE s.call[p].pc = "run"
  BY <1>1, <1>2, <1>3 DEF Core, Placed, RunsPlaced, Pending
<1>4. CASE s.call[p].pc # "run"
  <2>1. s.call[p].entry \in Entries /\ s.entries[t] = s.call[p].entry
    BY <1>1, <1>2, <1>4 DEF Core, Placed, LaunchesPlaced, LaunchesMapped, Launch
  <2>2. QED
    BY <2>1, ConstantFacts
<1>5. QED
  BY <1>3, <1>4

\* schedule() keeps the invariant, where there is room.
LEMMA ScheduleKeeps ==
  ASSUME NEW s, Core(s), ~s.closed, NEW t \in Tasks, NEW trig \in AllTriggers, HasRoom(s)
  PROVE  Core(Schedule(s, t, trig)) /\ Schedule(s, t, trig).waking = s.waking
<1>1. PICK e, n : e = s.entries[t] /\ n = FreshEntry(s)
  OBVIOUS
<1>2. /\ Typed(s) /\ s.entries \in [Tasks -> Entries \cup {Nil}]
      /\ s.object \in [Entries -> Objects \cup {Nil}]
      /\ s.row \in [Tasks -> Rows \cup {Nil}]
      /\ n \in Entries /\ ~Referenced(s, n) /\ \E p \in Calls : s.call[p] = Nil
  BY <1>1, FieldTypes, FreeEntryIs DEF Core, HasRoom
<1>3. CASE e # Nil
  <2>1. e \in Entries /\ s.object[e] # Nil /\ s.object[e].task = t /\ s.object[e] \in Objects
    BY <1>1, <1>2, <1>3 DEF Core, Placed, MapKept
  <2>2. CASE \/ s.object[e].trigger = trig
             \/ s.object[e].launching
             \/ ~Pending(s, t)
             \/ s.row[t].state = "queued"
             \/ s.row[t].ready
    <3>1. Schedule(s, t, trig) = s
      BY <1>1, <1>3, <2>2 DEF Schedule
    <3>2. QED
      BY <3>1
  <2>3. CASE ~(\/ s.object[e].trigger = trig
               \/ s.object[e].launching
               \/ ~Pending(s, t)
               \/ s.row[t].state = "queued"
               \/ s.row[t].ready)
    <3>1. PICK k, m, r :
            /\ k = [s EXCEPT !.row = [s.row EXCEPT ![t] = [s.row[t] EXCEPT !.ready = TRUE]]]
            /\ m = [s.object[e] EXCEPT !.trigger = trig, !.timer = FALSE]
            /\ r = WithObject(k, e, m)
      OBVIOUS
    <3>2. s.row[t] # Nil /\ Unattended(s, t)
      BY <2>3, NotDue DEF Pending
    <3>3. /\ Core(k) /\ k.entries = s.entries
          /\ k.object = s.object /\ k.call = s.call /\ k.closed = s.closed /\ k.waking = s.waking
      BY <3>1, <3>2, ReadyKeeps
    <3>4. /\ m \in Objects /\ m # Nil /\ m.task = t /\ m.pending = s.object[e].pending /\ ~m.timer
      BY <2>1, <3>1, ConstantFacts DEF Objects
    <3>5. MayClear(k, e, m)
      BY <2>1, <3>3, <3>4 DEF MayClear
    <3>6. /\ Typed(r) /\ Scheduled(r, Nil, Nil) /\ Placed(r, e, Nil)
          /\ r.row = k.row /\ r.entries = k.entries /\ r.call = k.call
          /\ r.closed = k.closed /\ r.waking = k.waking /\ r.object[e] = m
      <4>1. r = WithObject(k, e, m)
        BY <3>1
      <4>2. QED
        BY ONLY <2>1, <3>3, <3>5, <4>1, TimerCleared
    <3>7. Pumpable(r, e)
      BY <1>1, <1>2, <2>1, <3>2, <3>3, <3>4, <3>6 DEF Pumpable, Unattended
    <3>8. Core(Pump(r, e)) /\ Pump(r, e).waking = s.waking
      BY <2>1, <3>3, <3>6, <3>7, PumpKeeps
    <3>9. r = [s EXCEPT !.row[t].ready = TRUE, !.object[e].trigger = trig,
                        !.object[e].timer = FALSE]
      BY <1>2, <2>1, <3>1, <3>3 DEF WithObject
    <3>10. Schedule(s, t, trig) = Pump(r, e)
      BY <1>1, <1>3, <2>3, <3>9 DEF Schedule
    <3>11. QED
      BY <3>8, <3>10
  <2>4. QED
    BY <2>2, <2>3
<1>4. CASE e = Nil /\ s.row[t] # Nil
  <2>1. Schedule(s, t, trig) = s
    BY <1>1, <1>4 DEF Schedule
  <2>2. QED
    BY <2>1
<1>5. CASE e = Nil /\ s.row[t] = Nil
  <2>1. PICK rw, k, m, r :
          /\ rw = [state |-> "delayed", ready |-> (trig # "automatic"), trigger |-> trig]
          /\ k = WithRow(s, t, rw)
          /\ m = [task |-> t, trigger |-> trig, timer |-> FALSE,
                  pending |-> FALSE, launching |-> FALSE, retries |-> 0]
          /\ r = WithEntry(k, t, n, m)
    OBVIOUS
  <2>2. Unattended(s, t)
    BY <1>1, <1>5, NotMapped
  <2>3. rw \in Rows /\ rw.state = "delayed"
    BY <2>1 DEF Rows
  <2>4. /\ m \in Objects /\ m.task = t /\ ~m.timer /\ ~m.pending
    BY <2>1, CoordinatorAssumption DEF Objects
  <2>5. /\ Core(k)
        /\ k.entries = s.entries /\ k.call = s.call /\ k.object = s.object
        /\ k.closed = s.closed /\ k.waking = s.waking /\ k.recovery = s.recovery
    <3>1. k = WithRow(s, t, rw) /\ s.entries[t] = Nil /\ Core(s) /\ t \in Tasks
      BY <1>1, <1>5, <2>1
    <3>2. QED
      BY ONLY <2>2, <2>3, <3>1, RowMade
  <2>6. t \notin s.recovery.left
    BY <1>5 DEF Core, Placed, RecoveryLeft, Pending
  <2>7. MayEnter(k, t, n, m)
    BY <1>1, <1>2, <1>5, <2>2, <2>4, <2>5, <2>6 DEF MayEnter, Referenced, Unattended
  <2>8. /\ Typed(r) /\ Scheduled(r, Nil, Nil) /\ Placed(r, n, Nil) /\ Pumpable(r, n)
        /\ r.waking = k.waking
    <3>1. r = WithEntry(k, t, n, m) /\ t \in Tasks
      BY <2>1
    <3>2. QED
      BY ONLY <1>2, <2>5, <2>7, <3>1, EntryMade
  <2>9. Core(Pump(r, n)) /\ Pump(r, n).waking = s.waking
    BY <1>2, <2>5, <2>8, PumpKeeps
  <2>10. r = [s EXCEPT !.row[t] = [state |-> "delayed", ready |-> (trig # "automatic"), trigger |-> trig],
                       !.entries[t] = n,
                       !.object[n] = [task |-> t, trigger |-> trig, timer |-> FALSE,
                                      pending |-> FALSE, launching |-> FALSE, retries |-> 0]]
    BY <2>1, <2>5 DEF WithRow, WithEntry
  <2>11. Schedule(s, t, trig) = Pump(r, n)
    BY <1>1, <1>5, <2>10 DEF Schedule
  <2>12. QED
    BY <2>9, <2>11
<1>6. QED
  BY <1>3, <1>4, <1>5

LEMMA RoomIs ==
  HasRoom(Now) <=> Room
BY NowIs DEF HasRoom, Room, FreeCall, FreeEntry

LEMMA RoomAlike ==
  ASSUME NEW s, NEW r, HasRoom(s), Alike(s, r, Nil)
  PROVE  HasRoom(r)
<1>1. \E p \in Calls : r.call[p] = Nil
  BY DEF HasRoom, Alike, CallAlike
<1>2. PICK x \in Entries : ~Referenced(s, x)
  BY DEF HasRoom
<1>3. \A p \in Calls : r.call[p] # Nil => r.call[p].entry # x
  BY <1>2 DEF Referenced, Alike, CallAlike
<1>4. ~Referenced(r, x)
  BY <1>2, <1>3 DEF Referenced, Alike
<1>5. QED
  BY <1>1, <1>4 DEF HasRoom

LEMMA ScheduledAlike ==
  ASSUME NEW s, NEW r, NEW t \in Tasks, NEW trig \in AllTriggers, Core(s), s.waking = {}, ~s.closed,
         HasRoom(s), Alike(s, r, Nil)
  PROVE  Core(Schedule(r, t, trig)) /\ Schedule(r, t, trig).waking = {}
<1>1. Core(r) /\ r.waking = {}
  BY AlikeCore
<1>2. HasRoom(r) /\ ~r.closed
  BY RoomAlike DEF Alike
<1>3. QED
  BY <1>1, <1>2, ScheduleKeeps

LEMMA RegisterKeeps ==
  ASSUME Core(Now), Now.waking = {}, NEW t \in Tasks, Register(t)
  PROVE  IndInv(Now')
<1>1. PICK s, r : s = Now /\ r = [s EXCEPT !.status = [s.status EXCEPT ![t] = "todo"]]
  OBVIOUS
<1>2. Core(s) /\ Typed(s) /\ s.waking = {} /\ ~s.closed /\ HasRoom(s)
  BY <1>1, NowIs, RoomIs DEF Register, Core
<1>3. [s.status EXCEPT ![t] = "todo"] \in [Tasks -> TaskStatuses]
  BY <1>2, FieldTypes DEF TaskStatuses
<1>4. /\ Typed(r)
      /\ r.archived = s.archived
      /\ r.claim = s.claim /\ r.row = s.row /\ r.entries = s.entries /\ r.object = s.object
      /\ r.call = s.call /\ r.queue = s.queue /\ r.lease = s.lease
      /\ r.closed = s.closed /\ r.recovery = s.recovery
      /\ r.enabled = s.enabled /\ r.toWake = s.toWake /\ r.waking = s.waking
      /\ r.restarts = s.restarts
  <2>1. r = [s EXCEPT !.status = [s.status EXCEPT ![t] = "todo"]]
    BY <1>1
  <2>2. QED
    BY ONLY <1>2, <1>3, <2>1, SMTT(30) DEF Typed, Fields
<1>5. Alike(s, r, Nil)
  BY <1>4 DEF Alike, CallAlike
<1>6. r = [s EXCEPT !.status[t] = "todo"]
  BY <1>1
<1>7. CASE t \in Automatic
  <2>1. "automatic" \in AllTriggers
    BY DEF AllTriggers
  <2>2. Core(Schedule(r, t, "automatic")) /\ Schedule(r, t, "automatic").waking = {}
    BY <1>2, <1>5, <2>1, ScheduledAlike
  <2>3. Become(Schedule(r, t, "automatic"))
    BY <1>1, <1>6, <1>7 DEF Register
  <2>4. QED
    BY <2>2, <2>3, BecomeKeeps
<1>8. CASE t \notin Automatic
  <2>1. Core(r) /\ r.waking = {}
    BY <1>2, <1>5, AlikeCore
  <2>2. Become(r)
    BY <1>1, <1>6, <1>8 DEF Register
  <2>3. QED
    BY <2>1, <2>2, BecomeKeeps
<1>9. QED
  BY <1>7, <1>8

LEMMA UserStartsKeeps ==
  ASSUME Core(Now), Now.waking = {}, NEW t \in Tasks, NEW trig \in Triggers, UserStarts(t, trig)
  PROVE  IndInv(Now')
<1>1. trig \in AllTriggers
  BY CoordinatorAssumption DEF AllTriggers
<1>2. ~Now.closed /\ HasRoom(Now)
  BY NowIs, RoomIs DEF UserStarts
<1>3. Core(Schedule(Now, t, trig)) /\ Schedule(Now, t, trig).waking = {}
  BY <1>1, <1>2, ScheduleKeeps
<1>4. Become(Schedule(Now, t, trig))
  BY DEF UserStarts
<1>5. QED
  BY <1>3, <1>4, BecomeKeeps

LEMMA UserRetriesKeeps ==
  ASSUME Core(Now), Now.waking = {}, NEW t \in Tasks, UserRetries(t)
  PROVE  IndInv(Now')
<1>1. PICK s, r : s = Now /\ r = SetTask(s, t, "todo", FALSE)
  OBVIOUS
<1>2. Core(s) /\ Typed(s) /\ s.waking = {} /\ ~s.closed /\ HasRoom(s)
  BY <1>1, NowIs, RoomIs DEF UserRetries, Core
<1>3. "todo" \in TaskStatuses /\ FALSE \in BOOLEAN /\ "retry" \in AllTriggers
  BY DEF TaskStatuses, AllTriggers
<1>4. Alike(s, r, Nil)
  BY <1>1, <1>2, <1>3, SetTaskIs
<1>5. Core(Schedule(r, t, "retry")) /\ Schedule(r, t, "retry").waking = {}
  BY <1>2, <1>3, <1>4, ScheduledAlike
<1>6. Become(Schedule(r, t, "retry"))
  BY <1>1 DEF UserRetries
<1>7. QED
  BY <1>5, <1>6, BecomeKeeps

-----------------------------------------------------------------------------
(* recover()                                                               *)

WithRecovery(s, rec) == [s EXCEPT !.recovery = rec]

LEMMA RecoveryIs ==
  ASSUME NEW s, NEW r, NEW rec, Core(s), rec \in [left : SUBSET Tasks, at : Calls \cup {Nil}],
         rec.left \subseteq s.recovery.left, r = WithRecovery(s, rec)
  PROVE  /\ Core(r)
         /\ r.row = s.row /\ r.entries = s.entries /\ r.object = s.object /\ r.call = s.call
         /\ r.closed = s.closed /\ r.waking = s.waking /\ r.archived = s.archived
         /\ r.recovery = rec
<1>1. Typed(s) /\ Scheduled(s, Nil, Nil) /\ Placed(s, Nil, Nil)
  BY DEF Core
<1>2. /\ Typed(r)
      /\ r.status = s.status /\ r.archived = s.archived /\ r.hasThread = s.hasThread
      /\ r.claim = s.claim /\ r.entries = s.entries /\ r.object = s.object /\ r.call = s.call
      /\ r.queue = s.queue /\ r.lease = s.lease /\ r.row = s.row
      /\ r.closed = s.closed /\ r.recovery = rec
      /\ r.enabled = s.enabled /\ r.toWake = s.toWake /\ r.waking = s.waking
  <2>1. /\ r = [s EXCEPT !.recovery = rec]
        /\ rec \in [left : SUBSET Tasks, at : Calls \cup {Nil}]
    BY DEF WithRecovery
  <2>2. QED
    BY ONLY <1>1, <2>1, SMTT(30) DEF Typed, Fields
<1>3. Scheduled(r, Nil, Nil)
  <2>1. /\ Scheduled(s, Nil, Nil)
        /\ r.queue = s.queue /\ r.lease = s.lease /\ r.closed = s.closed /\ r.call = s.call
        /\ \A i \in 1..Len(s.queue) : s.entries[s.queue[i]] # Nil => r.entries[s.queue[i]] # Nil
    BY <1>1, <1>2
  <2>2. QED
    BY ONLY <2>1, ScheduledSame
<1>4. OneCall(r) /\ FreshUnarchived(r) /\ RunsClaimed(r, Nil) /\ RunningRows(r) /\ RunsPlaced(r, Nil)
  BY <1>1, <1>2 DEF Placed, OneCall, FreshUnarchived, RunsClaimed, RunningRows, RunsPlaced
<1>5. LaunchesPlaced(r, Nil)
  BY <1>1, <1>2 DEF Placed, LaunchesPlaced, Launch, Pending
<1>6. LaunchesMapped(r, Nil)
  BY <1>1, <1>2 DEF Placed, LaunchesMapped, Launch
<1>7. TimersIdle(r, Nil) /\ MapKept(r) /\ PendingHeld(r)
  BY <1>1, <1>2 DEF Placed, TimersIdle, MapKept, PendingHeld, WorkedOn
<1>8. RecoveryLeft(r)
  BY <1>1, <1>2 DEF Placed, RecoveryLeft, Pending
<1>9. Alive(r, Nil)
  BY <1>1, <1>2 DEF Placed, Alive, WorkedOn, Pending
<1>10. QED
  BY <1>2, <1>3, <1>4, <1>5, <1>6, <1>7, <1>8, <1>9 DEF Core, Placed

\* A turn of the loop of recover().
LEMMA RecoverKeeps ==
  ASSUME Core(Now), Now.waking = {}, NEW t \in Tasks, Recover(t)
  PROVE  IndInv(Now')
<1>1. PICK s, rec, k, n, m, r, p :
        /\ s = Now
        /\ rec = [s.recovery EXCEPT !.left = s.recovery.left \ {t}]
        /\ k = WithRecovery(s, rec)
        /\ n = FreshEntry(k)
        /\ m = [task |-> t, trigger |-> s.row[t].trigger, timer |-> FALSE, pending |-> FALSE,
                launching |-> FALSE, retries |-> 0]
        /\ r = WithEntry(k, t, n, m)
        /\ p = FreshCall(Now)
  OBVIOUS
<1>2. /\ Core(s) /\ Typed(s) /\ s.waking = {} /\ ~s.closed /\ HasRoom(s)
      /\ t \in s.recovery.left /\ s.call = call /\ s.entries = entries /\ s.archived = archived
      /\ s.row = row
  BY <1>1, NowIs, RoomIs DEF Recover, Core
<1>3. /\ s.recovery \in [left : SUBSET Tasks, at : Calls \cup {Nil}]
      /\ rec \in [left : SUBSET Tasks, at : Calls \cup {Nil}]
      /\ rec.left = s.recovery.left \ {t} /\ s.row \in [Tasks -> Rows \cup {Nil}]
  <2>1. /\ s.recovery \in [left : SUBSET Tasks, at : Calls \cup {Nil}]
        /\ s.row \in [Tasks -> Rows \cup {Nil}]
    BY <1>2, FieldTypes
  <2>2. rec = [s.recovery EXCEPT !.left = s.recovery.left \ {t}]
    BY <1>1
  <2>3. QED
    BY ONLY <2>1, <2>2
<1>4. /\ Core(k)
      /\ k.row = s.row /\ k.entries = s.entries /\ k.object = s.object /\ k.call = s.call
      /\ k.closed = s.closed /\ k.waking = s.waking /\ k.archived = s.archived
      /\ k.recovery = rec
  <2>1. k = WithRecovery(s, rec) /\ rec.left \subseteq s.recovery.left
    BY <1>1, <1>3
  <2>2. QED
    BY ONLY <1>2, <1>3, <2>1, RecoveryIs
<1>5. k = [Now EXCEPT !.recovery.left = @ \ {t}]
  <2>1. s.recovery = recovery
    BY <1>1, NowIs
  <2>2. k = [Now EXCEPT !.recovery = [recovery EXCEPT !.left = recovery.left \ {t}]]
    BY <1>1, <2>1 DEF WithRecovery
  <2>3. QED
    BY <2>2 DEF Now
<1>6. CASE entries[t] # Nil \/ archived[t]
  <2>1. Become(k)
    BY <1>5, <1>6 DEF Recover
  <2>2. QED
    BY <1>2, <1>4, <2>1, BecomeKeeps
<1>7. CASE ~(entries[t] # Nil \/ archived[t])
  <2>1. Pending(s, t) /\ s.row[t] \in Rows
    BY <1>2, <1>3 DEF Core, Placed, RecoveryLeft, Pending
  <2>2. Unattended(s, t)
    BY <1>2, <1>7, <2>1, NotMapped
  <2>3. HasRoom(k)
    BY <1>2, <1>4 DEF HasRoom, Referenced
  <2>4. n \in Entries /\ ~Referenced(k, n)
    BY <1>1, <2>3, FreeEntryIs
  <2>5. /\ m \in Objects /\ m.task = t /\ ~m.timer /\ ~m.pending
    BY <1>1, <2>1, CoordinatorAssumption DEF Objects, Rows
  <2>6. MayEnter(k, t, n, m)
    BY <1>2, <1>3, <1>4, <1>7, <2>2, <2>3, <2>4, <2>5 DEF MayEnter, Unattended, HasRoom
  <2>7. /\ Typed(r) /\ Scheduled(r, Nil, Nil) /\ Placed(r, n, Nil) /\ Pumpable(r, n)
        /\ r.waking = k.waking
    <3>1. r = WithEntry(k, t, n, m) /\ t \in Tasks
      BY <1>1
    <3>2. QED
      BY ONLY <1>4, <2>4, <2>6, <3>1, EntryMade
  <2>8. Core(Pump(r, n)) /\ Pump(r, n).waking = {}
    BY <1>2, <1>4, <2>4, <2>7, PumpKeeps
  <2>9. r = [k EXCEPT !.entries[t] = n,
                      !.object[n] = [task |-> t, trigger |-> row[t].trigger, timer |-> FALSE,
                                     pending |-> FALSE, launching |-> FALSE, retries |-> 0]]
    BY <1>1, <1>2 DEF WithEntry
  <2>10. Become(IF Pump(r, n).call[p] # Nil THEN [Pump(r, n) EXCEPT !.recovery.at = p]
                ELSE Pump(r, n))
    BY <1>1, <1>5, <1>7, <2>9 DEF Recover
  <2>11. CASE Pump(r, n).call[p] = Nil
    BY <2>8, <2>10, <2>11, BecomeKeeps
  <2>12. CASE Pump(r, n).call[p] # Nil
    <3>1. PICK d, new, f : /\ d = Pump(r, n) /\ new = [d.recovery EXCEPT !.at = p]
                           /\ f = WithRecovery(d, new)
      OBVIOUS
    <3>2. Core(d) /\ Typed(d) /\ d.waking = {}
      BY <2>8, <3>1 DEF Core
    <3>3. d.recovery \in [left : SUBSET Tasks, at : Calls \cup {Nil}] /\ p \in Calls
      <4>1. /\ {q \in Calls : call[q] = Nil} # {} /\ {q \in Calls : call[q] = Nil} \subseteq Nat
        BY <1>2, ConstantFacts DEF HasRoom
      <4>2. p \in {q \in Calls : call[q] = Nil}
        BY <1>1, <4>1, NowIs, MinExists DEF FreshCall
      <4>3. QED
        BY <3>2, <4>2, FieldTypes
    <3>4. new \in [left : SUBSET Tasks, at : Calls \cup {Nil}] /\ new.left = d.recovery.left
      BY <3>1, <3>3
    <3>5. Core(f) /\ f.waking = {}
      <4>1. f = WithRecovery(d, new) /\ new.left \subseteq d.recovery.left
        BY <3>1, <3>4
      <4>2. Core(f) /\ f.waking = d.waking
        BY ONLY <3>2, <3>4, <4>1, RecoveryIs
      <4>3. QED
        BY <3>2, <4>2
    <3>6. Become(f)
      <4>1. f = [Pump(r, n) EXCEPT !.recovery.at = p]
        BY <3>1 DEF WithRecovery
      <4>2. QED
        BY <2>10, <2>12, <4>1
    <3>7. QED
      BY <3>5, <3>6, BecomeKeeps
  <2>13. QED
    BY <2>11, <2>12
<1>8. QED
  BY <1>6, <1>7

-----------------------------------------------------------------------------
(* close()                                                                 *)

\* What close() leaves is in order.
LEMMA ClosesKeeps ==
  ASSUME NEW s, NEW r, Core(s), Closes(s, r)
  PROVE  Core(r)
<1>1. Typed(s) /\ Scheduled(s, Nil, Nil) /\ Placed(s, Nil, Nil) /\ Nil \notin Calls
  BY ConstantFacts DEF Core
<1>2. \A p \in Calls : r.call[p] # Nil => r.call[p] = s.call[p]
  BY DEF Closes
<1>3. LeasesApart(r) /\ WithinLimit(r)
  BY <1>1 DEF Scheduled, LeasesApart, WithinLimit, Active, Closes
<1>4. QueueWaits(r) /\ QueueMapped(r)
  BY LenProperties DEF QueueWaits, QueueMapped, Closes
<1>5. LeasesMatch(r, Nil)
  <2>1. SUFFICES ASSUME NEW q \in Calls, r.call[q] # Nil
                 PROVE  Holds(r, q)
    BY <1>1 DEF LeasesMatch
  <2>2. Holds(s, q) /\ r.call[q] = s.call[q]
    BY <1>1, <1>2, <2>1 DEF Scheduled, LeasesMatch
  <2>3. QED
    BY <2>2 DEF Holds, Closes
<1>6. LeasesOwned(r, Nil)
  BY DEF LeasesOwned, Closes
<1>7. OneCall(r)
  BY <1>1, <1>2 DEF Placed, OneCall
<1>8. FreshUnarchived(r)
  BY <1>1, <1>2 DEF Placed, FreshUnarchived, Closes
<1>9. RunsClaimed(r, Nil)
  BY <1>1, <1>2 DEF Placed, RunsClaimed, Closes
<1>10. RunsPlaced(r, Nil)
  <2>1. SUFFICES ASSUME NEW q \in Calls, q # Nil, r.call[q] # Nil, r.call[q].pc = "run"
                 PROVE  /\ r.call[q].entry = Nil /\ r.entries[r.call[q].task] = Nil
                        /\ s.row[r.call[q].task] # Nil
                        /\ s.row[r.call[q].task].state = "running"
    BY DEF RunsPlaced, Closes
  <2>2. r.call[q] = s.call[q] /\ s.call[q].task \in Tasks
    BY <1>1, <1>2, <2>1, FieldTypes DEF AsyncCalls
  <2>3. r.entries[s.call[q].task] = Nil
    BY <2>2 DEF Closes
  <2>4. QED
    BY <1>1, <2>1, <2>2, <2>3 DEF Placed, RunsPlaced
<1>11. LaunchesPlaced(r, Nil)
  <2>1. SUFFICES ASSUME NEW q \in Calls, q # Nil, Launch(r, q)
                 PROVE  /\ r.call[q].entry \in Entries /\ r.object[r.call[q].entry] # Nil
                        /\ r.object[r.call[q].entry].task = r.call[q].task
                        /\ r.object[r.call[q].entry].pending => r.call[q].pc = "lease"
                        /\ Pending(s, r.call[q].task) /\ s.row[r.call[q].task].ready
    BY DEF LaunchesPlaced, Pending, Closes
  <2>2. r.call[q] = s.call[q] /\ Launch(s, q)
    BY <1>2, <2>1 DEF Launch
  <2>3. /\ s.call[q].entry \in Entries /\ s.object[s.call[q].entry] # Nil
        /\ s.object[s.call[q].entry].task = s.call[q].task
        /\ s.object[s.call[q].entry].pending => s.call[q].pc = "lease"
        /\ Pending(s, s.call[q].task) /\ s.row[s.call[q].task].ready
    BY <1>1, <2>1, <2>2 DEF Placed, LaunchesPlaced
  <2>4. QED
    BY <2>2, <2>3 DEF Closes
<1>12. LaunchesMapped(r, Nil)
  BY DEF LaunchesMapped, Closes
<1>13. TimersIdle(r, Nil)
  <2>1. SUFFICES ASSUME NEW o \in Entries, r.object[o] # Nil, r.object[o].timer,
                        NEW p \in Calls, p # Nil, r.call[p] # Nil
                 PROVE  r.call[p].task # r.object[o].task
    BY DEF TimersIdle, Closes
  <2>2. /\ s.object[o] # Nil /\ s.object[o].timer /\ r.object[o].task = s.object[o].task
        /\ r.call[p] = s.call[p]
    BY <1>2, <2>1 DEF Closes
  <2>3. QED
    BY <1>1, <2>1, <2>2 DEF Placed, TimersIdle
<1>14. MapKept(r) /\ PendingHeld(r) /\ RecoveryLeft(r) /\ Alive(r, Nil)
  BY DEF MapKept, PendingHeld, RecoveryLeft, Alive, Closes
<1>15. RunningRows(r)
  BY <1>1 DEF Placed, RunningRows, Closes
<1>16. Typed(r)
  BY DEF Closes
<1>17. QED
  BY <1>3, <1>4, <1>5, <1>6, <1>7, <1>8, <1>9, <1>10, <1>11, <1>12, <1>13, <1>14, <1>15, <1>16
     DEF Core, Scheduled, Placed

Stops(s, ts, p) == \E t \in ts : WaitsFor(s, p, t)

LEMMA CloseKeeps ==
  ASSUME Core(Now), Now.waking = {}, Close
  PROVE  IndInv(Now')
<1>1. PICK s, ts, cs, os, j, k, fs, xs, r :
        /\ s = Now
        /\ ts = {t \in Tasks : s.entries[t] # Nil}
        /\ cs = [p \in Calls |-> IF Stops(s, ts, p) THEN Nil ELSE s.call[p]]
        /\ os = [e \in Entries |-> IF \E p \in Calls : Stops(s, ts, p) /\ s.call[p].entry = e
                                   THEN [s.object[e] EXCEPT !.pending = FALSE] ELSE s.object[e]]
        /\ j = [s EXCEPT !.call = cs, !.object = os]
        /\ k = [j EXCEPT !.queue = <<>>]
        /\ fs = [e \in Entries |-> IF \E t \in ts : s.entries[t] = e
                                   THEN [os[e] EXCEPT !.timer = FALSE] ELSE os[e]]
        /\ xs = [t \in Tasks |-> Nil]
        /\ r = [k EXCEPT !.closed = TRUE, !.toWake = {}, !.recovery = Idle, !.entries = xs,
                         !.object = fs]
  OBVIOUS
<1>2. Core(s) /\ Typed(s) /\ Scheduled(s, Nil, Nil) /\ Placed(s, Nil, Nil)
      /\ s.waking = {} /\ s.entries = entries /\ Nil \notin Calls
  BY <1>1, NowIs, ConstantFacts DEF Core
<1>3. /\ s.call \in [Calls -> AsyncCalls \cup {Nil}]
      /\ s.object \in [Entries -> Objects \cup {Nil}]
      /\ s.entries \in [Tasks -> Entries \cup {Nil}]
  BY <1>2, FieldTypes
<1>4. \A p \in Calls : Stops(s, ts, p) =>
        /\ s.call[p].pc # "run" /\ s.call[p].entry \in Entries
        /\ s.object[s.call[p].entry] # Nil
  <2>1. SUFFICES ASSUME NEW p \in Calls, Stops(s, ts, p)
                 PROVE  /\ s.call[p].pc # "run" /\ s.call[p].entry \in Entries
                        /\ s.object[s.call[p].entry] # Nil
    OBVIOUS
  <2>2. s.call[p] # Nil /\ s.call[p].pc = "lease"
    BY <2>1 DEF Stops, WaitsFor
  <2>3. QED
    BY <1>2, <2>2 DEF Placed, LaunchesPlaced, Launch
<1>5. cs \in [Calls -> AsyncCalls \cup {Nil}]
  BY <1>1, <1>3
<1>6. \A e \in Entries :
        /\ os[e] \in Objects \cup {Nil} /\ (os[e] = Nil <=> s.object[e] = Nil)
        /\ s.object[e] # Nil => /\ os[e].task = s.object[e].task
                                /\ os[e].timer = s.object[e].timer
                                /\ os[e].pending => s.object[e].pending
  <2>1. SUFFICES ASSUME NEW e \in Entries
                 PROVE  /\ os[e] \in Objects \cup {Nil} /\ (os[e] = Nil <=> s.object[e] = Nil)
                        /\ s.object[e] # Nil => /\ os[e].task = s.object[e].task
                                                /\ os[e].timer = s.object[e].timer
                                                /\ os[e].pending => s.object[e].pending
    OBVIOUS
  <2>2. CASE \E p \in Calls : Stops(s, ts, p) /\ s.call[p].entry = e
    <3>1. s.object[e] # Nil /\ s.object[e] \in Objects
      BY <1>3, <1>4, <2>2
    <3>2. os[e] = [s.object[e] EXCEPT !.pending = FALSE]
      BY <1>1, <2>2
    <3>3. QED
      BY <3>1, <3>2, ConstantFacts DEF Objects
  <2>3. CASE ~ \E p \in Calls : Stops(s, ts, p) /\ s.call[p].entry = e
    <3>1. os[e] = s.object[e]
      BY <1>1, <2>3
    <3>2. QED
      BY <1>3, <3>1
  <2>4. QED
    BY <2>2, <2>3
<1>7. \A e \in Entries :
        /\ fs[e] \in Objects \cup {Nil} /\ (fs[e] = Nil <=> s.object[e] = Nil)
        /\ s.object[e] # Nil => /\ fs[e].task = s.object[e].task
                                /\ fs[e].timer => s.object[e].timer
                                /\ fs[e].pending => s.object[e].pending
  <2>1. SUFFICES ASSUME NEW e \in Entries
                 PROVE  /\ fs[e] \in Objects \cup {Nil} /\ (fs[e] = Nil <=> s.object[e] = Nil)
                        /\ s.object[e] # Nil => /\ fs[e].task = s.object[e].task
                                                /\ fs[e].timer => s.object[e].timer
                                                /\ fs[e].pending => s.object[e].pending
    OBVIOUS
  <2>2. CASE \E t \in ts : s.entries[t] = e
    <3>1. s.object[e] # Nil
      BY <1>1, <1>2, <2>2 DEF Placed, MapKept
    <3>2. os[e] # Nil /\ os[e] \in Objects
      BY <1>6, <3>1
    <3>3. fs[e] = [os[e] EXCEPT !.timer = FALSE]
      BY <1>1, <2>2
    <3>4. /\ fs[e] \in Objects /\ fs[e] # Nil /\ fs[e].task = os[e].task /\ ~fs[e].timer
          /\ fs[e].pending = os[e].pending
      BY <3>2, <3>3, ConstantFacts DEF Objects
    <3>5. QED
      BY <1>6, <3>1, <3>4
  <2>3. CASE ~ \E t \in ts : s.entries[t] = e
    <3>1. fs[e] = os[e]
      BY <1>1, <2>3
    <3>2. QED
      BY <1>6, <3>1
  <2>4. QED
    BY <2>2, <2>3
<1>8. /\ os \in [Entries -> Objects \cup {Nil}] /\ fs \in [Entries -> Objects \cup {Nil}]
      /\ xs \in [Tasks -> Entries \cup {Nil}] /\ <<>> \in Seq(Tasks)
      /\ Idle \in [left : SUBSET Tasks, at : Calls \cup {Nil}] /\ Idle.left = {}
  <2>1. os = [e \in Entries |-> os[e]] /\ fs = [e \in Entries |-> fs[e]]
    BY <1>1
  <2>2. \A e \in Entries : os[e] \in Objects \cup {Nil} /\ fs[e] \in Objects \cup {Nil}
    BY <1>6, <1>7
  <2>3. os \in [Entries -> Objects \cup {Nil}] /\ fs \in [Entries -> Objects \cup {Nil}]
    BY ONLY <2>1, <2>2
  <2>4. xs \in [Tasks -> Entries \cup {Nil}] /\ <<>> \in Seq(Tasks)
    BY <1>1
  <2>5. Idle \in [left : SUBSET Tasks, at : Calls \cup {Nil}] /\ Idle.left = {}
    BY DEF Idle
  <2>6. QED
    BY <2>3, <2>4, <2>5
<1>9. /\ Typed(j)
      /\ j.status = s.status /\ j.archived = s.archived /\ j.hasThread = s.hasThread
      /\ j.claim = s.claim /\ j.entries = s.entries /\ j.object = os /\ j.call = cs
      /\ j.lease = s.lease /\ j.row = s.row
      /\ j.enabled = s.enabled /\ j.waking = s.waking
  <2>1. j = [s EXCEPT !.call = cs, !.object = os]
    BY <1>1
  <2>2. QED
    BY ONLY <1>2, <1>5, <1>8, <2>1, SMTT(30) DEF Typed, Fields
<1>10. /\ Typed(k)
       /\ k.status = s.status /\ k.archived = s.archived /\ k.hasThread = s.hasThread
       /\ k.claim = s.claim /\ k.entries = s.entries /\ k.object = os /\ k.call = cs
       /\ k.lease = s.lease /\ k.row = s.row /\ k.queue = <<>>
       /\ k.enabled = s.enabled /\ k.waking = s.waking
  <2>1. k = [j EXCEPT !.queue = <<>>]
    BY <1>1
  <2>2. QED
    BY ONLY <1>8, <1>9, <2>1, SMTT(30) DEF Typed, Fields
<1>11. /\ Typed(r)
       /\ r.archived = s.archived
       /\ r.claim = s.claim /\ r.entries = xs /\ r.object = fs /\ r.call = cs
       /\ r.lease = s.lease /\ r.row = s.row /\ r.queue = <<>>
       /\ r.waking = s.waking /\ r.closed /\ r.recovery = Idle
  <2>1. r = [k EXCEPT !.closed = TRUE, !.toWake = {}, !.recovery = Idle, !.entries = xs,
                      !.object = fs]
    BY <1>1
  <2>2. Typed(k)
    BY <1>10
  <2>3. Typed(r)
    BY ONLY <1>8, <2>1, <2>2, SMTT(30) DEF Typed, Fields
  <2>4. /\ r.archived = k.archived /\ r.claim = k.claim /\ r.entries = xs /\ r.object = fs
        /\ r.call = k.call /\ r.queue = k.queue /\ r.lease = k.lease /\ r.row = k.row
        /\ r.waking = k.waking /\ r.recovery = Idle
    BY ONLY <2>1, <2>2, SMTT(30) DEF Typed, Fields
  <2>5. r.closed
    BY ONLY <2>1, <2>2, SMTT(30) DEF Typed, Fields
  <2>6. QED
    BY ONLY <1>10, <2>3, <2>4, <2>5
<1>12. Closes(s, r)
  <2>1. \A t \in Tasks : r.entries[t] = Nil
    BY <1>1, <1>11
  <2>2. \A p \in Calls : r.call[p] = s.call[p] \/ (r.call[p] = Nil /\ s.call[p].pc # "run")
    BY <1>1, <1>4, <1>11
  <2>3. \A o \in Entries :
          /\ r.object[o] = Nil <=> s.object[o] = Nil
          /\ s.object[o] # Nil => /\ r.object[o].task = s.object[o].task
                                  /\ r.object[o].timer => s.object[o].timer
                                  /\ r.object[o].pending => s.object[o].pending
    BY <1>7, <1>11
  <2>4. QED
    BY <1>8, <1>11, <2>1, <2>2, <2>3 DEF Closes
<1>13. Core(r) /\ r.waking = {}
  BY <1>2, <1>11, <1>12, ClosesKeeps
<1>14. Become(r)
  <2>1. ts = {t \in Tasks : entries[t] # Nil}
    BY <1>1, <1>2
  <2>2. j = Rejected(Now, ts)
    BY <1>1 DEF Rejected, Stops
  <2>3. k = [Rejected(Now, ts) EXCEPT !.queue = <<>>]
    BY <1>1, <2>2
  <2>4. fs = [e \in Entries |-> IF \E t \in ts : entries[t] = e
                                THEN [k.object[e] EXCEPT !.timer = FALSE] ELSE k.object[e]]
    BY <1>1, <1>2, <1>10
  <2>5. r = [k EXCEPT !.closed = TRUE, !.toWake = {}, !.recovery = Idle,
                      !.entries = [t \in Tasks |-> Nil], !.object = fs]
    BY <1>1
  <2>6. QED
    BY <2>1, <2>3, <2>4, <2>5 DEF Close
<1>15. QED
  BY <1>13, <1>14, BecomeKeeps

-----------------------------------------------------------------------------
(* A new process, and the initial state.                                   *)

\* A new process satisfies the invariant.
LEMMA NewProcessHolds ==
  ASSUME NEW r, NewProcess(r)
  PROVE  Core(r) /\ IndInv(r)
<1>1. Typed(r) /\ r.recovery.left \subseteq Tasks
  BY FieldTypes DEF NewProcess
<1>2. WithinLimit(r)
  <2>1. Active(r) = {}
    BY DEF Active, NewProcess
  <2>2. QED
    BY <2>1, FS_EmptySet, ConstantFacts DEF WithinLimit
<1>3. LeasesApart(r) /\ QueueWaits(r) /\ QueueMapped(r) /\ LeasesMatch(r, Nil) /\ LeasesOwned(r, Nil)
  <2>1. Len(r.queue) = 0
    BY DEF NewProcess
  <2>2. LeasesApart(r)
    BY DEF LeasesApart, NewProcess
  <2>3. QueueWaits(r) /\ QueueMapped(r)
    BY <2>1 DEF QueueWaits, QueueMapped
  <2>4. LeasesMatch(r, Nil)
    BY DEF LeasesMatch, NewProcess
  <2>5. LeasesOwned(r, Nil)
    BY <2>1 DEF LeasesOwned, NewProcess
  <2>6. QED
    BY <2>2, <2>3, <2>4, <2>5
<1>4. OneCall(r) /\ RunsPlaced(r, Nil) /\ LaunchesPlaced(r, Nil) /\ LaunchesMapped(r, Nil)
  BY DEF OneCall, RunsPlaced, LaunchesPlaced, LaunchesMapped, Launch, NewProcess
<1>5. FreshUnarchived(r) /\ RunsClaimed(r, Nil) /\ TimersIdle(r, Nil) /\ MapKept(r)
  BY DEF FreshUnarchived, RunsClaimed, TimersIdle, MapKept, NewProcess
<1>6. PendingHeld(r) /\ RunningRows(r) /\ Alive(r, Nil)
  BY DEF PendingHeld, RunningRows, Alive, NewProcess
<1>7. RecoveryLeft(r)
  BY <1>1 DEF RecoveryLeft, NewProcess
<1>8. Core(r)
  BY <1>1, <1>2, <1>3, <1>4, <1>5, <1>6, <1>7 DEF Core, Scheduled, Placed
<1>9. WakingQuiet(r)
  BY DEF WakingQuiet, NewProcess
<1>10. QED
  BY <1>8, <1>9 DEF IndInv

LEMMA InitHolds ==
  ASSUME CoordinatorInit
  PROVE  IndInv(Now)
<1>1. Typed(Now)
  <2>1. /\ status \in [Tasks -> TaskStatuses] /\ archived \in [Tasks -> BOOLEAN]
        /\ hasThread \in [Tasks -> BOOLEAN] /\ claim \in [Tasks -> Claims \cup {Nil}]
        /\ row \in [Tasks -> Rows \cup {Nil}] /\ entries \in [Tasks -> Entries \cup {Nil}]
        /\ object \in [Entries -> Objects \cup {Nil}] /\ call \in [Calls -> AsyncCalls \cup {Nil}]
    BY DEF CoordinatorInit, TaskStatuses
  <2>2. /\ queue \in Seq(Tasks) /\ lease \in [Tasks -> LeaseIds \cup {Nil}] /\ closed \in BOOLEAN
        /\ recovery \in [left : SUBSET Tasks, at : Calls \cup {Nil}] /\ enabled \in BOOLEAN
        /\ toWake \in SUBSET Tasks /\ waking \in SUBSET Entries /\ restarts \in 0..MaxRestarts
    <3>1. queue \in Seq(Tasks) /\ lease \in [Tasks -> LeaseIds \cup {Nil}] /\ closed \in BOOLEAN
      <4>1. queue = <<>> /\ lease = [t \in Tasks |-> Nil] /\ closed = FALSE
        BY DEF CoordinatorInit
      <4>2. lease \in [Tasks -> LeaseIds \cup {Nil}]
        BY ONLY <4>1
      <4>3. <<>> \in Seq(Tasks)
        OBVIOUS
      <4>4. queue \in Seq(Tasks)
        BY <4>1, <4>3
      <4>5. closed \in BOOLEAN
        BY <4>1
      <4>6. QED
        BY <4>2, <4>4, <4>5
    <3>2. recovery \in [left : SUBSET Tasks, at : Calls \cup {Nil}] /\ enabled \in BOOLEAN
      BY DEF CoordinatorInit, Idle
    <3>3. restarts \in 0..MaxRestarts
      BY CoordinatorAssumption DEF CoordinatorInit
    <3>4. toWake \in SUBSET Tasks /\ waking \in SUBSET Entries
      BY DEF CoordinatorInit
    <3>5. QED
      BY <3>1, <3>2, <3>3, <3>4
  <2>3. QED
    BY <2>1, <2>2, NowTyped
<1>2. /\ ~closed /\ queue = <<>> /\ waking = {} /\ recovery.left = {}
      /\ \A p \in Calls : call[p] = Nil
      /\ \A t \in Tasks : entries[t] = Nil /\ lease[t] = Nil /\ row[t] = Nil
      /\ \A e \in Entries : object[e] = Nil
  BY DEF CoordinatorInit, Idle
<1>3. NewProcess(Now)
  BY <1>1, <1>2, NowIs DEF NewProcess
<1>4. QED
  BY <1>3, NewProcessHolds

\* What a restart makes of a task.
LEMMA AfterRestartIs ==
  ASSUME Core(Now), NEW t \in Tasks
  PROVE  /\ AfterRestart(t).status \in TaskStatuses /\ AfterRestart(t).hasThread \in BOOLEAN
         /\ AfterRestart(t).row \in Rows \cup {Nil}
         /\ ~(AfterRestart(t).row # Nil /\ AfterRestart(t).row.state = "running")
<1>1. PICK s, b : /\ s = Now
                  /\ b = [s EXCEPT !.call = [p \in Calls |-> Nil]]
  OBVIOUS
<1>2. Core(s) /\ Typed(s) /\ s.claim = claim /\ s.row = row /\ s.status = status
      /\ s.hasThread = hasThread
  BY <1>1, NowIs DEF Core
<1>3. /\ s.status[t] \in TaskStatuses /\ s.hasThread[t] \in BOOLEAN /\ s.row[t] \in Rows \cup {Nil}
      /\ s.claim[t] \in Claims \cup {Nil}
  BY <1>2, FieldTypes
<1>4. s.row[t] # Nil /\ s.row[t].state = "running" => s.claim[t] # Nil /\ s.claim[t].run
  <2>1. SUFFICES ASSUME s.row[t] # Nil, s.row[t].state = "running"
                 PROVE  s.claim[t] # Nil /\ s.claim[t].run
    OBVIOUS
  <2>2. PICK p \in Calls : s.call[p] # Nil /\ s.call[p].pc = "run" /\ s.call[p].task = t
    BY <1>2, <2>1 DEF Core, Placed, RunningRows
  <2>3. p # Nil
    BY ConstantFacts
  <2>4. QED
    BY <1>2, <2>2, <2>3 DEF Core, Placed, RunsClaimed
<1>5. CASE claim[t] = Nil
  <2>1. AfterRestart(t) = [status |-> status[t], hasThread |-> hasThread[t], row |-> row[t]]
    BY <1>5 DEF AfterRestart
  <2>2. QED
    BY <1>2, <1>3, <1>4, <1>5, <2>1
<1>6. CASE claim[t] # Nil /\ ~claim[t].run
  <2>1. CASE status[t] = "in_progress"
    <3>1. AfterRestart(t) = [status |-> "todo", hasThread |-> FALSE, row |-> row[t]]
      BY <1>6, <2>1 DEF AfterRestart
    <3>2. "todo" \in TaskStatuses
      BY DEF TaskStatuses
    <3>3. QED
      BY <1>2, <1>3, <1>4, <1>6, <3>1, <3>2
  <2>2. CASE status[t] # "in_progress"
    <3>1. AfterRestart(t) = [status |-> status[t], hasThread |-> hasThread[t], row |-> row[t]]
      BY <1>6, <2>2 DEF AfterRestart
    <3>2. QED
      BY <1>2, <1>3, <1>4, <1>6, <3>1
  <2>3. QED
    BY <2>1, <2>2
<1>7. CASE claim[t] # Nil /\ claim[t].run
  <2>1. PICK k, q : k = Settle(b, t, "blocked") /\ q = ClearAfterRun(k, t)
    OBVIOUS
  <2>2. [p \in Calls |-> Nil] \in [Calls -> AsyncCalls \cup {Nil}]
    OBVIOUS
  <2>3. Typed(b) /\ b.claim = s.claim /\ b.row = s.row
    <3>1. b = [s EXCEPT !.call = [p \in Calls |-> Nil]]
      BY <1>1
    <3>2. QED
      BY ONLY <1>2, <2>2, <3>1, SMTT(30) DEF Typed, Fields
  <2>4. PICK p \in Calls : p = s.claim[t].by
    BY <1>2, <1>3, <1>7 DEF Claims
  <2>5. "blocked" \in TaskStatuses
    BY DEF TaskStatuses
  <2>6. Alike(b, k, p)
    BY <1>2, <1>7, <2>1, <2>3, <2>4, <2>5, SettleIs
  <2>7. Typed(k) /\ k.row = s.row
    BY <2>3, <2>6 DEF Alike
  <2>8. /\ Typed(q) /\ q.row[t] \in Rows \cup {Nil}
        /\ ~(q.row[t] # Nil /\ q.row[t].state = "running")
    <3>1. CASE k.row[t] # Nil /\ k.row[t].state = "running"
      <4>1. q = [k EXCEPT !.row = [k.row EXCEPT ![t] = Nil]]
        BY <2>1, <3>1 DEF ClearAfterRun
      <4>2. [k.row EXCEPT ![t] = Nil] \in [Tasks -> Rows \cup {Nil}] /\ [k.row EXCEPT ![t] = Nil][t] = Nil
        BY <2>7, FieldTypes
      <4>3. Typed(q) /\ q.row = [k.row EXCEPT ![t] = Nil]
        BY ONLY <2>7, <4>1, <4>2, SMTT(30) DEF Typed, Fields
      <4>4. QED
        BY <4>2, <4>3
    <3>2. CASE ~(k.row[t] # Nil /\ k.row[t].state = "running")
      <4>1. q = k
        BY <2>1, <3>2 DEF ClearAfterRun
      <4>2. QED
        BY <1>3, <2>7, <3>2, <4>1
    <3>3. QED
      BY <3>1, <3>2
  <2>9. AfterRestart(t) = [status |-> q.status[t], hasThread |-> q.hasThread[t], row |-> q.row[t]]
    BY <1>1, <1>7, <2>1 DEF AfterRestart
  <2>10. q.status[t] \in TaskStatuses /\ q.hasThread[t] \in BOOLEAN
    BY <2>8, FieldTypes
  <2>11. QED
    BY <2>8, <2>9, <2>10
<1>8. QED
  BY <1>5, <1>6, <1>7

LEMMA ServerRestartsKeeps ==
  ASSUME Core(Now), ServerRestarts
  PROVE  IndInv(Now')
<1>1. PICK after, st, th, rows, r :
        /\ after = [t \in Tasks |-> AfterRestart(t)]
        /\ st = [t \in Tasks |-> after[t].status]
        /\ th = [t \in Tasks |-> after[t].hasThread]
        /\ rows = [t \in Tasks |-> after[t].row]
        /\ r = [status |-> st, hasThread |-> th,
                archived |-> archived, claim |-> [t \in Tasks |-> Nil], row |-> rows,
                entries |-> [t \in Tasks |-> Nil], object |-> [e \in Entries |-> Nil],
                call |-> [p \in Calls |-> Nil], queue |-> <<>>,
                lease |-> [t \in Tasks |-> Nil], closed |-> FALSE,
                toWake |-> {}, waking |-> {},
                recovery |-> [left |-> {t \in Tasks : Pending([row |-> rows], t)}, at |-> Nil],
                enabled |-> enabled, restarts |-> restarts + 1]
  OBVIOUS
<1>2. \A t \in Tasks :
        /\ st[t] \in TaskStatuses /\ th[t] \in BOOLEAN /\ rows[t] \in Rows \cup {Nil}
        /\ ~(rows[t] # Nil /\ rows[t].state = "running")
  BY <1>1, AfterRestartIs
<1>3. /\ st \in [Tasks -> TaskStatuses] /\ th \in [Tasks -> BOOLEAN]
      /\ rows \in [Tasks -> Rows \cup {Nil}]
  <2>1. /\ st = [t \in Tasks |-> st[t]] /\ th = [t \in Tasks |-> th[t]]
        /\ rows = [t \in Tasks |-> rows[t]]
    BY <1>1
  <2>2. QED
    BY ONLY <1>2, <2>1
<1>4. /\ archived \in [Tasks -> BOOLEAN] /\ enabled \in BOOLEAN
      /\ restarts + 1 \in 0..MaxRestarts
  <2>1. restarts < MaxRestarts
    BY DEF ServerRestarts
  <2>2. /\ archived \in [Tasks -> BOOLEAN] /\ enabled \in BOOLEAN
        /\ restarts \in 0..MaxRestarts
    BY NowTyped DEF Core
  <2>3. QED
    BY <2>1, <2>2, CoordinatorAssumption
<1>5. /\ [t \in Tasks |-> Nil] \in [Tasks -> Claims \cup {Nil}]
      /\ [t \in Tasks |-> Nil] \in [Tasks -> Entries \cup {Nil}]
      /\ [e \in Entries |-> Nil] \in [Entries -> Objects \cup {Nil}]
      /\ [p \in Calls |-> Nil] \in [Calls -> AsyncCalls \cup {Nil}]
      /\ [t \in Tasks |-> Nil] \in [Tasks -> LeaseIds \cup {Nil}]
      /\ <<>> \in Seq(Tasks)
      /\ [left |-> {t \in Tasks : Pending([row |-> rows], t)}, at |-> Nil]
           \in [left : SUBSET Tasks, at : Calls \cup {Nil}]
  OBVIOUS
<1>6. /\ r.status = st /\ r.hasThread = th /\ r.row = rows /\ r.archived = archived
      /\ r.claim = [t \in Tasks |-> Nil] /\ r.entries = [t \in Tasks |-> Nil]
      /\ r.object = [e \in Entries |-> Nil] /\ r.call = [p \in Calls |-> Nil] /\ r.queue = <<>>
      /\ r.lease = [t \in Tasks |-> Nil] /\ r.closed = FALSE /\ r.toWake = {} /\ r.waking = {}
      /\ r.recovery = [left |-> {t \in Tasks : Pending([row |-> rows], t)}, at |-> Nil]
      /\ r.enabled = enabled /\ r.restarts = restarts + 1
      /\ DOMAIN r = Fields
  BY <1>1 DEF Fields
<1>7. Typed(r)
  BY <1>3, <1>4, <1>5, <1>6 DEF Typed
<1>8. \A t \in r.recovery.left : Pending(r, t)
  <2>1. r.recovery.left = {t \in Tasks : Pending([row |-> rows], t)}
    BY <1>6
  <2>2. QED
    BY <1>6, <2>1 DEF Pending
<1>9. NewProcess(r)
  BY <1>2, <1>6, <1>7, <1>8 DEF NewProcess
<1>10. Core(r) /\ r.waking = {}
  BY <1>6, <1>9, NewProcessHolds
<1>11. Become(r)
  BY <1>1 DEF ServerRestarts
<1>12. QED
  BY <1>10, <1>11, BecomeKeeps

-----------------------------------------------------------------------------
(* The theorems.                                                           *)

LEMMA CallStepKeeps ==
  ASSUME Core(Now), Now.waking = {}, NEW p \in Calls, CallStep(p)
  PROVE  IndInv(Now')
<1>1. CASE ReadPackage(p)
  BY <1>1, ReadPackageKeeps
<1>2. CASE StartLaunch(p)
  BY <1>2, StartLaunchKeeps, ClosedLaunchKeeps
<1>3. CASE CheckPackage(p)
  BY <1>3, CheckPackageKeeps
<1>4. CASE Claim(p)
  BY <1>4, ClaimKeeps
<1>5. CASE Verify(p)
  BY <1>5, VerifyKeeps
<1>6. CASE BindRun(p)
  BY <1>6, BindRunKeeps
<1>7. CASE Started(p)
  BY <1>7, StartedKeeps
<1>8. CASE PreparationBlocked(p)
  BY <1>8, PreparationBlockedKeeps
<1>9. CASE StartFails(p)
  BY <1>9, StartFailsKeeps
<1>10. CASE RunEnds(p)
  BY <1>10, RunEndsKeeps
<1>11. QED
  BY <1>1, <1>2, <1>3, <1>4, <1>5, <1>6, <1>7, <1>8, <1>9, <1>10 DEF CallStep

LEMMA UserStepKeeps ==
  ASSUME Core(Now), Now.waking = {}, NEW t \in Tasks, UserStep(t)
  PROVE  IndInv(Now')
<1>1. CASE Register(t)
  BY <1>1, RegisterKeeps
<1>2. CASE \E trig \in Triggers : UserStarts(t, trig)
  BY <1>2, UserStartsKeeps
<1>3. CASE UserRetries(t)
  BY <1>3, UserRetriesKeeps
<1>4. CASE \E st \in MoveTargets : UserMoves(t, st)
  BY <1>4, UserMovesKeeps
<1>5. CASE UserArchives(t)
  BY <1>5, UserArchivesKeeps
<1>6. QED
  BY <1>1, <1>2, <1>3, <1>4, <1>5 DEF UserStep

LEMMA CoordinatorNextKeeps ==
  ASSUME ~WakeMidway, IndInv(Now), CoordinatorNext
  PROVE  IndInv(Now')
<1>1. CASE \E e \in Entries : WakePump(e)
  BY <1>1, WakePumpKeeps
<1>2. CASE Step /\ waking = {}
  <2>1. Core(Now) /\ Now.waking = {}
    BY <1>2, NowIs DEF IndInv
  <2>2. CASE \E p \in Calls : CallStep(p)
    BY <2>1, <2>2, CallStepKeeps
  <2>3. CASE \E t \in Tasks : UserStep(t)
    BY <2>1, <2>3, UserStepKeeps
  <2>4. CASE \E t \in Tasks : DelayPasses(t)
    BY <2>1, <2>4, DelayPassesKeeps
  <2>5. CASE \E e \in Entries : TimerFires(e)
    BY <2>1, <2>5, TimerFiresKeeps
  <2>6. CASE \E state \in BOOLEAN : EditPackage(state)
    BY <2>1, <2>6, EditPackageKeeps
  <2>7. CASE \E t \in Tasks : WakeEntry(t)
    BY <2>1, <2>7, WakeEntryKeeps
  <2>8. CASE Close
    BY <2>1, <2>8, CloseKeeps
  <2>9. CASE ServerRestarts
    BY <2>1, <2>9, ServerRestartsKeeps
  <2>10. CASE \E t \in Tasks : Recover(t)
    BY <2>1, <2>10, RecoverKeeps
  <2>11. QED
    BY <1>2, <2>2, <2>3, <2>4, <2>5, <2>6, <2>7, <2>8, <2>9, <2>10 DEF Step
<1>3. QED
  BY <1>1, <1>2 DEF CoordinatorNext

\* Without wake() in the middle of a start, every reachable state of the
\* coordinator satisfies the inductive invariant: leases, queue, calls, entries,
\* rows and claims describe the same launches.
THEOREM CoordinatorInvariant ==
  ~WakeMidway => (CoordinatorSpec => []CoordinatorHolds)
<1>1. SUFFICES ASSUME ~WakeMidway
               PROVE  CoordinatorSpec => []CoordinatorHolds
  OBVIOUS
<1>2. CoordinatorInit => IndInv(Now)
  BY InitHolds
<1>3. IndInv(Now) /\ [CoordinatorNext]_coordinatorVars => IndInv(Now)'
  <2>1. SUFFICES ASSUME IndInv(Now), [CoordinatorNext]_coordinatorVars
                 PROVE  IndInv(Now')
    BY DEF IndInv, Core, WakingQuiet
  <2>2. CASE CoordinatorNext
    BY <1>1, <2>1, <2>2, CoordinatorNextKeeps
  <2>3. CASE UNCHANGED coordinatorVars
    <3>1. Now' = Now
      BY <2>3 DEF coordinatorVars, Now
    <3>2. QED
      BY <2>1, <3>1
  <2>4. QED
    BY <2>1, <2>2, <2>3
<1>4. QED
  BY <1>2, <1>3, PTL DEF CoordinatorSpec, CoordinatorHolds

LEMMA TypesHold ==
  ASSUME IndInv(Now)
  PROVE  CoordinatorTypes
<1>1. Typed(Now)
  BY DEF IndInv, Core
<1>2. /\ status \in [Tasks -> TaskStatuses] /\ archived \in [Tasks -> BOOLEAN]
      /\ hasThread \in [Tasks -> BOOLEAN] /\ claim \in [Tasks -> Claims \cup {Nil}]
      /\ row \in [Tasks -> Rows \cup {Nil}] /\ entries \in [Tasks -> Entries \cup {Nil}]
      /\ object \in [Entries -> Objects \cup {Nil}] /\ call \in [Calls -> AsyncCalls \cup {Nil}]
      /\ queue \in Seq(Tasks) /\ lease \in [Tasks -> LeaseIds \cup {Nil}] /\ closed \in BOOLEAN
      /\ recovery \in [left : SUBSET Tasks, at : Calls \cup {Nil}] /\ enabled \in BOOLEAN
      /\ toWake \in SUBSET Tasks /\ waking \in SUBSET Entries /\ restarts \in 0..MaxRestarts
  BY <1>1, NowTyped
<1>3. QED
  BY <1>2 DEF CoordinatorTypes, State, Now

\* The maps of the coordinator keep their types, and retries their bound.
THEOREM CoordinatorTypesHold ==
  ~WakeMidway => (CoordinatorSpec => []CoordinatorTypes)
<1>1. IndInv(Now) => CoordinatorTypes
  BY TypesHold
<1>2. QED
  BY <1>1, CoordinatorInvariant, PTL DEF CoordinatorHolds

LEMMA SerializedHolds ==
  ASSUME IndInv(Now)
  PROVE  SerializedPerPackage
<1>1. PICK s : s = Now
  OBVIOUS
<1>2. /\ Typed(s) /\ WithinLimit(s) /\ LeasesMatch(s, Nil) /\ s.call = call
  BY <1>1, NowIs DEF IndInv, Core, Scheduled
<1>3. {t \in Tasks : Starts(t) # {}} \subseteq Active(s)
  <2>1. SUFFICES ASSUME NEW t \in Tasks, NEW p \in Starts(t)
                 PROVE  s.lease[t] # Nil
    BY DEF Active
  <2>2. /\ p \in Calls /\ s.call[p] # Nil /\ s.call[p].task = t
        /\ s.call[p].pc \notin {"package", "lease"}
    BY <1>2, <2>1 DEF Starts, InFlight
  <2>3. Holds(s, p)
    BY <1>2, <2>2, ConstantFacts DEF LeasesMatch
  <2>4. QED
    BY <2>2, <2>3 DEF Holds
<1>4. /\ IsFiniteSet(Active(s)) /\ Cardinality(Active(s)) \in Nat
      /\ Cardinality(Active(s)) <= Limit /\ Limit \in Nat
  BY <1>2, ActiveSize, ConstantFacts DEF WithinLimit
<1>5. /\ Cardinality({t \in Tasks : Starts(t) # {}}) <= Cardinality(Active(s))
      /\ Cardinality({t \in Tasks : Starts(t) # {}}) \in Nat
  BY <1>3, <1>4, FS_Subset, FS_CardinalityType
<1>6. QED
  BY <1>4, <1>5 DEF SerializedPerPackage

\* Editing stays serialized per package (README, line 226): at most maxConcurrent
\* tasks are being started or run, whatever fails, is retried, moved, archived,
\* closed or restarted, as long as the package is not edited during a start.
THEOREM SerializedAlways ==
  ~WakeMidway => (CoordinatorSpec => []SerializedPerPackage)
<1>1. IndInv(Now) => SerializedPerPackage
  BY SerializedHolds
<1>2. QED
  BY <1>1, CoordinatorInvariant, PTL DEF CoordinatorHolds

LEMMA StartsHeld ==
  ASSUME ~ArchiveMidway, IndInv(Now)
  PROVE  StartsAreHeld
<1>1. PICK s : s = Now
  OBVIOUS
<1>2. /\ Typed(s) /\ Scheduled(s, Nil, Nil) /\ Placed(s, Nil, Nil) /\ s.call = call
      /\ s.lease = lease /\ s.closed = closed /\ s.row = row /\ s.entries = entries
      /\ s.object = object /\ s.toWake = toWake /\ s.waking = waking /\ s.enabled = enabled
  BY <1>1, NowIs DEF IndInv, Core
<1>3. Nil \notin Tasks /\ Nil \notin Calls /\ Nil \notin Entries
  BY ConstantFacts
<1>4. LeasesHeld
  BY <1>2, <1>3 DEF LeasesHeld, Scheduled, LeasesOwned, HeldBy
<1>5. RunsMatchReservations
  <2>1. ASSUME NEW t \in Tasks, row[t] # Nil, row[t].state = "running"
        PROVE  \E p \in Runs : call[p].task = t
    BY <1>2, <2>1 DEF Placed, RunningRows, Runs, InFlight
  <2>2. ASSUME NEW t \in Tasks, NEW p \in Runs, call[p].task = t
        PROVE  row[t] # Nil /\ row[t].state = "running"
    BY <1>2, <1>3, <2>2 DEF Placed, RunsPlaced, Runs, InFlight
  <2>3. QED
    BY <2>1, <2>2 DEF RunsMatchReservations
<1>6. EntriesAlive
  <2>1. SUFFICES ASSUME NEW t \in Tasks, entries[t] # Nil, Pending(Now, t)
                 PROVE  \/ object[entries[t]].timer
                        \/ \E p \in Calls : call[p] # Nil /\ call[p].entry = entries[t]
                        \/ t \in toWake \/ entries[t] \in waking
                        \/ ~enabled
    BY DEF EntriesAlive
  <2>2. \/ s.object[s.entries[t]].timer
        \/ WorkedOn(s, s.entries[t])
        \/ t \in s.toWake \/ s.entries[t] \in s.waking
        \/ ~s.enabled
    BY <1>1, <1>2, <1>3, <2>1 DEF Placed, Alive
  <2>3. QED
    BY <1>2, <2>2 DEF WorkedOn
<1>7. QED
  BY <1>4, <1>5, <1>6, TypesHold DEF StartsAreHeld, ReservationsAlive

\* If moreover no task is archived during a start: before the shutdown every lease
\* is in the hands of a call or a run that will return it, the running rows are
\* those of the runs, and every pending reservation of the map will be woken.
THEOREM StartsAreHeldAlways ==
  ~WakeMidway /\ ~ArchiveMidway => (CoordinatorSpec => []StartsAreHeld)
<1>1. SUFFICES ASSUME ~WakeMidway, ~ArchiveMidway
               PROVE  CoordinatorSpec => []StartsAreHeld
  OBVIOUS
<1>2. IndInv(Now) => StartsAreHeld
  BY <1>1, StartsHeld
<1>3. QED
  BY <1>1, <1>2, CoordinatorInvariant, PTL DEF CoordinatorHolds
=============================================================================
