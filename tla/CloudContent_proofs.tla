-------------------------- MODULE CloudContent_proofs --------------------------
(***************************************************************************)
(* Invariants of what hangs on a task of the cloud deployment, of the feed *)
(* that keeps a board up to date and of a workflow board's saves, for any  *)
(* comments, attachments, requests, writes and losses.                     *)
(***************************************************************************)
EXTENDS CloudContent, RevisionFeed, WorkflowSync, DataFacts

-----------------------------------------------------------------------------
(* The feed: the inductive invariant                                       *)

LatestIsComing == \E l \in loads : l.id = latest
Moved == move # NoMove /\ move.answer = "moved"

FeedTypes ==
  /\ FeedTypeOK
  /\ version \in Nat /\ known \in Nat /\ latest \in Nat /\ losses \in Nat
  /\ shown \in [version : 0..version, moved : BOOLEAN]
  /\ loads \subseteq [id : 1..latest, read : 0..version]
  /\ broadcasts \subseteq 1..version
  /\ check \in {NoCheck} \cup 0..version
  /\ failedLoad \in BOOLEAN /\ overtaken \in BOOLEAN

\* Each move stores one version at most.
MovesAreBounded ==
  /\ moves \in 0..MaxMoves
  /\ version + (IF move # NoMove /\ move.answer = "asked" THEN 1 ELSE 0) <= MaxCommits + moves
  /\ move # NoMove =>
       /\ move \in [base : 0..version, answer : {"asked", "moved", "conflict"}]
       /\ move.answer = "moved" => move.base < version
       /\ moves > 0

\* A list that was asked for last and has been read has all that the client knew of then
\* and has learned since: learning more would have had another list asked for.
LatestIsNew == \A l \in loads : l.id = latest /\ l.read # 0 => known <= l.read

\* The answer to a move, which would make up for an earlier one that took the board back.
AnswerBrings ==
  Moved /\ overtaken => known <= move.base + 1 \/ LatestIsComing \/ failedLoad

FeedInv ==
  /\ FeedTypes /\ MovesAreBounded
  /\ LatestIsNew /\ LearnedIsComing /\ AnswerBrings

-----------------------------------------------------------------------------
(* The feed: the invariant holds and is kept                               *)

\* A client that connects knows nothing and has asked for the tasks.
LEMMA FeedInvInit == FeedInit => FeedInv
<1> SUFFICES ASSUME FeedInit
             PROVE  FeedInv
  OBVIOUS
<1>1. /\ shown \in [version : 0..1, moved : BOOLEAN] /\ shown.version = 0
      /\ loads \subseteq [id : 1..1, read : 0..1] /\ \A l \in loads : l.read = 0
      /\ \E l \in loads : l.id = latest
  BY DEF FeedInit
<1>2. FeedTypes
  <2>1. /\ version = 1 /\ latest = 1 /\ known = 0 /\ losses = 0 /\ broadcasts = {} /\ check = NoCheck
        /\ socket # "checking" /\ failedLoad = FALSE /\ overtaken = FALSE
    BY DEF FeedInit
  <2>2. \A l \in loads : l.id \in 1..1 /\ l.read \in 0..1
    BY <1>1
  <2>3. 1 \in 1..(MaxCommits + MaxMoves) /\ 0 \in 0..MaxLosses
    BY FeedAssumption
  <2>4. QED
    BY <1>1, <2>1, <2>2, <2>3 DEF FeedTypes, FeedTypeOK
<1>3. MovesAreBounded
  BY FeedAssumption DEF FeedInit, MovesAreBounded
<1>4. LatestIsNew /\ LearnedIsComing /\ AnswerBrings
  BY <1>1 DEF FeedInit, LatestIsNew, LearnedIsComing, AnswerBrings, Moved
<1>5. QED
  BY <1>2, <1>3, <1>4 DEF FeedInv

\* A step that leaves the client's revision, its lists and the version on screen alone.
LEMMA ScreenSame ==
  ASSUME FeedInv, UNCHANGED <<known, loads, latest, failedLoad, overtaken>>,
         shown' \in [version : 0..version', moved : BOOLEAN], shown'.version = shown.version,
         version' \in Nat, version <= version', version' <= MaxCommits + MaxMoves,
         broadcasts' \subseteq 1..version', check' \in {NoCheck} \cup 0..version',
         socket' = "checking" => check' # NoCheck, losses' \in 0..MaxLosses
  PROVE  FeedTypes' /\ LatestIsNew' /\ LearnedIsComing'
<1>1. FeedTypes /\ LatestIsNew /\ LearnedIsComing
  BY DEF FeedInv
<1>2. \A l \in loads : l \in [id : 1..latest, read : 0..version'] /\ l.id \in 1..latest /\ l.read \in 0..version'
  BY <1>1 DEF FeedTypes
<1>3. FeedTypes'
  BY <1>1, <1>2, FeedAssumption DEF FeedTypes, FeedTypeOK
<1>4. LatestIsNew' /\ LearnedIsComing'
  BY <1>1 DEF LatestIsNew, LearnedIsComing
<1>5. QED
  BY <1>3, <1>4

\* The types of the counters.
LEMMA FeedCounters ==
  ASSUME FeedInv
  PROVE  /\ version \in Nat /\ version >= 1 /\ version <= MaxCommits + MaxMoves
         /\ losses \in 0..MaxLosses /\ known \in 0..version /\ moves \in 0..MaxMoves
         /\ broadcasts \subseteq 1..version /\ check \in {NoCheck} \cup 0..version
         /\ shown \in [version : 0..version, moved : BOOLEAN] /\ latest \in Nat
         /\ MaxCommits \in Nat /\ MaxMoves \in Nat /\ MaxLosses \in Nat
         /\ socket = "checking" => check # NoCheck
         /\ \A n \in 0..version : n # NoCheck
BY FeedAssumption DEF FeedInv, FeedTypes, FeedTypeOK, MovesAreBounded

\* A failure is counted.
LEMMA LossCounts ==
  ASSUME FeedInv, Lose
  PROVE  losses' \in 0..MaxLosses
BY FeedCounters DEF Lose

\* Steps of the server and of the connection that tell the client nothing.
LEMMA ConnectionKeeps ==
  ASSUME FeedInv,
         \/ HandlerReadsRevision \/ HandlerFails \/ BroadcastFails \/ Connect \/ SocketOpens
         \/ Poll \/ CheckReads \/ CheckFails \/ SocketCloses
  PROVE  FeedInv'
<1>a. UNCHANGED <<known, loads, latest, failedLoad, overtaken, shown, version, move, moves>>
  BY DEF HandlerReadsRevision, HandlerFails, BroadcastFails, Connect, SocketOpens, Poll, CheckReads,
     CheckFails, SocketCloses, serverVars, socketVars, loadVars, boardVars
<1>b. losses' \in 0..MaxLosses
  BY FeedCounters, LossCounts DEF HandlerReadsRevision, HandlerFails, BroadcastFails, Connect,
     SocketOpens, Poll, CheckReads, CheckFails, SocketCloses
<1>c. broadcasts' \subseteq 1..version
  <2>1. \/ broadcasts' = broadcasts \/ broadcasts' = broadcasts \cup {version}
        \/ \E n \in broadcasts : broadcasts' = broadcasts \ {n}
    BY DEF HandlerReadsRevision, HandlerFails, BroadcastFails, Connect, SocketOpens, Poll, CheckReads,
       CheckFails, SocketCloses, serverVars
  <2>2. QED
    BY <2>1, FeedCounters
<1>d. check' \in {NoCheck} \cup 0..version /\ (socket' = "checking" => check' # NoCheck)
  <2>1. \/ UNCHANGED <<check, socket>>
        \/ check' = check /\ socket' # "checking"
        \/ check' = 0
        \/ check = 0 /\ check' = version
        \/ check' = NoCheck /\ socket' # "checking"
    <3>1. CASE HandlerReadsRevision \/ HandlerFails \/ BroadcastFails
      BY <3>1 DEF HandlerReadsRevision, HandlerFails, BroadcastFails, socketVars
    <3>2. CASE Connect \/ SocketOpens \/ Poll \/ CheckReads
      BY <3>2 DEF Connect, SocketOpens, Poll, CheckReads
    <3>3. CASE CheckFails \/ SocketCloses
      BY <3>3 DEF CheckFails, SocketCloses
    <3>4. QED
      BY <3>1, <3>2, <3>3
  <2>2. QED
    BY <2>1, FeedCounters
<1>1. FeedTypes' /\ LatestIsNew' /\ LearnedIsComing'
  BY <1>a, <1>b, <1>c, <1>d, FeedCounters, ScreenSame
<1>2. MovesAreBounded' /\ AnswerBrings'
  BY <1>a DEF FeedInv, MovesAreBounded, AnswerBrings, Moved, LatestIsComing
<1>3. QED
  BY <1>1, <1>2 DEF FeedInv

\* Another client writes.
LEMMA CommitKeeps ==
  ASSUME FeedInv, Commit
  PROVE  FeedInv'
<1>a. UNCHANGED <<known, loads, latest, failedLoad, overtaken, shown, broadcasts, check, socket, losses,
                  move, moves>> /\ version' = version + 1 /\ version < MaxCommits
  BY DEF Commit, socketVars, loadVars, boardVars
<1>b. /\ shown' \in [version : 0..version', moved : BOOLEAN] /\ broadcasts' \subseteq 1..version'
      /\ check' \in {NoCheck} \cup 0..version' /\ version' <= MaxCommits + MaxMoves
  BY <1>a, FeedCounters
<1>1. FeedTypes' /\ LatestIsNew' /\ LearnedIsComing'
  BY <1>a, <1>b, FeedCounters, ScreenSame
<1>2. MovesAreBounded'
  <2>1. /\ version + (IF move # NoMove /\ move.answer = "asked" THEN 1 ELSE 0) <= MaxCommits + moves
        /\ move # NoMove =>
             /\ move \in [base : 0..version, answer : {"asked", "moved", "conflict"}]
             /\ move.answer = "moved" => move.base < version
             /\ moves > 0
    BY DEF FeedInv, MovesAreBounded
  <2>2. move # NoMove =>
             /\ move' \in [base : 0..version', answer : {"asked", "moved", "conflict"}]
             /\ move'.answer = "moved" => move'.base < version'
    BY <1>a, <2>1, FeedCounters
  <2>3. QED
    BY <1>a, <2>1, <2>2, FeedCounters DEF MovesAreBounded
<1>3. AnswerBrings'
  BY <1>a DEF FeedInv, AnswerBrings, Moved, LatestIsComing
<1>4. QED
  BY <1>1, <1>2, <1>3 DEF FeedInv

\* The user moves the task, the server answers, or the answer is lost: the version on
\* screen stays.
LEMMA MovingKeeps ==
  ASSUME FeedInv, StartMove \/ ServerMoves \/ MoveFails
  PROVE  FeedInv'
<1>a. UNCHANGED <<known, loads, latest, failedLoad, overtaken, broadcasts, check, socket>>
  BY DEF StartMove, ServerMoves, MoveFails, serverVars, socketVars, loadVars, boardVars
<1>m. /\ version + (IF move # NoMove /\ move.answer = "asked" THEN 1 ELSE 0) <= MaxCommits + moves
      /\ moves \in 0..MaxMoves
      /\ move # NoMove =>
           /\ move \in [base : 0..version, answer : {"asked", "moved", "conflict"}]
           /\ move.answer = "moved" => move.base < version
           /\ moves > 0
      /\ AnswerBrings
  BY DEF FeedInv, MovesAreBounded
<1>1. CASE StartMove
  <2>1. /\ shown' = [shown EXCEPT !.moved = TRUE] /\ move' = [base |-> shown.version, answer |-> "asked"]
        /\ moves' = moves + 1 /\ moves < MaxMoves /\ move = NoMove /\ UNCHANGED <<version, losses>>
    BY <1>1 DEF StartMove, serverVars
  <2>2. shown' \in [version : 0..version', moved : BOOLEAN] /\ shown'.version = shown.version
    BY <2>1, FeedCounters
  <2>3. FeedTypes' /\ LatestIsNew' /\ LearnedIsComing'
    BY <1>a, <2>1, <2>2, FeedCounters, ScreenSame
  <2>4. move' \in [base : 0..version, answer : {"asked", "moved", "conflict"}] /\ move'.answer = "asked"
    BY <2>1, FeedCounters
  <2>5. MovesAreBounded'
    BY <1>m, <2>1, <2>4, FeedCounters DEF MovesAreBounded
  <2>6. AnswerBrings'
    BY <2>4 DEF AnswerBrings, Moved
  <2>7. QED
    BY <2>3, <2>5, <2>6 DEF FeedInv
<1>2. CASE ServerMoves
  <2>1. /\ move # NoMove /\ move.answer = "asked" /\ UNCHANGED <<shown, losses, moves>>
        /\ \/ /\ move.base = version /\ version' = version + 1 /\ move' = [move EXCEPT !.answer = "moved"]
           \/ version' = version /\ move' = [move EXCEPT !.answer = "conflict"]
    BY <1>2 DEF ServerMoves, boardVars
  <2>2. /\ version' \in Nat /\ version <= version' /\ version' <= MaxCommits + moves
        /\ version' <= MaxCommits + MaxMoves
    BY <1>m, <2>1, FeedCounters
  <2>3. /\ shown' \in [version : 0..version', moved : BOOLEAN] /\ broadcasts' \subseteq 1..version'
        /\ check' \in {NoCheck} \cup 0..version'
    BY <1>a, <2>1, <2>2, FeedCounters
  <2>4. FeedTypes' /\ LatestIsNew' /\ LearnedIsComing'
    BY <1>a, <2>1, <2>2, <2>3, FeedCounters, ScreenSame
  <2>5. /\ move' \in [base : 0..version', answer : {"asked", "moved", "conflict"}]
        /\ move'.answer \in {"moved", "conflict"} /\ move'.base = move.base
        /\ move'.answer = "moved" => move'.base = version /\ version' = version + 1
    BY <1>m, <2>1, <2>2, FeedCounters
  <2>6. MovesAreBounded'
    BY <1>m, <2>1, <2>2, <2>5, FeedCounters DEF MovesAreBounded
  <2>7. AnswerBrings'
    BY <1>a, <2>5, FeedCounters DEF AnswerBrings, Moved
  <2>8. QED
    BY <2>4, <2>6, <2>7 DEF FeedInv
<1>3. CASE MoveFails
  <2>1. /\ move # NoMove /\ move' = [move EXCEPT !.answer = "conflict"] /\ UNCHANGED <<shown, version, moves>>
        /\ losses' \in 0..MaxLosses
    BY <1>3, LossCounts DEF MoveFails, boardVars, serverVars
  <2>2. FeedTypes' /\ LatestIsNew' /\ LearnedIsComing'
    BY <1>a, <2>1, FeedCounters, ScreenSame
  <2>3. /\ move' \in [base : 0..version, answer : {"asked", "moved", "conflict"}] /\ move'.answer = "conflict"
    BY <1>m, <2>1
  <2>4. MovesAreBounded' /\ AnswerBrings'
    BY <1>m, <2>1, <2>3, FeedCounters DEF MovesAreBounded, AnswerBrings, Moved
  <2>5. QED
    BY <2>2, <2>4 DEF FeedInv
<1>4. QED
  BY <1>1, <1>2, <1>3

\* The client is told a revision the server has: it knows it already, or asks for the tasks.
LEMMA LearnIs ==
  ASSUME FeedInv, NEW r \in 0..version, Learn(r), UNCHANGED <<version, boardVars, move, moves, losses>>,
         broadcasts' \subseteq 1..version, check' \in {NoCheck} \cup 0..version,
         socket' = "checking" => check' # NoCheck
  PROVE  FeedInv'
<1>a. UNCHANGED <<shown, failedLoad, overtaken>>
  BY DEF boardVars
<1>1. CASE r > known
  <2>1. known' = r /\ latest' = latest + 1 /\ loads' = loads \cup {[id |-> latest + 1, read |-> 0]}
    BY <1>1 DEF Learn, Refresh
  <2>2. FeedTypes
    BY DEF FeedInv
  <2>3. loads' \subseteq [id : 1..latest', read : 0..version]
    BY <2>1, <2>2, FeedCounters DEF FeedTypes
  <2>4. /\ \A l \in loads' : l.id \in 1..latest' /\ l.read \in 0..version
        /\ \A l \in loads' : l.id = latest' => l.read = 0
        /\ \E l \in loads' : l.id = latest' /\ l.read = 0
    <3>1. \A l \in loads : l.id \in 1..latest
      BY <2>2 DEF FeedTypes
    <3>2. [id |-> latest + 1, read |-> 0] \in loads'
      BY <2>1
    <3>3. \A l \in loads' : l.id = latest' => l.read = 0
      BY <2>1, <3>1, FeedCounters
    <3>4. \A l \in loads' : l.id \in 1..latest' /\ l.read \in 0..version
      BY <2>3
    <3>5. QED
      BY <2>1, <3>2, <3>3, <3>4
  <2>5. FeedTypes'
    BY <1>a, <2>1, <2>2, <2>3, <2>4, FeedCounters DEF FeedTypes, FeedTypeOK
  <2>6. LatestIsNew' /\ LearnedIsComing' /\ LatestIsComing'
    BY <2>4 DEF LatestIsNew, LearnedIsComing, LatestIsComing
  <2>7. MovesAreBounded'
    BY DEF FeedInv, MovesAreBounded
  <2>8. QED
    BY <2>5, <2>6, <2>7 DEF FeedInv, AnswerBrings
<1>2. CASE ~(r > known)
  <2>1. UNCHANGED <<known, loads, latest>>
    BY <1>2 DEF Learn, loadVars
  <2>2. FeedTypes' /\ LatestIsNew' /\ LearnedIsComing'
    BY <1>a, <2>1, FeedCounters, ScreenSame
  <2>3. MovesAreBounded' /\ AnswerBrings'
    BY <1>a, <2>1 DEF FeedInv, MovesAreBounded, AnswerBrings, Moved, LatestIsComing
  <2>4. QED
    BY <2>2, <2>3 DEF FeedInv
<1>3. QED
  BY <1>1, <1>2

\* A broadcast reaches the client, or finds its socket closed.
LEMMA BroadcastKeeps ==
  ASSUME FeedInv, Broadcast
  PROVE  FeedInv'
<1>1. PICK r \in broadcasts :
        /\ broadcasts' = broadcasts \ {r}
        /\ IF socket \in {"checking", "live"} THEN Learn(r) ELSE UNCHANGED <<known, loadVars>>
        /\ UNCHANGED <<version, handlers, lost, socket, check, boardVars, move, moves, losses>>
  BY DEF Broadcast
<1>2. r \in 0..version /\ broadcasts' \subseteq 1..version
  BY <1>1, FeedCounters
<1>3. CASE socket \in {"checking", "live"}
  BY <1>1, <1>2, <1>3, FeedCounters, LearnIs
<1>4. CASE socket \notin {"checking", "live"}
  <2>1. UNCHANGED <<known, loads, latest, shown, failedLoad, overtaken, version, socket, check, move, moves, losses>>
    BY <1>1, <1>4 DEF loadVars, boardVars
  <2>2. FeedTypes' /\ LatestIsNew' /\ LearnedIsComing'
    BY <1>2, <2>1, FeedCounters, ScreenSame
  <2>3. MovesAreBounded' /\ AnswerBrings'
    BY <2>1 DEF FeedInv, MovesAreBounded, AnswerBrings, Moved, LatestIsComing
  <2>4. QED
    BY <2>2, <2>3 DEF FeedInv
<1>5. QED
  BY <1>3, <1>4

\* A check is answered.
LEMMA CheckAnswersKeeps ==
  ASSUME FeedInv, CheckAnswers
  PROVE  FeedInv'
<1>1. /\ check \in 0..version /\ Learn(check) /\ check' = NoCheck /\ socket' # "checking"
      /\ UNCHANGED <<version, broadcasts, boardVars, move, moves, losses>>
  BY FeedCounters DEF CheckAnswers, serverVars
<1>2. QED
  BY <1>1, FeedCounters, LearnIs

\* A list of tasks is read.
LEMMA LoadReadsKeeps ==
  ASSUME FeedInv, LoadReads
  PROVE  FeedInv'
<1>1. PICK l \in loads : l.read = 0 /\ loads' = (loads \ {l}) \cup {[l EXCEPT !.read = version]}
  BY DEF LoadReads
<1>2. UNCHANGED <<version, broadcasts, known, socket, check, latest, shown, failedLoad, overtaken,
                  move, moves, losses>>
  BY DEF LoadReads, serverVars, socketVars, boardVars
<1>3. FeedTypes /\ LatestIsNew /\ LearnedIsComing /\ AnswerBrings
  BY DEF FeedInv
<1> DEFINE m == [l EXCEPT !.read = version]
<1>4. m \in [id : 1..latest, read : 0..version] /\ m.id = l.id /\ m.read = version /\ l.id \in 1..latest
  BY <1>3, FeedCounters DEF FeedTypes
<1>5. m \in loads' /\ loads' = (loads \ {l}) \cup {m}
  BY <1>1
<1> HIDE DEF m
<1>6. FeedTypes'
  <2>1. loads' \subseteq [id : 1..latest, read : 0..version]
    BY <1>3, <1>4, <1>5 DEF FeedTypes
  <2>2. \A k \in loads' : k.id \in 1..latest /\ k.read \in 0..version
    BY <2>1
  <2>3. QED
    BY <1>2, <1>3, <2>1, <2>2 DEF FeedTypes, FeedTypeOK
<1>7. LatestIsNew'
  BY <1>2, <1>3, <1>4, <1>5, FeedCounters DEF LatestIsNew
<1>8. LearnedIsComing'
  BY <1>1, <1>2, <1>3, <1>4, <1>5, FeedCounters DEF LearnedIsComing
<1>9. AnswerBrings'
  BY <1>2, <1>3, <1>4, <1>5 DEF AnswerBrings, Moved, LatestIsComing
<1>10. MovesAreBounded'
  BY <1>2 DEF FeedInv, MovesAreBounded
<1>11. QED
  BY <1>6, <1>7, <1>8, <1>9, <1>10 DEF FeedInv

\* A list of tasks arrives, and is shown if no other has been asked for since.
LEMMA LoadAnswersKeeps ==
  ASSUME FeedInv, LoadAnswers
  PROVE  FeedInv'
<1>1. PICK l \in loads :
        /\ l.read # 0 /\ loads' = loads \ {l}
        /\ IF l.id = latest
             THEN /\ shown' = [version |-> l.read, moved |-> FALSE]
                  /\ failedLoad' = FALSE /\ overtaken' = FALSE
             ELSE UNCHANGED boardVars
  BY DEF LoadAnswers
<1>2. UNCHANGED <<version, broadcasts, known, socket, check, latest, move, moves, losses>>
  BY DEF LoadAnswers, serverVars, socketVars
<1>3. FeedTypes /\ LatestIsNew /\ LearnedIsComing /\ AnswerBrings
  BY DEF FeedInv
<1>4. l \in [id : 1..latest, read : 0..version] /\ loads' \subseteq loads
  BY <1>1, <1>3 DEF FeedTypes
<1>5. MovesAreBounded'
  BY <1>2 DEF FeedInv, MovesAreBounded
<1>6. LatestIsNew'
  BY <1>2, <1>3, <1>4 DEF LatestIsNew
<1>7. CASE l.id = latest
  <2>1. /\ shown' \in [version : 0..version, moved : BOOLEAN] /\ shown'.version = l.read
        /\ failedLoad' = FALSE /\ overtaken' = FALSE
    <3>1. /\ shown' = [version |-> l.read, moved |-> FALSE] /\ failedLoad' = FALSE /\ overtaken' = FALSE
      BY <1>1, <1>7
    <3>2. l.read \in 0..version
      BY <1>4
    <3>3. QED
      BY <3>1, <3>2
  <2>2. FeedTypes'
    BY <1>2, <1>3, <1>4, <2>1 DEF FeedTypes, FeedTypeOK
  <2>3. known <= l.read
    BY <1>1, <1>3, <1>7 DEF LatestIsNew
  <2>4. LearnedIsComing' /\ AnswerBrings'
    BY <1>2, <2>1, <2>3 DEF LearnedIsComing, AnswerBrings
  <2>5. QED
    BY <1>5, <1>6, <2>2, <2>4 DEF FeedInv
<1>8. CASE l.id # latest
  <2>1. UNCHANGED <<shown, failedLoad, overtaken>>
    BY <1>1, <1>8 DEF boardVars
  <2>2. FeedTypes'
    BY <1>2, <1>3, <1>4, <2>1 DEF FeedTypes, FeedTypeOK
  <2>3. LearnedIsComing' /\ AnswerBrings'
    BY <1>1, <1>2, <1>3, <1>8, <2>1 DEF LearnedIsComing, AnswerBrings, Moved, LatestIsComing
  <2>4. QED
    BY <1>5, <1>6, <2>2, <2>3 DEF FeedInv
<1>9. QED
  BY <1>7, <1>8

\* A list of tasks does not arrive.
LEMMA LoadFailsKeeps ==
  ASSUME FeedInv, LoadFails
  PROVE  FeedInv'
<1>1. PICK l \in loads :
        loads' = loads \ {l} /\ failedLoad' = (failedLoad \/ l.id = latest)
  BY DEF LoadFails
<1>2. /\ UNCHANGED <<version, broadcasts, known, socket, check, latest, shown, overtaken, move, moves>>
      /\ losses' \in 0..MaxLosses
  BY LossCounts DEF LoadFails, serverVars, socketVars
<1>3. FeedTypes /\ LatestIsNew /\ LearnedIsComing /\ AnswerBrings
  BY DEF FeedInv
<1>4. FeedTypes'
  BY <1>1, <1>2, <1>3, FeedCounters DEF FeedTypes, FeedTypeOK
<1>5. LatestIsNew'
  BY <1>1, <1>2, <1>3 DEF LatestIsNew
<1>6. LearnedIsComing' /\ AnswerBrings'
  BY <1>1, <1>2, <1>3 DEF LearnedIsComing, AnswerBrings, Moved, LatestIsComing
<1>7. MovesAreBounded'
  BY <1>2 DEF FeedInv, MovesAreBounded
<1>8. QED
  BY <1>4, <1>5, <1>6, <1>7 DEF FeedInv

\* A move is answered: the task of the answer is shown, whatever was on screen.
LEMMA MoveAnswersKeeps ==
  ASSUME FeedInv, MoveAnswers
  PROVE  FeedInv'
<1>1. /\ Moved /\ move' = NoMove /\ overtaken' = (shown.version > move.base + 1)
      /\ shown' = [version |-> move.base + 1, moved |-> FALSE]
      /\ UNCHANGED <<version, broadcasts, known, socket, check, loads, latest, failedLoad, moves, losses>>
  BY DEF MoveAnswers, Moved, serverVars, socketVars, loadVars
<1>2. FeedTypes /\ LatestIsNew /\ LearnedIsComing /\ AnswerBrings
  BY DEF FeedInv
<1>3. /\ move \in [base : 0..version, answer : {"asked", "moved", "conflict"}] /\ move.base < version
      /\ version <= MaxCommits + moves /\ moves \in 0..MaxMoves
  BY <1>1, FeedCounters DEF FeedInv, MovesAreBounded, Moved
<1>4. shown' \in [version : 0..version, moved : BOOLEAN] /\ shown'.version = move.base + 1
  BY <1>1, <1>3, FeedCounters
<1>5. FeedTypes'
  BY <1>1, <1>2, <1>4 DEF FeedTypes, FeedTypeOK
<1>6. LatestIsNew'
  BY <1>1, <1>2 DEF LatestIsNew
<1>7. LearnedIsComing'
  <2>1. CASE overtaken
    BY <1>1, <1>2, <1>4, <2>1 DEF AnswerBrings, LatestIsComing, LatestIsNew, LearnedIsComing
  <2>2. CASE ~overtaken
    <3>1. CASE known <= shown.version
      <4>1. known <= shown'.version \/ overtaken'
        <5>1. CASE shown.version > move.base + 1
          BY <1>1, <5>1
        <5>2. CASE ~(shown.version > move.base + 1)
          BY <1>3, <1>4, <3>1, <5>2, FeedCounters
        <5>3. QED
          BY <5>1, <5>2
      <4>2. QED
        BY <4>1, <1>1 DEF LearnedIsComing
    <3>2. CASE (\E l \in loads : l.id = latest /\ (l.read = 0 \/ l.read >= known)) \/ failedLoad
      BY <1>1, <3>2 DEF LearnedIsComing
    <3>3. QED
      BY <1>2, <2>2, <3>1, <3>2 DEF LearnedIsComing
  <2>3. QED
    BY <2>1, <2>2
<1>8. MovesAreBounded' /\ AnswerBrings'
  BY <1>1, <1>3, FeedCounters DEF MovesAreBounded, AnswerBrings, Moved
<1>9. QED
  BY <1>5, <1>6, <1>7, <1>8 DEF FeedInv

\* A move is refused: it is taken back, and the tasks are asked for again.
LEMMA MoveRefusedKeeps ==
  ASSUME FeedInv, MoveRefused
  PROVE  FeedInv'
<1>1. /\ move # NoMove /\ move' = NoMove /\ shown' = [version |-> move.base, moved |-> FALSE]
      /\ latest' = latest + 1 /\ loads' = loads \cup {[id |-> latest + 1, read |-> 0]}
      /\ UNCHANGED <<version, broadcasts, known, socket, check, failedLoad, overtaken, moves, losses>>
  BY DEF MoveRefused, Refresh, serverVars, socketVars
<1>2. FeedTypes
  BY DEF FeedInv
<1>3. /\ move \in [base : 0..version, answer : {"asked", "moved", "conflict"}]
      /\ version <= MaxCommits + moves /\ moves \in 0..MaxMoves
  BY <1>1, FeedCounters DEF FeedInv, MovesAreBounded
<1>4. shown' \in [version : 0..version, moved : BOOLEAN]
  BY <1>1, <1>3
<1>5. loads' \subseteq [id : 1..latest', read : 0..version]
  BY <1>1, <1>2, FeedCounters DEF FeedTypes
<1>6. /\ \A l \in loads' : l.id \in 1..latest' /\ l.read \in 0..version
      /\ \A l \in loads' : l.id = latest' => l.read = 0
      /\ \E l \in loads' : l.id = latest' /\ l.read = 0
  <2>1. \A l \in loads : l.id \in 1..latest
    BY <1>2 DEF FeedTypes
  <2>2. [id |-> latest + 1, read |-> 0] \in loads'
    BY <1>1
  <2>3. \A l \in loads' : l.id = latest' => l.read = 0
    BY <1>1, <2>1, FeedCounters
  <2>4. \A l \in loads' : l.id \in 1..latest' /\ l.read \in 0..version
    BY <1>5
  <2>5. QED
    BY <1>1, <2>2, <2>3, <2>4
<1>7. FeedTypes'
  BY <1>1, <1>2, <1>4, <1>5, <1>6, FeedCounters DEF FeedTypes, FeedTypeOK
<1>8. LatestIsNew' /\ LearnedIsComing'
  BY <1>6 DEF LatestIsNew, LearnedIsComing
<1>9. MovesAreBounded' /\ AnswerBrings'
  BY <1>1, <1>3, FeedCounters DEF MovesAreBounded, AnswerBrings, Moved
<1>10. QED
  BY <1>7, <1>8, <1>9 DEF FeedInv

\* Every step keeps the invariant.
LEMMA FeedInvStep == FeedInv /\ [FeedNext]_feedVars => FeedInv'
<1> SUFFICES ASSUME FeedInv, [FeedNext]_feedVars
             PROVE  FeedInv'
  OBVIOUS
<1>1. CASE FeedNext
  BY <1>1, ConnectionKeeps, CommitKeeps, MovingKeeps, BroadcastKeeps, CheckAnswersKeeps, LoadReadsKeeps,
     LoadAnswersKeeps, LoadFailsKeeps, MoveAnswersKeeps, MoveRefusedKeeps
     DEF FeedNext, ServerStep, ClientStep, Failure
<1>2. CASE UNCHANGED feedVars
  <2>1. UNCHANGED <<version, broadcasts, known, socket, check, loads, latest, shown, failedLoad, overtaken,
                    move, moves, losses>>
    BY <1>2 DEF feedVars, serverVars, socketVars, loadVars, boardVars
  <2>2. FeedTypes' /\ LatestIsNew' /\ LearnedIsComing'
    BY <2>1, FeedCounters, ScreenSame
  <2>3. MovesAreBounded' /\ AnswerBrings'
    BY <2>1 DEF FeedInv, MovesAreBounded, AnswerBrings, Moved, LatestIsComing
  <2>4. QED
    BY <2>2, <2>3 DEF FeedInv
<1>3. QED
  BY <1>1, <1>2

\* Whatever is lost on the way, a client never knows or shows what the server does not
\* have, and what it has learned is on screen or asked for, unless a list failed or the
\* answer to a move came after a newer list.
THEOREM FeedKeepsUp == FeedSpec => []BoardKeepsUp
<1>1. FeedInit => FeedInv
  BY FeedInvInit
<1>2. FeedInv /\ [FeedNext]_feedVars => FeedInv'
  BY FeedInvStep
<1>3. FeedInv => BoardKeepsUp
  BY DEF FeedInv, FeedTypes, BoardKeepsUp
<1>4. QED
  BY <1>1, <1>2, <1>3, PTL DEF FeedSpec

-----------------------------------------------------------------------------
(* What hangs on a task: the inductive invariant                           *)

Asks == Edits \cup Uploads \cup Deletions \cup Saves
Owners == {None, Deleted, Task} \cup Comments

ContentTypes ==
  /\ TypeOK
  /\ comment \in [Comments -> {None, Deleted} \cup CommentRows]
  /\ attachment \in [Attachments -> Owners]
  /\ taskExists \in BOOLEAN /\ reader.cursor \in 0..revision
  /\ archived.flag \in BOOLEAN /\ archived.changes \in Nat /\ acked \in Seq(Nat)

UploadOf(r, a) == request[r] # None /\ request[r].op = "upload" /\ request[r].id = a

\* An upload has an id without a row, unless it takes back a blob whose row was stored
\* without an answer, and its blob in place when it inserts the row; what is still to be
\* deleted has no row any more; and a save looks at the project again only if that was
\* archived.
RequestFine(r) ==
  request[r] # None =>
    /\ request[r].op = "upload" => \/ attachment[request[r].id] = None
                                   \/ request[r].pc = "undo" /\ request[r].id \in unanswered
    /\ request[r].op = "upload" /\ request[r].pc = "insert" => request[r].id \in blobs
    /\ request[r].pc = "blobs" => \A a \in request[r].listed : attachment[a] = Deleted
    /\ request[r].op = "deleteComment" /\ request[r].pc = "write" =>
         \A a \in request[r].listed : attachment[a] \in {request[r].comment, Deleted}
    /\ request[r].pc = "recheck" => archived.changes > 0

UploadsDiffer ==
  \A r, s \in Requests, a \in Attachments : UploadOf(r, a) /\ UploadOf(s, a) => r = s

\* Before the project is archived a second time, every save that was acknowledged was
\* made over a version of its own, older than the workflow.
SavesAreStored ==
  /\ archived.changes = 0 => ~archived.flag
  /\ archived.changes = 1 => archived.flag
  /\ archived.changes < 2 =>
       /\ \A i, j \in 1..Len(acked) : acked[i] = acked[j] => i = j
       /\ \A i \in 1..Len(acked) : acked[i] < workflow

ContentInv ==
  /\ ContentTypes
  /\ RowHasBlob /\ NoBlobLost /\ FeedComplete
  /\ UploadsDiffer /\ SavesAreStored
  /\ \A r \in Requests : RequestFine(r)

-----------------------------------------------------------------------------
(* What hangs on a task: the invariant holds at first                      *)

\* The constants.
LEMMA ContentConstants ==
  /\ MaxVersion \in Nat \ {0} /\ MaxRevision \in Nat /\ MaxFaults \in Nat /\ MaxArchives \in Nat
  /\ None # Deleted /\ Task \notin {None, Deleted}
  /\ None \notin Comments /\ Deleted \notin Comments
  /\ None \notin CommentRows /\ Deleted \notin CommentRows
  /\ None \notin Asks
BY ContentAssumption DEF Asks

\* At first there are no rows, blobs or requests.
LEMMA ContentInvInit == Init => ContentInv
<1> SUFFICES ASSUME Init
             PROVE  ContentInv
  OBVIOUS
<1>1. /\ reader.cursor = 0 /\ archived.flag = FALSE /\ archived.changes = 0
      /\ comment = [c \in Comments |-> None] /\ attachment = [a \in Attachments |-> None]
      /\ request = [r \in Requests |-> None] /\ blobs = {} /\ acked = <<>> /\ workflow = 0
      /\ revision = 0 /\ faults = 0 /\ taskExists = TRUE
  BY DEF Init
<1>2. Rows(comment) = {} /\ Rows(attachment) = {}
  BY <1>1 DEF Rows, IsRow
<1>3. ContentTypes
  <2>1. /\ request \in [Requests -> {None} \cup Edits \cup Uploads \cup Deletions \cup Saves]
        /\ comment \in [Comments -> {None, Deleted} \cup CommentRows]
        /\ attachment \in [Attachments -> Owners]
    BY <1>1 DEF Owners
  <2>2. /\ 0 \in 0..MaxRevision /\ 0 \in 0..MaxVersion /\ 0 \in 0..MaxFaults
        /\ 0 \in 0..0 /\ <<>> \in Seq(Nat)
    BY ContentConstants
  <2>3. TypeOK
    BY <1>1, <1>2, <2>1, <2>2 DEF TypeOK
  <2>4. taskExists \in BOOLEAN /\ archived.flag \in BOOLEAN
    BY <1>1
  <2>5. reader.cursor \in 0..revision /\ archived.changes \in Nat /\ acked \in Seq(Nat)
    BY <1>1, <2>2
  <2>6. QED
    BY <2>1, <2>3, <2>4, <2>5 DEF ContentTypes
<1>4. RowHasBlob /\ NoBlobLost /\ FeedComplete
  BY <1>1, <1>2 DEF RowHasBlob, NoBlobLost, Lost, FeedComplete
<1>5. UploadsDiffer /\ SavesAreStored
  BY <1>1 DEF UploadsDiffer, UploadOf, SavesAreStored
<1>6. \A r \in Requests : RequestFine(r)
  BY <1>1 DEF RequestFine
<1>7. QED
  BY <1>3, <1>4, <1>5, <1>6 DEF ContentInv

-----------------------------------------------------------------------------
(* Lemmas about the parts of a step                                        *)

\* Some of the rows are counted, and the revision stays within its bound.
LEMMA CountIs ==
  ASSUME ContentInv, NEW n \in Nat, Count(n)
  PROVE  revision' = revision + n /\ revision' \in 0..MaxRevision /\ revision <= revision'
         /\ revision \in Nat
BY ContentConstants DEF ContentInv, ContentTypes, TypeOK, Count

\* The types.
LEMMA TypesOfContent ==
  ASSUME ContentInv
  PROVE  /\ revision \in 0..MaxRevision /\ request \in [Requests -> {None} \cup Asks]
         /\ comment \in [Comments -> {None, Deleted} \cup CommentRows]
         /\ attachment \in [Attachments -> Owners] /\ blobs \subseteq Attachments
         /\ \A c \in Rows(comment) : c \in Comments /\ comment[c] \in CommentRows
                                     /\ comment[c].changed \in 1..revision
         /\ \A a \in Rows(attachment) : /\ a \in Attachments /\ taskExists
                                        /\ attachment[a] \in {Task} \cup Rows(comment)
         /\ faults \in 0..MaxFaults /\ workflow \in 0..MaxVersion /\ acked \in Seq(Nat)
         /\ reader.cursor \in 0..revision /\ archived.flag \in BOOLEAN /\ archived.changes \in Nat
         /\ taskExists \in BOOLEAN
BY DEF ContentInv, ContentTypes, TypeOK, Asks, Rows, IsRow

\* A request is what it was when it enters, waits and leaves.
LEMMA AskIs ==
  ASSUME NEW x \in Asks
  PROVE  /\ x.op \in {"updateComment", "deleteComment"} => x \in Edits
         /\ x.op = "upload" => x \in Uploads
         /\ x.op = "workflow" => x \in Saves
         /\ x.pc = "blobs" => x.listed \subseteq Attachments
         /\ x # None
         /\ \A pc : LET y == [x EXCEPT !.pc = pc] IN
              /\ y.pc = pc /\ y.op = x.op
              /\ x \in Edits => y.listed = x.listed /\ y.comment = x.comment /\ y.seen = x.seen
              /\ x \in Uploads => y.id = x.id /\ y.owner = x.owner
              /\ x \in Saves => y.seen = x.seen
         /\ x \in Edits => [x EXCEPT !.pc = "blobs"] \in Edits
         /\ x \in Uploads => \A pc \in {"insert", "undo"} : [x EXCEPT !.pc = pc] \in Uploads
         /\ x \in Saves => [x EXCEPT !.pc = "recheck"] \in Saves
<1>1. x # None
  BY ContentConstants
<1>2. CASE x \in Edits
  BY <1>1, <1>2 DEF Edits, Uploads, Saves
<1>3. CASE x \in Uploads
  BY <1>1, <1>3 DEF Edits, Uploads, Saves
<1>4. CASE x \in Deletions
  BY <1>1, <1>4 DEF Edits, Uploads, Saves, Deletions
<1>5. CASE x \in Saves
  BY <1>1, <1>5 DEF Edits, Uploads, Saves
<1>6. QED
  BY <1>2, <1>3, <1>4, <1>5 DEF Asks

\* The types of the next state, part by part.
LEMMA ContentTyped ==
  ASSUME revision' \in 0..MaxRevision, request' \in [Requests -> {None} \cup Asks],
         comment' \in [Comments -> {None, Deleted} \cup CommentRows],
         attachment' \in [Attachments -> Owners], blobs' \subseteq Attachments,
         taskExists' \in BOOLEAN, reader'.cursor \in 0..revision',
         archived'.flag \in BOOLEAN, archived'.changes \in Nat, acked' \in Seq(Nat),
         workflow' \in 0..MaxVersion, faults' \in 0..MaxFaults,
         \A c \in Rows(comment)' : comment'[c].changed \in 1..revision',
         \A a \in Rows(attachment)' : taskExists' /\ attachment'[a] \in {Task} \cup Rows(comment)'
  PROVE  ContentTypes'
<1>1. \A c \in Rows(comment)' : comment'[c] \in CommentRows
  BY DEF Rows, IsRow
<1>2. \A c \in Rows(comment)' : comment'[c].version \in 1..MaxVersion
  BY <1>1 DEF CommentRows
<1>3. request' \in [Requests -> {None} \cup Edits \cup Uploads \cup Deletions \cup Saves]
  BY DEF Asks
<1>4. TypeOK'
  BY <1>2, <1>3 DEF TypeOK
<1>5. QED
  BY <1>4 DEF ContentTypes

\* A request that takes a step becomes what the step says, and no other changes.
LEMMA StepOf ==
  ASSUME ContentInv, NEW r \in Requests, NEW v \in {None} \cup Asks,
         request' = [request EXCEPT ![r] = v]
  PROVE  /\ request' \in [Requests -> {None} \cup Asks] /\ request'[r] = v
         /\ \A s \in Requests \ {r} : request'[s] = request[s]
BY TypesOfContent

\* A request under way has been read, and what follows keeps all but its place.
LEMMA AskAt ==
  ASSUME ContentInv, NEW r \in Requests, request[r] # None
  PROVE  /\ request[r] \in Asks
         /\ \A pc : Goto(r, pc) <=> request' = [request EXCEPT ![r] = [request[r] EXCEPT !.pc = pc]]
<1>1. request[r] \in Asks
  BY TypesOfContent
<1>2. ASSUME NEW pc
      PROVE  [request EXCEPT ![r].pc = pc] = [request EXCEPT ![r] = [request[r] EXCEPT !.pc = pc]]
  OBVIOUS
<1>3. QED
  BY <1>1, <1>2 DEF Goto

\* The workflow and what clients were told of it stand still.
LEMMA SavesSame ==
  ASSUME ContentInv, UNCHANGED workflowVars
  PROVE  /\ SavesAreStored' /\ archived'.flag \in BOOLEAN /\ archived'.changes \in Nat
         /\ acked' \in Seq(Nat) /\ workflow' \in 0..MaxVersion /\ archived'.changes = archived.changes
BY TypesOfContent DEF ContentInv, SavesAreStored, workflowVars

\* The comments and their reader stand still.
LEMMA FeedSame ==
  ASSUME ContentInv, UNCHANGED <<comment, reader>>
  PROVE  /\ FeedComplete' /\ Rows(comment)' = Rows(comment)
         /\ \A c \in Rows(comment)' : comment'[c].changed \in 1..revision
         /\ comment' \in [Comments -> {None, Deleted} \cup CommentRows]
         /\ reader'.cursor \in 0..revision
<1>1. Rows(comment)' = Rows(comment)
  BY DEF Rows
<1>2. FeedComplete'
  BY <1>1 DEF ContentInv, FeedComplete
<1>3. QED
  BY <1>1, <1>2, TypesOfContent

\* A request that stands still stays fine while the row of its upload is not inserted by
\* another, its blob is kept, and rows are only deleted.
LEMMA RequestSame ==
  ASSUME ContentInv, NEW s \in Requests, request'[s] = request[s],
         archived'.changes \in Nat, archived'.changes >= archived.changes,
         \A a \in Attachments : \/ attachment'[a] = attachment[a]
                                \/ IsRow(attachment[a]) /\ attachment'[a] = Deleted
                                \/ attachment[a] = None /\ ~UploadOf(s, a),
         \A a \in Attachments : UploadOf(s, a) /\ request[s].pc = "insert" /\ a \in blobs => a \in blobs',
         unanswered \subseteq unanswered'
  PROVE  RequestFine(s)'
<1> SUFFICES ASSUME request[s] # None
             PROVE  RequestFine(s)'
  BY DEF RequestFine
<1>1. request[s] \in Asks /\ RequestFine(s)
  BY TypesOfContent DEF ContentInv
<1>2. ASSUME request[s].op = "upload"
      PROVE  \/ attachment'[request[s].id] = None
             \/ request[s].pc = "undo" /\ request[s].id \in unanswered'
  <2>1. request[s].id \in Attachments /\ UploadOf(s, request[s].id)
    BY <1>1, <1>2, AskIs DEF UploadOf, Uploads
  <2>2. \/ attachment[request[s].id] = None
        \/ request[s].pc = "undo" /\ request[s].id \in unanswered
    BY <1>1, <1>2 DEF RequestFine
  <2>3. QED
    BY <2>1, <2>2 DEF IsRow
<1>3. ASSUME request[s].op = "upload", request[s].pc = "insert"
      PROVE  request[s].id \in blobs'
  <2>1. request[s].id \in Attachments /\ UploadOf(s, request[s].id)
    BY <1>1, <1>3, AskIs DEF UploadOf, Uploads
  <2>2. request[s].id \in blobs
    BY <1>1, <1>3 DEF RequestFine
  <2>3. QED
    BY <1>3, <2>1, <2>2
<1>4. ASSUME request[s].pc = "blobs", NEW a \in request[s].listed
      PROVE  attachment'[a] = Deleted
  <2>1. a \in Attachments
    BY <1>1, <1>4, AskIs
  <2>2. attachment[a] = Deleted
    BY <1>1, <1>4 DEF RequestFine
  <2>3. QED
    BY <2>1, <2>2, ContentConstants DEF IsRow
<1>5. ASSUME request[s].op = "deleteComment", request[s].pc = "write", NEW a \in request[s].listed
      PROVE  attachment'[a] \in {request[s].comment, Deleted}
  <2>1. a \in Attachments /\ request[s].comment \in Comments
    BY <1>1, <1>5, AskIs DEF Edits
  <2>2. attachment[a] \in {request[s].comment, Deleted}
    BY <1>1, <1>5 DEF RequestFine
  <2>3. attachment[a] # None
    BY <2>1, <2>2, ContentConstants
  <2>4. QED
    BY <2>1, <2>2, <2>3
<1>6. request[s].pc = "recheck" => archived'.changes > 0
  BY <1>1, TypesOfContent DEF RequestFine
<1>7. QED
  BY <1>2, <1>3, <1>4, <1>5, <1>6 DEF RequestFine

\* Nothing is uploaded that was not uploaded before.
LEMMA UploadsSame ==
  ASSUME ContentInv,
         \A s \in Requests, a \in Attachments : UploadOf(s, a)' => UploadOf(s, a)
  PROVE  UploadsDiffer'
BY DEF ContentInv, UploadsDiffer

\* What a request answers for: the blob it uploads, or those it is about to delete.
Holds(r, b) ==
  request[r] # None /\ ( \/ request[r].op = "upload" /\ request[r].id = b
                         \/ request[r].pc = "blobs" /\ b \in request[r].listed)

LEMMA LostIs ==
  /\ Lost = {b \in blobs : ~IsRow(attachment[b]) /\ \A r \in Requests : ~Holds(r, b)}
  /\ Lost' = {b \in blobs' : ~IsRow(attachment'[b]) /\ \A r \in Requests : ~Holds(r, b)'}
BY DEF Lost, Holds

\* No blob is lost by a step that leaves none behind but those of a deleted comment.
LEMMA NothingLost ==
  ASSUME ContentInv, faults' = faults,
         \A b \in Lost' : \/ b \in Lost /\ removedBy'[b] = removedBy[b]
                          \/ removedBy'[b] = "deleteComment"
  PROVE  NoBlobLost'
BY DEF ContentInv, NoBlobLost

\* A step of one request that leaves the rows alone loses no blob but those that nobody
\* answered for before, if the request answers for the others.
LEMMA KeepsHold ==
  ASSUME ContentInv, NEW r \in Requests, faults' = faults, UNCHANGED <<attachment, removedBy>>,
         \A s \in Requests \ {r} : request'[s] = request[s],
         \A b \in blobs' : ~Holds(r, b)' => b \in blobs /\ ~Holds(r, b)
  PROVE  NoBlobLost'
<1>1. ASSUME NEW b \in Lost'
      PROVE  b \in Lost
  <2>1. b \in blobs' /\ ~IsRow(attachment[b]) /\ \A s \in Requests : ~Holds(s, b)'
    BY LostIs
  <2>2. ASSUME NEW s \in Requests
        PROVE  b \in blobs /\ ~Holds(s, b)
    <3>1. b \in blobs /\ ~Holds(r, b)
      BY <2>1
    <3>2. CASE s # r
      BY <2>1, <3>1, <3>2 DEF Holds
    <3>3. QED
      BY <3>1, <3>2
  <2>3. QED
    BY <2>1, <2>2, LostIs
<1>2. QED
  BY <1>1, NothingLost

\* While the tables stand still, so do their types, the feed and the saves.
LEMMA TablesSame ==
  ASSUME ContentInv, request' \in [Requests -> {None} \cup Asks],
         UNCHANGED <<revision, comment, attachment, removedBy, unanswered, taskExists, reader, workflowVars>>,
         blobs' \subseteq Attachments, faults' \in 0..MaxFaults
  PROVE  ContentTypes' /\ FeedComplete' /\ SavesAreStored' /\ Rows(attachment)' = Rows(attachment)
<1>1. FeedComplete' /\ SavesAreStored'
  BY FeedSame, SavesSame
<1>2. Rows(attachment)' = Rows(attachment) /\ Rows(comment)' = Rows(comment)
  BY DEF Rows
<1>3. ContentTypes'
  BY <1>2, TypesOfContent, SavesSame, FeedSame, ContentTyped
<1>4. QED
  BY <1>1, <1>2, <1>3

\* A step that changes a request alone keeps what the others rely on.
LEMMA OnlyRequest ==
  ASSUME ContentInv, NEW r \in Requests, NEW v \in {None} \cup Asks,
         request' = [request EXCEPT ![r] = v],
         UNCHANGED <<contentVars, reader, workflowVars>>, faults' \in 0..MaxFaults,
         RequestFine(r)', UploadsDiffer', NoBlobLost'
  PROVE  ContentInv'
<1>1. /\ request' \in [Requests -> {None} \cup Asks]
      /\ \A s \in Requests \ {r} : request'[s] = request[s]
  BY StepOf
<1>2. ContentTypes' /\ FeedComplete' /\ SavesAreStored' /\ Rows(attachment)' = Rows(attachment)
  BY <1>1, TablesSame, TypesOfContent DEF contentVars
<1>3. RowHasBlob'
  BY <1>2 DEF ContentInv, RowHasBlob, contentVars
<1>4. ASSUME NEW s \in Requests, s # r
      PROVE  RequestFine(s)'
  BY <1>1, <1>4, RequestSame, TypesOfContent DEF contentVars, workflowVars
<1>5. QED
  BY <1>2, <1>3, <1>4 DEF ContentInv

-----------------------------------------------------------------------------
(* Each action keeps the invariant                                         *)

\* An edit starts: the comment, its version and what hangs on it are read.
LEMMA CommentReadsKeeps ==
  ASSUME ContentInv, NEW r \in Requests, NEW c \in Comments,
         NEW op \in {"updateComment", "deleteComment"}, CommentReads(r, op, c)
  PROVE  ContentInv'
<1> DEFINE v == [op |-> op, pc |-> "write", comment |-> c, seen |-> comment[c].version,
                 listed |-> IF op = "deleteComment" THEN AttachmentsOf(c) ELSE {}]
<1>1. /\ request[r] = None /\ request' = [request EXCEPT ![r] = v] /\ comment[c].version < MaxVersion
      /\ UNCHANGED <<contentVars, reader, workflowVars, faults>> /\ c \in Rows(comment)
  BY DEF CommentReads, Enter
<1>2. v \in Edits
  <2>1. comment[c].version \in 0..(MaxVersion - 1)
    BY <1>1, TypesOfContent, ContentConstants DEF CommentRows
  <2>2. AttachmentsOf(c) \subseteq Attachments
    BY TypesOfContent DEF AttachmentsOf
  <2>3. v.listed \subseteq Attachments
    BY <2>2
  <2>4. QED
    BY <2>1, <2>3 DEF Edits
<1>3. v.op # "upload" /\ v.pc = "write" /\ v.op = op /\ v.comment = c
      /\ (op = "deleteComment" => v.listed = AttachmentsOf(c))
  OBVIOUS
<1> HIDE DEF v
<1>4. /\ v \in Asks /\ request'[r] = v /\ v # None
      /\ \A s \in Requests \ {r} : request'[s] = request[s]
  BY <1>1, <1>2, StepOf, ContentConstants DEF Asks
<1>5. RequestFine(r)'
  BY <1>1, <1>3, <1>4 DEF RequestFine, AttachmentsOf, contentVars
<1>6. UploadsDiffer'
  BY <1>3, <1>4, UploadsSame DEF UploadOf
<1>7. NoBlobLost'
  BY <1>1, <1>3, <1>4, KeepsHold DEF Holds, contentVars
<1>8. QED
  BY <1>1, <1>4, <1>5, <1>6, <1>7, OnlyRequest, TypesOfContent

\* An upload starts: its id is in no use.
LEMMA UploadReadsKeeps ==
  ASSUME ContentInv, NEW r \in Requests, NEW a \in Attachments, NEW o \in Comments \cup {Task},
         UploadReads(r, a, o)
  PROVE  ContentInv'
<1> DEFINE v == [op |-> "upload", pc |-> "put", id |-> a, owner |-> o]
<1>1. /\ request[r] = None /\ request' = [request EXCEPT ![r] = v]
      /\ UNCHANGED <<contentVars, reader, workflowVars, faults>>
      /\ attachment[a] = None /\ a \notin blobs \cup Uploading
  BY DEF UploadReads, Enter
<1>2. v \in Uploads /\ v.op = "upload" /\ v.pc = "put" /\ v.id = a
  BY DEF Uploads
<1> HIDE DEF v
<1>3. /\ v \in Asks /\ request'[r] = v /\ v # None
      /\ \A s \in Requests \ {r} : request'[s] = request[s]
  BY <1>1, <1>2, StepOf, ContentConstants DEF Asks
<1>4. RequestFine(r)'
  BY <1>1, <1>2, <1>3 DEF RequestFine, contentVars
<1>5. UploadsDiffer'
  <2>1. \A s \in Requests : ~UploadOf(s, a)
    BY <1>1 DEF Uploading, UploadOf
  <2>2. \A b \in Attachments : UploadOf(r, b)' => b = a
    BY <1>2, <1>3 DEF UploadOf
  <2>3. \A s \in Requests \ {r}, b \in Attachments : UploadOf(s, b)' => UploadOf(s, b)
    BY <1>3 DEF UploadOf
  <2>4. ASSUME NEW s \in Requests, NEW t \in Requests, NEW b \in Attachments,
               UploadOf(s, b)', UploadOf(t, b)'
        PROVE  s = t
    <3>1. CASE s # r /\ t # r
      BY <2>3, <2>4, <3>1 DEF ContentInv, UploadsDiffer
    <3>2. CASE s = r /\ t # r
      BY <2>1, <2>2, <2>3, <2>4, <3>2
    <3>3. CASE s # r /\ t = r
      BY <2>1, <2>2, <2>3, <2>4, <3>3
    <3>4. QED
      BY <3>1, <3>2, <3>3
  <2>5. QED
    BY <2>4 DEF UploadsDiffer
<1>6. NoBlobLost'
  BY <1>1, <1>2, <1>3, KeepsHold DEF Holds, contentVars
<1>7. QED
  BY <1>1, <1>3, <1>4, <1>5, <1>6, OnlyRequest, TypesOfContent

\* A save of the workflow starts.
LEMMA WorkflowReadsKeeps ==
  ASSUME ContentInv, NEW r \in Requests, WorkflowReads(r)
  PROVE  ContentInv'
<1> DEFINE v == [op |-> "workflow", pc |-> "write", seen |-> workflow]
<1>1. /\ request[r] = None /\ request' = [request EXCEPT ![r] = v] /\ workflow < MaxVersion
      /\ UNCHANGED <<contentVars, reader, workflowVars, faults>>
  BY DEF WorkflowReads, Enter
<1>2. v \in Saves /\ v.op = "workflow" /\ v.pc = "write"
  BY <1>1, TypesOfContent, ContentConstants DEF Saves
<1> HIDE DEF v
<1>3. /\ v \in Asks /\ request'[r] = v /\ v # None
      /\ \A s \in Requests \ {r} : request'[s] = request[s]
  BY <1>1, <1>2, StepOf, ContentConstants DEF Asks
<1>4. RequestFine(r)'
  BY <1>1, <1>2, <1>3 DEF RequestFine
<1>5. UploadsDiffer'
  BY <1>2, <1>3, UploadsSame DEF UploadOf
<1>6. NoBlobLost'
  BY <1>1, <1>2, <1>3, KeepsHold DEF Holds, contentVars
<1>7. QED
  BY <1>1, <1>3, <1>4, <1>5, <1>6, OnlyRequest, TypesOfContent

\* R2 fails: the request is gone, and from here on blobs may be left behind.
LEMMA BlobFailsKeeps ==
  ASSUME ContentInv, NEW r \in Requests, BlobFails(r)
  PROVE  ContentInv'
<1>1. /\ request' = [request EXCEPT ![r] = None] /\ faults < MaxFaults /\ faults' = faults + 1
      /\ UNCHANGED <<contentVars, reader, workflowVars>>
  BY DEF BlobFails, Leave
<1>2. request'[r] = None /\ \A s \in Requests \ {r} : request'[s] = request[s]
  BY <1>1, StepOf
<1>3. faults' \in 0..MaxFaults /\ faults' # 0
  BY <1>1, TypesOfContent, ContentConstants
<1>4. RequestFine(r)'
  BY <1>2 DEF RequestFine
<1>5. UploadsDiffer'
  BY <1>2, UploadsSame DEF UploadOf
<1>6. NoBlobLost'
  BY <1>3 DEF NoBlobLost
<1>7. QED
  BY <1>1, <1>3, <1>4, <1>5, <1>6, OnlyRequest

\* The blob is stored before its row, so that the request answers for it.
LEMMA PutKeeps ==
  ASSUME ContentInv, NEW r \in Requests, Put(r)
  PROVE  ContentInv'
<1> DEFINE x == request[r]
           y == [x EXCEPT !.pc = "insert"]
<1>1. /\ request[r] # None /\ x.op = "upload" /\ Goto(r, "insert") /\ blobs' = blobs \cup {x.id}
      /\ UNCHANGED <<revision, comment, attachment, removedBy, unanswered, taskExists, reader, workflowVars, faults>>
  BY DEF Put, At
<1>2. x \in Asks /\ x \in Uploads /\ request' = [request EXCEPT ![r] = y]
  BY <1>1, AskAt, AskIs
<1>3. y \in Uploads /\ y.op = "upload" /\ y.pc = "insert" /\ y.id = x.id /\ x.id \in Attachments
  BY <1>1, <1>2, AskIs DEF Uploads
<1>4. RequestFine(r)
  BY DEF ContentInv
<1>5. attachment[x.id] = None
  BY <1>1, <1>4 DEF RequestFine, Put, At
<1> HIDE DEF y
<1>6. /\ request' \in [Requests -> {None} \cup Asks] /\ y \in Asks /\ request'[r] = y /\ y # None
      /\ \A s \in Requests \ {r} : request'[s] = request[s]
  BY <1>2, <1>3, StepOf, ContentConstants DEF Asks
<1>7. ContentTypes' /\ FeedComplete' /\ SavesAreStored' /\ Rows(attachment)' = Rows(attachment)
  BY <1>1, <1>3, <1>6, TablesSame, TypesOfContent
<1>8. RowHasBlob'
  BY <1>1, <1>7 DEF ContentInv, RowHasBlob
<1>9. RequestFine(r)'
  BY <1>1, <1>3, <1>5, <1>6 DEF RequestFine
<1>10. ASSUME NEW s \in Requests, s # r
       PROVE  RequestFine(s)'
  BY <1>1, <1>6, <1>10, RequestSame, TypesOfContent DEF workflowVars
<1>11. UploadsDiffer'
  BY <1>1, <1>3, <1>6, UploadsSame DEF UploadOf
<1>12. NoBlobLost'
  <2>1. \A b : b = x.id => Holds(r, b)'
    BY <1>3, <1>6 DEF Holds
  <2>2. \A b : Holds(r, b) => b = x.id
    BY <1>1, <1>2 DEF Holds, Uploads
  <2>3. \A b \in blobs' : ~Holds(r, b)' => b \in blobs /\ ~Holds(r, b)
    BY <1>1, <2>1, <2>2
  <2>4. QED
    BY <1>1, <1>6, <2>3, KeepsHold
<1>13. QED
  BY <1>7, <1>8, <1>9, <1>10, <1>11, <1>12 DEF ContentInv

\* A request that goes lets go of blobs that no row and no upload of another needs.
LEMMA BlobsGo ==
  ASSUME ContentInv, NEW r \in Requests, request' = [request EXCEPT ![r] = None],
         NEW gone, blobs' = blobs \ gone, gone \cap Rows(attachment) \subseteq unanswered,
         \A s \in Requests \ {r}, b \in gone : UploadOf(s, b) => request[s].pc = "undo",
         \A b : Holds(r, b) => b \in gone,
         UNCHANGED <<revision, comment, attachment, removedBy, unanswered, taskExists, reader, workflowVars, faults>>
  PROVE  ContentInv'
<1>1. /\ request' \in [Requests -> {None} \cup Asks] /\ request'[r] = None
      /\ \A s \in Requests \ {r} : request'[s] = request[s]
  BY StepOf
<1>2. ContentTypes' /\ FeedComplete' /\ SavesAreStored' /\ Rows(attachment)' = Rows(attachment)
  BY <1>1, TablesSame, TypesOfContent
<1>3. RowHasBlob'
  BY <1>2 DEF ContentInv, RowHasBlob
<1>4. RequestFine(r)'
  BY <1>1 DEF RequestFine
<1>5. ASSUME NEW s \in Requests, s # r
      PROVE  RequestFine(s)'
  <2>1. \A b \in Attachments : UploadOf(s, b) /\ request[s].pc = "insert" /\ b \in blobs => b \in blobs'
    BY <1>5
  <2>2. archived'.changes \in Nat /\ archived'.changes >= archived.changes
    BY TypesOfContent DEF workflowVars
  <2>3. QED
    BY <1>1, <1>5, <2>1, <2>2, RequestSame
<1>6. UploadsDiffer'
  BY <1>1, UploadsSame DEF UploadOf
<1>7. NoBlobLost'
  BY <1>1, KeepsHold
<1>8. QED
  BY <1>2, <1>3, <1>4, <1>5, <1>6, <1>7 DEF ContentInv

\* An upload that is refused takes its blob back.
LEMMA UndoPutKeeps ==
  ASSUME ContentInv, NEW r \in Requests, UndoPut(r)
  PROVE  ContentInv'
<1> DEFINE x == request[r]
<1>1. /\ request[r] # None /\ x.op = "upload" /\ request' = [request EXCEPT ![r] = None]
      /\ blobs' = blobs \ {x.id}
      /\ UNCHANGED <<revision, comment, attachment, removedBy, unanswered, taskExists, reader, workflowVars, faults>>
  BY DEF UndoPut, At, Leave
<1>2. x \in Uploads /\ x.id \in Attachments /\ x.pc # "blobs"
  BY <1>1, AskAt, AskIs DEF Uploads
<1>3. UploadOf(r, x.id) /\ (attachment[x.id] = None \/ x.id \in unanswered)
  BY <1>1 DEF ContentInv, RequestFine, UploadOf
<1>4. {x.id} \cap Rows(attachment) \subseteq unanswered
  BY <1>3 DEF Rows, IsRow
<1>5. \A s \in Requests \ {r}, b \in {x.id} : UploadOf(s, b) => request[s].pc = "undo"
  BY <1>2, <1>3 DEF ContentInv, UploadsDiffer
<1>6. \A b : Holds(r, b) => b \in {x.id}
  BY <1>2 DEF Holds
<1>7. QED
  BY <1>1, <1>4, <1>5, <1>6, BlobsGo

\* The blobs of deleted rows are deleted.
LEMMA DeleteBlobsKeeps ==
  ASSUME ContentInv, NEW r \in Requests, DeleteBlobs(r)
  PROVE  ContentInv'
<1> DEFINE x == request[r]
<1>1. /\ request[r] # None /\ x.pc = "blobs" /\ request' = [request EXCEPT ![r] = None]
      /\ blobs' = blobs \ x.listed
      /\ UNCHANGED <<revision, comment, attachment, removedBy, unanswered, taskExists, reader, workflowVars, faults>>
  BY DEF DeleteBlobs, Leave
<1>2. x \in Asks /\ x.listed \subseteq Attachments
  BY <1>1, AskAt, AskIs
<1>3. \A a \in x.listed : attachment[a] = Deleted
  BY <1>1 DEF ContentInv, RequestFine
<1>4. x.listed \cap Rows(attachment) \subseteq unanswered
  BY <1>3 DEF Rows, IsRow
<1>5. ASSUME NEW s \in Requests \ {r}, NEW b \in x.listed, UploadOf(s, b)
      PROVE  request[s].pc = "undo"
  <2>1. attachment[b] = None \/ request[s].pc = "undo"
    BY <1>5 DEF ContentInv, RequestFine, UploadOf
  <2>2. QED
    BY <1>3, <2>1, ContentConstants
<1>6. x.op # "upload"
  BY <1>1, <1>2, AskIs DEF Uploads
<1>7. \A b : Holds(r, b) => b \in x.listed
  BY <1>6 DEF Holds
<1>8. QED
  BY <1>1, <1>4, <1>5, <1>7, BlobsGo

\* An upload about to insert its row has the only claim on it and on its blob.
LEMMA InsertAskAt ==
  ASSUME ContentInv, NEW r \in Requests, At(r, "upload", "insert")
  PROVE  LET x == request[r] IN
         /\ x \in Asks /\ x \in Uploads /\ x.id \in Attachments /\ x.owner \in Comments \cup {Task}
         /\ attachment[x.id] = None /\ x.id \in blobs /\ UploadOf(r, x.id)
         /\ \A b : Holds(r, b) => b = x.id
<1> DEFINE x == request[r]
<1>1. request[r] # None /\ x.op = "upload" /\ x.pc = "insert"
  BY DEF At
<1>2. x \in Asks /\ x \in Uploads /\ x.id \in Attachments /\ x.owner \in Comments \cup {Task}
  BY <1>1, AskAt, AskIs DEF Uploads
<1>3. attachment[x.id] = None /\ x.id \in blobs /\ UploadOf(r, x.id)
  BY <1>1 DEF ContentInv, RequestFine, UploadOf
<1>4. \A b : Holds(r, b) => b = x.id
  BY <1>1, <1>2 DEF Holds, Uploads
<1>5. QED
  BY <1>2, <1>3, <1>4

\* The row is inserted, whether the request learns it and leaves or takes the blob back.
LEMMA InsertRowKeeps ==
  ASSUME ContentInv, NEW r \in Requests, At(r, "upload", "insert"),
         HasOwner(request[r].owner), InsertRow(r),
         UNCHANGED <<comment, removedBy, blobs, taskExists, reader, workflowVars>>,
         unanswered \subseteq unanswered', faults' \in 0..MaxFaults, faults' = faults \/ faults' # 0,
         NEW v \in {None} \cup Asks, request' = [request EXCEPT ![r] = v],
         v # None => /\ v.op = "upload" /\ v.pc = "undo" /\ v.id = request[r].id
                     /\ v.id \in unanswered'
  PROVE  ContentInv'
<1> DEFINE x == request[r]
<1>2. x \in Asks /\ x \in Uploads /\ x.id \in Attachments /\ x.owner \in Comments \cup {Task}
  BY InsertAskAt
<1>3. attachment[x.id] = None /\ x.id \in blobs /\ UploadOf(r, x.id)
  BY InsertAskAt
<1>4. \A b : Holds(r, b) => b = x.id
  BY InsertAskAt
<1>11. attachment' = [attachment EXCEPT ![x.id] = x.owner] /\ Count(1)
  BY DEF InsertRow
<1>12. revision' \in 0..MaxRevision /\ revision <= revision' /\ revision \in Nat
  BY <1>11, CountIs
<1>13. /\ request' \in [Requests -> {None} \cup Asks] /\ request'[r] = v
      /\ \A s \in Requests \ {r} : request'[s] = request[s]
  BY StepOf
<1>14. /\ attachment' \in [Attachments -> Owners] /\ attachment'[x.id] = x.owner
      /\ \A a \in Attachments \ {x.id} : attachment'[a] = attachment[a]
  BY <1>2, <1>11, TypesOfContent DEF Owners
<1>15. IsRow(x.owner)
  BY <1>2, ContentConstants DEF IsRow
<1>16. Rows(attachment)' = Rows(attachment) \cup {x.id}
  BY <1>2, <1>3, <1>14, <1>15, TypesOfContent DEF Rows
<1>17. x.owner \in {Task} \cup Rows(comment) /\ taskExists
  BY <1>2 DEF HasOwner
<1>18. ContentTypes'
  <2>1. Rows(comment)' = Rows(comment) /\ comment' \in [Comments -> {None, Deleted} \cup CommentRows]
    BY FeedSame
  <2>2. reader'.cursor \in 0..revision'
    BY <1>12, TypesOfContent
  <2>3. \A c \in Rows(comment)' : comment'[c].changed \in 1..revision'
    BY <1>12, <2>1, TypesOfContent
  <2>4. \A a \in Rows(attachment)' : taskExists' /\ attachment'[a] \in {Task} \cup Rows(comment)'
    BY <1>14, <1>16, <1>17, <2>1, TypesOfContent
  <2>5. /\ taskExists' \in BOOLEAN /\ blobs' \subseteq Attachments /\ faults' \in 0..MaxFaults
    BY TypesOfContent
  <2>6. QED
    BY <1>12, <1>13, <1>14, <2>1, <2>2, <2>3, <2>4, <2>5, SavesSame, ContentTyped
<1>19. RowHasBlob'
  BY <1>3, <1>16 DEF ContentInv, RowHasBlob
<1>20. FeedComplete' /\ SavesAreStored'
  BY FeedSame, SavesSame
<1>21. ASSUME NEW s \in Requests
       PROVE  RequestFine(s)'
  <2>1. CASE s = r
    BY <1>13, <2>1 DEF RequestFine
  <2>2. CASE s # r
    <3>1. ~UploadOf(s, x.id)
      BY <1>2, <1>3, <2>2 DEF ContentInv, UploadsDiffer
    <3>2. \A a \in Attachments : \/ attachment'[a] = attachment[a]
                                 \/ attachment[a] = None /\ ~UploadOf(s, a)
      BY <1>3, <1>14, <3>1
    <3>3. archived'.changes \in Nat /\ archived'.changes >= archived.changes
      BY TypesOfContent DEF workflowVars
    <3>4. QED
      BY <1>13, <2>2, <3>2, <3>3, RequestSame
  <2>3. QED
    BY <2>1, <2>2
<1>22. UploadsDiffer'
  BY <1>3, <1>13, UploadsSame DEF UploadOf
<1>23. NoBlobLost'
  <2>1. ASSUME NEW b \in Lost'
        PROVE  b \in Lost
    <3>1. b \in blobs /\ ~IsRow(attachment'[b]) /\ \A s \in Requests : ~Holds(s, b)'
      BY LostIs
    <3>2. b # x.id
      BY <1>14, <1>15, <3>1
    <3>3. attachment'[b] = attachment[b]
      BY <1>14, <3>1, <3>2, TypesOfContent
    <3>4. \A s \in Requests : ~Holds(s, b)
      BY <1>4, <1>13, <3>1, <3>2 DEF Holds
    <3>5. QED
      BY <3>1, <3>3, <3>4, LostIs
  <2>2. QED
    BY <2>1, NothingLost DEF NoBlobLost
<1>24. QED
  BY <1>18, <1>19, <1>20, <1>21, <1>22, <1>23 DEF ContentInv

\* The row is not inserted, and the request goes on to take its blob back.
LEMMA TakenBackKeeps ==
  ASSUME ContentInv, NEW r \in Requests, At(r, "upload", "insert"), Goto(r, "undo"),
         UNCHANGED <<contentVars, reader, workflowVars>>,
         faults' \in 0..MaxFaults, faults' = faults \/ faults' # 0
  PROVE  ContentInv'
<1> DEFINE x == request[r]
           y == [x EXCEPT !.pc = "undo"]
<1>1. /\ request[r] # None /\ x.op = "upload" /\ x \in Asks /\ x \in Uploads
      /\ attachment[x.id] = None /\ UploadOf(r, x.id) /\ \A b : Holds(r, b) => b = x.id
  BY InsertAskAt DEF At
<1>2. request' = [request EXCEPT ![r] = y]
  BY <1>1, AskAt
<1>3. y \in Uploads /\ y.op = "upload" /\ y.pc = "undo" /\ y.id = x.id
  BY <1>1, AskIs DEF Uploads
<1> HIDE DEF y
<1>4. /\ y \in Asks /\ request'[r] = y /\ y # None
      /\ \A s \in Requests \ {r} : request'[s] = request[s]
  BY <1>2, <1>3, StepOf, ContentConstants DEF Asks
<1>5. RequestFine(r)'
  BY <1>1, <1>3, <1>4 DEF RequestFine, contentVars
<1>6. UploadsDiffer'
  BY <1>1, <1>3, <1>4, UploadsSame DEF UploadOf
<1>7. \A b : ~Holds(r, b)' => ~Holds(r, b)
  BY <1>1, <1>3, <1>4 DEF Holds
<1>8. NoBlobLost'
  <2>1. CASE faults' = faults
    BY <1>4, <1>7, <2>1, KeepsHold DEF contentVars
  <2>2. QED
    BY <2>1 DEF NoBlobLost
<1>9. QED
  BY <1>2, <1>4, <1>5, <1>6, <1>8, OnlyRequest

\* The row is inserted if the task and the comment are still there.
LEMMA InsertKeeps ==
  ASSUME ContentInv, NEW r \in Requests, Insert(r)
  PROVE  ContentInv'
<1> DEFINE x == request[r]
<1>1. At(r, "upload", "insert") /\ UNCHANGED <<comment, removedBy, unanswered, blobs, taskExists, reader, workflowVars, faults>>
  BY DEF Insert
<1>2. faults' \in 0..MaxFaults
  BY <1>1, TypesOfContent
<1>3. CASE HasOwner(x.owner)
  <2>1. InsertRow(r) /\ request' = [request EXCEPT ![r] = None]
    BY <1>3 DEF Insert, Leave
  <2>2. QED
    BY <1>1, <1>2, <1>3, <2>1, InsertRowKeeps
<1>4. CASE ~HasOwner(x.owner)
  <2>1. Goto(r, "undo") /\ UNCHANGED <<attachment, revision>>
    BY <1>4 DEF Insert
  <2>2. QED
    BY <1>1, <1>2, <2>1, TakenBackKeeps DEF contentVars
<1>5. QED
  BY <1>3, <1>4

\* D1 fails at the INSERT, before or after it is stored.
LEMMA InsertFailsKeeps ==
  ASSUME ContentInv, NEW r \in Requests, InsertFails(r)
  PROVE  ContentInv'
<1> DEFINE x == request[r]
           y == [x EXCEPT !.pc = "undo"]
<1>1. /\ At(r, "upload", "insert") /\ Goto(r, "undo") /\ faults < MaxFaults /\ faults' = faults + 1
      /\ UNCHANGED <<comment, removedBy, blobs, taskExists, reader, workflowVars>>
  BY DEF InsertFails
<1>2. faults' \in 0..MaxFaults /\ faults' # 0
  BY <1>1, TypesOfContent, ContentConstants
<1>3. CASE UNCHANGED <<attachment, revision, unanswered>>
  BY <1>1, <1>2, <1>3, TakenBackKeeps DEF contentVars
<1>4. CASE HasOwner(x.owner) /\ InsertRow(r) /\ unanswered' = unanswered \cup {x.id}
  <2>1. request[r] # None /\ x.op = "upload" /\ x \in Asks /\ x \in Uploads
    BY <1>1, InsertAskAt DEF At
  <2>2. request' = [request EXCEPT ![r] = y]
    BY <1>1, <2>1, AskAt
  <2>3. y \in Uploads /\ y.op = "upload" /\ y.pc = "undo" /\ y.id = x.id
    BY <2>1, AskIs DEF Uploads
  <2> HIDE DEF y
  <2>4. y \in Asks /\ x.id \in unanswered' /\ unanswered \subseteq unanswered'
    BY <1>4, <2>3 DEF Asks
  <2>5. QED
    BY <1>1, <1>2, <1>4, <2>2, <2>3, <2>4, InsertRowKeeps
<1>5. QED
  BY <1>3, <1>4 DEF InsertFails

\* Rows of attachments are deleted: the others stay with their blobs, and what the other
\* requests remember stays right.
LEMMA RowsGo ==
  ASSUME ContentInv, NEW r \in Requests, NEW set, set \subseteq Rows(attachment), NEW op,
         RemoveAttachments(set, op), UNCHANGED <<blobs, archived>>,
         \A s \in Requests \ {r} : request'[s] = request[s]
  PROVE  /\ attachment' \in [Attachments -> Owners]
         /\ \A a \in Attachments : attachment'[a] = IF a \in set THEN Deleted ELSE attachment[a]
         /\ \A a \in Attachments : removedBy'[a] = IF a \in set THEN op ELSE removedBy[a]
         /\ Rows(attachment)' = Rows(attachment) \ set /\ RowHasBlob'
         /\ \A s \in Requests \ {r} : RequestFine(s)'
<1>1. /\ \A a \in Attachments : attachment'[a] = IF a \in set THEN Deleted ELSE attachment[a]
      /\ \A a \in Attachments : removedBy'[a] = IF a \in set THEN op ELSE removedBy[a]
      /\ unanswered' = unanswered
  BY DEF RemoveAttachments
<1>2. attachment' \in [Attachments -> Owners]
  BY TypesOfContent DEF RemoveAttachments, Owners
<1>3. Rows(attachment)' = Rows(attachment) \ set
  BY <1>1, <1>2, TypesOfContent DEF Rows, IsRow
<1>4. RowHasBlob'
  BY <1>1, <1>3 DEF ContentInv, RowHasBlob
<1>5. \A a \in Attachments : \/ attachment'[a] = attachment[a]
                             \/ IsRow(attachment[a]) /\ attachment'[a] = Deleted
  BY <1>1 DEF Rows
<1>6. archived'.changes \in Nat /\ archived'.changes >= archived.changes
  BY TypesOfContent
<1>7. \A s \in Requests \ {r} : RequestFine(s)'
  BY <1>1, <1>5, <1>6, RequestSame
<1>8. QED
  BY <1>1, <1>2, <1>3, <1>4, <1>7

\* deleteAttachment and deleteTask answer for the blobs of the rows they delete.
LEMMA DeletionHolds ==
  ASSUME ContentInv, NEW r \in Requests, NEW set, set \subseteq Rows(attachment), NEW op,
         RemoveAttachments(set, op), UNCHANGED <<blobs, archived, faults>>,
         NEW v \in Deletions, v.listed = set,
         request[r] = None, request' = [request EXCEPT ![r] = v]
  PROVE  RequestFine(r)' /\ UploadsDiffer' /\ NoBlobLost'
<1>1. v \in Asks /\ v.op # "upload" /\ v.op # "deleteComment" /\ v.pc = "blobs" /\ v # None
  BY ContentConstants DEF Asks, Deletions
<1>2. request'[r] = v /\ \A s \in Requests \ {r} : request'[s] = request[s]
  BY <1>1, StepOf
<1>3. /\ \A a \in Attachments : attachment'[a] = IF a \in set THEN Deleted ELSE attachment[a]
      /\ \A a \in Attachments : removedBy'[a] = IF a \in set THEN op ELSE removedBy[a]
  BY <1>2, RowsGo
<1>4. RequestFine(r)'
  BY <1>1, <1>2, <1>3, TypesOfContent DEF RequestFine
<1>5. UploadsDiffer'
  BY <1>1, <1>2, UploadsSame DEF UploadOf
<1>6. ASSUME NEW b \in Lost'
      PROVE  b \in Lost /\ removedBy'[b] = removedBy[b]
  <2>1. b \in blobs /\ b \in Attachments /\ ~IsRow(attachment'[b]) /\ \A s \in Requests : ~Holds(s, b)'
    BY LostIs, TypesOfContent
  <2>2. b \notin set
    BY <1>1, <1>2, <2>1 DEF Holds
  <2>3. attachment'[b] = attachment[b] /\ removedBy'[b] = removedBy[b]
    BY <1>3, <2>1, <2>2
  <2>4. \A s \in Requests : ~Holds(s, b)
    BY <1>2, <2>1 DEF Holds
  <2>5. QED
    BY <2>1, <2>3, <2>4, LostIs
<1>7. NoBlobLost'
  BY <1>6, NothingLost
<1>8. QED
  BY <1>4, <1>5, <1>7

\* deleteAttachment.
LEMMA DeleteAttachmentKeeps ==
  ASSUME ContentInv, NEW r \in Requests, NEW a \in Attachments, DeleteAttachment(r, a)
  PROVE  ContentInv'
<1> DEFINE v == [op |-> "deleteAttachment", pc |-> "blobs", listed |-> {a}]
<1>1. /\ {a} \subseteq Rows(attachment) /\ RemoveAttachments({a}, "deleteAttachment") /\ Count(1)
      /\ request[r] = None /\ request' = [request EXCEPT ![r] = v]
      /\ UNCHANGED <<comment, blobs, taskExists, reader, workflowVars, faults>>
  BY DEF DeleteAttachment, Enter
<1>2. v \in Deletions /\ v.listed = {a}
  BY DEF Deletions
<1> HIDE DEF v
<1>3. /\ request' \in [Requests -> {None} \cup Asks]
      /\ \A s \in Requests \ {r} : request'[s] = request[s]
  BY <1>1, <1>2, StepOf DEF Asks
<1>4. /\ attachment' \in [Attachments -> Owners] /\ RowHasBlob'
      /\ \A b \in Attachments : attachment'[b] = IF b \in {a} THEN Deleted ELSE attachment[b]
      /\ Rows(attachment)' = Rows(attachment) \ {a}
      /\ \A s \in Requests \ {r} : RequestFine(s)'
  BY <1>1, <1>3, RowsGo DEF workflowVars
<1>5. RequestFine(r)' /\ UploadsDiffer' /\ NoBlobLost'
  BY <1>1, <1>2, DeletionHolds DEF workflowVars
<1>6. revision' \in 0..MaxRevision /\ revision <= revision' /\ revision \in Nat
  BY <1>1, CountIs
<1>7. FeedComplete' /\ SavesAreStored'
  BY <1>1, FeedSame, SavesSame
<1>8. ContentTypes'
  <2>1. Rows(comment)' = Rows(comment) /\ comment' \in [Comments -> {None, Deleted} \cup CommentRows]
    BY <1>1, FeedSame
  <2>2. reader'.cursor \in 0..revision'
    BY <1>1, <1>6, TypesOfContent
  <2>3. \A c \in Rows(comment)' : comment'[c].changed \in 1..revision'
    BY <1>1, <1>6, <2>1, TypesOfContent
  <2>4. \A b \in Rows(attachment)' : taskExists' /\ attachment'[b] \in {Task} \cup Rows(comment)'
    BY <1>1, <1>4, <2>1, TypesOfContent
  <2>5. /\ taskExists' \in BOOLEAN /\ blobs' \subseteq Attachments /\ faults' \in 0..MaxFaults
    BY <1>1, TypesOfContent
  <2>6. QED
    BY <1>1, <1>3, <1>4, <1>6, <2>1, <2>2, <2>3, <2>4, <2>5, SavesSame, ContentTyped
<1>9. QED
  BY <1>4, <1>5, <1>7, <1>8 DEF ContentInv

\* deleteArchivedTask.
LEMMA DeleteTaskKeeps ==
  ASSUME ContentInv, NEW r \in Requests, DeleteTask(r)
  PROVE  ContentInv'
<1> DEFINE all == Rows(attachment)
           v == [op |-> "deleteTask", pc |-> "blobs", listed |-> all]
<1>1. /\ RemoveAttachments(all, "deleteTask") /\ Count(TaskRows) /\ taskExists' = FALSE
      /\ comment' = [c \in Comments |-> IF IsRow(comment[c]) THEN Deleted ELSE comment[c]]
      /\ request[r] = None /\ request' = [request EXCEPT ![r] = v]
      /\ UNCHANGED <<blobs, reader, workflowVars, faults>>
  BY DEF DeleteTask, Enter, ListedWithTask
<1>2. v \in Deletions /\ v.listed = all
  BY TypesOfContent DEF Deletions
<1> HIDE DEF v
<1>3. /\ request' \in [Requests -> {None} \cup Asks]
      /\ \A s \in Requests \ {r} : request'[s] = request[s]
  BY <1>1, <1>2, StepOf DEF Asks
<1>4. /\ attachment' \in [Attachments -> Owners] /\ RowHasBlob' /\ Rows(attachment)' = {}
      /\ \A s \in Requests \ {r} : RequestFine(s)'
  <2>1. all \subseteq Rows(attachment) /\ archived' = archived
    BY <1>1 DEF workflowVars
  <2>2. /\ attachment' \in [Attachments -> Owners] /\ RowHasBlob'
        /\ Rows(attachment)' = Rows(attachment) \ all
        /\ \A s \in Requests \ {r} : RequestFine(s)'
    BY <1>1, <1>3, <2>1, RowsGo
  <2>3. QED
    BY <2>2
<1>5. RequestFine(r)' /\ UploadsDiffer' /\ NoBlobLost'
  BY <1>1, <1>2, DeletionHolds DEF workflowVars
<1>6. TaskRows \in Nat
  <2>1. IsFiniteSet(Rows(comment)) /\ IsFiniteSet(Rows(attachment))
    BY TypesOfContent, ContentAssumption, FS_Subset
  <2>2. QED
    BY <2>1, FS_CardinalityType DEF TaskRows
<1>7. revision' \in 0..MaxRevision /\ revision <= revision' /\ revision \in Nat
  BY <1>1, <1>6, CountIs
<1>8. comment' \in [Comments -> {None, Deleted} \cup CommentRows] /\ Rows(comment)' = {}
  <2>1. \A c \in Comments : comment'[c] = IF IsRow(comment[c]) THEN Deleted ELSE comment[c]
    BY <1>1
  <2>2. \A c \in Comments : comment'[c] \in {None, Deleted}
    BY <2>1 DEF IsRow
  <2>3. DOMAIN comment' = Comments /\ comment' = [c \in Comments |-> comment'[c]]
    BY <1>1
  <2>4. QED
    BY <2>2, <2>3 DEF Rows, IsRow
<1>9. FeedComplete' /\ SavesAreStored'
  BY <1>1, <1>8, SavesSame DEF FeedComplete
<1>10. ContentTypes'
  <2>1. reader'.cursor \in 0..revision'
    BY <1>1, <1>7, TypesOfContent
  <2>2. /\ taskExists' \in BOOLEAN /\ blobs' \subseteq Attachments /\ faults' \in 0..MaxFaults
    BY <1>1, TypesOfContent
  <2>3. QED
    BY <1>1, <1>3, <1>4, <1>7, <1>8, <2>1, <2>2, SavesSame, ContentTyped
<1>11. QED
  BY <1>4, <1>5, <1>9, <1>10 DEF ContentInv

\* A comment that is written gets a version and a revision of its own, which no cursor
\* has reached; its attachments still belong to a comment.
LEMMA CommentWritten ==
  ASSUME ContentInv, NEW c \in Comments, NEW n \in 1..MaxVersion,
         comment' = [comment EXCEPT ![c] = [version |-> n, changed |-> revision + 1]],
         Count(1), request' \in [Requests -> {None} \cup Asks],
         UNCHANGED <<attachment, removedBy, unanswered, blobs, taskExists, reader, workflowVars, faults>>
  PROVE  ContentTypes' /\ RowHasBlob' /\ FeedComplete' /\ SavesAreStored'
<1> DEFINE row == [version |-> n, changed |-> revision + 1]
<1>1. /\ revision' = revision + 1 /\ revision' \in 0..MaxRevision /\ revision \in Nat
      /\ revision + 1 \in 1..MaxRevision /\ revision + 1 \in 1..revision' /\ revision <= revision'
  BY CountIs
<1>2. row \in CommentRows /\ row.changed = revision + 1 /\ row.version = n
  BY <1>1 DEF CommentRows
<1> HIDE DEF row
<1>3. /\ comment'[c] = row /\ \A d \in Comments \ {c} : comment'[d] = comment[d]
      /\ comment' \in [Comments -> {None, Deleted} \cup CommentRows]
  <2>1. comment' = [comment EXCEPT ![c] = row]
    BY DEF row
  <2>2. QED
    BY <1>2, <2>1, TypesOfContent
<1>4. IsRow(row)
  BY <1>2, ContentConstants DEF IsRow
<1>5. Rows(comment)' = Rows(comment) \cup {c}
  BY <1>3, <1>4, TypesOfContent DEF Rows
<1>6. Rows(attachment)' = Rows(attachment)
  BY DEF Rows
<1>7. \A d \in Rows(comment)' : comment'[d].changed \in 1..revision'
  <2>1. ASSUME NEW d \in Rows(comment)'
        PROVE  comment'[d].changed \in 1..revision'
    <3>1. CASE d = c
      BY <1>1, <1>2, <1>3, <3>1
    <3>2. CASE d # c
      <4>1. d \in Rows(comment) /\ d \in Comments
        BY <1>5, <3>2, TypesOfContent
      <4>2. comment'[d] = comment[d] /\ comment[d].changed \in 1..revision
        BY <1>3, <3>2, <4>1, TypesOfContent
      <4>3. QED
        BY <1>1, <4>2
    <3>3. QED
      BY <3>1, <3>2
  <2>2. QED
    BY <2>1
<1>8. FeedComplete'
  <2>1. ASSUME NEW d \in Rows(comment)', comment'[d].changed <= reader'.cursor
        PROVE  reader'.known[d] = comment'[d].version
    <3>1. d # c
      BY <1>1, <1>2, <1>3, <2>1, TypesOfContent
    <3>2. d \in Rows(comment) /\ comment'[d] = comment[d]
      BY <1>3, <1>5, <2>1, <3>1, TypesOfContent
    <3>3. QED
      BY <2>1, <3>2 DEF ContentInv, FeedComplete
  <2>2. QED
    BY <2>1 DEF FeedComplete
<1>9. RowHasBlob' /\ SavesAreStored'
  BY <1>6, SavesSame DEF ContentInv, RowHasBlob
<1>10. \A a \in Rows(attachment)' : taskExists' /\ attachment'[a] \in {Task} \cup Rows(comment)'
  BY <1>5, <1>6, TypesOfContent
<1>11. reader'.cursor \in 0..revision'
  BY <1>1, TypesOfContent
<1>12. /\ taskExists' \in BOOLEAN /\ blobs' \subseteq Attachments /\ faults' \in 0..MaxFaults
       /\ attachment' \in [Attachments -> Owners]
  BY TypesOfContent
<1>13. ContentTypes'
  BY <1>1, <1>3, <1>7, <1>10, <1>11, <1>12, SavesSame, ContentTyped
<1>14. QED
  BY <1>8, <1>9, <1>13

\* A request that waits stays fine while neither rows of attachments nor blobs change.
LEMMA OthersFine ==
  ASSUME ContentInv, NEW set, \A s \in set : s \in Requests /\ request'[s] = request[s],
         UNCHANGED <<attachment, unanswered, blobs>>,
         archived'.changes \in Nat, archived'.changes >= archived.changes
  PROVE  \A s \in set : RequestFine(s)'
BY RequestSame

\* createComment.
LEMMA CreateCommentKeeps ==
  ASSUME ContentInv, NEW c \in Comments, CreateComment(c)
  PROVE  ContentInv'
<1>1. /\ comment' = [comment EXCEPT ![c] = [version |-> 1, changed |-> revision + 1]] /\ Count(1)
      /\ UNCHANGED <<attachment, removedBy, unanswered, blobs, taskExists, reader, workflowVars, request, faults>>
  BY DEF CreateComment, ChangeRevision
<1>2. 1 \in 1..MaxVersion
  BY ContentConstants
<1>3. ContentTypes' /\ RowHasBlob' /\ FeedComplete' /\ SavesAreStored'
  BY <1>1, <1>2, CommentWritten, TypesOfContent
<1>4. \A s \in Requests : RequestFine(s)'
  BY <1>1, OthersFine, TypesOfContent DEF workflowVars
<1>5. UploadsDiffer'
  BY <1>1, UploadsSame DEF UploadOf
<1>6. NoBlobLost'
  BY <1>1 DEF ContentInv, NoBlobLost, Lost
<1>7. QED
  BY <1>3, <1>4, <1>5, <1>6 DEF ContentInv

\* A comment whose version is still the one that was read is there.
LEMMA UnchangedComment ==
  ASSUME ContentInv, NEW r \in Requests, request[r] # None, request[r] \in Edits, CommentUnchanged(r)
  PROVE  /\ request[r].comment \in Rows(comment) /\ request[r].comment \in Comments
         /\ comment[request[r].comment].version + 1 \in 1..MaxVersion
<1>1. request[r].comment \in Comments /\ request[r].seen \in 0..(MaxVersion - 1)
  BY DEF Edits
<1>2. /\ IsRow(comment[request[r].comment])
      /\ comment[request[r].comment].version = request[r].seen
  BY DEF CommentUnchanged
<1>3. request[r].comment \in Rows(comment)
  BY <1>1, <1>2, TypesOfContent DEF Rows
<1>4. QED
  BY <1>1, <1>2, <1>3, ContentConstants

\* updateComment.
LEMMA UpdateCommentKeeps ==
  ASSUME ContentInv, NEW r \in Requests, UpdateComment(r)
  PROVE  ContentInv'
<1> DEFINE x == request[r]
<1>1. /\ request[r] # None /\ x.op = "updateComment" /\ x.pc = "write"
      /\ request' = [request EXCEPT ![r] = None]
      /\ UNCHANGED <<attachment, removedBy, unanswered, blobs, taskExists, reader, workflowVars, faults>>
  BY DEF UpdateComment, At, Leave
<1>2. x \in Asks /\ x \in Edits
  BY <1>1, AskAt, AskIs
<1>3. /\ request' \in [Requests -> {None} \cup Asks] /\ request'[r] = None
      /\ \A s \in Requests \ {r} : request'[s] = request[s]
  BY <1>1, StepOf
<1>4. RequestFine(r)'
  BY <1>3 DEF RequestFine
<1>5. UploadsDiffer'
  BY <1>3, UploadsSame DEF UploadOf
<1>6. \A b : ~Holds(r, b)
  BY <1>1 DEF Holds
<1>7. NoBlobLost'
  BY <1>1, <1>3, <1>6, KeepsHold
<1>8. CASE CommentUnchanged(r)
  <2>1. /\ comment' = [comment EXCEPT ![x.comment] =
                         [version |-> comment[x.comment].version + 1, changed |-> revision + 1]]
        /\ Count(1)
    BY <1>8 DEF UpdateComment, ChangeRevision
  <2>2. x.comment \in Comments /\ comment[x.comment].version + 1 \in 1..MaxVersion
    BY <1>1, <1>2, <1>8, UnchangedComment
  <2>3. ContentTypes' /\ RowHasBlob' /\ FeedComplete' /\ SavesAreStored'
    BY <1>1, <1>3, <2>1, <2>2, CommentWritten
  <2>4. \A s \in Requests \ {r} : RequestFine(s)'
    <3>1. archived'.changes \in Nat /\ archived'.changes >= archived.changes
      BY <1>1, TypesOfContent DEF workflowVars
    <3>2. \A s \in Requests \ {r} : s \in Requests /\ request'[s] = request[s]
      BY <1>3
    <3>3. QED
      BY <1>1, <3>1, <3>2, OthersFine
  <2>5. QED
    BY <1>4, <1>5, <1>7, <2>3, <2>4 DEF ContentInv
<1>9. CASE ~CommentUnchanged(r)
  <2>1. UNCHANGED <<comment, revision>>
    BY <1>9 DEF UpdateComment
  <2>2. UNCHANGED <<contentVars, reader, workflowVars>> /\ faults' \in 0..MaxFaults
    BY <1>1, <2>1, TypesOfContent DEF contentVars
  <2>3. QED
    BY <1>1, <1>4, <1>5, <1>7, <2>2, OnlyRequest
<1>10. QED
  BY <1>8, <1>9

\* deleteComment: the rows of its attachments go with the comment, and the request answers
\* for the blobs of those that it has listed.
LEMMA DeleteCommentKeeps ==
  ASSUME ContentInv, NEW r \in Requests, DeleteComment(r)
  PROVE  ContentInv'
<1> DEFINE x == request[r]
           c == x.comment
           set == AttachmentsOf(c)
<1>1. /\ request[r] # None /\ x.op = "deleteComment" /\ x.pc = "write"
      /\ UNCHANGED <<blobs, taskExists, reader, workflowVars, faults>>
  BY DEF DeleteComment, At
<1>2. x \in Asks /\ x \in Edits
  BY <1>1, AskAt, AskIs
<1>3. \A b : ~Holds(r, b)
  BY <1>1 DEF Holds
<1>4. CASE CommentUnchanged(r)
  <2> DEFINE y == [x EXCEPT !.pc = "blobs"]
  <2>1. /\ comment' = [comment EXCEPT ![c] = Deleted] /\ RemoveAttachments(set, "deleteComment")
        /\ Count(1 + Cardinality(set)) /\ request' = [request EXCEPT ![r] = y]
    BY <1>1, <1>4, AskAt DEF DeleteComment
  <2>2. c \in Rows(comment) /\ c \in Comments
    BY <1>1, <1>2, <1>4, UnchangedComment
  <2>3. set \subseteq Rows(attachment) /\ \A a \in Rows(attachment) : a \in set <=> attachment[a] = c
    BY DEF AttachmentsOf
  <2>4. y \in Edits /\ y.op = "deleteComment" /\ y.pc = "blobs" /\ y.listed = x.listed
    BY <1>1, <1>2, AskIs
  <2> HIDE DEF y
  <2>5. /\ request' \in [Requests -> {None} \cup Asks] /\ y \in Asks /\ request'[r] = y /\ y # None
        /\ \A s \in Requests \ {r} : request'[s] = request[s]
    BY <2>1, <2>4, StepOf, ContentConstants DEF Asks
  <2>6. /\ attachment' \in [Attachments -> Owners]
        /\ \A a \in Attachments : attachment'[a] = IF a \in set THEN Deleted ELSE attachment[a]
        /\ \A a \in Attachments : removedBy'[a] = IF a \in set THEN "deleteComment" ELSE removedBy[a]
        /\ Rows(attachment)' = Rows(attachment) \ set /\ RowHasBlob'
        /\ \A s \in Requests \ {r} : RequestFine(s)'
    <3>1. archived' = archived
      BY <1>1 DEF workflowVars
    <3> HIDE DEF set
    <3>2. QED
      BY <1>1, <2>1, <2>3, <2>5, <3>1, RowsGo
  <2>7. revision' \in 0..MaxRevision /\ revision <= revision' /\ revision \in Nat
    <3>1. IsFiniteSet(set)
      BY <2>3, TypesOfContent, ContentAssumption, FS_Subset
    <3>2. 1 + Cardinality(set) \in Nat
      BY <3>1, FS_CardinalityType
    <3>3. QED
      BY <2>1, <3>2, CountIs
  <2>8. /\ comment' \in [Comments -> {None, Deleted} \cup CommentRows]
        /\ comment'[c] = Deleted /\ \A d \in Comments \ {c} : comment'[d] = comment[d]
    BY <2>1, <2>2, TypesOfContent
  <2>9. Rows(comment)' = Rows(comment) \ {c}
    BY <2>8, TypesOfContent DEF Rows, IsRow
  <2>10. ContentTypes'
    <3>1. reader'.cursor \in 0..revision'
      BY <1>1, <2>7, TypesOfContent
    <3>2. ASSUME NEW d \in Rows(comment)'
          PROVE  comment'[d].changed \in 1..revision'
      <4>1. d \in Rows(comment) /\ comment'[d] = comment[d]
        BY <2>8, <2>9, TypesOfContent
      <4>2. QED
        BY <2>7, <4>1, TypesOfContent
    <3>3. ASSUME NEW a \in Rows(attachment)'
          PROVE  taskExists' /\ attachment'[a] \in {Task} \cup Rows(comment)'
      <4>1. a \in Rows(attachment) /\ a \notin set /\ a \in Attachments
        BY <2>6, TypesOfContent
      <4>2. attachment'[a] = attachment[a] /\ attachment[a] # c
        BY <2>3, <2>6, <4>1
      <4>3. QED
        BY <1>1, <2>9, <4>1, <4>2, TypesOfContent
    <3>4. /\ taskExists' \in BOOLEAN /\ blobs' \subseteq Attachments /\ faults' \in 0..MaxFaults
      BY <1>1, TypesOfContent
    <3>5. QED
      BY <1>1, <2>5, <2>6, <2>7, <2>8, <3>1, <3>2, <3>3, <3>4, SavesSame, ContentTyped
  <2>11. FeedComplete' /\ SavesAreStored'
    <3>1. FeedComplete'
      BY <1>1, <2>8, <2>9, TypesOfContent DEF ContentInv, FeedComplete
    <3>2. QED
      BY <1>1, <3>1, SavesSame
  <2>12. RequestFine(r)'
    <3>1. ASSUME NEW a \in x.listed
          PROVE  attachment'[a] = Deleted
      <4>1. a \in Attachments /\ attachment[a] \in {c, Deleted}
        BY <1>1, <1>2 DEF Edits, ContentInv, RequestFine
      <4>2. attachment[a] = c => a \in set
        BY <2>2, <2>3, <4>1, ContentConstants, TypesOfContent DEF Rows, IsRow
      <4>3. QED
        BY <2>6, <4>1, <4>2
    <3>2. QED
      BY <2>4, <2>5, <3>1 DEF RequestFine
  <2>13. UploadsDiffer'
    BY <2>4, <2>5, UploadsSame DEF UploadOf
  <2>14. NoBlobLost'
    <3>1. ASSUME NEW b \in Lost'
          PROVE  \/ b \in Lost /\ removedBy'[b] = removedBy[b]
                 \/ removedBy'[b] = "deleteComment"
      <4>1. /\ b \in blobs /\ b \in Attachments /\ ~IsRow(attachment'[b])
            /\ \A s \in Requests : ~Holds(s, b)'
        BY <1>1, LostIs, TypesOfContent
      <4>2. CASE b \in set
        BY <2>6, <4>1, <4>2
      <4>3. CASE b \notin set
        <5>1. attachment'[b] = attachment[b] /\ removedBy'[b] = removedBy[b]
          BY <2>6, <4>1, <4>3
        <5>2. \A s \in Requests : ~Holds(s, b)
          BY <1>3, <2>5, <4>1 DEF Holds
        <5>3. QED
          BY <4>1, <5>1, <5>2, LostIs
      <4>4. QED
        BY <4>2, <4>3
    <3>2. QED
      BY <1>1, <3>1, NothingLost
  <2>15. QED
    BY <2>5, <2>6, <2>10, <2>11, <2>12, <2>13, <2>14 DEF ContentInv
<1>5. CASE ~CommentUnchanged(r)
  <2>1. /\ request' = [request EXCEPT ![r] = None]
        /\ UNCHANGED <<comment, attachment, removedBy, unanswered, revision>>
    BY <1>5 DEF DeleteComment, Leave
  <2>2. request'[r] = None /\ \A s \in Requests \ {r} : request'[s] = request[s]
    BY <2>1, StepOf
  <2>3. RequestFine(r)'
    BY <2>2 DEF RequestFine
  <2>4. UploadsDiffer'
    BY <2>2, UploadsSame DEF UploadOf
  <2>5. NoBlobLost'
    BY <1>1, <1>3, <2>1, <2>2, KeepsHold
  <2>6. UNCHANGED <<contentVars, reader, workflowVars>> /\ faults' \in 0..MaxFaults
    BY <1>1, <2>1, TypesOfContent DEF contentVars
  <2>7. QED
    BY <2>1, <2>3, <2>4, <2>5, <2>6, OnlyRequest
<1>6. QED
  BY <1>4, <1>5

\* listComments and listCommentsAfter: what the client did not know up to its new cursor
\* is in the answer.
LEMMA ReadCommentsKeeps ==
  ASSUME ContentInv, ReadComments
  PROVE  ContentInv'
<1> DEFINE rows == {c \in Rows(comment) : comment[c].changed > reader.cursor}
           newest == CHOOSE n \in {comment[c].changed : c \in rows} :
                       \A c \in rows : comment[c].changed <= n
<1>1. /\ reader' = [cursor |-> IF rows = {} THEN reader.cursor ELSE newest,
                    known |-> [c \in Comments |-> IF c \in rows THEN comment[c].version
                                                  ELSE reader.known[c]]]
      /\ UNCHANGED <<contentVars, workflowVars, request, faults>>
  BY DEF ReadComments
<1>2. Rows(comment)' = Rows(comment) /\ Rows(attachment)' = Rows(attachment)
  BY <1>1 DEF Rows, contentVars
<1>3. reader'.cursor \in 0..revision
  <2>1. CASE rows = {}
    BY <1>1, <2>1, TypesOfContent
  <2>2. CASE rows # {}
    <3> DEFINE gaps == {revision - comment[c].changed : c \in rows}
    <3>1. \A c \in rows : comment[c].changed \in 1..revision
      BY TypesOfContent
    <3>2. revision \in Nat /\ gaps \subseteq Nat /\ gaps # {}
      BY <2>2, <3>1, TypesOfContent
    <3>3. PICK m \in gaps : \A n \in gaps : m <= n
      <4> HIDE DEF gaps
      <4>1. QED
        BY <3>2, MinExists
    <3>4. PICK c \in rows : m = revision - comment[c].changed
      BY <3>3
    <3>5. \A d \in rows : comment[d].changed <= comment[c].changed
      <4>1. ASSUME NEW d \in rows
            PROVE  comment[d].changed <= comment[c].changed
        <5>1. revision - comment[d].changed \in gaps
          OBVIOUS
        <5>2. revision - comment[c].changed <= revision - comment[d].changed
          BY <3>3, <3>4, <5>1
        <5>3. comment[c].changed \in 1..revision /\ comment[d].changed \in 1..revision
          BY <3>1
        <5> HIDE DEF rows, gaps
        <5>4. QED
          BY <3>2, <5>2, <5>3
      <4>2. QED
        BY <4>1
    <3>6. newest \in {comment[d].changed : d \in rows}
      BY <3>4, <3>5
    <3>7. reader'.cursor = newest
      BY <1>1, <2>2
    <3> HIDE DEF newest
    <3>8. QED
      BY <3>1, <3>2, <3>6, <3>7
  <2>3. QED
    BY <2>1, <2>2
<1>4. FeedComplete'
  <2>1. ASSUME NEW c \in Rows(comment), comment[c].changed <= reader'.cursor
        PROVE  reader'.known[c] = comment[c].version
    <3>1. c \in Comments /\ comment[c].changed \in 1..revision /\ reader.cursor \in 0..revision
      BY TypesOfContent
    <3>2. CASE c \in rows
      BY <1>1, <3>1, <3>2
    <3>3. CASE c \notin rows
      <4>1. comment[c].changed <= reader.cursor
        BY <3>1, <3>3, TypesOfContent
      <4>2. reader.known[c] = comment[c].version
        BY <4>1 DEF ContentInv, FeedComplete
      <4>3. reader'.known[c] = reader.known[c]
        BY <1>1, <3>1, <3>3
      <4>4. QED
        BY <4>2, <4>3
    <3>4. QED
      BY <3>2, <3>3
  <2>2. QED
    BY <1>1, <1>2, <2>1 DEF FeedComplete, contentVars
<1> HIDE DEF rows, newest
<1>5. ContentTypes'
  BY <1>1, <1>2, <1>3, TypesOfContent, SavesSame, ContentTyped DEF contentVars
<1>6. RowHasBlob' /\ UploadsDiffer' /\ NoBlobLost'
  BY <1>1, <1>2 DEF ContentInv, RowHasBlob, UploadsDiffer, UploadOf, NoBlobLost, Lost, contentVars
<1>7. SavesAreStored'
  BY <1>1, SavesSame
<1>8. \A s \in Requests : RequestFine(s)'
  BY <1>1, OthersFine, TypesOfContent DEF contentVars, workflowVars
<1>9. QED
  BY <1>4, <1>5, <1>6, <1>7, <1>8 DEF ContentInv

\* The rows of a task, its blobs and the requests stand still but for one, which is done
\* with its save or looks at the project again.
LEMMA SaveSteps ==
  ASSUME ContentInv, NEW r \in Requests, NEW v \in {None} \cup Asks,
         request' = [request EXCEPT ![r] = v], request[r] # None, request[r].op = "workflow",
         v # None => v.op = "workflow" /\ v.pc = "recheck" /\ archived.changes > 0,
         revision' \in 0..MaxRevision, revision <= revision',
         workflow' \in 0..MaxVersion, acked' \in Seq(Nat), SavesAreStored',
         UNCHANGED <<comment, attachment, removedBy, unanswered, blobs, taskExists, reader, archived, faults>>
  PROVE  ContentInv'
<1>1. /\ request' \in [Requests -> {None} \cup Asks] /\ request'[r] = v
      /\ \A s \in Requests \ {r} : request'[s] = request[s]
  BY StepOf
<1>2. FeedComplete' /\ Rows(comment)' = Rows(comment) /\ Rows(attachment)' = Rows(attachment)
  BY FeedSame DEF Rows
<1>3. \A c \in Rows(comment)' : comment'[c].changed \in 1..revision'
  BY <1>2, TypesOfContent
<1>4. reader'.cursor \in 0..revision'
  BY TypesOfContent
<1>5. /\ comment' \in [Comments -> {None, Deleted} \cup CommentRows]
      /\ attachment' \in [Attachments -> Owners] /\ blobs' \subseteq Attachments
      /\ taskExists' \in BOOLEAN /\ archived'.flag \in BOOLEAN /\ archived'.changes \in Nat
      /\ faults' \in 0..MaxFaults
      /\ \A a \in Rows(attachment)' : taskExists' /\ attachment'[a] \in {Task} \cup Rows(comment)'
  BY <1>2, TypesOfContent
<1>6. ContentTypes'
  BY <1>1, <1>3, <1>4, <1>5, ContentTyped
<1>7. RowHasBlob'
  BY <1>2 DEF ContentInv, RowHasBlob
<1>8. request[r] \in Saves
  BY AskAt, AskIs
<1>9. \A b : ~Holds(r, b)
  BY <1>8 DEF Holds, Saves
<1>10. NoBlobLost'
  BY <1>1, <1>9, KeepsHold
<1>11. UploadsDiffer'
  BY <1>1, UploadsSame DEF UploadOf
<1>12. RequestFine(r)'
  BY <1>1 DEF RequestFine
<1>13. \A s \in Requests \ {r} : RequestFine(s)'
  <2>1. archived'.changes \in Nat /\ archived'.changes >= archived.changes
    BY TypesOfContent
  <2>2. \A s \in Requests \ {r} : s \in Requests /\ request'[s] = request[s]
    BY <1>1
  <2>3. QED
    BY <2>1, <2>2, OthersFine
<1>14. QED
  BY <1>2, <1>6, <1>7, <1>10, <1>11, <1>12, <1>13 DEF ContentInv

\* A save that finds the version it has read is acknowledged over a version no other was;
\* one that does not looks at the project again only if that is archived.
LEMMA SaveWorkflowKeeps ==
  ASSUME ContentInv, NEW r \in Requests, SaveWorkflow(r)
  PROVE  ContentInv'
<1> DEFINE x == request[r]
<1>1. /\ request[r] # None /\ x.op = "workflow" /\ x.pc = "write"
      /\ UNCHANGED <<comment, attachment, removedBy, unanswered, blobs, taskExists, reader, archived, faults>>
  BY DEF SaveWorkflow, At
<1>2. x \in Asks /\ x \in Saves /\ x.seen \in 0..(MaxVersion - 1)
  BY <1>1, AskAt, AskIs DEF Saves
<1>3. /\ archived.changes = 0 => ~archived.flag
      /\ archived.changes = 1 => archived.flag
      /\ archived.changes < 2 =>
           /\ \A i, j \in 1..Len(acked) : acked[i] = acked[j] => i = j
           /\ \A i \in 1..Len(acked) : acked[i] < workflow
  BY DEF ContentInv, SavesAreStored
<1>4. CASE Stored(r)
  <2>1. /\ workflow' = workflow + 1 /\ acked' = Append(acked, workflow) /\ Count(1)
        /\ request' = [request EXCEPT ![r] = None] /\ workflow = x.seen
    BY <1>4 DEF SaveWorkflow, Stored, Ack, Leave
  <2>2. workflow \in Nat /\ workflow' \in 0..MaxVersion /\ acked \in Seq(Nat)
    BY <1>2, <2>1, TypesOfContent, ContentConstants
  <2>3. revision' \in 0..MaxRevision /\ revision <= revision'
    BY <2>1, CountIs
  <2>4. acked' \in Seq(Nat)
    BY <2>1, <2>2
  <2>5. SavesAreStored'
    <3>1. ASSUME archived.changes < 2
          PROVE  /\ \A i, j \in 1..Len(acked') : acked'[i] = acked'[j] => i = j
                 /\ \A i \in 1..Len(acked') : acked'[i] < workflow'
      <4>1. \A i \in 1..Len(acked) : acked[i] \in Nat /\ acked[i] < workflow
        BY <1>3, <2>2, <3>1
      <4>2. workflow \notin {acked[i] : i \in 1..Len(acked)}
        BY <2>2, <4>1
      <4>3. \A i, j \in 1..Len(acked') : acked'[i] = acked'[j] => i = j
        BY <1>3, <2>1, <2>2, <3>1, <4>2, AppendOfDistinct
      <4>4. /\ Len(acked) \in Nat /\ Len(acked') = Len(acked) + 1
            /\ \A i \in 1..Len(acked) : acked'[i] = acked[i]
            /\ acked'[Len(acked) + 1] = workflow
        BY <2>1, <2>2
      <4>5. \A i \in 1..Len(acked') : acked'[i] < workflow'
        <5>1. ASSUME NEW i \in 1..Len(acked')
              PROVE  acked'[i] < workflow'
          <6>1. CASE i \in 1..Len(acked)
            BY <2>1, <2>2, <4>1, <4>4, <6>1
          <6>2. CASE i = Len(acked) + 1
            BY <2>1, <2>2, <4>4, <6>2
          <6>3. QED
            BY <4>4, <5>1, <6>1, <6>2
        <5>2. QED
          BY <5>1
      <4>6. QED
        BY <4>3, <4>5
    <3>2. QED
      BY <1>1, <1>3, <3>1 DEF SavesAreStored
  <2>6. QED
    BY <1>1, <2>1, <2>2, <2>3, <2>4, <2>5, SaveSteps
<1>5. CASE ~Stored(r)
  <2>1. UNCHANGED <<workflow, acked, revision>>
    BY <1>5 DEF SaveWorkflow
  <2>2. /\ revision' \in 0..MaxRevision /\ revision <= revision' /\ workflow' \in 0..MaxVersion
        /\ acked' \in Seq(Nat)
    BY <2>1, TypesOfContent
  <2>3. SavesAreStored'
    BY <1>1, <2>1 DEF ContentInv, SavesAreStored
  <2>4. CASE archived.flag /\ x.seen = 0
    <3> DEFINE y == [x EXCEPT !.pc = "recheck"]
    <3>1. request' = [request EXCEPT ![r] = y]
      BY <1>1, <1>5, <2>4, AskAt DEF SaveWorkflow
    <3>2. y \in Saves /\ y.op = "workflow" /\ y.pc = "recheck"
      BY <1>1, <1>2, AskIs
    <3>3. archived.changes > 0
      BY <1>3, <2>4, TypesOfContent
    <3> HIDE DEF y
    <3>4. y \in {None} \cup Asks
      BY <3>2 DEF Asks
    <3>5. QED
      BY <1>1, <2>2, <2>3, <3>1, <3>2, <3>3, <3>4, SaveSteps
  <2>5. CASE ~(archived.flag /\ x.seen = 0)
    <3>1. request' = [request EXCEPT ![r] = None]
      BY <1>5, <2>5 DEF SaveWorkflow, Leave
    <3>2. QED
      BY <1>1, <2>2, <2>3, <3>1, SaveSteps
  <2>6. QED
    BY <2>4, <2>5
<1>6. QED
  BY <1>4, <1>5

\* An INSERT of no row that passes for a save does so only after a second change of the
\* archive flag.
LEMMA RecheckProjectKeeps ==
  ASSUME ContentInv, NEW r \in Requests, RecheckProject(r)
  PROVE  ContentInv'
<1> DEFINE x == request[r]
<1>1. /\ request[r] # None /\ x.op = "workflow" /\ x.pc = "recheck"
      /\ request' = [request EXCEPT ![r] = None]
      /\ UNCHANGED <<contentVars, reader, archived, workflow, faults>>
      /\ acked' = IF archived.flag THEN acked ELSE Append(acked, x.seen)
  BY DEF RecheckProject, At, Leave, Ack
<1>2. x \in Saves /\ x.seen \in Nat
  <2>1. x \in Asks /\ x \in Saves
    BY <1>1, AskAt, AskIs
  <2>2. QED
    BY <2>1 DEF Saves
<1>3. archived.changes > 0 /\ (archived.changes = 1 => archived.flag)
  BY <1>1 DEF ContentInv, RequestFine, SavesAreStored
<1>4. acked' \in Seq(Nat)
  BY <1>1, <1>2, TypesOfContent
<1>5. SavesAreStored'
  <2>1. CASE archived.flag
    BY <1>1, <2>1 DEF ContentInv, SavesAreStored
  <2>2. CASE ~archived.flag
    <3>1. archived.changes # 0 /\ archived.changes # 1 /\ ~(archived.changes < 2)
      BY <1>3, <2>2, TypesOfContent
    <3>2. QED
      BY <1>1, <3>1 DEF SavesAreStored
  <2>3. QED
    BY <2>1, <2>2
<1>6. /\ revision' \in 0..MaxRevision /\ revision <= revision' /\ workflow' \in 0..MaxVersion
  BY <1>1, TypesOfContent DEF contentVars
<1>7. QED
  BY <1>1, <1>4, <1>5, <1>6, SaveSteps DEF contentVars

\* The project is archived or activated.
LEMMA SetArchivedKeeps ==
  ASSUME ContentInv, SetArchived
  PROVE  ContentInv'
<1>1. /\ archived' = [flag |-> ~archived.flag, changes |-> archived.changes + 1] /\ Count(1)
      /\ UNCHANGED <<comment, attachment, removedBy, unanswered, blobs, taskExists, reader, workflow, acked,
                     request, faults>>
  BY DEF SetArchived
<1>2. revision' \in 0..MaxRevision /\ revision <= revision'
  BY <1>1, CountIs
<1>3. /\ archived.changes \in Nat /\ archived'.changes = archived.changes + 1
      /\ archived'.flag = ~archived.flag /\ archived'.flag \in BOOLEAN
  BY <1>1, TypesOfContent
<1>4. SavesAreStored'
  <2>1. /\ archived.changes = 0 => ~archived.flag
        /\ archived.changes < 2 =>
             /\ \A i, j \in 1..Len(acked) : acked[i] = acked[j] => i = j
             /\ \A i \in 1..Len(acked) : acked[i] < workflow
    BY DEF ContentInv, SavesAreStored
  <2>2. /\ archived'.changes # 0
        /\ archived'.changes = 1 => archived.changes = 0
        /\ archived'.changes < 2 => archived.changes < 2
    BY <1>3
  <2>3. archived'.changes = 1 => archived'.flag
    BY <1>3, <2>1, <2>2
  <2>4. QED
    BY <1>1, <2>1, <2>2, <2>3 DEF SavesAreStored
<1>5. FeedComplete' /\ Rows(comment)' = Rows(comment) /\ Rows(attachment)' = Rows(attachment)
  BY <1>1, FeedSame DEF Rows
<1>6. /\ request' \in [Requests -> {None} \cup Asks]
      /\ comment' \in [Comments -> {None, Deleted} \cup CommentRows]
      /\ attachment' \in [Attachments -> Owners] /\ blobs' \subseteq Attachments
      /\ taskExists' \in BOOLEAN /\ faults' \in 0..MaxFaults /\ workflow' \in 0..MaxVersion
      /\ acked' \in Seq(Nat)
  BY <1>1, TypesOfContent
<1>7. \A a \in Rows(attachment)' : taskExists' /\ attachment'[a] \in {Task} \cup Rows(comment)'
  BY <1>1, <1>5, TypesOfContent
<1>8. \A c \in Rows(comment)' : comment'[c].changed \in 1..revision'
  BY <1>1, <1>2, <1>5, TypesOfContent
<1>9. reader'.cursor \in 0..revision' /\ archived'.changes \in Nat
  BY <1>1, <1>2, <1>3, TypesOfContent
<1>10. ContentTypes'
  BY <1>2, <1>3, <1>6, <1>7, <1>8, <1>9, ContentTyped
<1>11. RowHasBlob' /\ UploadsDiffer' /\ NoBlobLost'
  BY <1>1, <1>5 DEF ContentInv, RowHasBlob, UploadsDiffer, UploadOf, NoBlobLost, Lost
<1>12. \A s \in Requests : RequestFine(s)'
  BY <1>1, <1>3, OthersFine
<1>13. QED
  BY <1>4, <1>5, <1>10, <1>11, <1>12 DEF ContentInv

\* Every step of Next keeps the invariant, and so does a step of the other modules.
LEMMA ContentInvStep == ContentInv /\ [Next]_vars => ContentInv'
<1> SUFFICES ASSUME ContentInv, [Next]_vars
             PROVE  ContentInv'
  OBVIOUS
<1>1. ASSUME NEW c \in Comments, CreateComment(c)
      PROVE  ContentInv'
  BY <1>1, CreateCommentKeeps
<1>2. CASE ReadComments
  BY <1>2, ReadCommentsKeeps
<1>3. CASE SetArchived
  BY <1>3, SetArchivedKeeps
<1>4. ASSUME NEW r \in Requests, NEW c \in Comments,
             NEW op \in {"updateComment", "deleteComment"}, CommentReads(r, op, c)
      PROVE  ContentInv'
  BY <1>4, CommentReadsKeeps
<1>5. ASSUME NEW r \in Requests, UpdateComment(r) \/ DeleteComment(r)
      PROVE  ContentInv'
  BY <1>5, UpdateCommentKeeps, DeleteCommentKeeps
<1>6. ASSUME NEW r \in Requests, NEW a \in Attachments, NEW o \in Comments \cup {Task},
             UploadReads(r, a, o)
      PROVE  ContentInv'
  BY <1>6, UploadReadsKeeps
<1>7. ASSUME NEW r \in Requests, NEW a \in Attachments, DeleteAttachment(r, a)
      PROVE  ContentInv'
  BY <1>7, DeleteAttachmentKeeps
<1>8. ASSUME NEW r \in Requests, Put(r) \/ Insert(r) \/ InsertFails(r) \/ UndoPut(r)
      PROVE  ContentInv'
  BY <1>8, PutKeeps, InsertKeeps, InsertFailsKeeps, UndoPutKeeps
<1>9. ASSUME NEW r \in Requests, DeleteTask(r) \/ DeleteBlobs(r) \/ BlobFails(r)
      PROVE  ContentInv'
  BY <1>9, DeleteTaskKeeps, DeleteBlobsKeeps, BlobFailsKeeps
<1>10. ASSUME NEW r \in Requests, WorkflowReads(r) \/ SaveWorkflow(r) \/ RecheckProject(r)
       PROVE  ContentInv'
  BY <1>10, WorkflowReadsKeeps, SaveWorkflowKeeps, RecheckProjectKeeps
<1>11. CASE UNCHANGED vars
  <2>1. /\ UNCHANGED <<contentVars, reader, workflowVars, request, faults>>
    BY <1>11 DEF vars
  <2>2. /\ Rows(comment)' = Rows(comment) /\ Rows(attachment)' = Rows(attachment)
        /\ ContentTypes' /\ FeedComplete' /\ SavesAreStored'
    BY <2>1, TablesSame, TypesOfContent, FeedSame DEF contentVars
  <2>3. RowHasBlob' /\ UploadsDiffer' /\ NoBlobLost'
    BY <2>1, <2>2 DEF ContentInv, RowHasBlob, UploadsDiffer, UploadOf, NoBlobLost, Lost, contentVars
  <2>4. \A s \in Requests : RequestFine(s)'
    BY <2>1, OthersFine, TypesOfContent DEF contentVars, workflowVars
  <2>5. QED
    BY <2>2, <2>3, <2>4 DEF ContentInv
<1>12. QED
  BY <1>1, <1>2, <1>3, <1>4, <1>5, <1>6, <1>7, <1>8, <1>9, <1>10, <1>11 DEF Next

\* The types of the rows, the owners of attachments that are there, the places of the
\* requests and what their steps rely on hold in every state.
THEOREM ContentInvariant == Spec => []ContentInv
<1>1. ContentInv /\ [Next]_vars => ContentInv'
  BY ContentInvStep
<1>2. QED
  BY <1>1, ContentInvInit, PTL DEF Spec

\* The rows of D1 and the blobs of R2 agree: every attachment that is listed has its blob
\* (uploadAttachment stores it before the row, the deletions remove it after the row),
\* and without a failure of R2 no blob outlives its row but for those uploaded to a comment
\* while that is deleted.
THEOREM BlobsKeepUp == Spec => []BlobsMatchRows
<1>1. ContentInv => BlobsMatchRows
  BY DEF ContentInv, ContentTypes, BlobsMatchRows
<1>2. QED
  BY <1>1, ContentInvariant, PTL

\* A client that continues from its cursor has missed no change of a comment up to there
\* (listCommentsAfter), and a single save over a version of the workflow is acknowledged
\* (saveWorkflow) unless the project was archived and activated again meanwhile.
THEOREM AnswersStayTrue == Spec => []AnswersHold
<1>1. ContentInv => AnswersHold
  <2> SUFFICES ASSUME ContentInv
               PROVE  AnswersHold
    OBVIOUS
  <2>1. DOMAIN acked = 1..Len(acked)
    BY TypesOfContent
  <2>2. OneSaveOverAVersion
    BY <2>1 DEF ContentInv, SavesAreStored, OneSaveOverAVersion, IsInjective
  <2>3. QED
    BY <2>2 DEF ContentInv, AnswersHold
<1>2. QED
  BY <1>1, ContentInvariant, PTL

-----------------------------------------------------------------------------
(* The saves of a workflow board: the inductive invariant                  *)

SyncSpec == SyncInit /\ [][SyncNext]_syncVars

SyncTypes ==
  /\ saved \in Seq(Docs) /\ queue \in Seq(Docs)
  /\ screen \in Docs /\ timer \in Docs \cup {NoDoc}
  /\ remoteVersion \in 0..Row
  /\ hydration \in Loads
  /\ save \in SaveCalls \cup {NoRequest} /\ refresh \in Refreshes \cup {NoRequest}
  /\ due \in BOOLEAN /\ error \in BOOLEAN /\ mounted \in BOOLEAN

\* A document as it was saved under a version, or with the tabs of the local copy besides.
About(d, v) == v \in 1..Row /\ d \in {saved[v], MergeLegacyWorkspace(saved[v])}
OnServer(d) == \E v \in 1..Row : About(d, v)

\* What a load is going to show is on the server but for imported tabs; there is a row
\* to be loaded again.
LoadFine ==
  /\ hydration.at = "apply" => About(hydration.doc, hydration.version)
  /\ hydration.at = "create" => hydration.over = 0
  /\ hydration.at = "reload" => Row > 0

\* A save is made over a version there is; its answer, or the row that is loaded after a
\* conflict, is what has that version.
SaveFine ==
  save # NoRequest =>
    /\ save.at = "asked" => save.over \in 0..Row
    /\ save.at \in {"stored", "reloaded"} => save.version \in 1..Row /\ save.doc = saved[save.version]
    /\ save.at = "conflict" => Row > 0

RefreshFine ==
  refresh # NoRequest /\ refresh.at = "read" =>
    refresh.version \in 1..Row /\ refresh.doc = saved[refresh.version]

\* The timer was set for what is on screen, unless that has changed since.
TimerFine == mounted /\ ~due /\ timer # NoDoc => timer = screen

\* What is on screen is still to be looked at by the autosave, is on the server, waits for
\* its save, is being saved, is being replaced after a conflict, or an error is shown.
ScreenSafe ==
  mounted /\ Hydrated =>
    \/ due \/ OnServer(screen) \/ timer = screen
    \/ queue # <<>> /\ Last(queue) = screen
    \/ /\ queue = <<>> /\ timer = NoDoc /\ save # NoRequest
       /\ \/ save.at = "asked" /\ save.doc = screen
          \/ save.at \in {"conflict", "reloaded"}
    \/ queue = <<>> /\ timer = NoDoc /\ save = NoRequest /\ error

SyncInv ==
  /\ SyncTypes /\ KnowsRemote
  /\ LoadFine /\ SaveFine /\ RefreshFine
  /\ TimerFine /\ ScreenSafe

-----------------------------------------------------------------------------
(* The saves of a workflow board: the parts of a step                      *)

\* Documents, with and without imported tabs.
LEMMA DocFacts ==
  /\ InitialWorkspace \in Docs
  /\ \A d \in Docs : MergeLegacyWorkspace(d) \in Docs /\ d # NoDoc
<1>1. InitialWorkspace \in Docs /\ NoDoc \notin Docs
  BY SyncAssumption DEF Docs, InitialDoc, LegacyDoc, InitialWorkspace
<1>2. ASSUME NEW d \in Docs
      PROVE  MergeLegacyWorkspace(d) \in Docs
  BY DEF Docs, MergeLegacyWorkspace
<1>3. QED
  BY <1>1, <1>2

\* The types.
LEMMA SyncTyped ==
  ASSUME SyncInv
  PROVE  /\ saved \in Seq(Docs) /\ queue \in Seq(Docs) /\ Row \in Nat
         /\ screen \in Docs /\ timer \in Docs \cup {NoDoc} /\ remoteVersion \in 0..Row
         /\ hydration \in Loads
         /\ save \in SaveCalls \cup {NoRequest} /\ refresh \in Refreshes \cup {NoRequest}
         /\ due \in BOOLEAN /\ error \in BOOLEAN /\ mounted \in BOOLEAN
BY DEF SyncInv, SyncTypes, Row

\* The last of what has been saved is the row.
LEMMA LastSaved ==
  ASSUME SyncInv, saved # <<>>
  PROVE  Row \in 1..Row /\ Last(saved) = saved[Row] /\ Last(saved) \in Docs
<1>1. saved \in Seq(Docs) /\ Len(saved) \in Nat /\ Len(saved) # 0
  BY SyncTyped, EmptySeq
<1>2. Row \in 1..Row /\ Row = Len(saved)
  BY <1>1 DEF Row
<1>3. saved[Row] \in Docs
  BY <1>1, <1>2, ElementOfSeq
<1>4. Last(saved) = saved[Row]
  BY <1>2 DEF Last
<1>5. QED
  BY <1>2, <1>3, <1>4

\* What has been saved under a version stays.
Grows ==
  saved' \in Seq(Docs) /\ Row \in Nat /\ Row' \in Nat /\ Row <= Row'
  /\ \A v \in 1..Row : saved'[v] = saved[v]

LEMMA SavedSame ==
  ASSUME SyncInv, UNCHANGED saved
  PROVE  Grows /\ Row' = Row
BY SyncTyped DEF Grows, Row

LEMMA SavedGrows ==
  ASSUME SyncInv, NEW d \in Docs, saved' = Append(saved, d)
  PROVE  Grows /\ Row' = Row + 1 /\ Row + 1 \in 1..Row' /\ saved'[Row + 1] = d
<1>1. saved \in Seq(Docs) /\ Row = Len(saved) /\ Row' = Len(saved')
  BY SyncTyped DEF Row
<1>2. QED
  BY <1>1, AppendProperties DEF Grows

\* What the board knows, and what its requests are about, stays true.
LEMMA SyncStays ==
  ASSUME SyncInv, Grows
  PROVE  /\ \A d, v : About(d, v) => About(d, v)'
         /\ \A d : OnServer(d) => OnServer(d)'
         /\ UNCHANGED <<remoteVersion, lastRemote>> => KnowsRemote' /\ remoteVersion' \in 0..Row'
         /\ UNCHANGED hydration => LoadFine'
         /\ UNCHANGED save => SaveFine'
         /\ UNCHANGED refresh => RefreshFine'
<1>1. ASSUME NEW d, NEW v, About(d, v)
      PROVE  About(d, v)'
  BY <1>1 DEF About, Grows
<1>2. ASSUME NEW d, OnServer(d)
      PROVE  OnServer(d)'
  BY <1>1, <1>2 DEF OnServer, About, Grows
<1>3. ASSUME UNCHANGED <<remoteVersion, lastRemote>>
      PROVE  KnowsRemote' /\ remoteVersion' \in 0..Row'
  <2>1. remoteVersion \in 0..Row /\ KnowsRemote
    BY SyncTyped DEF SyncInv
  <2>2. CASE remoteVersion = 0
    BY <1>3, <2>1, <2>2 DEF KnowsRemote, Grows
  <2>3. CASE remoteVersion # 0
    <3>1. saved'[remoteVersion] = saved[remoteVersion]
      BY <2>1, <2>3 DEF Grows
    <3>2. QED
      BY <1>3, <2>1, <2>3, <3>1 DEF KnowsRemote, Grows
  <2>4. QED
    BY <2>2, <2>3
<1>4. ASSUME UNCHANGED hydration
      PROVE  LoadFine'
  BY <1>1, <1>4 DEF SyncInv, LoadFine, Grows
<1>5. ASSUME UNCHANGED save
      PROVE  SaveFine'
  BY <1>5 DEF SyncInv, SaveFine, Grows
<1>6. ASSUME UNCHANGED refresh
      PROVE  RefreshFine'
  BY <1>6 DEF SyncInv, RefreshFine, Grows
<1>7. QED
  BY <1>1, <1>2, <1>3, <1>4, <1>5, <1>6

\* While the autosave stands still and no error is cleared, the screen stays safe.
LEMMA ScreenStays ==
  ASSUME SyncInv, Grows, UNCHANGED <<screen, timer, queue, save, mounted>>,
         Hydrated' => Hydrated, due => due', error => error'
  PROVE  ScreenSafe' /\ TimerFine'
<1>1. TimerFine'
  BY DEF SyncInv, TimerFine
<1>2. OnServer(screen) => OnServer(screen)'
  <2>1. ASSUME OnServer(screen)
        PROVE  OnServer(screen)'
    <3>1. PICK v \in 1..Row : About(screen, v)
      BY <2>1 DEF OnServer
    <3>2. v \in 1..Row' /\ screen' \in {saved'[v], MergeLegacyWorkspace(saved'[v])}
      BY <3>1 DEF About, Grows
    <3>3. QED
      BY <3>2 DEF OnServer, About
  <2>2. QED
    BY <2>1
<1>3. ScreenSafe'
  <2> SUFFICES ASSUME mounted', Hydrated'
               PROVE  ScreenSafe'
    BY DEF ScreenSafe
  <2>1. ScreenSafe /\ mounted /\ Hydrated
    BY DEF SyncInv
  <2>2. CASE due \/ OnServer(screen) \/ timer = screen
    BY <1>2, <2>2 DEF ScreenSafe
  <2>3. CASE ~(due \/ OnServer(screen) \/ timer = screen)
    BY <2>1, <2>3 DEF ScreenSafe
  <2>4. QED
    BY <2>2, <2>3
<1>4. QED
  BY <1>1, <1>3

\* applyWorkspace of what the server has.
LEMMA Applied ==
  ASSUME SyncInv, Grows, NEW d \in Docs, NEW v, Apply(d, v, d),
         v \in 1..Row', d \in {saved'[v], MergeLegacyWorkspace(saved'[v])}
  PROVE  /\ KnowsRemote' /\ remoteVersion' \in 0..Row' /\ ScreenSafe' /\ TimerFine'
         /\ screen' \in Docs /\ due' \in BOOLEAN /\ error' \in BOOLEAN
<1>1. /\ screen' = d /\ due' = TRUE /\ error' = FALSE /\ remoteVersion' = v /\ lastRemote' = d
  BY DEF Apply
<1>2. Row' \in Nat
  BY DEF Grows
<1>3. KnowsRemote' /\ remoteVersion' \in 0..Row'
  BY <1>1, <1>2 DEF KnowsRemote
<1>4. ScreenSafe' /\ TimerFine'
  BY <1>1 DEF ScreenSafe, TimerFine
<1>5. QED
  BY <1>1, <1>3, <1>4

\* At first nothing is known of the server and the workspace is to be loaded.
LEMMA SyncInvInit == SyncInit => SyncInv
<1> SUFFICES ASSUME SyncInit
             PROVE  SyncInv
  OBVIOUS
<1>1. /\ screen = InitialWorkspace /\ due = FALSE /\ timer = NoDoc /\ queue = <<>> /\ save = NoRequest
      /\ remoteVersion = 0 /\ lastRemote = NoDoc /\ hydration = [at |-> "load"]
      /\ refresh = NoRequest /\ error = FALSE /\ mounted = TRUE
  BY DEF SyncInit
<1>2. saved \in Seq(Docs) /\ Len(saved) \in Nat
  <2>1. saved = <<>> \/ \E d \in Docs : saved = <<d>>
    BY DEF SyncInit
  <2>2. ASSUME NEW d \in Docs
        PROVE  <<d>> \in Seq(Docs)
    OBVIOUS
  <2>3. saved \in Seq(Docs)
    <3>1. CASE saved = <<>>
      BY <3>1
    <3>2. CASE \E d \in Docs : saved = <<d>>
      BY <2>2, <3>2
    <3>3. QED
      BY <2>1, <3>1, <3>2
  <2>4. QED
    BY <2>3
<1>3. SyncTypes
  <2>1. screen \in Docs /\ timer \in Docs \cup {NoDoc} /\ queue \in Seq(Docs) /\ hydration \in Loads
    BY <1>1, DocFacts DEF Loads
  <2>2. remoteVersion \in 0..Row
    BY <1>1, <1>2 DEF Row
  <2>3. due \in BOOLEAN /\ error \in BOOLEAN /\ mounted \in BOOLEAN
    BY <1>1
  <2>4. QED
    BY <1>1, <1>2, <2>1, <2>2, <2>3 DEF SyncTypes
<1>4. ~Hydrated
  BY <1>1 DEF Hydrated
<1>5. KnowsRemote /\ LoadFine /\ SaveFine /\ RefreshFine /\ TimerFine /\ ScreenSafe
  BY <1>1, <1>4 DEF KnowsRemote, LoadFine, SaveFine, RefreshFine, TimerFine, ScreenSafe
<1>6. QED
  BY <1>3, <1>5 DEF SyncInv

\* The requests without anything to carry.
LEMMA RequestFacts ==
  /\ [at |-> "asked"] \in Refreshes /\ [at |-> "conflict"] \in SaveCalls
  /\ [at |-> "done"] \in Loads /\ [at |-> "reload"] \in Loads
  /\ \A x \in Refreshes \cup SaveCalls : x # NoRequest
BY SyncAssumption DEF Refreshes, SaveCalls, Loads

\* What the board takes for the content of the server is there.
LEMMA RemoteOnServer ==
  ASSUME SyncInv, NEW d \in Docs, d = lastRemote
  PROVE  OnServer(d)
<1>1. remoteVersion # 0
  BY DocFacts DEF SyncInv, KnowsRemote
<1>2. remoteVersion \in 1..Row
  BY <1>1, SyncTyped
<1>3. d \in {saved[remoteVersion], MergeLegacyWorkspace(saved[remoteVersion])}
  BY <1>1 DEF SyncInv, KnowsRemote
<1>4. QED
  BY <1>2, <1>3 DEF OnServer, About

\* hydrateWorkspace gives up.
LEMMA UnhydratedKeeps ==
  ASSUME SyncInv, Unhydrated, UNCHANGED <<saved, timer, queue, save, mounted>>
  PROVE  SyncInv'
<1>1. /\ hydration' = [at |-> "done"] /\ error' = TRUE /\ due' = TRUE
      /\ refresh' \in {NoRequest, [at |-> "asked"]} /\ UNCHANGED <<screen, remoteVersion, lastRemote>>
  BY DEF Unhydrated
<1>2. Grows /\ Row' = Row
  BY SavedSame
<1>3. KnowsRemote' /\ remoteVersion' \in 0..Row' /\ SaveFine'
  BY <1>1, <1>2, SyncStays
<1>4. LoadFine' /\ RefreshFine'
  BY <1>1 DEF LoadFine, RefreshFine
<1>5. TimerFine' /\ ScreenSafe'
  BY <1>1 DEF TimerFine, ScreenSafe
<1>6. due' \in BOOLEAN /\ error' \in BOOLEAN /\ mounted' \in BOOLEAN
  BY <1>1, SyncTyped
<1>7. SyncTypes'
  BY <1>1, <1>2, <1>3, <1>6, SyncTyped, RequestFacts DEF SyncTypes
<1>8. QED
  BY <1>3, <1>4, <1>5, <1>7 DEF SyncInv

\* The load of the workspace goes on.
LEMMA LoadGoesOn ==
  ASSUME SyncInv, Grows, hydration' \in Loads, LoadFine', ~Hydrated',
         UNCHANGED <<boardOnly, timer, queue, save, refresh, mounted>>
  PROVE  SyncInv'
<1>1. /\ KnowsRemote' /\ remoteVersion' \in 0..Row' /\ SaveFine' /\ RefreshFine'
  BY SyncStays DEF boardOnly
<1>2. ScreenSafe' /\ TimerFine'
  BY ScreenStays DEF boardOnly
<1>3. UNCHANGED <<screen, due, error>>
  BY DEF boardOnly
<1>4. SyncTypes'
  BY <1>1, <1>3, SyncTyped DEF SyncTypes, Grows
<1>5. QED
  BY <1>1, <1>2, <1>4 DEF SyncInv

\* hydrateWorkspace reads the row, if there is one.
LEMMA HydrateReadsKeeps ==
  ASSUME SyncInv, HydrateReads
  PROVE  SyncInv'
<1>1. /\ UNCHANGED <<saved, boardOnly, timer, queue, save, refresh, mounted>>
      /\ hydration' =
           IF saved = <<>>
           THEN [at |-> "create", over |-> 0,
                 doc |-> InitialWorkspace]
           ELSE IF legacy /\ MergeLegacyWorkspace(Last(saved)) # Last(saved)
           THEN [at |-> "merge", over |-> Row, doc |-> MergeLegacyWorkspace(Last(saved))]
           ELSE [at |-> "apply", version |-> Row, doc |-> Last(saved)]
  BY DEF HydrateReads
<1>2. Grows /\ Row' = Row /\ Row \in Nat
  BY <1>1, SavedSame, SyncTyped
<1>3. CASE saved = <<>>
  <2>1. hydration' \in [at : {"create", "merge"}, over : Nat, doc : Docs]
    BY <1>1, <1>3, DocFacts
  <2>2. hydration'.at = "create" /\ hydration'.over = 0
    BY <1>1, <1>3
  <2>3. LoadFine' /\ ~Hydrated' /\ hydration' \in Loads
    BY <2>1, <2>2 DEF LoadFine, Hydrated, Loads
  <2>4. QED
    BY <1>1, <1>2, <2>3, LoadGoesOn
<1>4. CASE saved # <<>> /\ legacy /\ MergeLegacyWorkspace(Last(saved)) # Last(saved)
  <2>1. Last(saved) \in Docs
    BY <1>4, LastSaved
  <2>2. hydration' \in [at : {"create", "merge"}, over : Nat, doc : Docs]
    BY <1>1, <1>2, <1>4, <2>1, DocFacts
  <2>3. hydration'.at = "merge"
    BY <1>1, <1>4
  <2>4. LoadFine' /\ ~Hydrated' /\ hydration' \in Loads
    BY <2>2, <2>3 DEF LoadFine, Hydrated, Loads
  <2>5. QED
    BY <1>1, <1>2, <2>4, LoadGoesOn
<1>5. CASE saved # <<>> /\ ~(legacy /\ MergeLegacyWorkspace(Last(saved)) # Last(saved))
  <2>1. Last(saved) \in Docs /\ Last(saved) = saved[Row] /\ Row \in 1..Row
    BY <1>5, LastSaved
  <2>2. hydration' = [at |-> "apply", version |-> Row, doc |-> Last(saved)]
    BY <1>1, <1>5
  <2>3. hydration' \in [at : {"apply"}, version : Nat, doc : Docs]
    BY <1>2, <2>1, <2>2
  <2>4. hydration'.at = "apply" /\ hydration'.version = Row /\ hydration'.doc = saved[Row]
    BY <2>1, <2>2
  <2>5. LoadFine' /\ ~Hydrated' /\ hydration' \in Loads
    BY <1>1, <1>2, <2>1, <2>3, <2>4 DEF LoadFine, Hydrated, Loads, About
  <2>6. QED
    BY <1>1, <1>2, <2>5, LoadGoesOn
<1>6. QED
  BY <1>3, <1>4, <1>5

\* hydrateWorkspace creates the row or adds the tabs of the local copy to it.
LEMMA HydrateStoresKeeps ==
  ASSUME SyncInv, HydrateStores
  PROVE  SyncInv'
<1>1. /\ hydration.at \in {"create", "merge"} /\ UNCHANGED <<timer, queue, save, mounted>>
  BY DEF HydrateStores
<1>2. hydration.doc \in Docs /\ hydration.over \in Nat /\ Row \in Nat
      /\ (hydration.at = "create" => hydration.over = 0)
  BY <1>1, SyncTyped DEF Loads, SyncInv, LoadFine
<1>3. CASE hydration.over = Row
  <2>1. /\ saved' = Append(saved, hydration.doc) /\ UNCHANGED <<boardOnly, refresh>>
        /\ hydration' = [at |-> "apply", version |-> Row + 1, doc |-> hydration.doc]
    BY <1>3 DEF HydrateStores
  <2>2. Grows /\ Row + 1 \in 1..Row' /\ saved'[Row + 1] = hydration.doc
    BY <1>2, <2>1, SavedGrows
  <2>3. hydration' \in [at : {"apply"}, version : Nat, doc : Docs]
    BY <1>2, <2>1
  <2>4. hydration'.at = "apply" /\ hydration'.version = Row + 1 /\ hydration'.doc = hydration.doc
    BY <2>1
  <2>5. LoadFine' /\ ~Hydrated' /\ hydration' \in Loads
    BY <2>2, <2>3, <2>4 DEF LoadFine, Hydrated, Loads, About
  <2>6. QED
    BY <1>1, <2>1, <2>2, <2>5, LoadGoesOn
<1>4. CASE hydration.over # Row /\ hydration.at = "create"
  <2>1. UNCHANGED <<saved, boardOnly, refresh>> /\ hydration' = [at |-> "reload"]
    BY <1>4 DEF HydrateStores
  <2>2. Grows /\ Row' = Row
    BY <2>1, SavedSame
  <2>3. LoadFine' /\ ~Hydrated' /\ hydration' \in Loads
    BY <1>2, <1>4, <2>1, <2>2, RequestFacts DEF LoadFine, Hydrated
  <2>4. QED
    BY <1>1, <2>1, <2>2, <2>3, LoadGoesOn
<1>5. CASE hydration.over # Row /\ hydration.at # "create"
  BY <1>1, <1>5, UnhydratedKeeps DEF HydrateStores
<1>6. QED
  BY <1>3, <1>4, <1>5

\* hydrateWorkspace has met a conflict and reads the row again.
LEMMA HydrateReloadsKeeps ==
  ASSUME SyncInv, HydrateReloads
  PROVE  SyncInv'
<1>1. /\ hydration.at = "reload"
      /\ UNCHANGED <<saved, boardOnly, timer, queue, save, refresh, mounted>>
      /\ hydration' = [at |-> "apply", version |-> Row,
                       doc |-> IF legacy THEN MergeLegacyWorkspace(Last(saved)) ELSE Last(saved)]
  BY DEF HydrateReloads
<1>2. Grows /\ Row' = Row /\ Row \in Nat
  BY <1>1, SavedSame, SyncTyped
<1>3. saved # <<>>
  BY <1>1 DEF SyncInv, LoadFine, Row
<1>4. Row \in 1..Row /\ Last(saved) = saved[Row] /\ Last(saved) \in Docs
  BY <1>3, LastSaved
<1>5. hydration' \in [at : {"apply"}, version : Nat, doc : Docs]
  BY <1>1, <1>2, <1>4, DocFacts
<1>6. /\ hydration'.at = "apply" /\ hydration'.version = Row
      /\ hydration'.doc \in {saved[Row], MergeLegacyWorkspace(saved[Row])}
  BY <1>1, <1>4
<1>7. LoadFine' /\ ~Hydrated' /\ hydration' \in Loads
  BY <1>1, <1>2, <1>4, <1>5, <1>6 DEF LoadFine, Hydrated, Loads, About
<1>8. QED
  BY <1>1, <1>2, <1>7, LoadGoesOn

\* hydrateWorkspace shows what it has loaded.
LEMMA HydrateAppliesKeeps ==
  ASSUME SyncInv, HydrateApplies
  PROVE  SyncInv'
<1>1. /\ hydration.at = "apply" /\ Apply(hydration.doc, hydration.version, hydration.doc)
      /\ hydration' = [at |-> "done"] /\ refresh' \in {NoRequest, [at |-> "asked"]}
      /\ UNCHANGED <<saved, timer, queue, save, mounted>>
  BY DEF HydrateApplies
<1>2. Grows /\ Row' = Row
  BY <1>1, SavedSame
<1>3. hydration.doc \in Docs /\ About(hydration.doc, hydration.version)
  BY <1>1, SyncTyped DEF SyncInv, LoadFine, Loads
<1>4. /\ hydration.version \in 1..Row'
      /\ hydration.doc \in {saved'[hydration.version], MergeLegacyWorkspace(saved'[hydration.version])}
  BY <1>1, <1>2, <1>3 DEF About
<1>5. /\ KnowsRemote' /\ remoteVersion' \in 0..Row' /\ ScreenSafe' /\ TimerFine'
      /\ screen' \in Docs /\ due' \in BOOLEAN /\ error' \in BOOLEAN
  BY <1>1, <1>2, <1>3, <1>4, Applied
<1>6. LoadFine' /\ RefreshFine'
  BY <1>1 DEF LoadFine, RefreshFine
<1>7. SaveFine'
  BY <1>1, <1>2, SyncStays
<1>8. SyncTypes'
  BY <1>1, <1>2, <1>5, SyncTyped, RequestFacts DEF SyncTypes
<1>9. QED
  BY <1>5, <1>6, <1>7, <1>8 DEF SyncInv

\* The user draws.
LEMMA EditKeeps ==
  ASSUME SyncInv, Edit
  PROVE  SyncInv'
<1>1. /\ screen' \in Docs /\ due' = TRUE
      /\ UNCHANGED <<saved, save, hydration, refresh, timer, queue, remoteVersion, lastRemote, error, mounted>>
  BY DEF Edit, serverOnly, requestVars
<1>2. Grows /\ Row' = Row
  BY <1>1, SavedSame
<1>3. KnowsRemote' /\ remoteVersion' \in 0..Row' /\ LoadFine' /\ SaveFine' /\ RefreshFine'
  BY <1>1, <1>2, SyncStays
<1>4. TimerFine' /\ ScreenSafe'
  BY <1>1 DEF TimerFine, ScreenSafe
<1>5. SyncTypes'
  BY <1>1, <1>2, <1>3, SyncTyped DEF SyncTypes
<1>6. QED
  BY <1>3, <1>4, <1>5 DEF SyncInv

\* The autosave effect runs.
LEMMA RenderKeeps ==
  ASSUME SyncInv, Render
  PROVE  SyncInv'
<1>1. /\ mounted /\ due' = FALSE
      /\ timer' = IF Hydrated /\ screen # lastRemote THEN screen ELSE NoDoc
      /\ UNCHANGED <<saved, save, hydration, refresh, screen, remoteVersion, lastRemote, queue, error, mounted>>
  BY DEF Render, serverOnly, requestVars
<1>2. Grows /\ Row' = Row
  BY <1>1, SavedSame
<1>3. KnowsRemote' /\ remoteVersion' \in 0..Row' /\ LoadFine' /\ SaveFine' /\ RefreshFine'
  BY <1>1, <1>2, SyncStays
<1>4. TimerFine'
  BY <1>1 DEF TimerFine
<1>5. ScreenSafe'
  <2>1. CASE ~Hydrated
    BY <1>1, <2>1 DEF ScreenSafe, Hydrated
  <2>2. CASE Hydrated /\ screen # lastRemote
    BY <1>1, <2>2 DEF ScreenSafe
  <2>3. CASE screen = lastRemote
    <3>1. OnServer(screen)
      BY <2>3, RemoteOnServer, SyncTyped
    <3>2. OnServer(screen)'
      BY <1>1, <3>1 DEF OnServer, About, Row
    <3>3. QED
      BY <3>2 DEF ScreenSafe
  <2>4. QED
    BY <2>1, <2>2, <2>3
<1>6. timer' \in Docs \cup {NoDoc} /\ due' \in BOOLEAN
  BY <1>1, SyncTyped
<1>7. SyncTypes'
  BY <1>1, <1>2, <1>3, <1>6, SyncTyped DEF SyncTypes
<1>8. QED
  BY <1>3, <1>4, <1>5, <1>7 DEF SyncInv

\* The timer queues a save of what is on screen.
LEMMA TimerFiresKeeps ==
  ASSUME SyncInv, TimerFires
  PROVE  SyncInv'
<1>1. /\ timer # NoDoc /\ timer' = NoDoc /\ queue' = Append(queue, timer)
      /\ UNCHANGED <<saved, save, hydration, refresh, screen, due, remoteVersion, lastRemote, error, mounted>>
  BY DEF TimerFires, serverOnly, requestVars, boardOnly
<1>2. Grows /\ Row' = Row
  BY <1>1, SavedSame
<1>3. KnowsRemote' /\ remoteVersion' \in 0..Row' /\ LoadFine' /\ SaveFine' /\ RefreshFine'
  BY <1>1, <1>2, SyncStays
<1>4. timer \in Docs /\ queue \in Seq(Docs)
  BY <1>1, SyncTyped
<1>5. queue' \in Seq(Docs) /\ queue' # <<>> /\ Last(queue') = timer
  <2>1. /\ Append(queue, timer) \in Seq(Docs) /\ Append(queue, timer) # <<>>
        /\ Len(Append(queue, timer)) = Len(queue) + 1
        /\ Append(queue, timer)[Len(queue) + 1] = timer
    BY <1>4, AppendProperties
  <2>2. QED
    BY <1>1, <2>1 DEF Last
<1>6. TimerFine'
  BY <1>1 DEF TimerFine
<1>7. ScreenSafe'
  <2> SUFFICES ASSUME mounted', ~due'
               PROVE  ScreenSafe'
    BY DEF ScreenSafe
  <2>1. timer = screen
    BY <1>1 DEF SyncInv, TimerFine
  <2>2. QED
    BY <1>1, <1>5, <2>1 DEF ScreenSafe
<1>8. SyncTypes'
  BY <1>1, <1>2, <1>3, <1>5, SyncTyped DEF SyncTypes
<1>9. QED
  BY <1>3, <1>6, <1>7, <1>8 DEF SyncInv

\* The head and the last element of a queue.
LEMMA QueueEnds ==
  ASSUME NEW S, NEW q \in Seq(S), q # <<>>
  PROVE  /\ Head(q) \in S /\ Tail(q) \in Seq(S)
         /\ Tail(q) = <<>> => Last(q) = Head(q)
         /\ Tail(q) # <<>> => Last(Tail(q)) = Last(q)
<1>1. /\ Head(q) \in S /\ Tail(q) \in Seq(S) /\ Len(q) \in Nat /\ Len(q) # 0
      /\ Len(Tail(q)) = Len(q) - 1 /\ Head(q) = q[1]
      /\ \A i \in 1..Len(Tail(q)) : Tail(q)[i] = q[i + 1]
  BY HeadTailProperties, LenProperties, EmptySeq
<1>2. ASSUME Tail(q) = <<>>
      PROVE  Last(q) = Head(q)
  <2> DEFINE m == Len(Tail(q))
             n == Len(q)
  <2>1. m = 0
    BY <1>1, <1>2, EmptySeq
  <2>2. n \in Nat /\ m = n - 1
    BY <1>1
  <2> HIDE DEF m, n
  <2>3. n = 1
    BY <2>1, <2>2
  <2>4. QED
    BY <1>1, <2>3 DEF Last, n
<1>3. ASSUME Tail(q) # <<>>
      PROVE  Last(Tail(q)) = Last(q)
  <2>1. Len(Tail(q)) # 0
    BY <1>1, <1>3, EmptySeq
  <2>2. Len(Tail(q)) \in 1..Len(Tail(q)) /\ Len(Tail(q)) + 1 = Len(q)
    BY <1>1, <2>1
  <2>3. Tail(q)[Len(Tail(q))] = q[Len(q)]
    BY <1>1, <2>2
  <2>4. QED
    BY <2>3 DEF Last
<1>4. QED
  BY <1>1, <1>2, <1>3

\* The next save starts, unless the server has what it would save.
LEMMA SaveStartsKeeps ==
  ASSUME SyncInv, SaveStarts
  PROVE  SyncInv'
<1> DEFINE d == Head(queue)
<1>1. /\ save = NoRequest /\ queue # <<>> /\ queue' = Tail(queue)
      /\ save' = IF ~mounted \/ d = lastRemote THEN NoRequest
                 ELSE [at |-> "asked", doc |-> d, over |-> remoteVersion]
      /\ UNCHANGED <<saved, hydration, refresh, screen, due, remoteVersion, lastRemote, error, timer, mounted>>
  BY DEF SaveStarts, serverOnly, boardOnly
<1>2. Grows /\ Row' = Row /\ Row \in Nat
  BY <1>1, SavedSame, SyncTyped
<1>3. KnowsRemote' /\ remoteVersion' \in 0..Row' /\ LoadFine' /\ RefreshFine'
  BY <1>1, <1>2, SyncStays
<1>4. /\ d \in Docs /\ queue' \in Seq(Docs)
      /\ queue' = <<>> => Last(queue) = d
      /\ queue' # <<>> => Last(queue') = Last(queue)
  BY <1>1, SyncTyped, QueueEnds
<1> HIDE DEF d
<1>5. /\ save' \in SaveCalls \cup {NoRequest} /\ SaveFine'
      /\ mounted /\ d # lastRemote => save' # NoRequest /\ save'.at = "asked" /\ save'.doc = d
  <2>1. CASE ~mounted \/ d = lastRemote
    BY <1>1, <2>1 DEF SaveFine
  <2>2. CASE mounted /\ d # lastRemote
    <3>1. save' = [at |-> "asked", doc |-> d, over |-> remoteVersion]
      BY <1>1, <2>2
    <3>2. remoteVersion \in 0..Row /\ remoteVersion \in Nat
      BY SyncTyped, <1>2
    <3>3. save' \in [at : {"asked"}, doc : Docs, over : Nat]
      BY <1>4, <3>1, <3>2
    <3>4. save' \in SaveCalls /\ save' # NoRequest
      BY <3>3, RequestFacts DEF SaveCalls
    <3>5. save'.at = "asked" /\ save'.doc = d /\ save'.over \in 0..Row'
      BY <1>2, <3>1, <3>2
    <3>6. QED
      BY <3>4, <3>5 DEF SaveFine
  <2>3. QED
    BY <2>1, <2>2
<1>6. TimerFine'
  BY <1>1 DEF SyncInv, TimerFine
<1>7. ScreenSafe'
  <2> SUFFICES ASSUME mounted', Hydrated', ~due', ~OnServer(screen)', timer' # screen'
               PROVE  ScreenSafe'
    BY DEF ScreenSafe
  <2>1. mounted /\ Hydrated /\ ~due /\ ~OnServer(screen) /\ timer # screen
    BY <1>1 DEF Hydrated, OnServer, About, Row
  <2>2. Last(queue) = screen
    BY <1>1, <2>1 DEF SyncInv, ScreenSafe
  <2>3. CASE queue' # <<>>
    BY <1>1, <1>4, <2>2, <2>3 DEF ScreenSafe
  <2>4. CASE queue' = <<>>
    <3>1. d = screen /\ d # lastRemote
      BY <1>4, <2>1, <2>2, <2>4, RemoteOnServer
    <3>2. timer = NoDoc
      BY <2>1 DEF SyncInv, TimerFine
    <3>3. QED
      BY <1>1, <1>5, <2>1, <2>4, <3>1, <3>2 DEF ScreenSafe
  <2>5. QED
    BY <2>3, <2>4
<1>8. SyncTypes'
  BY <1>1, <1>2, <1>3, <1>4, <1>5, SyncTyped DEF SyncTypes
<1>9. QED
  BY <1>3, <1>5, <1>6, <1>7, <1>8 DEF SyncInv

\* While what is on screen and its saves stand still, a revision is announced, another
\* client saves or the refresh goes on; an error may come up.
LEMMA AsideKeeps ==
  ASSUME SyncInv, Grows, UNCHANGED <<hydration, save, screen, due, remoteVersion, lastRemote, timer, queue, mounted>>,
         refresh' \in Refreshes \cup {NoRequest}, RefreshFine', error' \in BOOLEAN, error => error'
  PROVE  SyncInv'
<1>1. KnowsRemote' /\ remoteVersion' \in 0..Row' /\ LoadFine' /\ SaveFine'
  BY SyncStays
<1>2. Hydrated' => Hydrated
  BY DEF Hydrated
<1>3. ScreenSafe' /\ TimerFine'
  BY <1>2, ScreenStays
<1>4. SyncTypes'
  BY <1>1, SyncTyped DEF SyncTypes, Grows
<1>5. QED
  BY <1>1, <1>3, <1>4 DEF SyncInv

\* A save goes on while what is on screen and what is known of the server stand still.
LEMMA SaveGoesOn ==
  ASSUME SyncInv, Grows, UNCHANGED <<hydration, refresh, screen, due, remoteVersion, lastRemote, timer, queue, mounted>>,
         save' \in SaveCalls \cup {NoRequest}, SaveFine', error' \in BOOLEAN,
         ~due /\ mounted /\ queue = <<>> /\ timer = NoDoc /\ save # NoRequest
           /\ (save.at \in {"conflict", "reloaded"} \/ (save.at = "asked" /\ save.doc = screen)) =>
           ScreenSafe',
         save # NoRequest
  PROVE  SyncInv'
<1>1. KnowsRemote' /\ remoteVersion' \in 0..Row' /\ LoadFine' /\ RefreshFine'
  BY SyncStays
<1>2. TimerFine'
  BY DEF SyncInv, TimerFine
<1>3. ScreenSafe'
  <2> SUFFICES ASSUME mounted', Hydrated', ~due', ~OnServer(screen)', timer' # screen'
               PROVE  ScreenSafe'
    BY DEF ScreenSafe
  <2>1. mounted /\ Hydrated /\ ~due /\ timer # screen
    BY DEF Hydrated
  <2>2. ~OnServer(screen)
    <3>1. ASSUME NEW v \in 1..Row, About(screen, v)
          PROVE  FALSE
      BY <3>1 DEF OnServer, About, Grows
    <3>2. QED
      BY <3>1 DEF OnServer
  <2>3. CASE queue # <<>> /\ Last(queue) = screen
    BY <2>3 DEF ScreenSafe
  <2>4. CASE ~(queue # <<>> /\ Last(queue) = screen)
    BY <2>1, <2>2, <2>4 DEF SyncInv, ScreenSafe
  <2>5. QED
    BY <2>3, <2>4
<1>4. SyncTypes'
  BY <1>1, SyncTyped DEF SyncTypes, Grows
<1>5. QED
  BY <1>1, <1>2, <1>3, <1>4 DEF SyncInv

\* The server stores the save, or refuses it.
LEMMA SaveStoresKeeps ==
  ASSUME SyncInv, SaveStores
  PROVE  SyncInv'
<1>1. /\ save # NoRequest /\ save.at = "asked"
      /\ UNCHANGED <<hydration, refresh, screen, due, remoteVersion, lastRemote, error, timer, queue, mounted>>
  BY DEF SaveStores, boardOnly
<1>2. save.doc \in Docs /\ save.over \in 0..Row /\ Row \in Nat
  BY <1>1, SyncTyped DEF SaveCalls, SyncInv, SaveFine
<1>3. CASE save.over = Row
  <2>1. saved' = Append(saved, save.doc) /\ save' = [at |-> "stored", doc |-> save.doc, version |-> Row + 1]
    BY <1>3 DEF SaveStores
  <2>2. Grows /\ Row + 1 \in 1..Row' /\ saved'[Row + 1] = save.doc
    BY <1>2, <2>1, SavedGrows
  <2>3. save' \in [at : {"stored", "reloaded"}, doc : Docs, version : Nat]
    BY <1>2, <2>1
  <2>4. save'.at = "stored" /\ save'.version = Row + 1 /\ save'.doc = save.doc
    BY <2>1
  <2>5. save' \in SaveCalls /\ SaveFine'
    BY <2>2, <2>3, <2>4 DEF SaveCalls, SaveFine
  <2>6. save.doc = screen => ScreenSafe'
    <3>1. save.doc = screen => OnServer(screen)'
      BY <1>1, <2>2 DEF OnServer, About
    <3>2. QED
      BY <3>1 DEF ScreenSafe
  <2>7. QED
    BY <1>1, <2>2, <2>5, <2>6, SyncTyped, SaveGoesOn
<1>4. CASE save.over # Row
  <2>1. UNCHANGED saved /\ save' = [at |-> "conflict"]
    BY <1>4 DEF SaveStores
  <2>2. Grows /\ Row' = Row
    BY <2>1, SavedSame
  <2>3. save' \in SaveCalls /\ save' # NoRequest /\ save'.at = "conflict"
    BY <2>1, RequestFacts
  <2>4. SaveFine'
    BY <1>2, <1>4, <2>2, <2>3 DEF SaveFine
  <2>5. queue = <<>> /\ timer = NoDoc => ScreenSafe'
    BY <1>1, <2>3 DEF ScreenSafe
  <2>6. QED
    BY <1>1, <2>2, <2>3, <2>4, <2>5, SyncTyped, SaveGoesOn
<1>5. QED
  BY <1>3, <1>4

\* The board learns of its save: it now knows that version.
LEMMA SaveAnswersKeeps ==
  ASSUME SyncInv, SaveAnswers
  PROVE  SyncInv'
<1>1. /\ save # NoRequest /\ save.at = "stored" /\ save' = NoRequest
      /\ IF mounted
         THEN remoteVersion' = save.version /\ lastRemote' = save.doc /\ error' = FALSE
         ELSE UNCHANGED <<remoteVersion, lastRemote, error>>
      /\ UNCHANGED <<saved, hydration, refresh, screen, due, timer, queue, mounted>>
  BY DEF SaveAnswers, serverOnly
<1>2. Grows /\ Row' = Row /\ Row \in Nat
  BY <1>1, SavedSame, SyncTyped
<1>3. save.version \in 1..Row /\ save.doc = saved[save.version]
  BY <1>1 DEF SyncInv, SaveFine
<1>4. LoadFine' /\ RefreshFine' /\ SaveFine'
  BY <1>1, <1>2, SyncStays DEF SaveFine
<1>5. KnowsRemote' /\ remoteVersion' \in 0..Row' /\ error' \in BOOLEAN
  <2>1. CASE mounted
    <3>1. remoteVersion' = save.version /\ lastRemote' = save.doc /\ error' = FALSE
      BY <1>1, <2>1
    <3>2. remoteVersion' \in 1..Row /\ saved' = saved
      BY <1>1, <1>3, <3>1
    <3>3. lastRemote' = saved'[remoteVersion']
      BY <1>3, <3>1, <3>2
    <3>4. KnowsRemote'
      BY <1>2, <3>2, <3>3 DEF KnowsRemote
    <3>5. remoteVersion' \in 0..Row'
      BY <1>2, <3>2
    <3>6. error' \in BOOLEAN
      BY <3>1
    <3>7. QED
      BY <3>4, <3>5, <3>6
  <2>2. CASE ~mounted
    BY <1>1, <1>2, <2>2, SyncStays, SyncTyped
  <2>3. QED
    BY <2>1, <2>2
<1>6. TimerFine'
  BY <1>1 DEF SyncInv, TimerFine
<1>7. ScreenSafe'
  <2> SUFFICES ASSUME mounted', Hydrated', ~due', ~OnServer(screen)', timer' # screen'
               PROVE  ScreenSafe'
    BY DEF ScreenSafe
  <2>1. mounted /\ Hydrated /\ ~due /\ ~OnServer(screen) /\ timer # screen
    BY <1>1 DEF Hydrated, OnServer, About, Row
  <2>2. queue # <<>> /\ Last(queue) = screen
    BY <1>1, <2>1 DEF SyncInv, ScreenSafe
  <2>3. QED
    BY <1>1, <2>2 DEF ScreenSafe
<1>8. SyncTypes'
  BY <1>1, <1>2, <1>5, SyncTyped DEF SyncTypes
<1>9. QED
  BY <1>4, <1>5, <1>6, <1>7, <1>8 DEF SyncInv

\* A save that met a conflict loads the row; an unmounted board does not.
LEMMA ConflictReloadsKeeps ==
  ASSUME SyncInv, ConflictReloads
  PROVE  SyncInv'
<1>1. /\ save # NoRequest /\ save.at = "conflict"
      /\ save' = IF mounted THEN [at |-> "reloaded", doc |-> Last(saved), version |-> Row] ELSE NoRequest
      /\ UNCHANGED <<saved, hydration, refresh, screen, due, remoteVersion, lastRemote, error, timer, queue, mounted>>
  BY DEF ConflictReloads, serverOnly, boardOnly
<1>2. Grows /\ Row' = Row /\ Row \in Nat /\ Row > 0
  BY <1>1, SavedSame, SyncTyped DEF SyncInv, SaveFine
<1>3. saved # <<>>
  BY <1>2 DEF Row
<1>4. CASE mounted
  <2>1. Last(saved) \in Docs /\ Last(saved) = saved[Row] /\ Row \in 1..Row
    BY <1>3, LastSaved
  <2>2. save' \in [at : {"stored", "reloaded"}, doc : Docs, version : Nat]
    BY <1>1, <1>2, <1>4, <2>1
  <2>3. save'.at = "reloaded" /\ save'.doc = saved[Row] /\ save'.version = Row
    BY <1>1, <1>4, <2>1
  <2>4. save' \in SaveCalls /\ SaveFine' /\ save' # NoRequest
    BY <1>1, <1>2, <2>1, <2>2, <2>3, RequestFacts DEF SaveCalls, SaveFine
  <2>5. queue = <<>> /\ timer = NoDoc => ScreenSafe'
    BY <1>1, <2>3, <2>4 DEF ScreenSafe
  <2>6. QED
    BY <1>1, <1>2, <2>4, <2>5, SyncTyped, SaveGoesOn
<1>5. CASE ~mounted
  <2>1. save' = NoRequest /\ SaveFine'
    BY <1>1, <1>5 DEF SaveFine
  <2>2. QED
    BY <1>1, <1>2, <1>5, <2>1, SyncTyped, SaveGoesOn
<1>6. QED
  BY <1>4, <1>5

\* The other client's workspace replaces the one on screen.
LEMMA ConflictAppliesKeeps ==
  ASSUME SyncInv, ConflictApplies
  PROVE  SyncInv'
<1>1. /\ save # NoRequest /\ save.at = "reloaded" /\ save' = NoRequest
      /\ IF mounted THEN Apply(save.doc, save.version, save.doc) ELSE UNCHANGED boardOnly
      /\ UNCHANGED <<saved, hydration, refresh, timer, queue, mounted>>
  BY DEF ConflictApplies, serverOnly
<1>2. Grows /\ Row' = Row /\ Row \in Nat
  BY <1>1, SavedSame, SyncTyped
<1>3. save.version \in 1..Row' /\ save.doc = saved'[save.version] /\ save.doc \in Docs
  BY <1>1, <1>2, SyncTyped DEF SyncInv, SaveFine, SaveCalls
<1>4. SaveFine' /\ LoadFine' /\ RefreshFine'
  BY <1>1, <1>2, SyncStays DEF SaveFine
<1>5. CASE mounted
  <2>1. /\ KnowsRemote' /\ remoteVersion' \in 0..Row' /\ ScreenSafe' /\ TimerFine'
        /\ screen' \in Docs /\ due' \in BOOLEAN /\ error' \in BOOLEAN
    BY <1>1, <1>2, <1>3, <1>5, Applied
  <2>2. SyncTypes'
    BY <1>1, <1>2, <2>1, SyncTyped DEF SyncTypes
  <2>3. QED
    BY <1>4, <2>1, <2>2 DEF SyncInv
<1>6. CASE ~mounted
  BY <1>1, <1>2, <1>4, <1>6, SyncTyped, SaveGoesOn DEF boardOnly
<1>7. QED
  BY <1>5, <1>6

\* A save, its answer or the reload is lost: the board shows an error.
LEMMA SaveFailsKeeps ==
  ASSUME SyncInv, SaveFails
  PROVE  SyncInv'
<1>1. /\ save # NoRequest /\ save' = NoRequest /\ error' = (error \/ mounted)
      /\ UNCHANGED <<saved, hydration, refresh, screen, due, remoteVersion, lastRemote, timer, queue, mounted>>
  BY DEF SaveFails, serverOnly
<1>2. Grows
  BY <1>1, SavedSame
<1>3. SaveFine'
  BY <1>1 DEF SaveFine
<1>4. error' \in BOOLEAN
  BY <1>1, SyncTyped
<1>5. mounted /\ queue = <<>> /\ timer = NoDoc => ScreenSafe'
  BY <1>1 DEF ScreenSafe
<1>6. QED
  BY <1>1, <1>2, <1>3, <1>4, <1>5, SaveGoesOn

\* A new revision, the refresh it asks for, and what other clients save.
LEMMA RefreshSteps ==
  ASSUME SyncInv, Announce \/ RefreshReads \/ RefreshFails \/ OtherSaves
  PROVE  SyncInv'
<1>1. CASE Announce
  <2>1. /\ UNCHANGED <<saved, hydration, save, screen, due, remoteVersion, lastRemote, error, timer, queue, mounted>>
        /\ refresh' = IF mounted /\ Hydrated THEN [at |-> "asked"] ELSE refresh
    BY <1>1 DEF Announce, boardOnly
  <2>2. Grows
    BY <2>1, SavedSame
  <2>3. refresh' \in Refreshes \cup {NoRequest} /\ RefreshFine'
    <3>1. CASE refresh' = refresh
      BY <2>2, <3>1, SyncStays, SyncTyped
    <3>2. CASE refresh' = [at |-> "asked"]
      BY <3>2, RequestFacts DEF RefreshFine
    <3>3. QED
      BY <2>1, <3>1, <3>2
  <2>4. QED
    BY <2>1, <2>2, <2>3, SyncTyped, AsideKeeps
<1>2. CASE RefreshReads
  <2>1. /\ UNCHANGED <<saved, hydration, save, screen, due, remoteVersion, lastRemote, error, timer, queue, mounted>>
        /\ saved # <<>> /\ refresh' = [at |-> "read", doc |-> Last(saved), version |-> Row]
    BY <1>2 DEF RefreshReads, serverOnly, boardOnly
  <2>2. Grows /\ Row' = Row /\ Row \in Nat
    BY <2>1, SavedSame, SyncTyped
  <2>3. Row \in 1..Row /\ Last(saved) = saved[Row] /\ Last(saved) \in Docs
    BY <2>1, LastSaved
  <2>4. refresh' \in Refreshes
    BY <2>1, <2>2, <2>3 DEF Refreshes
  <2>5. RefreshFine'
    BY <2>1, <2>2, <2>3 DEF RefreshFine
  <2>6. QED
    BY <2>1, <2>2, <2>4, <2>5, SyncTyped, AsideKeeps
<1>3. CASE RefreshFails
  <2>1. /\ UNCHANGED <<saved, hydration, save, screen, due, remoteVersion, lastRemote, timer, queue, mounted>>
        /\ refresh' = NoRequest /\ error' = TRUE
    BY <1>3 DEF RefreshFails, serverOnly
  <2>2. Grows /\ RefreshFine' /\ error' \in BOOLEAN
    BY <2>1, SavedSame DEF RefreshFine
  <2>3. QED
    BY <2>1, <2>2, AsideKeeps
<1>4. CASE OtherSaves
  <2>1. /\ UNCHANGED <<hydration, refresh, save, screen, due, remoteVersion, lastRemote, error, timer, queue, mounted>>
        /\ \E d \in Docs : saved' = Append(saved, d)
    BY <1>4 DEF OtherSaves, requestVars, boardOnly
  <2>2. Grows
    BY <2>1, SavedGrows
  <2>3. RefreshFine'
    BY <2>1, <2>2, SyncStays
  <2>4. QED
    BY <2>1, <2>2, <2>3, SyncTyped, AsideKeeps
<1>5. QED
  BY <1>1, <1>2, <1>3, <1>4

\* The refresh shows a newer version than the board knows.
LEMMA RefreshAnswersKeeps ==
  ASSUME SyncInv, RefreshAnswers
  PROVE  SyncInv'
<1>1. /\ refresh # NoRequest /\ refresh.at = "read" /\ refresh' = NoRequest
      /\ IF refresh.version > remoteVersion
         THEN Apply(refresh.doc, refresh.version, refresh.doc) ELSE UNCHANGED boardOnly
      /\ UNCHANGED <<saved, save, hydration, timer, queue, mounted>>
  BY DEF RefreshAnswers, serverOnly
<1>2. Grows /\ Row' = Row /\ Row \in Nat
  BY <1>1, SavedSame, SyncTyped
<1>3. refresh.version \in 1..Row' /\ refresh.doc = saved'[refresh.version] /\ refresh.doc \in Docs
  BY <1>1, <1>2, SyncTyped DEF SyncInv, RefreshFine, Refreshes
<1>4. RefreshFine' /\ LoadFine' /\ SaveFine'
  BY <1>1, <1>2, SyncStays DEF RefreshFine
<1>5. CASE refresh.version > remoteVersion
  <2>1. /\ KnowsRemote' /\ remoteVersion' \in 0..Row' /\ ScreenSafe' /\ TimerFine'
        /\ screen' \in Docs /\ due' \in BOOLEAN /\ error' \in BOOLEAN
    BY <1>1, <1>2, <1>3, <1>5, Applied
  <2>2. SyncTypes'
    BY <1>1, <1>2, <2>1, SyncTyped DEF SyncTypes
  <2>3. QED
    BY <1>4, <2>1, <2>2 DEF SyncInv
<1>6. CASE ~(refresh.version > remoteVersion)
  BY <1>1, <1>2, <1>4, <1>6, SyncTyped, AsideKeeps DEF boardOnly
<1>7. QED
  BY <1>5, <1>6

\* The board is left.
LEMMA LeaveBoardKeeps ==
  ASSUME SyncInv, LeaveBoard
  PROVE  SyncInv'
<1>1. /\ mounted' = FALSE /\ timer' = NoDoc /\ refresh' = NoRequest
      /\ UNCHANGED <<saved, save, hydration, screen, due, remoteVersion, lastRemote, error, queue>>
  BY DEF LeaveBoard, serverOnly, boardOnly
<1>2. Grows /\ Row' = Row
  BY <1>1, SavedSame
<1>3. KnowsRemote' /\ remoteVersion' \in 0..Row' /\ LoadFine' /\ SaveFine'
  BY <1>1, <1>2, SyncStays
<1>4. RefreshFine' /\ TimerFine' /\ ScreenSafe'
  BY <1>1 DEF RefreshFine, TimerFine, ScreenSafe
<1>5. mounted' \in BOOLEAN
  BY <1>1
<1>6. SyncTypes'
  BY <1>1, <1>2, <1>3, <1>5, SyncTyped DEF SyncTypes
<1>7. QED
  BY <1>3, <1>4, <1>6 DEF SyncInv

\* Every step keeps the invariant.
LEMMA SyncInvStep == SyncInv /\ [SyncNext]_syncVars => SyncInv'
<1> SUFFICES ASSUME SyncInv, [SyncNext]_syncVars
             PROVE  SyncInv'
  OBVIOUS
<1>1. CASE HydrateReads \/ HydrateStores \/ HydrateReloads \/ HydrateApplies
  BY <1>1, HydrateReadsKeeps, HydrateStoresKeeps, HydrateReloadsKeeps, HydrateAppliesKeeps
<1>2. CASE HydrateFails
  BY <1>2, UnhydratedKeeps DEF HydrateFails
<1>3. CASE Render \/ TimerFires \/ SaveStarts \/ Edit
  BY <1>3, RenderKeeps, TimerFiresKeeps, SaveStartsKeeps, EditKeeps
<1>4. CASE SaveStores \/ SaveAnswers \/ ConflictReloads \/ ConflictApplies \/ SaveFails
  BY <1>4, SaveStoresKeeps, SaveAnswersKeeps, ConflictReloadsKeeps, ConflictAppliesKeeps, SaveFailsKeeps
<1>5. CASE Announce \/ RefreshReads \/ RefreshFails \/ OtherSaves \/ RefreshAnswers \/ LeaveBoard
  BY <1>5, RefreshSteps, RefreshAnswersKeeps, LeaveBoardKeeps
<1>6. CASE UNCHANGED syncVars
  <2>1. UNCHANGED <<saved, hydration, refresh, save, screen, due, remoteVersion, lastRemote, error, timer, queue, mounted>>
    BY <1>6 DEF syncVars
  <2>2. Grows
    BY <2>1, SavedSame
  <2>3. RefreshFine'
    BY <2>1, <2>2, SyncStays
  <2>4. QED
    BY <2>1, <2>2, <2>3, SyncTyped, AsideKeeps
<1>7. QED
  BY <1>1, <1>2, <1>3, <1>4, <1>5, <1>6 DEF SyncNext, SyncProgress

\* What a workflow board takes for the content of the version it knows is what the server
\* has saved under it, and nothing that was drawn waits for a save that nobody will start,
\* unless an error is shown: for any number of edits and of saves by other clients.
THEOREM SavesAreKept == SyncSpec => []SavesKeepUp
<1>1. SyncInv => SavesKeepUp
  <2> SUFFICES ASSUME SyncInv
               PROVE  SavesKeepUp
    OBVIOUS
  <2>1. ASSUME Quiet, ~error
        PROVE  OnServer(screen)
    <3>1. /\ mounted /\ Hydrated /\ ~due /\ timer = NoDoc /\ queue = <<>> /\ save = NoRequest
      BY <2>1 DEF Quiet
    <3>2. timer # screen
      BY <3>1, DocFacts, SyncTyped
    <3>3. QED
      BY <2>1, <3>1, <3>2 DEF SyncInv, ScreenSafe
  <2>2. DOMAIN saved = 1..Row
    BY SyncTyped DEF Row
  <2>3. DrawnIsSaved
    BY <2>1, <2>2 DEF DrawnIsSaved, OnServer, About
  <2>4. QED
    BY <2>3 DEF SavesKeepUp, SyncInv
<1>2. QED
  BY <1>1, SyncInvInit, SyncInvStep, PTL DEF SyncSpec
====
