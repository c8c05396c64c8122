-------------------------- MODULE CloudBoard_proofs --------------------------
(***************************************************************************)
(* Invariants of the board, for any number of projects, tasks and          *)
(* requests, of the runs of an automation on a remote task, for any number *)
(* of runs, of users' changes and of faults, and of the policy of a local  *)
(* project's automation, for any number of saves, checks and troubles.     *)
(***************************************************************************)
EXTENDS CloudBoard, RemoteRuns, AutomationPolicy, DataFacts

-----------------------------------------------------------------------------
(* RemoteRuns: the inductive invariant                                     *)

Early == {"read", "decide", "thread", "refresh", "claim"}
Held == {"turn", "follow", "report", "settle", "apologise", "block"}
Board == [status : {"todo", "in_progress", "in_review", "blocked", "done"}, version : Nat,
          thread : Runs \cup {0, Foreign}, archived : BOOLEAN, ready : BOOLEAN, comments : Nat]

RemoteTypeOK ==
  /\ board \in Board /\ enabled \in BOOLEAN /\ reopened \in BOOLEAN
  /\ at \in [Runs -> Idle \cup Early \cup Held]
  /\ seen \in [Runs -> Board] /\ owned \in [Runs -> Nat]
  /\ thread \in [Runs -> Runs \cup {0, Foreign}]
  /\ turn \in [Runs -> {"none", "running", "completed", "failed"}]
  /\ answered \subseteq Runs /\ cut \subseteq Runs /\ owner \in Runs \cup {0}

\* A run that goes on to its claim has seen a task to do, and as long as the task
\* keeps its version it is as the run has seen it.
SeenIsEligible ==
  \A r \in Runs : at[r] \in {"decide", "thread", "refresh", "claim"} =>
    seen[r].status = "todo" /\ ~seen[r].archived /\ seen[r].thread # Foreign
VersionsIdentify ==
  \A r \in Runs :
    /\ seen[r].version <= board.version
    /\ seen[r].version = board.version =>
         /\ board.status = seen[r].status /\ board.archived = seen[r].archived
         /\ board.thread = seen[r].thread

\* The version of a claim is that of the task only as long as nobody else has
\* changed it; the owner's claim then stands.
OwnersVersion ==
  \A r \in Runs :
    /\ owned[r] <= board.version
    /\ at[r] \in Held /\ owned[r] = board.version => owner = r
OwnerWorks ==
  owner # 0 =>
    /\ board.status = "in_progress"
    /\ owner \in cut \/ (/\ at[owner] \in Held /\ ~board.archived
                         /\ owned[owner] = board.version)

\* A turn runs, or is about to.
Busy(r) == turn[r] = "running" \/ at[r] = "turn"

\* Unless a user reopens the task, it is not to do while a turn goes on.
OneIsBusy ==
  \/ reopened
  \/ /\ \A q, r \in Runs : Busy(q) /\ Busy(r) => q = r
     /\ board.status = "todo" => \A r \in Runs : ~Busy(r)

\* Threads, turns and comments by the time a run gets to a step.
StepsInOrder ==
  /\ \A r \in Runs : /\ at[r] \in Early \cup {"none", "turn"} => turn[r] = "none"
                     /\ at[r] \in {"refresh", "claim"} \cup Held => thread[r] # 0
                     /\ at[r] \in {"report", "settle"} => turn[r] = "completed"
                     /\ at[r] = "settle" => r \in answered
  /\ \A r \in answered : turn[r] = "completed"

RemoteInv ==
  /\ RemoteTypeOK
  /\ SeenIsEligible /\ VersionsIdentify
  /\ OwnersVersion /\ OwnerWorks
  /\ OneIsBusy /\ StepsInOrder /\ ReviewHasResult

RemoteSpec == RemoteInit /\ [][RemoteNext]_remoteVars
-----------------------------------------------------------------------------
(* RemoteRuns: the invariant holds and is kept                             *)

\* What the automation starts from satisfies it.
LEMMA RemoteInvInit == RemoteInit => RemoteInv
<1> SUFFICES ASSUME RemoteInit
             PROVE  RemoteInv
  OBVIOUS
<1> USE DEF RemoteInit
<1>1. board \in Board
  BY DEF Board
<1>2. RemoteTypeOK
  BY <1>1 DEF RemoteTypeOK, Idle
<1>3. SeenIsEligible /\ VersionsIdentify
  <2>1. \A r \in Runs : seen[r] = board /\ at[r] = "none"
    OBVIOUS
  <2>2. board.version <= board.version
    OBVIOUS
  <2> HIDE DEF RemoteInit
  <2>3. QED
    BY <2>1, <2>2 DEF SeenIsEligible, VersionsIdentify
<1>4. OwnersVersion /\ OwnerWorks
  BY DEF OwnersVersion, OwnerWorks, Held
<1>5. OneIsBusy
  BY DEF OneIsBusy, Busy
<1>6. StepsInOrder /\ ReviewHasResult
  BY DEF StepsInOrder, ReviewHasResult, Held
<1>7. QED
  BY <1>2, <1>3, <1>4, <1>5, <1>6 DEF RemoteInv

\* What the fields of a task are given keeps its type.
LEMMA BoardWrites ==
  ASSUME NEW b \in Board, NEW v \in Nat, NEW t \in Runs \cup {0, Foreign}, NEW flag \in BOOLEAN,
         NEW status \in {"todo", "in_progress", "in_review", "blocked", "done"}
  PROVE  /\ [b EXCEPT !.status = status, !.version = v, !.thread = t] \in Board
         /\ [b EXCEPT !.status = status, !.version = v] \in Board
         /\ [b EXCEPT !.version = v] \in Board /\ [b EXCEPT !.archived = flag, !.version = v] \in Board
         /\ [b EXCEPT !.thread = t, !.version = v] \in Board
         /\ [b EXCEPT !.comments = v] \in Board /\ [b EXCEPT !.ready = flag] \in Board
<1>1. [b EXCEPT !.status = status, !.version = v, !.thread = t] \in Board
  BY DEF Board
<1>2. [b EXCEPT !.status = status, !.version = v] \in Board
  BY DEF Board
<1>3. [b EXCEPT !.version = v] \in Board
  BY DEF Board
<1>4. [b EXCEPT !.archived = flag, !.version = v] \in Board
  BY DEF Board
<1>5. [b EXCEPT !.thread = t, !.version = v] \in Board
  BY DEF Board
<1>6. [b EXCEPT !.comments = v] \in Board /\ [b EXCEPT !.ready = flag] \in Board
  BY DEF Board
<1>7. QED
  BY <1>1, <1>2, <1>3, <1>4, <1>5, <1>6

\* A move keeps the type of the task and raises its version.
LEMMA MovedIs ==
  ASSUME RemoteTypeOK, NEW r \in Runs, NEW status \in {"in_progress", "in_review", "blocked"}
  PROVE  /\ Moved(r, status) \in Board
         /\ Moved(r, status).status = status /\ Moved(r, status).version = board.version + 1
         /\ Moved(r, status).thread = thread[r] /\ Moved(r, status).archived = board.archived
<1>1. board \in Board /\ thread[r] \in Runs \cup {0, Foreign}
  BY DEF RemoteTypeOK
<1>2. board.version + 1 \in Nat
  BY <1>1 DEF Board
<1>3. Moved(r, status) \in Board
  BY <1>1, <1>2, BoardWrites DEF Moved
<1>4. QED
  BY <1>1, <1>3 DEF Moved, Board

\* Every step of a run, of Codex, of the injector and of a user keeps it.
LEMMA RemoteInvStep == RemoteInv /\ [RemoteNext]_remoteVars => RemoteInv'
<1> SUFFICES ASSUME RemoteInv, [RemoteNext]_remoteVars
             PROVE  RemoteInv'
  OBVIOUS
<1> USE DEF Idle, Early, Held
<1>a. /\ RemoteTypeOK /\ SeenIsEligible /\ VersionsIdentify /\ OwnersVersion
      /\ OwnerWorks /\ OneIsBusy /\ StepsInOrder /\ ReviewHasResult
  BY DEF RemoteInv
<1>b. /\ board.version \in Nat /\ 0 \notin Runs /\ Foreign # 0
      /\ \A r \in Runs : owned[r] \in Nat /\ seen[r].version \in Nat
  BY <1>a, RemoteAssumption DEF RemoteTypeOK, Board, Runs
<1>1. ASSUME NEW r \in Runs, RunBegins(r)
      PROVE  RemoteInv'
  <2>1. RemoteTypeOK'
    <3>1. board' \in Board
      BY <1>a, <1>b, <1>1 DEF RunBegins, GoTo, Eligible, RemoteTypeOK, noteVars, runVars
    <3>2. QED
      BY <1>a, <1>b, <1>1, <3>1 DEF RunBegins, GoTo, Eligible, RemoteTypeOK, noteVars, runVars, Fault, Touch
  <2>2. SeenIsEligible'
    BY <1>a, <1>b, <1>1 DEF RunBegins, GoTo, Eligible, noteVars, runVars, SeenIsEligible, RemoteTypeOK
  <2>3. VersionsIdentify'
    BY <1>a, <1>b, <1>1 DEF RunBegins, GoTo, Eligible, noteVars, runVars, VersionsIdentify, RemoteTypeOK
  <2>4. OwnersVersion'
    BY <1>a, <1>b, <1>1 DEF RunBegins, GoTo, Eligible, noteVars, runVars, OwnersVersion, OwnerWorks, RemoteTypeOK
  <2>5. OwnerWorks'
    BY <1>a, <1>b, <1>1 DEF RunBegins, GoTo, Eligible, noteVars, runVars, OwnersVersion, OwnerWorks, RemoteTypeOK
  <2>6. OneIsBusy'
    BY <1>a, <1>b, <1>1 DEF RunBegins, GoTo, Eligible, noteVars, runVars, OneIsBusy, Busy, StepsInOrder, RemoteTypeOK
  <2>7. StepsInOrder'
    BY <1>a, <1>b, <1>1 DEF RunBegins, GoTo, Eligible, noteVars, runVars, StepsInOrder, RemoteTypeOK
  <2>8. ReviewHasResult'
    BY <1>a, <1>b, <1>1 DEF RunBegins, GoTo, Eligible, noteVars, runVars, ReviewHasResult, StepsInOrder, RemoteTypeOK
  <2>9. QED
    BY <2>1, <2>2, <2>3, <2>4, <2>5, <2>6, <2>7, <2>8 DEF RemoteInv
<1>2. ASSUME NEW r \in Runs, TaskRead(r)
      PROVE  RemoteInv'
  <2>1. RemoteTypeOK'
    <3>1. board' \in Board
      BY <1>a, <1>b, <1>2 DEF TaskRead, GoTo, Eligible, RemoteTypeOK, noteVars, runVars
    <3>2. QED
      BY <1>a, <1>b, <1>2, <3>1 DEF TaskRead, GoTo, Eligible, RemoteTypeOK, noteVars, runVars, Fault, Touch
  <2>2. SeenIsEligible'
    BY <1>a, <1>b, <1>2 DEF TaskRead, GoTo, Eligible, noteVars, runVars, SeenIsEligible, RemoteTypeOK
  <2>3. VersionsIdentify'
    BY <1>a, <1>b, <1>2 DEF TaskRead, GoTo, Eligible, noteVars, runVars, VersionsIdentify, RemoteTypeOK
  <2>4. OwnersVersion'
    BY <1>a, <1>b, <1>2 DEF TaskRead, GoTo, Eligible, noteVars, runVars, OwnersVersion, OwnerWorks, RemoteTypeOK
  <2>5. OwnerWorks'
    BY <1>a, <1>b, <1>2 DEF TaskRead, GoTo, Eligible, noteVars, runVars, OwnersVersion, OwnerWorks, RemoteTypeOK
  <2>6. OneIsBusy'
    BY <1>a, <1>b, <1>2 DEF TaskRead, GoTo, Eligible, noteVars, runVars, OneIsBusy, Busy, StepsInOrder, RemoteTypeOK
  <2>7. StepsInOrder'
    BY <1>a, <1>b, <1>2 DEF TaskRead, GoTo, Eligible, noteVars, runVars, StepsInOrder, RemoteTypeOK
  <2>8. ReviewHasResult'
    BY <1>a, <1>b, <1>2 DEF TaskRead, GoTo, Eligible, noteVars, runVars, ReviewHasResult, StepsInOrder, RemoteTypeOK
  <2>9. QED
    BY <2>1, <2>2, <2>3, <2>4, <2>5, <2>6, <2>7, <2>8 DEF RemoteInv
<1>3. ASSUME NEW r \in Runs, Decided(r)
      PROVE  RemoteInv'
  <2>1. RemoteTypeOK'
    <3>1. board' \in Board
      BY <1>a, <1>b, <1>3 DEF Decided, GoTo, RemoteTypeOK, noteVars, runVars, Board
    <3>2. QED
      BY <1>a, <1>b, <1>3, <3>1 DEF Decided, GoTo, RemoteTypeOK, noteVars, runVars, Fault, Touch
  <2>2. SeenIsEligible'
    BY <1>a, <1>b, <1>3 DEF Decided, GoTo, Eligible, noteVars, runVars, SeenIsEligible, RemoteTypeOK, Board
  <2>3. VersionsIdentify'
    BY <1>a, <1>b, <1>3 DEF Decided, GoTo, noteVars, runVars, VersionsIdentify, RemoteTypeOK, Board
  <2>4. OwnersVersion'
    BY <1>a, <1>b, <1>3 DEF Decided, GoTo, noteVars, runVars, OwnersVersion, OwnerWorks, RemoteTypeOK, Board
  <2>5. OwnerWorks'
    BY <1>a, <1>b, <1>3 DEF Decided, GoTo, noteVars, runVars, OwnersVersion, OwnerWorks, RemoteTypeOK, Board
  <2>6. OneIsBusy'
    BY <1>a, <1>b, <1>3 DEF Decided, GoTo, noteVars, runVars, OneIsBusy, Busy, StepsInOrder, RemoteTypeOK, Board
  <2>7. StepsInOrder'
    BY <1>a, <1>b, <1>3 DEF Decided, GoTo, noteVars, runVars, StepsInOrder, RemoteTypeOK, Board
  <2>8. ReviewHasResult'
    BY <1>a, <1>b, <1>3 DEF Decided, GoTo, noteVars, runVars, ReviewHasResult, StepsInOrder, RemoteTypeOK, Board
  <2>9. QED
    BY <2>1, <2>2, <2>3, <2>4, <2>5, <2>6, <2>7, <2>8 DEF RemoteInv
<1>4. ASSUME NEW r \in Runs, ThreadReady(r)
      PROVE  RemoteInv'
  <2>1. RemoteTypeOK'
    <3>0. seen[r].thread \in Runs \cup {0, Foreign}
      BY <1>a DEF RemoteTypeOK, Board
    <3>1. board' \in Board
      BY <1>a, <1>b, <1>4 DEF ThreadReady, GoTo, RemoteTypeOK, noteVars, runVars
    <3>2. QED
      BY <1>a, <1>b, <1>4, <3>1, <3>0 DEF ThreadReady, GoTo, RemoteTypeOK, noteVars
  <2>2. SeenIsEligible'
    BY <1>a, <1>b, <1>4 DEF ThreadReady, GoTo, Eligible, noteVars, runVars, SeenIsEligible, RemoteTypeOK
  <2>3. VersionsIdentify'
    BY <1>a, <1>b, <1>4 DEF ThreadReady, GoTo, noteVars, runVars, VersionsIdentify, RemoteTypeOK
  <2>4. OwnersVersion'
    BY <1>a, <1>b, <1>4 DEF ThreadReady, GoTo, noteVars, runVars, OwnersVersion, OwnerWorks, RemoteTypeOK
  <2>5. OwnerWorks'
    BY <1>a, <1>b, <1>4 DEF ThreadReady, GoTo, noteVars, runVars, OwnersVersion, OwnerWorks, RemoteTypeOK
  <2>6. OneIsBusy'
    BY <1>a, <1>b, <1>4 DEF ThreadReady, GoTo, noteVars, runVars, OneIsBusy, Busy, StepsInOrder, RemoteTypeOK
  <2>7. StepsInOrder'
    BY <1>a, <1>b, <1>4 DEF ThreadReady, GoTo, noteVars, runVars, StepsInOrder, RemoteTypeOK
  <2>8. ReviewHasResult'
    BY <1>a, <1>b, <1>4 DEF ThreadReady, GoTo, noteVars, runVars, ReviewHasResult, StepsInOrder, RemoteTypeOK
  <2>9. QED
    BY <2>1, <2>2, <2>3, <2>4, <2>5, <2>6, <2>7, <2>8 DEF RemoteInv
<1>5. ASSUME NEW r \in Runs, Refreshed(r)
      PROVE  RemoteInv'
  <2>1. RemoteTypeOK'
    <3>1. board' \in Board
      BY <1>a, <1>b, <1>5 DEF Refreshed, GoTo, RemoteTypeOK, noteVars, runVars
    <3>2. QED
      BY <1>a, <1>b, <1>5, <3>1 DEF Refreshed, GoTo, RemoteTypeOK, noteVars, runVars, Fault, Touch
  <2>2. SeenIsEligible'
    BY <1>a, <1>b, <1>5 DEF Refreshed, GoTo, Eligible, noteVars, runVars, SeenIsEligible, RemoteTypeOK
  <2>3. VersionsIdentify'
    BY <1>a, <1>b, <1>5 DEF Refreshed, GoTo, noteVars, runVars, VersionsIdentify, RemoteTypeOK
  <2>4. OwnersVersion'
    BY <1>a, <1>b, <1>5 DEF Refreshed, GoTo, noteVars, runVars, OwnersVersion, OwnerWorks, RemoteTypeOK
  <2>5. OwnerWorks'
    BY <1>a, <1>b, <1>5 DEF Refreshed, GoTo, noteVars, runVars, OwnersVersion, OwnerWorks, RemoteTypeOK
  <2>6. OneIsBusy'
    BY <1>a, <1>b, <1>5 DEF Refreshed, GoTo, noteVars, runVars, OneIsBusy, Busy, StepsInOrder, RemoteTypeOK
  <2>7. StepsInOrder'
    BY <1>a, <1>b, <1>5 DEF Refreshed, GoTo, noteVars, runVars, StepsInOrder, RemoteTypeOK
  <2>8. ReviewHasResult'
    BY <1>a, <1>b, <1>5 DEF Refreshed, GoTo, noteVars, runVars, ReviewHasResult, StepsInOrder, RemoteTypeOK
  <2>9. QED
    BY <2>1, <2>2, <2>3, <2>4, <2>5, <2>6, <2>7, <2>8 DEF RemoteInv
<1>6. ASSUME NEW r \in Runs, Claim(r)
      PROVE  RemoteInv'
  <2>1. RemoteTypeOK'
    <3>1. board' \in Board
      BY <1>a, <1>b, MovedIs, <1>6 DEF Claim, GoTo, RemoteTypeOK, noteVars, runVars
    <3>2. QED
      BY <1>a, <1>b, MovedIs, <1>6, <3>1 DEF Claim, GoTo, RemoteTypeOK, noteVars, runVars, Fault, Touch
  <2>2. SeenIsEligible'
    BY <1>a, <1>b, MovedIs, <1>6 DEF Claim, GoTo, Eligible, noteVars, runVars, SeenIsEligible, RemoteTypeOK
  <2>3. VersionsIdentify'
    BY <1>a, <1>b, MovedIs, <1>6 DEF Claim, GoTo, Eligible, noteVars, runVars, VersionsIdentify, RemoteTypeOK
  <2>4. OwnersVersion'
    BY <1>a, <1>b, MovedIs, <1>6 DEF Claim, GoTo, Eligible, noteVars, runVars, OwnersVersion, OwnerWorks, RemoteTypeOK
  <2>5. OwnerWorks'
    BY <1>a, <1>b, MovedIs, <1>6 DEF Claim, GoTo, Eligible, noteVars, runVars, OwnersVersion, OwnerWorks, RemoteTypeOK
  <2>6. OneIsBusy'
    <3>1. CASE at'[r] = "over"
      BY <1>a, <1>b, <1>6, <3>1 DEF Claim, GoTo, OneIsBusy, Busy, RemoteTypeOK
    <3>2. CASE at'[r] = "turn"
      <4>1. board.status = "todo" /\ board'.status = "in_progress"
        BY <1>a, <1>6, <3>2, MovedIs DEF Claim, GoTo, SeenIsEligible, VersionsIdentify, RemoteTypeOK
      <4>2. reopened \/ \A q \in Runs : ~Busy(q)
        BY <1>a, <4>1 DEF OneIsBusy
      <4>3. \A q \in Runs : q # r => at'[q] = at[q] /\ turn'[q] = turn[q]
        BY <1>a, <1>6 DEF Claim, GoTo, RemoteTypeOK
      <4>4. reopened' = reopened
        BY <1>6 DEF Claim
      <4>5. QED
        BY <4>1, <4>2, <4>3, <4>4 DEF OneIsBusy, Busy
    <3>3. QED
      BY <1>a, <1>6, <3>1, <3>2 DEF Claim, GoTo, RemoteTypeOK
  <2>7. StepsInOrder'
    BY <1>a, <1>b, MovedIs, <1>6 DEF Claim, GoTo, Eligible, noteVars, runVars, StepsInOrder, RemoteTypeOK
  <2>8. ReviewHasResult'
    BY <1>a, <1>b, MovedIs, <1>6 DEF Claim, GoTo, Eligible, noteVars, runVars, ReviewHasResult, StepsInOrder, RemoteTypeOK
  <2>9. QED
    BY <2>1, <2>2, <2>3, <2>4, <2>5, <2>6, <2>7, <2>8 DEF RemoteInv
<1>7. ASSUME NEW r \in Runs, ClaimIsLost(r)
      PROVE  RemoteInv'
  <2>1. RemoteTypeOK'
    <3>1. board' \in Board
      BY <1>a, <1>b, MovedIs, <1>7 DEF ClaimIsLost, GoTo, RemoteTypeOK, noteVars, runVars
    <3>2. QED
      BY <1>a, <1>b, MovedIs, <1>7, <3>1 DEF ClaimIsLost, GoTo, RemoteTypeOK, noteVars, runVars, Fault, Touch
  <2>2. SeenIsEligible'
    BY <1>a, <1>b, MovedIs, <1>7 DEF ClaimIsLost, GoTo, Eligible, noteVars, runVars, SeenIsEligible, RemoteTypeOK
  <2>3. VersionsIdentify'
    BY <1>a, <1>b, MovedIs, <1>7 DEF ClaimIsLost, GoTo, noteVars, runVars, VersionsIdentify, RemoteTypeOK
  <2>4. OwnersVersion'
    BY <1>a, <1>b, MovedIs, <1>7 DEF ClaimIsLost, GoTo, noteVars, runVars, OwnersVersion, OwnerWorks, RemoteTypeOK
  <2>5. OwnerWorks'
    BY <1>a, <1>b, MovedIs, <1>7 DEF ClaimIsLost, GoTo, noteVars, runVars, OwnersVersion, OwnerWorks, RemoteTypeOK
  <2>6. OneIsBusy'
    BY <1>a, <1>b, MovedIs, <1>7 DEF ClaimIsLost, GoTo, noteVars, runVars, OneIsBusy, Busy, StepsInOrder, RemoteTypeOK
  <2>7. StepsInOrder'
    BY <1>a, <1>b, MovedIs, <1>7 DEF ClaimIsLost, GoTo, noteVars, runVars, StepsInOrder, RemoteTypeOK
  <2>8. ReviewHasResult'
    BY <1>a, <1>b, MovedIs, <1>7 DEF ClaimIsLost, GoTo, noteVars, runVars, ReviewHasResult, StepsInOrder, RemoteTypeOK
  <2>9. QED
    BY <2>1, <2>2, <2>3, <2>4, <2>5, <2>6, <2>7, <2>8 DEF RemoteInv
<1>8. ASSUME NEW r \in Runs, FailsEarly(r)
      PROVE  RemoteInv'
  <2>1. RemoteTypeOK'
    <3>1. board' \in Board
      BY <1>a, <1>b, <1>8 DEF FailsEarly, GoTo, RemoteTypeOK, noteVars, runVars
    <3>2. QED
      BY <1>a, <1>b, <1>8, <3>1 DEF FailsEarly, GoTo, RemoteTypeOK, noteVars, runVars, Fault, Touch
  <2>2. SeenIsEligible'
    BY <1>a, <1>b, <1>8 DEF FailsEarly, GoTo, Eligible, noteVars, runVars, SeenIsEligible, RemoteTypeOK
  <2>3. VersionsIdentify'
    BY <1>a, <1>b, <1>8 DEF FailsEarly, GoTo, noteVars, runVars, VersionsIdentify, RemoteTypeOK
  <2>4. OwnersVersion'
    BY <1>a, <1>b, <1>8 DEF FailsEarly, GoTo, noteVars, runVars, OwnersVersion, OwnerWorks, RemoteTypeOK
  <2>5. OwnerWorks'
    BY <1>a, <1>b, <1>8 DEF FailsEarly, GoTo, noteVars, runVars, OwnersVersion, OwnerWorks, RemoteTypeOK
  <2>6. OneIsBusy'
    BY <1>a, <1>b, <1>8 DEF FailsEarly, GoTo, noteVars, runVars, OneIsBusy, Busy, StepsInOrder, RemoteTypeOK
  <2>7. StepsInOrder'
    BY <1>a, <1>b, <1>8 DEF FailsEarly, GoTo, noteVars, runVars, StepsInOrder, RemoteTypeOK
  <2>8. ReviewHasResult'
    BY <1>a, <1>b, <1>8 DEF FailsEarly, GoTo, noteVars, runVars, ReviewHasResult, StepsInOrder, RemoteTypeOK
  <2>9. QED
    BY <2>1, <2>2, <2>3, <2>4, <2>5, <2>6, <2>7, <2>8 DEF RemoteInv
<1>9. ASSUME NEW r \in Runs, TurnStarts(r)
      PROVE  RemoteInv'
  <2>1. RemoteTypeOK'
    <3>1. board' \in Board
      BY <1>a, <1>b, <1>9 DEF TurnStarts, GoTo, RemoteTypeOK, noteVars, runVars
    <3>2. QED
      BY <1>a, <1>b, <1>9, <3>1 DEF TurnStarts, GoTo, RemoteTypeOK, noteVars, runVars, Fault, Touch
  <2>2. SeenIsEligible'
    BY <1>a, <1>b, <1>9 DEF TurnStarts, GoTo, Eligible, noteVars, runVars, SeenIsEligible, RemoteTypeOK
  <2>3. VersionsIdentify'
    BY <1>a, <1>b, <1>9 DEF TurnStarts, GoTo, noteVars, runVars, VersionsIdentify, RemoteTypeOK
  <2>4. OwnersVersion'
    BY <1>a, <1>b, <1>9 DEF TurnStarts, GoTo, noteVars, runVars, OwnersVersion, OwnerWorks, RemoteTypeOK
  <2>5. OwnerWorks'
    BY <1>a, <1>b, <1>9 DEF TurnStarts, GoTo, noteVars, runVars, OwnersVersion, OwnerWorks, RemoteTypeOK
  <2>6. OneIsBusy'
    BY <1>a, <1>b, <1>9 DEF TurnStarts, GoTo, noteVars, runVars, OneIsBusy, Busy, StepsInOrder, RemoteTypeOK
  <2>7. StepsInOrder'
    BY <1>a, <1>b, <1>9 DEF TurnStarts, GoTo, noteVars, runVars, StepsInOrder, RemoteTypeOK
  <2>8. ReviewHasResult'
    BY <1>a, <1>b, <1>9 DEF TurnStarts, GoTo, noteVars, runVars, ReviewHasResult, StepsInOrder, RemoteTypeOK
  <2>9. QED
    BY <2>1, <2>2, <2>3, <2>4, <2>5, <2>6, <2>7, <2>8 DEF RemoteInv
<1>10. ASSUME NEW r \in Runs, TurnRefused(r)
      PROVE  RemoteInv'
  <2>1. RemoteTypeOK'
    <3>1. board' \in Board
      BY <1>a, <1>b, <1>10 DEF TurnRefused, GoTo, RemoteTypeOK, noteVars, runVars
    <3>2. QED
      BY <1>a, <1>b, <1>10, <3>1 DEF TurnRefused, GoTo, RemoteTypeOK, noteVars, runVars, Fault, Touch
  <2>2. SeenIsEligible'
    BY <1>a, <1>b, <1>10 DEF TurnRefused, GoTo, Eligible, noteVars, runVars, SeenIsEligible, RemoteTypeOK
  <2>3. VersionsIdentify'
    BY <1>a, <1>b, <1>10 DEF TurnRefused, GoTo, noteVars, runVars, VersionsIdentify, RemoteTypeOK
  <2>4. OwnersVersion'
    BY <1>a, <1>b, <1>10 DEF TurnRefused, GoTo, noteVars, runVars, OwnersVersion, OwnerWorks, RemoteTypeOK
  <2>5. OwnerWorks'
    BY <1>a, <1>b, <1>10 DEF TurnRefused, GoTo, noteVars, runVars, OwnersVersion, OwnerWorks, RemoteTypeOK
  <2>6. OneIsBusy'
    BY <1>a, <1>b, <1>10 DEF TurnRefused, GoTo, noteVars, runVars, OneIsBusy, Busy, StepsInOrder, RemoteTypeOK
  <2>7. StepsInOrder'
    BY <1>a, <1>b, <1>10 DEF TurnRefused, GoTo, noteVars, runVars, StepsInOrder, RemoteTypeOK
  <2>8. ReviewHasResult'
    BY <1>a, <1>b, <1>10 DEF TurnRefused, GoTo, noteVars, runVars, ReviewHasResult, StepsInOrder, RemoteTypeOK
  <2>9. QED
    BY <2>1, <2>2, <2>3, <2>4, <2>5, <2>6, <2>7, <2>8 DEF RemoteInv
<1>11. ASSUME NEW r \in Runs, CodexEndsTurn(r)
      PROVE  RemoteInv'
  <2>1. RemoteTypeOK'
    <3>1. board' \in Board
      BY <1>a, <1>b, <1>11 DEF CodexEndsTurn, RemoteTypeOK, noteVars, runVars
    <3>2. QED
      BY <1>a, <1>b, <1>11, <3>1 DEF CodexEndsTurn, RemoteTypeOK, noteVars, runVars, Fault, Touch
  <2>2. SeenIsEligible'
    BY <1>a, <1>b, <1>11 DEF CodexEndsTurn, Eligible, noteVars, runVars, SeenIsEligible, RemoteTypeOK
  <2>3. VersionsIdentify'
    BY <1>a, <1>b, <1>11 DEF CodexEndsTurn, noteVars, runVars, VersionsIdentify, RemoteTypeOK
  <2>4. OwnersVersion'
    BY <1>a, <1>b, <1>11 DEF CodexEndsTurn, noteVars, runVars, OwnersVersion, OwnerWorks, RemoteTypeOK
  <2>5. OwnerWorks'
    BY <1>a, <1>b, <1>11 DEF CodexEndsTurn, noteVars, runVars, OwnersVersion, OwnerWorks, RemoteTypeOK
  <2>6. OneIsBusy'
    BY <1>a, <1>b, <1>11 DEF CodexEndsTurn, noteVars, runVars, OneIsBusy, Busy, StepsInOrder, RemoteTypeOK
  <2>7. StepsInOrder'
    BY <1>a, <1>b, <1>11 DEF CodexEndsTurn, noteVars, runVars, StepsInOrder, RemoteTypeOK
  <2>8. ReviewHasResult'
    BY <1>a, <1>b, <1>11 DEF CodexEndsTurn, noteVars, runVars, ReviewHasResult, StepsInOrder, RemoteTypeOK
  <2>9. QED
    BY <2>1, <2>2, <2>3, <2>4, <2>5, <2>6, <2>7, <2>8 DEF RemoteInv
<1>12. ASSUME NEW r \in Runs, TurnSeen(r)
      PROVE  RemoteInv'
  <2>1. RemoteTypeOK'
    <3>1. board' \in Board
      BY <1>a, <1>b, <1>12 DEF TurnSeen, GoTo, RemoteTypeOK, noteVars, runVars
    <3>2. QED
      BY <1>a, <1>b, <1>12, <3>1 DEF TurnSeen, GoTo, RemoteTypeOK, noteVars, runVars, Fault, Touch
  <2>2. SeenIsEligible'
    BY <1>a, <1>b, <1>12 DEF TurnSeen, GoTo, Eligible, noteVars, runVars, SeenIsEligible, RemoteTypeOK
  <2>3. VersionsIdentify'
    BY <1>a, <1>b, <1>12 DEF TurnSeen, GoTo, noteVars, runVars, VersionsIdentify, RemoteTypeOK
  <2>4. OwnersVersion'
    BY <1>a, <1>b, <1>12 DEF TurnSeen, GoTo, noteVars, runVars, OwnersVersion, OwnerWorks, RemoteTypeOK
  <2>5. OwnerWorks'
    BY <1>a, <1>b, <1>12 DEF TurnSeen, GoTo, noteVars, runVars, OwnersVersion, OwnerWorks, RemoteTypeOK
  <2>6. OneIsBusy'
    BY <1>a, <1>b, <1>12 DEF TurnSeen, GoTo, noteVars, runVars, OneIsBusy, Busy, StepsInOrder, RemoteTypeOK
  <2>7. StepsInOrder'
    BY <1>a, <1>b, <1>12 DEF TurnSeen, GoTo, noteVars, runVars, StepsInOrder, RemoteTypeOK
  <2>8. ReviewHasResult'
    BY <1>a, <1>b, <1>12 DEF TurnSeen, GoTo, noteVars, runVars, ReviewHasResult, StepsInOrder, RemoteTypeOK
  <2>9. QED
    BY <2>1, <2>2, <2>3, <2>4, <2>5, <2>6, <2>7, <2>8 DEF RemoteInv
<1>13. ASSUME NEW r \in Runs, GivesUp(r)
      PROVE  RemoteInv'
  <2>1. RemoteTypeOK'
    <3>1. board' \in Board
      BY <1>a, <1>b, <1>13 DEF GivesUp, GoTo, RemoteTypeOK, noteVars, runVars
    <3>2. QED
      BY <1>a, <1>b, <1>13, <3>1 DEF GivesUp, GoTo, RemoteTypeOK, noteVars, runVars, Fault, Touch
  <2>2. SeenIsEligible'
    BY <1>a, <1>b, <1>13 DEF GivesUp, GoTo, Eligible, noteVars, runVars, SeenIsEligible, RemoteTypeOK
  <2>3. VersionsIdentify'
    BY <1>a, <1>b, <1>13 DEF GivesUp, GoTo, noteVars, runVars, VersionsIdentify, RemoteTypeOK
  <2>4. OwnersVersion'
    BY <1>a, <1>b, <1>13 DEF GivesUp, GoTo, noteVars, runVars, OwnersVersion, OwnerWorks, RemoteTypeOK
  <2>5. OwnerWorks'
    BY <1>a, <1>b, <1>13 DEF GivesUp, GoTo, noteVars, runVars, OwnersVersion, OwnerWorks, RemoteTypeOK
  <2>6. OneIsBusy'
    BY <1>a, <1>b, <1>13 DEF GivesUp, GoTo, noteVars, runVars, OneIsBusy, Busy, StepsInOrder, RemoteTypeOK
  <2>7. StepsInOrder'
    BY <1>a, <1>b, <1>13 DEF GivesUp, GoTo, noteVars, runVars, StepsInOrder, RemoteTypeOK
  <2>8. ReviewHasResult'
    BY <1>a, <1>b, <1>13 DEF GivesUp, GoTo, noteVars, runVars, ReviewHasResult, StepsInOrder, RemoteTypeOK
  <2>9. QED
    BY <2>1, <2>2, <2>3, <2>4, <2>5, <2>6, <2>7, <2>8 DEF RemoteInv
<1>14. ASSUME NEW r \in Runs, Reports(r)
      PROVE  RemoteInv'
  <2>1. RemoteTypeOK'
    <3>1. board' \in Board
      BY <1>a, <1>b, <1>14 DEF Reports, GoTo, RemoteTypeOK, noteVars, runVars, Board
    <3>2. QED
      BY <1>a, <1>b, <1>14, <3>1 DEF Reports, GoTo, RemoteTypeOK, noteVars, runVars, Fault, Touch
  <2>2. SeenIsEligible'
    BY <1>a, <1>b, <1>14 DEF Reports, GoTo, Eligible, noteVars, runVars, SeenIsEligible, RemoteTypeOK, Board
  <2>3. VersionsIdentify'
    BY <1>a, <1>b, <1>14 DEF Reports, GoTo, noteVars, runVars, VersionsIdentify, RemoteTypeOK, Board
  <2>4. OwnersVersion'
    BY <1>a, <1>b, <1>14 DEF Reports, GoTo, noteVars, runVars, OwnersVersion, OwnerWorks, RemoteTypeOK, Board
  <2>5. OwnerWorks'
    BY <1>a, <1>b, <1>14 DEF Reports, GoTo, noteVars, runVars, OwnersVersion, OwnerWorks, RemoteTypeOK, Board
  <2>6. OneIsBusy'
    BY <1>a, <1>b, <1>14 DEF Reports, GoTo, noteVars, runVars, OneIsBusy, Busy, StepsInOrder, RemoteTypeOK, Board
  <2>7. StepsInOrder'
    BY <1>a, <1>b, <1>14 DEF Reports, GoTo, noteVars, runVars, StepsInOrder, RemoteTypeOK, Board
  <2>8. ReviewHasResult'
    BY <1>a, <1>b, <1>14 DEF Reports, GoTo, noteVars, runVars, ReviewHasResult, StepsInOrder, RemoteTypeOK, Board
  <2>9. QED
    BY <2>1, <2>2, <2>3, <2>4, <2>5, <2>6, <2>7, <2>8 DEF RemoteInv
<1>15. ASSUME NEW r \in Runs, Settles(r)
      PROVE  RemoteInv'
  <2>1. RemoteTypeOK'
    <3>1. board' \in Board
      BY <1>a, <1>b, MovedIs, <1>15 DEF Settles, GoTo, CanMove, RemoteTypeOK, noteVars, runVars
    <3>2. QED
      BY <1>a, <1>b, MovedIs, <1>15, <3>1 DEF Settles, GoTo, CanMove, RemoteTypeOK, noteVars, runVars, Fault, Touch
  <2>2. SeenIsEligible'
    BY <1>a, <1>b, MovedIs, <1>15 DEF Settles, GoTo, CanMove, Eligible, noteVars, runVars, SeenIsEligible, RemoteTypeOK
  <2>3. VersionsIdentify'
    BY <1>a, <1>b, MovedIs, <1>15 DEF Settles, GoTo, CanMove, noteVars, runVars, VersionsIdentify, RemoteTypeOK
  <2>4. OwnersVersion'
    BY <1>a, <1>b, MovedIs, <1>15 DEF Settles, GoTo, CanMove, noteVars, runVars, OwnersVersion, OwnerWorks, RemoteTypeOK
  <2>5. OwnerWorks'
    BY <1>a, <1>b, MovedIs, <1>15 DEF Settles, GoTo, CanMove, noteVars, runVars, OwnersVersion, OwnerWorks, RemoteTypeOK
  <2>6. OneIsBusy'
    BY <1>a, <1>b, MovedIs, <1>15 DEF Settles, GoTo, CanMove, noteVars, runVars, OneIsBusy, Busy, StepsInOrder, RemoteTypeOK
  <2>7. StepsInOrder'
    BY <1>a, <1>b, MovedIs, <1>15 DEF Settles, GoTo, CanMove, noteVars, runVars, StepsInOrder, RemoteTypeOK
  <2>8. ReviewHasResult'
    BY <1>a, <1>b, MovedIs, <1>15 DEF Settles, GoTo, CanMove, noteVars, runVars, ReviewHasResult, StepsInOrder, RemoteTypeOK
  <2>9. QED
    BY <2>1, <2>2, <2>3, <2>4, <2>5, <2>6, <2>7, <2>8 DEF RemoteInv
<1>16. ASSUME NEW r \in Runs, SettleFails(r)
      PROVE  RemoteInv'
  <2>1. RemoteTypeOK'
    <3>1. board' \in Board
      BY <1>a, <1>b, <1>16 DEF SettleFails, GoTo, RemoteTypeOK, noteVars, runVars
    <3>2. QED
      BY <1>a, <1>b, <1>16, <3>1 DEF SettleFails, GoTo, RemoteTypeOK, noteVars, runVars, Fault, Touch
  <2>2. SeenIsEligible'
    BY <1>a, <1>b, <1>16 DEF SettleFails, GoTo, Eligible, noteVars, runVars, SeenIsEligible, RemoteTypeOK
  <2>3. VersionsIdentify'
    BY <1>a, <1>b, <1>16 DEF SettleFails, GoTo, noteVars, runVars, VersionsIdentify, RemoteTypeOK
  <2>4. OwnersVersion'
    BY <1>a, <1>b, <1>16 DEF SettleFails, GoTo, noteVars, runVars, OwnersVersion, OwnerWorks, RemoteTypeOK
  <2>5. OwnerWorks'
    BY <1>a, <1>b, <1>16 DEF SettleFails, GoTo, noteVars, runVars, OwnersVersion, OwnerWorks, RemoteTypeOK
  <2>6. OneIsBusy'
    BY <1>a, <1>b, <1>16 DEF SettleFails, GoTo, noteVars, runVars, OneIsBusy, Busy, StepsInOrder, RemoteTypeOK
  <2>7. StepsInOrder'
    BY <1>a, <1>b, <1>16 DEF SettleFails, GoTo, noteVars, runVars, StepsInOrder, RemoteTypeOK
  <2>8. ReviewHasResult'
    BY <1>a, <1>b, <1>16 DEF SettleFails, GoTo, noteVars, runVars, ReviewHasResult, StepsInOrder, RemoteTypeOK
  <2>9. QED
    BY <2>1, <2>2, <2>3, <2>4, <2>5, <2>6, <2>7, <2>8 DEF RemoteInv
<1>17. ASSUME NEW r \in Runs, Apologises(r)
      PROVE  RemoteInv'
  <2>1. RemoteTypeOK'
    <3>1. board' \in Board
      BY <1>a, <1>b, <1>17 DEF Apologises, GoTo, RemoteTypeOK, noteVars, runVars, Board
    <3>2. QED
      BY <1>a, <1>b, <1>17, <3>1 DEF Apologises, GoTo, RemoteTypeOK, noteVars, runVars, Fault, Touch
  <2>2. SeenIsEligible'
    BY <1>a, <1>b, <1>17 DEF Apologises, GoTo, Eligible, noteVars, runVars, SeenIsEligible, RemoteTypeOK, Board
  <2>3. VersionsIdentify'
    BY <1>a, <1>b, <1>17 DEF Apologises, GoTo, noteVars, runVars, VersionsIdentify, RemoteTypeOK, Board
  <2>4. OwnersVersion'
    BY <1>a, <1>b, <1>17 DEF Apologises, GoTo, noteVars, runVars, OwnersVersion, OwnerWorks, RemoteTypeOK, Board
  <2>5. OwnerWorks'
    BY <1>a, <1>b, <1>17 DEF Apologises, GoTo, noteVars, runVars, OwnersVersion, OwnerWorks, RemoteTypeOK, Board
  <2>6. OneIsBusy'
    BY <1>a, <1>b, <1>17 DEF Apologises, GoTo, noteVars, runVars, OneIsBusy, Busy, StepsInOrder, RemoteTypeOK, Board
  <2>7. StepsInOrder'
    BY <1>a, <1>b, <1>17 DEF Apologises, GoTo, noteVars, runVars, StepsInOrder, RemoteTypeOK, Board
  <2>8. ReviewHasResult'
    BY <1>a, <1>b, <1>17 DEF Apologises, GoTo, noteVars, runVars, ReviewHasResult, StepsInOrder, RemoteTypeOK, Board
  <2>9. QED
    BY <2>1, <2>2, <2>3, <2>4, <2>5, <2>6, <2>7, <2>8 DEF RemoteInv
<1>18. ASSUME NEW r \in Runs, Blocks(r)
      PROVE  RemoteInv'
  <2>1. RemoteTypeOK'
    <3>1. board' \in Board
      BY <1>a, <1>b, MovedIs, <1>18 DEF Blocks, GoTo, CanMove, RemoteTypeOK, noteVars, runVars
    <3>2. QED
      BY <1>a, <1>b, MovedIs, <1>18, <3>1 DEF Blocks, GoTo, CanMove, RemoteTypeOK, noteVars, runVars, Fault, Touch
  <2>2. SeenIsEligible'
    BY <1>a, <1>b, MovedIs, <1>18 DEF Blocks, GoTo, CanMove, Eligible, noteVars, runVars, SeenIsEligible, RemoteTypeOK
  <2>3. VersionsIdentify'
    BY <1>a, <1>b, MovedIs, <1>18 DEF Blocks, GoTo, CanMove, noteVars, runVars, VersionsIdentify, RemoteTypeOK
  <2>4. OwnersVersion'
    BY <1>a, <1>b, MovedIs, <1>18 DEF Blocks, GoTo, CanMove, noteVars, runVars, OwnersVersion, OwnerWorks, RemoteTypeOK
  <2>5. OwnerWorks'
    BY <1>a, <1>b, MovedIs, <1>18 DEF Blocks, GoTo, CanMove, noteVars, runVars, OwnersVersion, OwnerWorks, RemoteTypeOK
  <2>6. OneIsBusy'
    BY <1>a, <1>b, MovedIs, <1>18 DEF Blocks, GoTo, CanMove, noteVars, runVars, OneIsBusy, Busy, StepsInOrder, RemoteTypeOK
  <2>7. StepsInOrder'
    BY <1>a, <1>b, MovedIs, <1>18 DEF Blocks, GoTo, CanMove, noteVars, runVars, StepsInOrder, RemoteTypeOK
  <2>8. ReviewHasResult'
    BY <1>a, <1>b, MovedIs, <1>18 DEF Blocks, GoTo, CanMove, noteVars, runVars, ReviewHasResult, StepsInOrder, RemoteTypeOK
  <2>9. QED
    BY <2>1, <2>2, <2>3, <2>4, <2>5, <2>6, <2>7, <2>8 DEF RemoteInv
<1>19. ASSUME InjectorStops
      PROVE  RemoteInv'
  <2>1. RemoteTypeOK'
    <3>1. board' \in Board
      BY <1>a, <1>b, <1>19 DEF InjectorStops, RemoteTypeOK, noteVars, runVars
    <3>2. QED
      BY <1>a, <1>b, <1>19, <3>1 DEF InjectorStops, RemoteTypeOK, noteVars, runVars, Fault, Touch
  <2>2. SeenIsEligible'
    BY <1>a, <1>b, <1>19 DEF InjectorStops, Eligible, noteVars, runVars, SeenIsEligible, RemoteTypeOK
  <2>3. VersionsIdentify'
    BY <1>a, <1>b, <1>19 DEF InjectorStops, noteVars, runVars, VersionsIdentify, RemoteTypeOK
  <2>4. OwnersVersion'
    BY <1>a, <1>b, <1>19 DEF InjectorStops, noteVars, runVars, OwnersVersion, OwnerWorks, RemoteTypeOK
  <2>5. OwnerWorks'
    BY <1>a, <1>b, <1>19 DEF InjectorStops, noteVars, runVars, OwnersVersion, OwnerWorks, RemoteTypeOK
  <2>6. OneIsBusy'
    BY <1>a, <1>b, <1>19 DEF InjectorStops, noteVars, runVars, OneIsBusy, Busy, StepsInOrder, RemoteTypeOK
  <2>7. StepsInOrder'
    BY <1>a, <1>b, <1>19 DEF InjectorStops, noteVars, runVars, StepsInOrder, RemoteTypeOK
  <2>8. ReviewHasResult'
    BY <1>a, <1>b, <1>19 DEF InjectorStops, noteVars, runVars, ReviewHasResult, StepsInOrder, RemoteTypeOK
  <2>9. QED
    BY <2>1, <2>2, <2>3, <2>4, <2>5, <2>6, <2>7, <2>8 DEF RemoteInv
<1>20. ASSUME UserChangesTask
      PROVE  RemoteInv'
  <2>a. /\ board' \in Board /\ board'.version = board.version + 1
        /\ board'.thread \in {board.thread, Foreign}
        /\ board'.status # "in_review" \/ board'.status = board.status
    <3>1. board \in Board /\ board.archived \in BOOLEAN /\ board.thread \in Runs \cup {0, Foreign}
      BY <1>a DEF RemoteTypeOK, Board
    <3>2. board.version + 1 \in Nat /\ (~board.archived) \in BOOLEAN
      BY <1>b
    <3>3. \/ \E status \in {"todo", "in_progress", "done"} :
               board' = [board EXCEPT !.status = status, !.version = @ + 1]
          \/ board' = [board EXCEPT !.version = @ + 1]
          \/ board' = [board EXCEPT !.archived = ~@, !.version = @ + 1]
          \/ board' = [board EXCEPT !.thread = Foreign, !.version = @ + 1]
      BY <1>20 DEF UserChangesTask
    <3>4. ASSUME NEW status \in {"todo", "in_progress", "done"},
                 board' = [board EXCEPT !.status = status, !.version = @ + 1]
          PROVE  board' \in Board
      BY <3>1, <3>2, <3>4, BoardWrites
    <3>a. ASSUME NEW v \in Nat, NEW flag \in BOOLEAN
          PROVE  /\ [board EXCEPT !.version = v] \in Board
                 /\ [board EXCEPT !.archived = flag, !.version = v] \in Board
                 /\ [board EXCEPT !.thread = Foreign, !.version = v] \in Board
      BY <3>1 DEF Board
    <3>5. /\ [board EXCEPT !.version = board.version + 1] \in Board
          /\ [board EXCEPT !.archived = ~board.archived, !.version = board.version + 1] \in Board
          /\ [board EXCEPT !.thread = Foreign, !.version = board.version + 1] \in Board
      BY <3>2, <3>a
    <3>6. CASE board' = [board EXCEPT !.version = @ + 1]
      BY <3>5, <3>6
    <3>7. CASE board' = [board EXCEPT !.archived = ~@, !.version = @ + 1]
      BY <3>5, <3>7
    <3>8. CASE board' = [board EXCEPT !.thread = Foreign, !.version = @ + 1]
      BY <3>5, <3>8
    <3>9. board' \in Board
      BY <3>3, <3>4, <3>6, <3>7, <3>8
    <3>10. QED
      BY <3>1, <3>3, <3>9 DEF Board
  <2>1. RemoteTypeOK'
    BY <1>a, <1>b, <1>20, <2>a DEF UserChangesTask, RemoteTypeOK, runVars
  <2>2. SeenIsEligible'
    BY <1>a, <1>b, <1>20, <2>a DEF UserChangesTask, Eligible, noteVars, runVars, SeenIsEligible, RemoteTypeOK
  <2>3. VersionsIdentify'
    <3>1. UNCHANGED seen /\ \A r \in Runs : seen[r].version <= board.version
      BY <1>a, <1>20 DEF UserChangesTask, runVars, VersionsIdentify
    <3>2. \A r \in Runs : seen[r].version < board'.version
      BY <1>b, <2>a, <3>1
    <3>3. QED
      BY <1>b, <2>a, <3>1, <3>2 DEF VersionsIdentify
  <2>4. OwnersVersion'
    <3>1. UNCHANGED owned /\ \A r \in Runs : owned[r] <= board.version
      BY <1>a, <1>20 DEF UserChangesTask, runVars, OwnersVersion
    <3>2. \A r \in Runs : owned[r] < board'.version
      BY <1>b, <2>a, <3>1
    <3>3. QED
      BY <1>b, <2>a, <3>1, <3>2 DEF OwnersVersion
  <2>5. OwnerWorks'
    BY <1>a, <1>b, <1>20, <2>a DEF UserChangesTask, noteVars, runVars, OwnersVersion, OwnerWorks, RemoteTypeOK
  <2>6. OneIsBusy'
    BY <1>a, <1>b, <1>20, <2>a DEF UserChangesTask, noteVars, runVars, OneIsBusy, Busy, StepsInOrder, RemoteTypeOK
  <2>7. StepsInOrder'
    BY <1>a, <1>b, <1>20, <2>a DEF UserChangesTask, noteVars, runVars, StepsInOrder, RemoteTypeOK
  <2>8. ReviewHasResult'
    BY <1>a, <1>b, <1>20, <2>a DEF UserChangesTask, noteVars, runVars, ReviewHasResult, StepsInOrder, RemoteTypeOK
  <2>9. QED
    BY <2>1, <2>2, <2>3, <2>4, <2>5, <2>6, <2>7, <2>8 DEF RemoteInv
<1>21. ASSUME UserChangesRest
      PROVE  RemoteInv'
  <2>1. RemoteTypeOK'
    <3>a. board \in Board /\ board.comments \in Nat /\ board.ready \in BOOLEAN
      BY <1>a DEF RemoteTypeOK, Board
    <3>b. board.comments + 1 \in Nat /\ (~board.ready) \in BOOLEAN
      BY <3>a
    <3>1. board' \in Board
      BY <1>21, <3>a, <3>b, BoardWrites DEF UserChangesRest
    <3>2. QED
      BY <1>a, <1>b, <1>21, <3>1 DEF UserChangesRest, RemoteTypeOK, noteVars, runVars, Fault, Touch
  <2>2. SeenIsEligible'
    BY <1>a, <1>b, <1>21 DEF UserChangesRest, Eligible, noteVars, runVars, SeenIsEligible, RemoteTypeOK, Board
  <2>3. VersionsIdentify'
    BY <1>a, <1>b, <1>21 DEF UserChangesRest, noteVars, runVars, VersionsIdentify, RemoteTypeOK, Board
  <2>4. OwnersVersion'
    BY <1>a, <1>b, <1>21 DEF UserChangesRest, noteVars, runVars, OwnersVersion, OwnerWorks, RemoteTypeOK, Board
  <2>5. OwnerWorks'
    BY <1>a, <1>b, <1>21 DEF UserChangesRest, noteVars, runVars, OwnersVersion, OwnerWorks, RemoteTypeOK, Board
  <2>6. OneIsBusy'
    BY <1>a, <1>b, <1>21 DEF UserChangesRest, noteVars, runVars, OneIsBusy, Busy, StepsInOrder, RemoteTypeOK, Board
  <2>7. StepsInOrder'
    BY <1>a, <1>b, <1>21 DEF UserChangesRest, noteVars, runVars, StepsInOrder, RemoteTypeOK, Board
  <2>8. ReviewHasResult'
    BY <1>a, <1>b, <1>21 DEF UserChangesRest, noteVars, runVars, ReviewHasResult, StepsInOrder, RemoteTypeOK, Board
  <2>9. QED
    BY <2>1, <2>2, <2>3, <2>4, <2>5, <2>6, <2>7, <2>8 DEF RemoteInv
<1>22. CASE UNCHANGED remoteVars
  BY <1>a, <1>22 DEF RemoteInv, remoteVars, runVars, noteVars, RemoteTypeOK, SeenIsEligible, VersionsIdentify,
     OwnersVersion, OwnerWorks, OneIsBusy, Busy, StepsInOrder, ReviewHasResult
<1>23. QED
  BY <1>1, <1>2, <1>3, <1>4, <1>5, <1>6, <1>7, <1>8, <1>9, <1>10, <1>11, <1>12, <1>13, <1>14, <1>15, <1>16, <1>17, <1>18, <1>19, <1>20, <1>21, <1>22 DEF RemoteNext, RunStep

-----------------------------------------------------------------------------
(* RemoteRuns: what the invariant promises                                 *)

\* RemoteInv is an invariant of the automation, whatever interleaves with it.
THEOREM RemoteInvariant == RemoteSpec => []RemoteInv
BY RemoteInvInit, RemoteInvStep, PTL DEF RemoteSpec

\* Runs of the automation that overlap, fail or are overtaken by users start one turn
\* at a time, leave no claim to nobody unless they are cut off, and hand in only what
\* is completed and told.
THEOREM RemoteClaims == RemoteSpec => []RemoteClaimsHold
<1>1. RemoteInv => RemoteClaimsHold
  <2> SUFFICES ASSUME RemoteInv
               PROVE  RemoteClaimsHold
    OBVIOUS
  <2>1. OneTurn
    <3>1. CASE reopened
      BY <3>1 DEF OneTurn
    <3>2. CASE ~reopened
      <4> DEFINE S == {r \in Runs : turn[r] = "running"}
      <4>1. \A x, y \in S : x = y
        BY <3>2 DEF RemoteInv, OneIsBusy, Busy
      <4>2. Cardinality(S) <= 1
        BY <4>1, AtMostOne
      <4>3. QED
        BY <4>2 DEF OneTurn
    <3>3. QED
      BY <3>1, <3>2
  <2>2. ClaimsAreHeld
    BY DEF RemoteInv, OwnerWorks, ClaimsAreHeld, Held, Idle
  <2>3. QED
    BY <2>1, <2>2 DEF RemoteInv, RemoteClaimsHold
<1>2. QED
  BY RemoteInvariant, <1>1, PTL

\* A run claims a task only at the version it has decided on, and moves it on only
\* while its claim is the last word on it.
THEOREM UserChangesAreKept == RemoteSpec => UserChangesStand
<1> DEFINE Stands(r) ==
      /\ at[r] = "claim" /\ board'.status = "in_progress" /\ board.status # "in_progress" /\ owner' = r
         => Eligible([board EXCEPT !.ready = TRUE]) /\ board.version = seen[r].version
      /\ at[r] \in {"settle", "block"} /\ at'[r] # at[r] /\ board'.status # board.status => owner = r
<1>1. ASSUME RemoteInv, RemoteNext, NEW r \in Runs
      PROVE  Stands(r)
  <2>a. /\ RemoteTypeOK /\ SeenIsEligible /\ VersionsIdentify /\ OwnersVersion /\ OwnerWorks
        /\ 0 \notin Runs
    BY <1>1 DEF RemoteInv, Runs
  <2>1. ASSUME at[r] = "claim", board'.status = "in_progress", board.status # "in_progress", owner' = r
        PROVE  Eligible([board EXCEPT !.ready = TRUE]) /\ board.version = seen[r].version
    <3>1. owner # r
      BY <2>a, <2>1 DEF OwnerWorks
    <3>2. Claim(r) \/ ClaimIsLost(r)
      <4>1. ASSUME NEW q \in Runs, owner' # owner, owner' # 0
            PROVE  ~(RunBegins(q) \/ CodexEndsTurn(q)) /\ (RunStep(q) => owner' = q /\ (Claim(q) \/ ClaimIsLost(q)))
        BY <4>1 DEF RunBegins, CodexEndsTurn, RunStep, TaskRead, Decided, ThreadReady, Refreshed, Claim,
           ClaimIsLost, FailsEarly, TurnStarts, TurnRefused, TurnSeen, GivesUp, Reports, Settles, SettleFails,
           Apologises, Blocks, noteVars
      <4>2. owner' # owner => ~(InjectorStops \/ UserChangesRest) /\ (UserChangesTask => owner' = 0)
        BY DEF InjectorStops, UserChangesRest, UserChangesTask, noteVars
      <4>3. QED
        BY <1>1, <2>a, <2>1, <3>1, <4>1, <4>2 DEF RemoteNext
    <3>3. board.version = seen[r].version /\ ~board.archived
      BY <2>1, <3>1, <3>2 DEF Claim, ClaimIsLost
    <3>4. board.status = "todo" /\ board.thread # Foreign
      BY <2>a, <2>1, <3>3 DEF SeenIsEligible, VersionsIdentify
    <3>5. QED
      BY <2>a, <3>3, <3>4 DEF Eligible, RemoteTypeOK, Board
  <2>2. ASSUME at[r] \in {"settle", "block"}, at'[r] # at[r], board'.status # board.status
        PROVE  owner = r
    <3>1. CanMove(r)
      <4>1. ASSUME NEW q \in Runs, RunStep(q), q # r
            PROVE  at'[r] = at[r]
        BY <2>a, <4>1 DEF RunStep, TaskRead, Decided, ThreadReady, Refreshed, Claim, GoTo,
           ClaimIsLost, FailsEarly, TurnStarts, TurnRefused, TurnSeen, GivesUp, Reports, Settles, SettleFails,
           Apologises, Blocks, RemoteTypeOK
      <4>2. ASSUME RunStep(r)
            PROVE  CanMove(r)
        BY <2>2, <4>2 DEF RunStep, TaskRead, Decided, ThreadReady, Refreshed, Claim,
           ClaimIsLost, FailsEarly, TurnStarts, TurnRefused, TurnSeen, GivesUp, Reports, Settles, SettleFails,
           Apologises, Blocks
      <4>3. ASSUME NEW q \in Runs, RunBegins(q) \/ CodexEndsTurn(q)
            PROVE  board' = board
        BY <4>3 DEF RunBegins, CodexEndsTurn
      <4>4. /\ InjectorStops => board' = board
            /\ UserChangesTask \/ UserChangesRest => at' = at
        BY DEF InjectorStops, UserChangesTask, UserChangesRest, runVars
      <4>5. QED
        BY <1>1, <2>2, <4>1, <4>2, <4>3, <4>4 DEF RemoteNext
    <3>2. QED
      BY <2>a, <2>2, <3>1 DEF CanMove, OwnersVersion, Held
  <2>3. QED
    BY <2>1, <2>2
<1>2. ASSUME UNCHANGED remoteVars, NEW r \in Runs, RemoteInv
      PROVE  Stands(r)
  BY <1>2 DEF remoteVars, runVars, noteVars
<1>3. RemoteInv /\ [RemoteNext]_remoteVars => [\A r \in Runs : Stands(r)]_remoteVars
  BY <1>1, <1>2
<1>4. QED
  BY RemoteInvariant, <1>3, PTL DEF RemoteSpec, UserChangesStand

-----------------------------------------------------------------------------
(* CloudBoard: ancestors, numbers                                          *)

IsParent(e) == e.type = "parent"
ParentsIn(rels, S) == {e.source : e \in {x \in rels : IsParent(x) /\ x.target \in S}}

\* The ancestors of a task are a set that has its parents and those of its members, and
\* every such set has the ancestors.
LEMMA AncestorsAre ==
  ASSUME NEW t \in Tasks, NEW rels, rels \subseteq Relation
  PROVE  /\ Ancestors(t, rels) \subseteq Tasks
         /\ ParentsIn(rels, {t} \cup Ancestors(t, rels)) \subseteq Ancestors(t, rels)
         /\ \A S \in SUBSET Tasks :
              ParentsIn(rels, {t} \cup S) \subseteq S => Ancestors(t, rels) \subseteq S
<1>1. Ancestors(t, rels) = {a \in Tasks : \A S \in SUBSET Tasks :
                              ParentsIn(rels, {t} \cup S) \subseteq S => a \in S}
  BY DEF Ancestors, ParentsIn, IsParent
<1>2. ASSUME NEW e \in rels, IsParent(e), e.target \in {t} \cup Ancestors(t, rels)
      PROVE  e.source \in Ancestors(t, rels)
  <2>1. e.source \in Tasks
    BY DEF Relation
  <2>2. ASSUME NEW S \in SUBSET Tasks, ParentsIn(rels, {t} \cup S) \subseteq S
        PROVE  e.source \in S
    <3>1. e.target \in {t} \cup S
      BY <1>1, <1>2, <2>2
    <3>2. QED
      BY <1>2, <2>2, <3>1 DEF ParentsIn
  <2>3. QED
    BY <1>1, <2>1, <2>2
<1>3. QED
  BY <1>1, <1>2 DEF ParentsIn

\* Where there are fewer relations, nobody has other ancestors.
LEMMA FewerAncestors ==
  ASSUME NEW t \in Tasks, NEW rels, rels \subseteq Relation, NEW kept, kept \subseteq rels
  PROVE  Ancestors(t, kept) \subseteq Ancestors(t, rels)
<1>1. ParentsIn(kept, {t} \cup Ancestors(t, rels)) \subseteq ParentsIn(rels, {t} \cup Ancestors(t, rels))
  BY DEF ParentsIn
<1>2. QED
  BY <1>1, AncestorsAre

\* A task that is no ancestor of its new parent, nor the parent itself, gets no cycle:
\* a new ancestor of anybody is the parent, or an ancestor of it.
LEMMA NewParentKeepsForest ==
  ASSUME NEW kept, kept \subseteq Relation, \A t \in Tasks : t \notin Ancestors(t, kept),
         NEW e \in Relation, IsParent(e), e.source # e.target,
         e.target \notin Ancestors(e.source, kept),
         NEW t \in Tasks
  PROVE  t \notin Ancestors(t, kept \cup {e})
<1>1. e.source \in Tasks /\ e.target \in Tasks /\ kept \cup {e} \subseteq Relation
  BY DEF Relation
<1>2. PICK p, c : p = e.source /\ c = e.target
  OBVIOUS
<1>3. PICK A, B : A = Ancestors(t, kept) /\ B = Ancestors(p, kept)
  OBVIOUS
<1>4. /\ A \subseteq Tasks /\ ParentsIn(kept, {t} \cup A) \subseteq A
      /\ \A S \in SUBSET Tasks : ParentsIn(kept, {t} \cup S) \subseteq S => A \subseteq S
  BY <1>1, <1>3, AncestorsAre
<1>5. B \subseteq Tasks /\ ParentsIn(kept, {p} \cup B) \subseteq B
  BY <1>1, <1>2, <1>3, AncestorsAre
<1>6. \A S \in SUBSET Tasks :
        ParentsIn(kept \cup {e}, {t} \cup S) \subseteq S => Ancestors(t, kept \cup {e}) \subseteq S
  BY <1>1, AncestorsAre
<1>7. t \notin A /\ c \notin B /\ p # c
  BY <1>2, <1>3
<1>8. CASE c \notin {t} \cup A
  <2>1. ParentsIn(kept \cup {e}, {t} \cup A) \subseteq A
    BY <1>2, <1>4, <1>8 DEF ParentsIn
  <2>2. QED
    BY <1>4, <1>6, <1>7, <2>1
<1>9. CASE c \in {t} \cup A
  <2>1. PICK S : S = A \cup {p} \cup B
    OBVIOUS
  <2>2. S \in SUBSET Tasks
    BY <1>1, <1>2, <1>4, <1>5, <2>1
  <2>3. ParentsIn(kept \cup {e}, {t} \cup S) \subseteq S
    BY <1>2, <1>4, <1>5, <2>1 DEF ParentsIn
  <2>4. ASSUME t \in S
        PROVE  FALSE
    <3>1. CASE t = p
      BY <1>3, <1>7, <1>9, <3>1
    <3>2. CASE t \in B
      <4>1. ParentsIn(kept, {t} \cup B) \subseteq ParentsIn(kept, {p} \cup B)
        BY <3>2 DEF ParentsIn
      <4>2. A \subseteq B
        BY <1>4, <1>5, <4>1
      <4>3. QED
        BY <1>7, <1>9, <3>2, <4>2
    <3>3. QED
      BY <1>7, <2>1, <2>4, <3>1, <3>2
  <2>5. QED
    BY <1>6, <2>2, <2>3, <2>4
<1>10. QED
  BY <1>8, <1>9

\* The next number is above every number that was given out with the prefix.
LEMMA NextNumberIs ==
  ASSUME task \in [Tasks -> Row \cup {None, Deleted}], NEW p \in Projects, project[p] \in Project,
         NEW prefix \in Projects
  PROVE  /\ NextNumber(p, prefix) \in Nat
         /\ \A u \in Present : task[u].identifier[1] = prefix =>
              task[u].identifier[2] < NextNumber(p, prefix)
<1>1. PICK U : U = {u \in Present : task[u].identifier[1] = prefix}
  OBVIOUS
<1>2. PICK S : S = {project[p].next} \cup {task[u].identifier[2] + 1 : u \in U}
  OBVIOUS
<1>3. \A u \in Present : task[u] \in Row /\ task[u].identifier[2] \in Nat
  BY DEF Present, Row
<1>4. project[p].next \in Nat
  BY DEF Project
<1>5. S \in SUBSET Nat /\ S # {}
  BY <1>1, <1>2, <1>3, <1>4
<1>6. IsFiniteSet(S)
  <2>1. PICK f : f = [u \in U |-> task[u].identifier[2] + 1]
    OBVIOUS
  <2>2. PICK T : T = {f[u] : u \in U}
    OBVIOUS
  <2>3. f \in Surjection(U, T)
    BY <2>1, <2>2 DEF Surjection
  <2>4. IsFiniteSet(U)
    BY <1>1, BoardAssumption, FS_Subset DEF Present
  <2>5. IsFiniteSet(T)
    BY <2>3, <2>4, FS_Surjection
  <2>6. S = T \cup {project[p].next}
    BY <1>2, <2>1, <2>2
  <2>7. QED
    BY <2>5, <2>6, FS_AddElement
<1>7. Max(S) \in S /\ \A m \in S : m <= Max(S)
  BY <1>5, <1>6, MaxExists
<1>8. NextNumber(p, prefix) = Max(S)
  BY <1>1, <1>2 DEF NextNumber
<1>9. ASSUME NEW u \in Present, task[u].identifier[1] = prefix
      PROVE  task[u].identifier[2] < Max(S)
  <2>1. task[u].identifier[2] + 1 \in S
    BY <1>1, <1>2, <1>9
  <2>2. task[u].identifier[2] \in Nat /\ Max(S) \in Nat /\ task[u].identifier[2] + 1 <= Max(S)
    BY <1>3, <1>5, <1>7, <2>1
  <2>3. QED
    BY <2>2
<1>10. QED
  BY <1>5, <1>7, <1>8, <1>9

-----------------------------------------------------------------------------
(* CloudBoard: the inductive invariant                                     *)

\* A request about a task has read it, and as long as the task keeps the version, it has
\* the labels and the project the request compared its own with.
RequestFits(r) ==
  LET q == request[r]
  IN  q # None /\ q.op \notin {"deleteProject", "create"} =>
        /\ task[q.task] # None
        /\ q.task \in Present => q.seen <= task[q.task].version
        /\ q.op = "update" /\ Unchanged(r) =>
             /\ q.relabels \/ q.labels = task[q.task].labels
             /\ q.moves \/ q.project = task[q.task].project

\* The unique keys of the relations.
OneParent == \A x, y \in relations : IsParent(x) /\ IsParent(y) /\ x.target = y.target => x = y
NobodysOwnAncestor == \A t \in Tasks : t \notin Ancestors(t, relations)
RelationsInv == RelationsWithinProject /\ OneParent /\ NobodysOwnAncestor

\* Before a task is created nothing was said of it.
ActivityInv ==
  /\ \A t \in Tasks : task[t] = None => activity[t] = <<>>
  /\ OneActivityPerVersion

BoardInv ==
  /\ TypeOK
  /\ IdentifiersUnique /\ LabelsKnown
  /\ RelationsInv /\ ActivityInv
  /\ \A r \in Requests : RequestFits(r)

\* A task is there when it has a row.
LEMMA PresentIs ==
  ASSUME TypeOK
  PROVE  /\ Present \subseteq Tasks
         /\ \A t \in Tasks : t \in Present <=> task[t] \in Row
         /\ \A t \in Tasks : t \notin Present => task[t] \in {None, Deleted}
BY BoardAssumption DEF TypeOK, Present

\* The same of the next state.
LEMMA PresentAfter ==
  ASSUME task' \in [Tasks -> Row \cup {None, Deleted}]
  PROVE  /\ Present' \subseteq Tasks
         /\ \A t \in Tasks : t \in Present' <=> task'[t] \in Row
         /\ \A t \in Tasks : t \notin Present' => task'[t] \in {None, Deleted}
BY BoardAssumption DEF Present

OfTask(r) == request[r] # None /\ request[r].op \notin {"deleteProject", "create"}

\* A request about a task has its parts.
LEMMA OfTaskIs ==
  ASSUME TypeOK, NEW r \in Requests, OfTask(r)
  PROVE  /\ request[r].task \in Tasks /\ request[r].seen \in Nat
         /\ 1 <= request[r].seen /\ request[r].seen < MaxVersion
         /\ request[r].logged \in BOOLEAN
         /\ request[r].op = "update" =>
              /\ request[r].project \in Projects /\ request[r].labels \subseteq Labels
              /\ request[r].relabels \in BOOLEAN /\ request[r].moves \in BOOLEAN
         /\ request[r].op \in {"addRelation", "removeRelation"} => request[r].relation \in Relation
         /\ request[r].op = "addRelation" => request[r].replaces \in BOOLEAN
         /\ request[r].op = "removeRelation" => request[r].mention \in BOOLEAN
<1>1. request[r] \in Request /\ MaxVersion \in Nat
  BY BoardAssumption DEF TypeOK, OfTask
<1>2. PICK q : q = request[r]
  OBVIOUS
<1>3. q.task \in Tasks /\ q.seen \in 1..(MaxVersion - 1) /\ q.logged \in BOOLEAN
  BY <1>1, <1>2 DEF Request, OfTask
<1>4. q.op = "update" => /\ q.project \in Projects /\ q.labels \subseteq Labels
                         /\ q.relabels \in BOOLEAN /\ q.moves \in BOOLEAN
  BY <1>1, <1>2 DEF Request
<1>5. /\ q.op \in {"addRelation", "removeRelation"} => q.relation \in Relation
      /\ q.op = "addRelation" => q.replaces \in BOOLEAN
      /\ q.op = "removeRelation" => q.mention \in BOOLEAN
  BY <1>1, <1>2 DEF Request
<1>6. QED
  BY <1>1, <1>2, <1>3, <1>4, <1>5

\* A version is never taken back, nor is a task that was deleted.
Ages(u) ==
  \/ task'[u] = task[u] \/ task[u] = None \/ task'[u] = Deleted
  \/ u \in Present /\ u \in Present' /\ task[u].version < task'[u].version

\* Requests that go on while tasks age still fit.
LEMMA RequestsStayFit ==
  ASSUME BoardInv, task' \in [Tasks -> Row \cup {None, Deleted}], \A u \in Tasks : Ages(u),
         NEW r \in Requests, request'[r] \in {request[r], None}
  PROVE  RequestFits(r)'
<1> SUFFICES ASSUME request'[r] # None, request'[r].op \notin {"deleteProject", "create"}
             PROVE  RequestFits(r)'
  BY DEF RequestFits
<1>1. request'[r] = request[r] /\ OfTask(r) /\ RequestFits(r)
  BY DEF OfTask, BoardInv
<1>2. PICK q : q = request[r] /\ q = request'[r]
  BY <1>1
<1>3. q.task \in Tasks /\ q.seen \in Nat
  BY <1>1, <1>2, OfTaskIs DEF BoardInv
<1>4. task[q.task] # None /\ (q.task \in Present => q.seen <= task[q.task].version)
  BY <1>1, <1>2 DEF RequestFits, OfTask
<1>5. CASE task'[q.task] = task[q.task]
  <2>1. q.task \in Present' <=> q.task \in Present
    BY <1>3, <1>5 DEF Present
  <2>2. Unchanged(r)' <=> Unchanged(r)
    BY <1>2, <1>5, <2>1 DEF Unchanged
  <2>3. QED
    BY <1>1, <1>2, <1>4, <1>5, <2>1, <2>2 DEF RequestFits
<1>6. CASE task'[q.task] = Deleted
  <2>1. q.task \notin Present'
    BY <1>6 DEF Present
  <2>2. QED
    BY <1>2, <1>6, <2>1, BoardAssumption DEF RequestFits, Unchanged
<1>7. CASE q.task \in Present /\ q.task \in Present' /\ task[q.task].version < task'[q.task].version
  <2>1. task[q.task] \in Row /\ task'[q.task] \in Row /\ task'[q.task] # None
    BY <1>3, <1>7, PresentIs, PresentAfter, BoardAssumption DEF BoardInv
  <2>2. task[q.task].version \in Nat /\ task'[q.task].version \in Nat
    BY <2>1 DEF Row
  <2>3. q.seen < task'[q.task].version
    BY <1>3, <1>4, <1>7, <2>2
  <2>4. q.seen <= task'[q.task].version /\ task'[q.task].version # q.seen
    BY <1>3, <2>2, <2>3
  <2>5. ~Unchanged(r)'
    BY <1>2, <2>4 DEF Unchanged
  <2>6. QED
    BY <1>2, <2>1, <2>4, <2>5 DEF RequestFits
<1>8. QED
  BY <1>3, <1>4, <1>5, <1>6, <1>7 DEF Ages

\* Tasks keep their identifiers.
LEMMA IdentifiersStay ==
  ASSUME IdentifiersUnique, Present' \subseteq Present,
         \A u \in Present' : task'[u].identifier = task[u].identifier
  PROVE  IdentifiersUnique'
BY DEF IdentifiersUnique

\* Relations only go, and their tasks stay where they are.
LEMMA RelationsStay ==
  ASSUME TypeOK, RelationsInv, relations' \subseteq relations,
         \A e \in relations' : /\ e.source \in Present' /\ e.target \in Present'
                               /\ task'[e.source].project = task[e.source].project
                               /\ task'[e.target].project = task[e.target].project
  PROVE  RelationsInv'
<1>1. RelationsWithinProject'
  BY DEF RelationsInv, RelationsWithinProject
<1>2. OneParent'
  BY DEF RelationsInv, OneParent
<1>3. NobodysOwnAncestor'
  <2>1. \A t \in Tasks : Ancestors(t, relations') \subseteq Ancestors(t, relations)
    BY FewerAncestors DEF TypeOK
  <2>2. QED
    BY <2>1 DEF RelationsInv, NobodysOwnAncestor
<1>4. QED
  BY <1>1, <1>2, <1>3 DEF RelationsInv

\* The activity stands while versions grow.
LEMMA ActivityStays ==
  ASSUME TypeOK, ActivityInv, activity' = activity, tied' = tied, task' \in [Tasks -> Row \cup {None, Deleted}],
         \A u \in Tasks : task'[u] = None => task[u] = None,
         \A u \in Present' : task[u] # None => u \in Present /\ task[u].version <= task'[u].version
  PROVE  ActivityInv'
<1>1. \A t \in Tasks : task'[t] = None => activity'[t] = <<>>
  BY DEF ActivityInv
<1>2. ASSUME NEW t \in Present', NEW i \in DOMAIN activity'[t]
      PROVE  /\ activity'[t][i] <= task'[t].version
             /\ \A j \in DOMAIN activity'[t] :
                  activity'[t][i] = activity'[t][j] => i = j \/ <<t, activity'[t][i]>> \in tied'
  <2>1. t \in Tasks /\ task'[t].version \in Nat
    BY PresentAfter DEF Row
  <2>2. CASE task[t] = None
    <3>1. activity'[t] = <<>>
      BY <2>1, <2>2 DEF ActivityInv
    <3>2. DOMAIN activity'[t] = {}
      BY <3>1
    <3>3. QED
      BY <3>2
  <2>3. CASE task[t] # None
    <3>1. t \in Present /\ task[t].version \in Nat /\ task[t].version <= task'[t].version
      BY <2>1, <2>3, PresentIs DEF Row
    <3>2. activity[t][i] \in Nat
      <4>1. activity[t] \in Seq(1..MaxVersion)
        BY <2>1 DEF TypeOK
      <4>2. activity[t][i] \in 1..MaxVersion
        BY <4>1, ElementOfSeq, LenProperties
      <4>3. QED
        BY <4>2
    <3>3. /\ activity[t][i] <= task[t].version
          /\ \A j \in DOMAIN activity[t] :
               activity[t][i] = activity[t][j] => i = j \/ <<t, activity[t][i]>> \in tied
      BY <3>1 DEF ActivityInv, OneActivityPerVersion
    <3>4. QED
      BY <2>1, <3>1, <3>2, <3>3
  <2>4. QED
    BY <2>2, <2>3
<1>3. OneActivityPerVersion'
  BY <1>2 DEF OneActivityPerVersion
<1>4. QED
  BY <1>1, <1>3 DEF ActivityInv

-----------------------------------------------------------------------------
(* CloudBoard: what the handlers' batches share                            *)

\* A request that leaves takes nothing from the others.
LEMMA RequestLeaves ==
  ASSUME TypeOK, NEW r \in Requests, Leave(r)
  PROVE  /\ request' \in [Requests -> Request \cup {None}]
         /\ \A q \in Requests : request'[q] \in {request[q], None}
BY DEF Leave, TypeOK

\* The row that is written has the next version and its old identifier.
LEMMA RowWritten ==
  ASSUME BoardInv, NEW r \in Requests, OfTask(r), Unchanged(r), NEW row, row \in Row,
         row.version = task[request[r].task].version,
         row.identifier = task[request[r].task].identifier,
         task' = Updated(r, row)
  PROVE  /\ task' \in [Tasks -> Row \cup {None, Deleted}]
         /\ Present' = Present /\ request[r].task \in Present /\ request[r].task \in Tasks
         /\ task'[request[r].task].version = request[r].seen + 1
         /\ task'[request[r].task].project = row.project
         /\ task'[request[r].task].labels = row.labels
         /\ \A u \in Tasks : u # request[r].task => task'[u] = task[u]
         /\ \A u \in Tasks : Ages(u)
         /\ IdentifiersUnique'
<1>0. PICK t : t = request[r].task
  OBVIOUS
<1>1. /\ t \in Tasks /\ request[r].seen \in Nat /\ 1 <= request[r].seen
      /\ request[r].seen < MaxVersion /\ MaxVersion \in Nat
  BY <1>0, OfTaskIs, BoardAssumption DEF BoardInv
<1>2. t \in Present /\ task[t] \in Row /\ row.version = request[r].seen
  BY <1>0, <1>1, PresentIs DEF Unchanged, BoardInv
<1>3. PICK new : new = [row EXCEPT !.version = row.version + 1]
  OBVIOUS
<1>4. new \in Row
  <2>1. row.version + 1 \in 1..MaxVersion
    BY <1>1, <1>2
  <2>2. QED
    BY <1>3, <2>1 DEF Row
<1>5. /\ new.version = request[r].seen + 1 /\ new.project = row.project
      /\ new.labels = row.labels /\ new.identifier = row.identifier
  BY <1>2, <1>3 DEF Row
<1>6. task' = [task EXCEPT ![t] = new]
  BY <1>0, <1>3 DEF Updated
<1>7. task \in [Tasks -> Row \cup {None, Deleted}]
  BY DEF BoardInv, TypeOK
<1>8. task' \in [Tasks -> Row \cup {None, Deleted}] /\ task'[t] = new
  BY <1>1, <1>4, <1>6, <1>7
<1>9. \A u \in Tasks : u # t => task'[u] = task[u]
  BY <1>6, <1>7
<1>10. Present' = Present
  <2>1. t \in Present'
    BY <1>1, <1>4, <1>8, PresentAfter
  <2>2. QED
    BY <1>2, <1>9, <2>1 DEF Present
<1>11. \A u \in Tasks : Ages(u)
  <2>1. task[t].version < task'[t].version
    BY <1>0, <1>1, <1>2, <1>5, <1>8
  <2>2. QED
    BY <1>2, <1>9, <1>10, <2>1 DEF Ages
<1>12. IdentifiersUnique'
  <2>1. \A u \in Present' : task'[u].identifier = task[u].identifier
    BY <1>0, <1>5, <1>8, <1>9, <1>10 DEF Present
  <2>2. QED
    BY <1>10, <2>1, IdentifiersStay DEF BoardInv
<1>13. QED
  BY <1>0, <1>1, <1>2, <1>5, <1>8, <1>9, <1>10, <1>11, <1>12

\* A row of activity is added to those of the task.
LEMMA LogIs ==
  ASSUME TypeOK, NEW r \in Requests, OfTask(r), Log(r), NEW t, t = request[r].task
  PROVE  /\ activity' \in [Tasks -> Seq(1..MaxVersion)]
         /\ \A u \in Tasks : u # t => activity'[u] = activity[u]
         /\ activity'[t] \in {activity[t], Append(activity[t], request[r].seen + 1)}
<1>1. t \in Tasks /\ request[r].seen + 1 \in 1..MaxVersion
  BY OfTaskIs, BoardAssumption
<1>2. activity \in [Tasks -> Seq(1..MaxVersion)]
  BY DEF TypeOK
<1>3. Append(activity[t], request[r].seen + 1) \in Seq(1..MaxVersion)
  BY <1>1, <1>2, AppendProperties
<1>4. QED
  BY <1>1, <1>2, <1>3 DEF Log

\* The rows of one task.
RowsAgree(t, rows, version, ties) ==
  \A i \in DOMAIN rows :
    /\ rows[i] <= version
    /\ \A j \in DOMAIN rows : rows[i] = rows[j] => i = j \/ <<t, rows[i]>> \in ties

\* A row of the version that is the last one agrees with the others, if none of them
\* tells of it, or it is tied.
LEMMA RowAdded ==
  ASSUME NEW t, NEW rows \in Seq(1..MaxVersion), NEW v \in 1..MaxVersion,
         NEW version \in Nat, NEW old, NEW new, old \subseteq new, RowsAgree(t, rows, version, old),
         version < v \/ (version = v /\ <<t, v>> \in new)
  PROVE  RowsAgree(t, rows, v, new) /\ RowsAgree(t, Append(rows, v), v, new)
<1>1. /\ Len(rows) \in Nat /\ DOMAIN rows = 1..Len(rows)
      /\ \A i \in 1..Len(rows) : rows[i] \in Nat /\ rows[i] <= version
  <2>1. Len(rows) \in Nat /\ DOMAIN rows = 1..Len(rows) /\ \A i \in 1..Len(rows) : rows[i] \in 1..MaxVersion
    BY LenProperties, ElementOfSeq
  <2>2. \A i \in DOMAIN rows : rows[i] <= version
    BY DEF RowsAgree
  <2>3. \A i \in 1..Len(rows) : rows[i] \in Nat
    <3>1. 1..MaxVersion \subseteq Nat
      BY BoardAssumption
    <3>2. QED
      BY <2>1, <3>1
  <2>4. QED
    BY <2>1, <2>2, <2>3
<1>2. v \in Nat /\ version <= v
  BY BoardAssumption
<1>3. PICK a : a = Append(rows, v)
  OBVIOUS
<1>4. /\ DOMAIN a = 1..(Len(rows) + 1) /\ a[Len(rows) + 1] = v
      /\ \A i \in 1..Len(rows) : a[i] = rows[i]
  BY <1>3, AppendProperties, LenProperties
<1>5. \A i \in DOMAIN a : i \in 1..Len(rows) \/ i = Len(rows) + 1
  BY <1>1, <1>4
<1>6. \A i \in 1..Len(rows) : rows[i] <= v /\ (rows[i] = v => <<t, v>> \in new)
  BY <1>1, <1>2
<1>7. \A i, j \in 1..Len(rows) : rows[i] = rows[j] => i = j \/ <<t, rows[i]>> \in new
  BY <1>1 DEF RowsAgree
<1>8. RowsAgree(t, rows, v, new)
  BY <1>1, <1>6, <1>7 DEF RowsAgree
<1>9. \A i \in DOMAIN a : a[i] <= v
  BY <1>2, <1>4, <1>5, <1>6
<1>10. \A i, j \in DOMAIN a : a[i] = a[j] => i = j \/ <<t, a[i]>> \in new
  <2>1. ASSUME NEW i \in DOMAIN a, NEW j \in DOMAIN a, a[i] = a[j]
        PROVE  i = j \/ <<t, a[i]>> \in new
    <3>1. CASE i \in 1..Len(rows) /\ j \in 1..Len(rows)
      BY <1>4, <1>7, <2>1, <3>1
    <3>2. CASE i = Len(rows) + 1 /\ j \in 1..Len(rows)
      BY <1>4, <1>6, <2>1, <3>2
    <3>3. CASE i \in 1..Len(rows) /\ j = Len(rows) + 1
      BY <1>4, <1>6, <2>1, <3>3
    <3>4. QED
      BY <1>5, <3>1, <3>2, <3>3
  <2>2. QED
    BY <2>1
<1>11. RowsAgree(t, a, v, new)
  BY <1>9, <1>10 DEF RowsAgree
<1>12. QED
  BY <1>3, <1>8, <1>11

\* What the property says, task by task.
LEMMA RowsOfTasks ==
  OneActivityPerVersion <=> \A t \in Present : RowsAgree(t, activity[t], task[t].version, tied)
BY DEF OneActivityPerVersion, RowsAgree

\* The row tells of the version the task has afterwards: of which no row has told, or
\* which another request has written in the same millisecond.
LEMMA LoggedOnce ==
  ASSUME BoardInv, NEW r \in Requests, OfTask(r), Log(r),
         NEW t, t = request[r].task, t \in Present,
         task' \in [Tasks -> Row \cup {None, Deleted}], Present' = Present,
         task'[t].version = request[r].seen + 1,
         \A u \in Tasks : u # t => task'[u] = task[u],
         \/ Unchanged(r) /\ tied' = tied
         \/ /\ task[t].version = request[r].seen + 1
            /\ tied' = tied \cup {<<t, request[r].seen + 1>>}
  PROVE  activity' \in [Tasks -> Seq(1..MaxVersion)] /\ ActivityInv'
<1>1. /\ activity' \in [Tasks -> Seq(1..MaxVersion)]
      /\ \A u \in Tasks : u # t => activity'[u] = activity[u]
      /\ activity'[t] \in {activity[t], Append(activity[t], request[r].seen + 1)}
  BY LogIs DEF BoardInv
<1>2. PICK v : v = request[r].seen + 1
  OBVIOUS
<1>3. t \in Tasks /\ v \in 1..MaxVersion /\ request[r].seen \in Nat
  BY <1>2, OfTaskIs, BoardAssumption DEF BoardInv
<1>4. \A u \in Tasks : task'[u] = None => u # t /\ activity'[u] = <<>>
  BY <1>1, <1>3 DEF BoardInv, ActivityInv, Present
<1>5. tied \subseteq tied'
  OBVIOUS
<1>6. ASSUME NEW u \in Present, u # t
      PROVE  RowsAgree(u, activity'[u], task'[u].version, tied')
  <2>1. u \in Tasks /\ activity'[u] = activity[u] /\ task'[u] = task[u]
    BY <1>1, <1>6 DEF Present
  <2>2. RowsAgree(u, activity[u], task[u].version, tied)
    BY <1>6, RowsOfTasks DEF BoardInv, ActivityInv
  <2>3. QED
    BY <1>5, <2>1, <2>2 DEF RowsAgree
<1>7. RowsAgree(t, activity'[t], task'[t].version, tied')
  <2>1. RowsAgree(t, activity[t], task[t].version, tied) /\ activity[t] \in Seq(1..MaxVersion)
    BY <1>3, RowsOfTasks DEF BoardInv, ActivityInv, TypeOK
  <2>2. task[t].version \in Nat
    BY <1>3, PresentIs DEF BoardInv, Row
  <2>3. task[t].version < v \/ (task[t].version = v /\ <<t, v>> \in tied')
    BY <1>2, <1>3, <2>2 DEF Unchanged
  <2>4. RowsAgree(t, activity[t], v, tied') /\ RowsAgree(t, Append(activity[t], v), v, tied')
    <3>1. PICK rows, version, old, new :
            rows = activity[t] /\ version = task[t].version /\ old = tied /\ new = tied'
      OBVIOUS
    <3>2. /\ rows \in Seq(1..MaxVersion) /\ v \in 1..MaxVersion /\ version \in Nat /\ old \subseteq new
          /\ RowsAgree(t, rows, version, old) /\ (version < v \/ (version = v /\ <<t, v>> \in new))
      BY <1>3, <1>5, <2>1, <2>2, <2>3, <3>1
    <3>3. RowsAgree(t, rows, v, new) /\ RowsAgree(t, Append(rows, v), v, new)
      BY <3>2, RowAdded
    <3>4. QED
      BY <3>1, <3>3
  <2>5. QED
    BY <1>1, <1>2, <2>4
<1>8. OneActivityPerVersion'
  BY <1>6, <1>7 DEF OneActivityPerVersion, RowsAgree
<1>9. QED
  BY <1>1, <1>4, <1>8 DEF ActivityInv

\* A request that finds its version written by another in the same millisecond.
TakesAnothers(r) ==
  /\ OfTask(r) /\ WrittenByAnother(r) /\ Log(r)
  /\ tied' = tied \cup {<<request[r].task, request[r].seen + 1>>}

\* No row of a task is written; a tie may add a row of activity, a project may learn labels.
LEMMA NoRowWritten ==
  ASSUME BoardInv, NEW r \in Requests, Leave(r), UNCHANGED <<task, relations>>,
         (activity' = activity /\ tied' = tied) \/ TakesAnothers(r),
         project' \in [Projects -> Project \cup {None}],
         \A t \in Present : /\ project'[task[t].project] # None
                            /\ project[task[t].project].labels \subseteq project'[task[t].project].labels
  PROVE  BoardInv'
<1>1. /\ request' \in [Requests -> Request \cup {None}]
      /\ \A q \in Requests : request'[q] \in {request[q], None}
  BY RequestLeaves DEF BoardInv
<1>2. Present' = Present /\ task' = task
  BY DEF Present
<1>3. /\ activity' \in [Tasks -> Seq(1..MaxVersion)] /\ ActivityInv'
      /\ tied' \subseteq Tasks \X (1..MaxVersion)
  <2>1. CASE activity' = activity /\ tied' = tied
    BY <1>2, <2>1 DEF BoardInv, TypeOK, ActivityInv, OneActivityPerVersion
  <2>2. CASE TakesAnothers(r)
    <3>1. /\ request[r].task \in Tasks /\ request[r].seen + 1 \in 1..MaxVersion
      BY <2>2, OfTaskIs, BoardAssumption DEF BoardInv, TakesAnothers
    <3>2. tied' \subseteq Tasks \X (1..MaxVersion)
      BY <2>2, <3>1 DEF BoardInv, TypeOK, TakesAnothers
    <3>3. task' \in [Tasks -> Row \cup {None, Deleted}]
      BY <1>2 DEF BoardInv, TypeOK
    <3>4. QED
      BY <1>2, <2>2, <3>2, <3>3, LoggedOnce DEF TakesAnothers, WrittenByAnother
  <2>3. QED
    BY <2>1, <2>2
<1>4. TypeOK'
  BY <1>1, <1>2, <1>3 DEF BoardInv, TypeOK
<1>5. IdentifiersUnique' /\ LabelsKnown'
  BY <1>2 DEF BoardInv, IdentifiersUnique, LabelsKnown
<1>6. RelationsInv'
  BY <1>2, RelationsStay DEF BoardInv, RelationsInv, RelationsWithinProject
<1>7. \A q \in Requests : RequestFits(q)'
  BY <1>1, <1>2, <1>4, RequestsStayFit DEF Ages, TypeOK
<1>8. QED
  BY <1>3, <1>4, <1>5, <1>6, <1>7 DEF BoardInv

\* A refused write changes no row of a task.
LEMMA ConflictKeeps ==
  ASSUME BoardInv, NEW r \in Requests, OfTask(r), Conflict(r), Leave(r)
  PROVE  BoardInv'
<1>1. (activity' = activity /\ tied' = tied) \/ TakesAnothers(r)
  BY DEF Conflict, Ties, Remember, TakesAnothers
<1>2. project' = project /\ UNCHANGED <<task, relations>>
  BY DEF Conflict
<1>3. QED
  BY <1>1, <1>2, NoRowWritten DEF BoardInv, TypeOK

\* A row of a task is written: its project has to be there and know its labels, and the
\* relations are to be sound.
LEMMA TaskWritten ==
  ASSUME BoardInv, NEW r \in Requests, OfTask(r), Unchanged(r),
         NEW row \in Row, NEW t, t = request[r].task,
         row.version = task[t].version, row.identifier = task[t].identifier,
         task' = Updated(r, row), Log(r), tied' = tied, Leave(r),
         project' \in [Projects -> Project \cup {None}],
         project'[row.project] # None, row.labels \subseteq project'[row.project].labels,
         \A u \in Present : u # t => /\ project'[task[u].project] # None
                                     /\ task[u].labels \subseteq project'[task[u].project].labels,
         relations' \subseteq Relation,
         task' \in [Tasks -> Row \cup {None, Deleted}] => RelationsInv'
  PROVE  BoardInv'
<1>1. /\ task' \in [Tasks -> Row \cup {None, Deleted}]
      /\ Present' = Present /\ t \in Present /\ t \in Tasks
      /\ task'[t].version = request[r].seen + 1
      /\ task'[t].project = row.project /\ task'[t].labels = row.labels
      /\ \A u \in Tasks : u # t => task'[u] = task[u]
      /\ \A u \in Tasks : Ages(u)
      /\ IdentifiersUnique'
  BY RowWritten
<1>2. activity' \in [Tasks -> Seq(1..MaxVersion)] /\ ActivityInv'
  BY <1>1, LoggedOnce
<1>3. /\ request' \in [Requests -> Request \cup {None}]
      /\ \A q \in Requests : request'[q] \in {request[q], None}
  BY RequestLeaves DEF BoardInv
<1>4. \A u \in Present' : /\ project'[task'[u].project] # None
                          /\ task'[u].labels \subseteq project'[task'[u].project].labels
  BY <1>1 DEF Present
<1>5. TypeOK'
  BY <1>1, <1>2, <1>3, <1>4 DEF TypeOK, BoardInv
<1>6. LabelsKnown'
  BY <1>4 DEF LabelsKnown
<1>7. \A q \in Requests : RequestFits(q)'
  BY <1>1, <1>3, RequestsStayFit
<1>8. QED
  BY <1>1, <1>2, <1>5, <1>6, <1>7 DEF BoardInv

\* moveTask, archiveTask and restoreTask change no project and no label.
LEMMA UpdateRowKeeps ==
  ASSUME BoardInv, NEW r \in Requests, NEW op \in {"move", "archive", "restore"},
         NEW row, UpdateRow(r, op, row),
         Unchanged(r) => /\ row \in Row /\ row.version = task[request[r].task].version
                         /\ row.identifier = task[request[r].task].identifier
                         /\ row.project = task[request[r].task].project
                         /\ row.labels = task[request[r].task].labels
  PROVE  BoardInv'
<1>1. OfTask(r) /\ Leave(r)
  BY DEF UpdateRow, At, OfTask
<1>2. CASE Unchanged(r)
  <2>1. PICK t : t = request[r].task
    OBVIOUS
  <2>2. t \in Present /\ t \in Tasks
    BY <1>1, <1>2, <2>1, OfTaskIs DEF Unchanged, BoardInv
  <2>3. /\ task' = Updated(r, row) /\ Log(r) /\ tied' = tied
        /\ project' = project /\ relations' = relations
    BY <1>2 DEF UpdateRow
  <2>4. \A u \in Present : /\ project'[task[u].project] # None
                           /\ task[u].labels \subseteq project'[task[u].project].labels
    BY <2>3 DEF BoardInv, TypeOK, LabelsKnown
  <2>5. row \in Row /\ row.version = task[t].version /\ row.identifier = task[t].identifier
        /\ row.project = task[t].project /\ row.labels = task[t].labels
    BY <1>2, <2>1
  <2>6. RelationsInv'
    <3>1. /\ Present' = Present /\ task'[t].project = row.project
          /\ \A u \in Tasks : u # t => task'[u] = task[u]
      BY <1>1, <1>2, <2>1, <2>3, <2>5, RowWritten
    <3>2. \A u \in Present : task'[u].project = task[u].project
      BY <2>5, <3>1 DEF Present
    <3>3. QED
      BY <2>3, <3>1, <3>2, RelationsStay DEF BoardInv, RelationsInv, RelationsWithinProject
  <2>7. relations' \subseteq Relation /\ project' \in [Projects -> Project \cup {None}]
    BY <2>3 DEF BoardInv, TypeOK
  <2>8. project'[row.project] # None /\ row.labels \subseteq project'[row.project].labels
    BY <2>2, <2>4, <2>5
  <2>9. QED
    BY <1>1, <1>2, <2>1, <2>3, <2>4, <2>5, <2>6, <2>7, <2>8, TaskWritten
<1>3. CASE ~Unchanged(r)
  BY <1>1, <1>3, ConflictKeeps DEF UpdateRow
<1>4. QED
  BY <1>2, <1>3

\* The three of them.
LEMMA RowUpdatesKeep ==
  ASSUME BoardInv, NEW r \in Requests, MoveTask(r) \/ ArchiveTask(r) \/ RestoreTask(r)
  PROVE  BoardInv'
<1> DEFINE row == task[request[r].task]
<1>0. ASSUME Unchanged(r)
      PROVE  row \in Row
  BY <1>0, PresentIs DEF Unchanged, BoardInv
<1>1. ASSUME NEW flag \in BOOLEAN, Unchanged(r)
      PROVE  /\ [row EXCEPT !.archived = flag] \in Row
             /\ [row EXCEPT !.archived = flag].version = row.version
             /\ [row EXCEPT !.archived = flag].identifier = row.identifier
             /\ [row EXCEPT !.archived = flag].project = row.project
             /\ [row EXCEPT !.archived = flag].labels = row.labels
  <2>1. row \in Row
    BY <1>0, <1>1
  <2> HIDE DEF row
  <2>2. QED
    BY <2>1 DEF Row
<1>2. CASE MoveTask(r)
  BY <1>0, <1>2, UpdateRowKeeps DEF MoveTask
<1>3. CASE ArchiveTask(r)
  BY <1>1, <1>3, UpdateRowKeeps DEF ArchiveTask
<1>4. CASE RestoreTask(r)
  BY <1>1, <1>4, UpdateRowKeeps DEF RestoreTask
<1>5. QED
  BY <1>2, <1>3, <1>4

Learns(r) ==
  project' = [p \in Projects |->
               IF project[p] = None THEN None
               ELSE [project[p] EXCEPT !.labels = @ \cup LabelsLearned(p, r)]]

\* A project that learns labels keeps those it has.
LEMMA LearnsIs ==
  ASSUME BoardInv, NEW r \in Requests, OfTask(r), request[r].op = "update", Learns(r)
  PROVE  /\ project' \in [Projects -> Project \cup {None}]
         /\ \A p \in Projects : project[p] # None =>
              /\ project'[p] # None
              /\ project'[p].labels = project[p].labels \cup LabelsLearned(p, r)
         /\ LabelsLearned(request[r].project, r) = request[r].labels
<1>1. request[r].project \in Projects /\ request[r].labels \subseteq Labels
  BY OfTaskIs DEF BoardInv
<1>2. \A p \in Projects : LabelsLearned(p, r) \subseteq Labels
  BY <1>1 DEF LabelsLearned
<1>3. project \in [Projects -> Project \cup {None}]
  BY DEF BoardInv, TypeOK
<1>4. ASSUME NEW p \in Projects, project[p] # None
      PROVE  /\ project'[p] \in Project
             /\ project'[p].labels = project[p].labels \cup LabelsLearned(p, r)
  <2>1. project'[p] = [project[p] EXCEPT !.labels = project[p].labels \cup LabelsLearned(p, r)]
    BY <1>4 DEF Learns
  <2>2. project[p] \in Project
    BY <1>3, <1>4
  <2>3. QED
    BY <1>2, <2>1, <2>2 DEF Project
<1>5. \A p \in Projects : project[p] = None => project'[p] = None
  BY DEF Learns
<1>6. project' = [p \in Projects |-> project'[p]]
  BY DEF Learns
<1>7. \A p \in Projects : project'[p] \in Project \cup {None}
  BY <1>4, <1>5
<1>8. project' \in [Projects -> Project \cup {None}]
  BY <1>6, <1>7
<1>9. QED
  BY <1>4, <1>8, BoardAssumption DEF LabelsLearned

\* updateTask either writes a row of the destination with the labels it has seen or
\* wants, or no row; without new labels, or without another project, the row has those
\* the request has seen, because its version is the one that was read.
LEMMA UpdateIs ==
  ASSUME BoardInv, NEW r \in Requests, UpdateTask(r)
  PROVE  /\ OfTask(r) /\ request[r].op = "update" /\ Leave(r) /\ relations' = relations
         /\ \/ /\ Unchanged(r) /\ (request[r].moves => Related(request[r].task) = {})
               /\ request[r].moves \/ request[r].project = task[request[r].task].project
               /\ project[request[r].project] # None /\ Learns(r) /\ Log(r) /\ tied' = tied
               /\ \E row \in Row :
                    /\ task' = Updated(r, row)
                    /\ row.version = task[request[r].task].version
                    /\ row.identifier = task[request[r].task].identifier
                    /\ row.project = request[r].project /\ row.labels = request[r].labels
            \/ /\ task' = task
               /\ \/ Learns(r) /\ TakesAnothers(r)
                  \/ project' = project /\ activity' = activity /\ tied' = tied
<1>1. PICK t, to : t = request[r].task /\ to = request[r].project
  OBVIOUS
<1>2. OfTask(r) /\ request[r].op = "update" /\ Leave(r) /\ relations' = relations
  BY DEF UpdateTask, At, OfTask
<1>3. /\ t \in Tasks /\ to \in Projects /\ request[r].labels \subseteq Labels
      /\ request[r].relabels \in BOOLEAN /\ request[r].moves \in BOOLEAN
  BY <1>1, <1>2, OfTaskIs DEF BoardInv
<1>4. CASE UpdateAllowed(r) /\ project[to] # None
  <2>1. PICK row : row = [task[t] EXCEPT !.project = to,
                     !.labels = IF request[r].relabels THEN request[r].labels ELSE task[t].labels]
    OBVIOUS
  <2>2. task' = Updated(r, row) /\ Learns(r) /\ Log(r) /\ tied' = tied
    BY <1>1, <1>4, <2>1 DEF UpdateTask, Learns
  <2>3. Unchanged(r) /\ t \in Present /\ task[t] \in Row /\ (request[r].moves => Related(t) = {})
    BY <1>1, <1>3, <1>4, PresentIs DEF UpdateAllowed, Unchanged, BoardInv
  <2>4. /\ request[r].relabels \/ request[r].labels = task[t].labels
        /\ request[r].moves \/ to = task[t].project
    BY <1>1, <1>2, <2>3 DEF BoardInv, RequestFits, OfTask
  <2>5. /\ row \in Row /\ row.version = task[t].version /\ row.identifier = task[t].identifier
        /\ row.project = to /\ row.labels = request[r].labels
    <3>1. task[t].labels \subseteq Labels
      BY <2>3 DEF Row
    <3>2. row = [task[t] EXCEPT !.project = to, !.labels = request[r].labels]
      BY <2>1, <2>4
    <3>3. QED
      BY <1>3, <2>3, <3>1, <3>2 DEF Row
  <2>6. QED
    BY <1>1, <1>2, <1>4, <2>2, <2>3, <2>4, <2>5
<1>5. CASE ~(UpdateAllowed(r) /\ project[to] # None)
  <2>1. task' = task
    BY <1>1, <1>5 DEF UpdateTask
  <2>2. PICK same \in BOOLEAN :
          /\ Remember(r, same)
          /\ IF Ties(r, same) THEN Learns(r) /\ Log(r) ELSE UNCHANGED <<project, activity>>
    BY <1>1, <1>5 DEF UpdateTask, Learns
  <2>3. CASE Ties(r, same)
    BY <1>2, <2>1, <2>2, <2>3 DEF Ties, Remember, TakesAnothers
  <2>4. CASE ~Ties(r, same)
    <3>1. tied' = tied /\ UNCHANGED <<project, activity>>
      BY <2>2, <2>4 DEF Ties, Remember
    <3>2. QED
      BY <1>2, <2>1, <3>1
  <2>5. QED
    BY <2>3, <2>4
<1>6. QED
  BY <1>4, <1>5

\* updateTask keeps the invariant.
LEMMA UpdateTaskKeeps ==
  ASSUME BoardInv, NEW r \in Requests, UpdateTask(r)
  PROVE  BoardInv'
<1>1. PICK t, to : t = request[r].task /\ to = request[r].project
  OBVIOUS
<1>2. OfTask(r) /\ request[r].op = "update" /\ Leave(r) /\ relations' = relations
  BY UpdateIs
<1>3. t \in Tasks /\ to \in Projects
  BY <1>1, <1>2, OfTaskIs DEF BoardInv
<1>4. ASSUME NEW u \in Present
      PROVE  /\ task[u].project \in Projects /\ project[task[u].project] # None
             /\ task[u].labels \subseteq project[task[u].project].labels
  <2>1. task[u] \in Row
    BY PresentIs DEF BoardInv
  <2>2. QED
    BY <2>1 DEF BoardInv, TypeOK, LabelsKnown, Row
<1>5. ASSUME Unchanged(r), request[r].moves => Related(t) = {},
             request[r].moves \/ to = task[t].project,
             project[to] # None, Learns(r), Log(r), tied' = tied,
             NEW row \in Row, task' = Updated(r, row),
             row.version = task[t].version, row.identifier = task[t].identifier,
             row.project = to, row.labels = request[r].labels
      PROVE  BoardInv'
  <2>1. /\ project' \in [Projects -> Project \cup {None}]
        /\ \A p \in Projects : project[p] # None =>
             /\ project'[p] # None
             /\ project'[p].labels = project[p].labels \cup LabelsLearned(p, r)
        /\ LabelsLearned(to, r) = request[r].labels
    BY <1>1, <1>2, <1>5, LearnsIs
  <2>2. project'[to] # None /\ request[r].labels \subseteq project'[to].labels
    BY <1>3, <1>5, <2>1
  <2>3. \A u \in Present : /\ project'[task[u].project] # None
                           /\ task[u].labels \subseteq project'[task[u].project].labels
    BY <1>4, <2>1
  <2>4. RelationsInv'
    <3>1. /\ Present' = Present /\ task'[t].project = row.project
          /\ \A u \in Tasks : u # t => task'[u] = task[u]
      BY <1>1, <1>2, <1>5, RowWritten
    <3>2. \A e \in relations : e.source \in Present /\ e.target \in Present
      BY DEF BoardInv, RelationsInv, RelationsWithinProject
    <3>3. ASSUME NEW e \in relations
          PROVE  /\ task'[e.source].project = task[e.source].project
                 /\ task'[e.target].project = task[e.target].project
      <4>1. CASE request[r].moves
        <5>1. t # e.source /\ t # e.target
          BY <1>5, <4>1 DEF Related
        <5>2. QED
          BY <3>1, <3>2, <5>1 DEF Present
      <4>2. CASE ~request[r].moves
        BY <1>5, <3>1, <3>2, <4>2 DEF Present
      <4>3. QED
        BY <4>1, <4>2
    <3>4. QED
      BY <1>2, <3>1, <3>2, <3>3, RelationsStay DEF BoardInv
  <2>5. relations' \subseteq Relation
    BY <1>2 DEF BoardInv, TypeOK
  <2>6. QED
    BY <1>1, <1>2, <1>5, <2>1, <2>2, <2>3, <2>4, <2>5, TaskWritten
<1>6. CASE task' = task /\ Learns(r) /\ TakesAnothers(r)
  <2>1. /\ project' \in [Projects -> Project \cup {None}]
        /\ \A p \in Projects : project[p] # None =>
             /\ project'[p] # None
             /\ project'[p].labels = project[p].labels \cup LabelsLearned(p, r)
    BY <1>2, <1>6, LearnsIs
  <2>2. \A u \in Present : /\ project'[task[u].project] # None
                           /\ project[task[u].project].labels \subseteq project'[task[u].project].labels
    BY <1>4, <2>1
  <2>3. QED
    BY <1>1, <1>2, <1>6, <2>1, <2>2, NoRowWritten
<1>7. CASE task' = task /\ project' = project /\ activity' = activity /\ tied' = tied
  BY <1>2, <1>7, NoRowWritten DEF BoardInv, TypeOK
<1>8. QED
  <2>1. \/ /\ Unchanged(r) /\ (request[r].moves => Related(t) = {})
           /\ request[r].moves \/ to = task[t].project
           /\ project[to] # None /\ Learns(r) /\ Log(r) /\ tied' = tied
           /\ \E row \in Row : /\ task' = Updated(r, row)
                               /\ row.version = task[t].version /\ row.identifier = task[t].identifier
                               /\ row.project = to /\ row.labels = request[r].labels
        \/ task' = task /\ Learns(r) /\ TakesAnothers(r)
        \/ task' = task /\ project' = project /\ activity' = activity /\ tied' = tied
    BY <1>1, UpdateIs
  <2>2. QED
    BY <1>5, <1>6, <1>7, <2>1

\* createTask adds the row of a task and tells its project the labels, if the project is
\* there and not archived.
LEMMA CreateIs ==
  ASSUME BoardInv, NEW r \in Requests, NEW t \in Fresh, CreateTask(r, t),
         NEW p, p = request[r].project, project[p] # None, ~project[p].archived
  PROVE  /\ p \in Projects /\ t \in Tasks /\ task[t] = None /\ t \notin Present
         /\ request[r].prefix \in Projects
         /\ \A u \in Present : task[u].identifier[1] = request[r].prefix =>
              /\ task[u].identifier[2] \in Nat
              /\ task[u].identifier[2] < NextNumber(p, request[r].prefix)
         /\ NextNumber(p, request[r].prefix) \in Nat
         /\ task' \in [Tasks -> Row \cup {None, Deleted}]
         /\ task'[t] \in Row /\ task'[t].project = p /\ task'[t].labels = request[r].labels
         /\ task'[t].identifier = <<request[r].prefix, NextNumber(p, request[r].prefix)>>
         /\ \A u \in Tasks : u # t => task'[u] = task[u]
         /\ Present' = Present \cup {t}
         /\ project' \in [Projects -> Project \cup {None}]
         /\ project'[p] # None /\ project'[p].labels = project[p].labels \cup request[r].labels
         /\ \A o \in Projects : o # p => project'[o] = project[o]
<1>1. PICK number, prefix : prefix = request[r].prefix /\ number = NextNumber(p, prefix)
  OBVIOUS
<1>2. p \in Projects /\ prefix \in Projects /\ request[r].labels \subseteq Labels
  <2>1. request[r] \in Request /\ request[r].op = "create"
    BY DEF CreateTask, At, BoardInv, TypeOK
  <2>2. QED
    BY <1>1, <2>1 DEF Request
<1>3. t \in Tasks /\ task[t] = None /\ t \notin Present
  BY DEF Fresh, Present
<1>4. project[p] \in Project /\ project \in [Projects -> Project \cup {None}]
      /\ task \in [Tasks -> Row \cup {None, Deleted}]
  BY <1>2 DEF BoardInv, TypeOK
<1>5. /\ number \in Nat
      /\ \A u \in Present : task[u].identifier[1] = prefix => task[u].identifier[2] < number
  BY <1>1, <1>2, <1>4, NextNumberIs
<1>6. \A u \in Present : task[u].identifier[2] \in Nat
  BY PresentIs DEF BoardInv, Row
<1>7. PICK row : row = [project |-> p, labels |-> request[r].labels, archived |-> FALSE,
                        version |-> 1, identifier |-> <<prefix, number>>]
  OBVIOUS
<1>8. row \in Row
  <2>1. 1 \in 1..MaxVersion
    BY BoardAssumption
  <2>2. QED
    BY <1>2, <1>5, <1>7, <2>1 DEF Row
<1>9. task' = [task EXCEPT ![t] = row]
  BY <1>1, <1>7 DEF CreateTask
<1>10. project' = [project EXCEPT ![p].next = number + 1, ![p].labels = @ \cup request[r].labels]
  BY <1>1 DEF CreateTask
<1>11. /\ project' \in [Projects -> Project \cup {None}]
       /\ project'[p] # None /\ project'[p].labels = project[p].labels \cup request[r].labels
       /\ \A o \in Projects : o # p => project'[o] = project[o]
  <2>1. PICK n, known : n = number + 1 /\ known = project[p].labels \cup request[r].labels
    OBVIOUS
  <2>2. n \in Nat /\ known \in SUBSET Labels
    BY <1>2, <1>4, <1>5, <2>1 DEF Project
  <2>3. PICK new : new = [project[p] EXCEPT !.next = n, !.labels = known]
    OBVIOUS
  <2>4. new \in Project /\ new.labels = known
    BY <1>4, <2>2, <2>3 DEF Project
  <2>5. project' = [project EXCEPT ![p] = new]
    BY <1>4, <1>10, <2>1, <2>3 DEF Project
  <2>6. QED
    BY <1>2, <1>4, <2>1, <2>4, <2>5, BoardAssumption
<1>12. task' \in [Tasks -> Row \cup {None, Deleted}] /\ task'[t] = row
  BY <1>3, <1>4, <1>8, <1>9
<1>13. \A u \in Tasks : u # t => task'[u] = task[u]
  BY <1>4, <1>9
<1>14. Present' = Present \cup {t}
  <2>1. t \in Present'
    BY <1>3, <1>8, <1>12, PresentAfter
  <2>2. QED
    BY <1>3, <1>13, <2>1 DEF Present
<1>15. /\ row.project = p /\ row.labels = request[r].labels
       /\ row.identifier = <<prefix, number>>
  BY <1>7
<1>16. QED
  BY <1>1, <1>2, <1>3, <1>5, <1>6, <1>8, <1>11, <1>12, <1>13, <1>14, <1>15

\* createTask keeps the invariant: its identifier is new, because its number is above all
\* with the prefix.
LEMMA CreateTaskKeeps ==
  ASSUME BoardInv, NEW r \in Requests, NEW t \in Fresh, CreateTask(r, t)
  PROVE  BoardInv'
<1>1. PICK p, number, prefix : /\ p = request[r].project /\ prefix = request[r].prefix
                               /\ number = NextNumber(p, prefix)
  OBVIOUS
<1>2. /\ request' \in [Requests -> Request \cup {None}]
      /\ \A q \in Requests : request'[q] \in {request[q], None}
      /\ relations' = relations /\ activity' = activity /\ tied' = tied /\ Leave(r)
  BY RequestLeaves DEF BoardInv, CreateTask
<1>3. CASE project[p] # None /\ ~project[p].archived
  <2>1. /\ p \in Projects /\ t \in Tasks /\ task[t] = None /\ t \notin Present
        /\ \A u \in Present : task[u].identifier[1] = prefix =>
             task[u].identifier[2] \in Nat /\ task[u].identifier[2] < number
        /\ number \in Nat
        /\ task' \in [Tasks -> Row \cup {None, Deleted}]
        /\ task'[t] \in Row /\ task'[t].project = p /\ task'[t].labels = request[r].labels
        /\ task'[t].identifier = <<prefix, number>>
        /\ \A u \in Tasks : u # t => task'[u] = task[u]
        /\ Present' = Present \cup {t}
        /\ project' \in [Projects -> Project \cup {None}]
        /\ project'[p] # None /\ project'[p].labels = project[p].labels \cup request[r].labels
        /\ \A o \in Projects : o # p => project'[o] = project[o]
    BY <1>1, <1>3, CreateIs
  <2>2. \A u \in Tasks : Ages(u)
    BY <2>1 DEF Ages
  <2>3. \A u \in Present : u \in Tasks /\ u # t /\ u \in Present' /\ task'[u] = task[u]
    BY <2>1 DEF Present
  <2>4. ASSUME NEW u \in Present'
        PROVE  /\ project'[task'[u].project] # None
               /\ task'[u].labels \subseteq project'[task'[u].project].labels
    <3>1. CASE u = t
      BY <2>1, <3>1
    <3>2. CASE u \in Present
      <4>1. task[u] \in Row
        BY <3>2, PresentIs DEF BoardInv
      <4>2. /\ task[u].project \in Projects /\ project[task[u].project] # None
            /\ task[u].labels \subseteq project[task[u].project].labels
        BY <3>2, <4>1 DEF BoardInv, TypeOK, LabelsKnown, Row
      <4>3. QED
        BY <2>1, <2>3, <3>2, <4>2
    <3>3. QED
      BY <2>1, <3>1, <3>2
  <2>5. IdentifiersUnique'
    <3>1. ASSUME NEW u \in Present
          PROVE  task[u].identifier # <<prefix, number>>
      <4>1. <<prefix, number>>[1] = prefix /\ <<prefix, number>>[2] = number
        OBVIOUS
      <4>2. QED
        BY <2>1, <4>1
    <3>2. QED
      BY <2>1, <2>3, <3>1 DEF BoardInv, IdentifiersUnique
  <2>6. RelationsInv'
    <3>1. \A e \in relations : e.source \in Present /\ e.target \in Present
      BY DEF BoardInv, RelationsInv, RelationsWithinProject
    <3>2. QED
      BY <1>2, <2>3, <3>1, RelationsStay DEF BoardInv
  <2>7. ActivityInv'
    <3>1. \A u \in Tasks : task'[u] = None => task[u] = None
      BY <2>1, BoardAssumption
    <3>2. ASSUME NEW u \in Present', task[u] # None
          PROVE  u \in Present /\ task[u].version <= task'[u].version
      <4>1. u \in Present /\ task'[u] = task[u]
        BY <2>1, <2>3, <3>2
      <4>2. task[u] \in Row
        BY <4>1, PresentIs DEF BoardInv
      <4>3. task[u].version \in Nat
        BY <4>2 DEF Row
      <4>4. QED
        BY <4>1, <4>3
    <3>3. QED
      BY <1>2, <2>1, <3>1, <3>2, ActivityStays DEF BoardInv
  <2>8. TypeOK'
    BY <1>2, <2>1, <2>4 DEF BoardInv, TypeOK
  <2>9. \A q \in Requests : RequestFits(q)'
    BY <1>2, <2>1, <2>2, RequestsStayFit
  <2>10. QED
    BY <2>4, <2>5, <2>6, <2>7, <2>8, <2>9 DEF BoardInv, LabelsKnown
<1>4. CASE ~(project[p] # None /\ ~project[p].archived)
  <2>1. task' = task /\ project' = project
    BY <1>1, <1>4 DEF CreateTask
  <2>2. QED
    BY <1>2, <2>1, NoRowWritten DEF BoardInv, TypeOK
<1>5. QED
  BY <1>3, <1>4

\* deleteArchivedTask: the relations of the task go with it.
LEMMA DeleteArchivedTaskKeeps ==
  ASSUME BoardInv, NEW r \in Requests, DeleteArchivedTask(r)
  PROVE  BoardInv'
<1>1. PICK t : t = request[r].task
  OBVIOUS
<1>2. OfTask(r) /\ Leave(r) /\ project' = project
  BY DEF DeleteArchivedTask, At, OfTask
<1>3. t \in Tasks
  BY <1>1, <1>2, OfTaskIs DEF BoardInv
<1>4. CASE Unchanged(r) /\ task[t].archived
  <2>1. /\ task' = [task EXCEPT ![t] = Deleted] /\ relations' = relations \ Related(t)
        /\ activity' = [activity EXCEPT ![t] = <<>>] /\ tied' = tied
    BY <1>1, <1>4 DEF DeleteArchivedTask
  <2>2. task \in [Tasks -> Row \cup {None, Deleted}] /\ activity \in [Tasks -> Seq(1..MaxVersion)]
    BY DEF BoardInv, TypeOK
  <2>3. /\ task' \in [Tasks -> Row \cup {None, Deleted}] /\ task'[t] = Deleted
        /\ \A u \in Tasks : u # t => task'[u] = task[u]
    BY <1>3, <2>1, <2>2
  <2>4. /\ activity' \in [Tasks -> Seq(1..MaxVersion)] /\ activity'[t] = <<>>
        /\ \A u \in Tasks : u # t => activity'[u] = activity[u]
    <3>1. <<>> \in Seq(1..MaxVersion)
      BY EmptySeq
    <3>2. QED
      BY <1>3, <2>1, <2>2, <3>1
  <2>5. Present' = Present \ {t}
    BY <1>3, <2>3 DEF Present
  <2>6. \A u \in Present' : u \in Present /\ u # t /\ task'[u] = task[u] /\ activity'[u] = activity[u]
    BY <2>3, <2>4, <2>5 DEF Present
  <2>7. /\ request' \in [Requests -> Request \cup {None}]
        /\ \A q \in Requests : request'[q] \in {request[q], None}
    BY <1>2, RequestLeaves DEF BoardInv
  <2>8. TypeOK'
    BY <1>2, <2>1, <2>3, <2>4, <2>6, <2>7 DEF BoardInv, TypeOK
  <2>9. IdentifiersUnique' /\ LabelsKnown'
    BY <1>2, <2>6 DEF BoardInv, IdentifiersUnique, LabelsKnown
  <2>10. RelationsInv'
    <3>1. \A e \in relations' : /\ e \in relations /\ e.source \in Present /\ e.target \in Present
                                /\ e.source # t /\ e.target # t
      BY <2>1 DEF BoardInv, RelationsInv, RelationsWithinProject, Related
    <3>2. QED
      BY <2>3, <2>5, <3>1, RelationsStay DEF BoardInv, Present
  <2>11. ActivityInv'
    <3>1. \A u \in Tasks : task'[u] = None => activity'[u] = <<>>
      BY <2>3, <2>4 DEF BoardInv, ActivityInv
    <3>2. OneActivityPerVersion => OneActivityPerVersion'
      BY <2>1, <2>6 DEF OneActivityPerVersion
    <3>3. QED
      BY <3>1, <3>2 DEF BoardInv, ActivityInv
  <2>12. \A q \in Requests : RequestFits(q)'
    BY <2>3, <2>7, RequestsStayFit DEF Ages
  <2>13. QED
    BY <2>8, <2>9, <2>10, <2>11, <2>12 DEF BoardInv
<1>5. CASE ~(Unchanged(r) /\ task[t].archived)
  <2>1. UNCHANGED <<task, relations, activity, tied>>
    BY <1>1, <1>5 DEF DeleteArchivedTask
  <2>2. QED
    BY <1>2, <2>1, NoRowWritten DEF BoardInv, TypeOK
<1>6. QED
  BY <1>4, <1>5

\* A row that changes for its relations only has a new version and nothing else.
LEMMA RelatedRowWritten ==
  ASSUME BoardInv, NEW r \in Requests, OfTask(r), Unchanged(r),
         task' = Updated(r, task[request[r].task]), Log(r), tied' = tied, Leave(r), project' = project,
         relations' \subseteq Relation,
         (/\ Present' = Present
          /\ \A u \in Present : task'[u].project = task[u].project) => RelationsInv'
  PROVE  BoardInv'
<1>1. PICK t, row : t = request[r].task /\ row = task[t]
  OBVIOUS
<1>2. t \in Present /\ t \in Tasks /\ row \in Row
  BY <1>1, OfTaskIs, PresentIs DEF Unchanged, BoardInv
<1>3. \A u \in Present : /\ project'[task[u].project] # None
                         /\ task[u].labels \subseteq project'[task[u].project].labels
  BY DEF BoardInv, TypeOK, LabelsKnown
<1>4. task' = Updated(r, row)
  BY <1>1
<1>5. /\ Present' = Present /\ task'[t].project = row.project
      /\ \A u \in Tasks : u # t => task'[u] = task[u]
  BY <1>1, <1>2, <1>4, RowWritten
<1>6. \A u \in Present : task'[u].project = task[u].project
  BY <1>1, <1>5 DEF Present
<1>7. RelationsInv'
  BY <1>5, <1>6
<1>8. project' \in [Projects -> Project \cup {None}]
  BY DEF BoardInv, TypeOK
<1>9. QED
  BY <1>1, <1>2, <1>3, <1>4, <1>7, <1>8, TaskWritten

\* addRelation: the schema refuses what the reads may no longer be true of.
LEMMA AddRelationKeeps ==
  ASSUME BoardInv, NEW r \in Requests, AddRelation(r)
  PROVE  BoardInv'
<1>1. PICK t, e : t = request[r].task /\ e = request[r].relation
  OBVIOUS
<1>2. PICK kept : kept = relations \ (IF request[r].replaces THEN ParentOf(t) ELSE {})
  OBVIOUS
<1>3. OfTask(r) /\ request[r].op = "addRelation" /\ Leave(r)
  BY DEF AddRelation, At, OfTask
<1>4. e \in Relation /\ kept \subseteq relations /\ relations \subseteq Relation
  BY <1>1, <1>2, <1>3, OfTaskIs DEF BoardInv, TypeOK
<1>5. CASE Unchanged(r) /\ InsertAllowed(e, kept)
  <2>1. /\ relations' = kept \cup {e} /\ task' = Updated(r, task[request[r].task]) /\ Log(r)
        /\ project' = project /\ tied' = tied
    BY <1>1, <1>2, <1>5 DEF AddRelation
  <2>2. ASSUME Present' = Present, \A u \in Present : task'[u].project = task[u].project
        PROVE  RelationsInv'
    <3>1. \A x \in relations' : /\ x.source \in Present /\ x.target \in Present
                                /\ task[x.source].project = task[x.target].project
      BY <1>4, <1>5, <2>1 DEF BoardInv, RelationsInv, RelationsWithinProject, InsertAllowed
    <3>2. RelationsWithinProject'
      BY <2>2, <3>1 DEF RelationsWithinProject
    <3>3. OneParent'
      <4>1. IsParent(e) => \A x \in kept : ~(IsParent(x) /\ x.target = e.target)
        BY <1>5 DEF InsertAllowed, IsParent
      <4>2. \A x, y \in kept : IsParent(x) /\ IsParent(y) /\ x.target = y.target => x = y
        BY <1>4 DEF BoardInv, RelationsInv, OneParent
      <4>3. QED
        BY <2>1, <4>1, <4>2 DEF OneParent
    <3>4. NobodysOwnAncestor'
      <4>1. ASSUME NEW u \in Tasks
            PROVE  u \notin Ancestors(u, kept)
        BY <1>4, FewerAncestors DEF BoardInv, RelationsInv, NobodysOwnAncestor
      <4>2. CASE IsParent(e)
        <5>1. e.source # e.target /\ e.target \notin Ancestors(e.source, kept)
          BY <1>5, <4>2 DEF InsertAllowed, IsParent
        <5>2. kept \subseteq Relation
          BY <1>4
        <5>3. \A u \in Tasks : u \notin Ancestors(u, kept \cup {e})
          BY <1>4, <4>1, <4>2, <5>1, <5>2, NewParentKeepsForest
        <5>4. QED
          BY <2>1, <5>3 DEF NobodysOwnAncestor
      <4>3. CASE ~IsParent(e)
        <5>1. \A S : ParentsIn(kept \cup {e}, S) = ParentsIn(kept, S)
          BY <4>3 DEF ParentsIn
        <5>2. ASSUME NEW u \in Tasks
              PROVE  Ancestors(u, kept \cup {e}) \subseteq Ancestors(u, kept)
          <6>1. ParentsIn(kept \cup {e}, {u} \cup Ancestors(u, kept)) \subseteq Ancestors(u, kept)
                /\ Ancestors(u, kept) \in SUBSET Tasks
            BY <1>4, <5>1, AncestorsAre, ZenonT(60)
          <6>2. QED
            BY <1>4, <6>1, AncestorsAre, ZenonT(60)
        <5>3. QED
          BY <2>1, <4>1, <5>2 DEF NobodysOwnAncestor
      <4>4. QED
        BY <4>2, <4>3
    <3>5. QED
      BY <3>2, <3>3, <3>4 DEF RelationsInv
  <2>3. relations' \subseteq Relation
    BY <1>4, <2>1
  <2>4. QED
    BY <1>3, <1>5, <2>1, <2>2, <2>3, RelatedRowWritten
<1>6. CASE ~Unchanged(r)
  BY <1>3, <1>6, ConflictKeeps DEF AddRelation
<1>7. CASE Unchanged(r) /\ ~InsertAllowed(e, kept)
  <2>1. UNCHANGED <<project, task, relations, activity, tied>>
    BY <1>1, <1>2, <1>7 DEF AddRelation
  <2>2. QED
    BY <1>3, <2>1, NoRowWritten DEF BoardInv, TypeOK
<1>8. QED
  BY <1>5, <1>6, <1>7

\* removeRelation only takes relations away.
LEMMA RemoveRelationKeeps ==
  ASSUME BoardInv, NEW r \in Requests, RemoveRelation(r)
  PROVE  BoardInv'
<1>1. OfTask(r) /\ Leave(r)
  BY DEF RemoveRelation, At, OfTask
<1>2. CASE Conflict(r)
  BY <1>1, <1>2, ConflictKeeps
<1>3. CASE ~Conflict(r)
  <2>1. PICK gone : /\ Unchanged(r) /\ relations' = relations \ gone
                    /\ task' = Updated(r, task[request[r].task]) /\ Log(r)
                    /\ project' = project /\ tied' = tied
    BY <1>3 DEF RemoveRelation
  <2>2. ASSUME Present' = Present, \A u \in Present : task'[u].project = task[u].project
        PROVE  RelationsInv'
    <3>1. \A e \in relations' : e.source \in Present /\ e.target \in Present
      BY <2>1 DEF BoardInv, RelationsInv, RelationsWithinProject
    <3>2. QED
      BY <2>1, <2>2, <3>1, RelationsStay DEF BoardInv
  <2>3. relations' \subseteq Relation
    BY <2>1 DEF BoardInv, TypeOK
  <2>4. QED
    BY <1>1, <2>1, <2>2, <2>3, RelatedRowWritten
<1>4. QED
  BY <1>2, <1>3

\* The labels and the project of a task that is there.
LEMMA HomeIs ==
  ASSUME BoardInv, NEW t \in Present
  PROVE  /\ t \in Tasks /\ task[t] \in Row /\ task[t].project \in Projects
         /\ project[task[t].project] \in Project /\ project[task[t].project] # None
         /\ task[t].labels \subseteq project[task[t].project].labels
<1>1. t \in Tasks /\ task[t] \in Row
  BY PresentIs DEF BoardInv
<1>2. task[t].project \in Projects
  BY <1>1 DEF Row
<1>3. QED
  BY <1>1, <1>2 DEF BoardInv, TypeOK, LabelsKnown

\* Only projects change, and keep the labels of their tasks.
LEMMA ProjectsChange ==
  ASSUME BoardInv, UNCHANGED <<task, relations, activity, tied, request>>,
         project' \in [Projects -> Project \cup {None}],
         \A t \in Present : /\ project'[task[t].project] # None
                            /\ task[t].labels \subseteq project'[task[t].project].labels
  PROVE  BoardInv'
<1>1. Present' = Present
  BY DEF Present
<1>2. TypeOK' /\ IdentifiersUnique' /\ LabelsKnown'
  BY <1>1 DEF BoardInv, TypeOK, IdentifiersUnique, LabelsKnown
<1>3. RelationsInv'
  BY <1>1, RelationsStay DEF BoardInv, RelationsInv, RelationsWithinProject
<1>4. ActivityInv'
  BY <1>1 DEF BoardInv, ActivityInv, OneActivityPerVersion
<1>5. \A q \in Requests : RequestFits(q)'
  BY RequestsStayFit DEF BoardInv, TypeOK, Ages
<1>6. QED
  BY <1>2, <1>3, <1>4, <1>5 DEF BoardInv

\* A project is archived or reactivated, or learns a label.
LEMMA ProjectEditsKeep ==
  ASSUME BoardInv, NEW p \in Projects,
         \/ \E archived \in BOOLEAN : SetProjectArchived(p, archived)
         \/ \E l \in Labels : AddProjectLabel(p, l)
  PROVE  BoardInv'
<1>1. project[p] \in Project /\ project \in [Projects -> Project \cup {None}] /\ project[p] # None
  BY DEF BoardInv, TypeOK, SetProjectArchived, AddProjectLabel
<1>2. PICK new \in Project : project' = [project EXCEPT ![p] = new] /\ project[p].labels \subseteq new.labels
  <2>1. CASE \E archived \in BOOLEAN : SetProjectArchived(p, archived)
    <3>1. PICK archived \in BOOLEAN : SetProjectArchived(p, archived)
      BY <2>1
    <3>2. PICK new : new = [project[p] EXCEPT !.archived = archived]
      OBVIOUS
    <3>3. new \in Project /\ new.labels = project[p].labels
      BY <1>1, <3>2 DEF Project
    <3>4. QED
      BY <3>1, <3>2, <3>3 DEF SetProjectArchived
  <2>2. CASE \E l \in Labels : AddProjectLabel(p, l)
    <3>1. PICK l \in Labels : AddProjectLabel(p, l)
      BY <2>2
    <3>2. PICK new : new = [project[p] EXCEPT !.labels = project[p].labels \cup {l}]
      OBVIOUS
    <3>3. new \in Project /\ new.labels = project[p].labels \cup {l}
      BY <1>1, <3>2 DEF Project
    <3>4. QED
      BY <3>1, <3>2, <3>3 DEF AddProjectLabel
  <2>3. QED
    BY <2>1, <2>2
<1>3. /\ project' \in [Projects -> Project \cup {None}] /\ project'[p] = new
      /\ \A o \in Projects : o # p => project'[o] = project[o]
  BY <1>1, <1>2
<1>4. \A t \in Present : /\ project'[task[t].project] # None
                         /\ task[t].labels \subseteq project'[task[t].project].labels
  BY <1>2, <1>3, HomeIs, BoardAssumption
<1>5. UNCHANGED <<task, relations, activity, tied, request>>
  BY DEF SetProjectArchived, AddProjectLabel
<1>6. QED
  BY <1>3, <1>4, <1>5, ProjectsChange

\* A label leaves its project and the tasks of the project that have it.
LEMMA DeleteProjectLabelKeeps ==
  ASSUME BoardInv, NEW p \in Projects, NEW l \in Labels, DeleteProjectLabel(p, l)
  PROVE  BoardInv'
<1>1. PICK labelled : labelled = {t \in TasksOf(p) : l \in task[t].labels}
  OBVIOUS
<1>2. /\ project[p] # None
      /\ \A t \in labelled : task[t].version < MaxVersion
      /\ project' = [project EXCEPT ![p].labels = project[p].labels \ {l}]
      /\ task' = [t \in Tasks |-> IF t \in labelled
                    THEN [task[t] EXCEPT !.labels = task[t].labels \ {l}, !.version = task[t].version + 1]
                    ELSE task[t]]
      /\ UNCHANGED <<relations, activity, tied, request>>
  BY <1>1 DEF DeleteProjectLabel
<1>3. \A t \in labelled : t \in Present /\ task[t].project = p /\ t \in Tasks /\ task[t] \in Row
  BY <1>1, HomeIs DEF TasksOf
<1>4. ASSUME NEW t \in labelled
      PROVE  /\ task'[t] \in Row /\ task'[t].labels = task[t].labels \ {l}
             /\ task'[t].version = task[t].version + 1 /\ task'[t].project = p
             /\ task'[t].identifier = task[t].identifier
             /\ task[t].version \in Nat
  <2>1. task[t] \in Row /\ task[t].version \in Nat /\ task[t].version + 1 \in 1..MaxVersion
    <3>1. task[t] \in Row /\ task[t].version \in 1..MaxVersion /\ MaxVersion \in Nat
      BY <1>3, BoardAssumption DEF Row
    <3>2. task[t].version < MaxVersion
      BY <1>2
    <3>3. QED
      BY <3>1, <3>2
  <2>2. PICK v, ls : v = task[t].version + 1 /\ ls = task[t].labels \ {l}
    OBVIOUS
  <2>3. v \in 1..MaxVersion /\ ls \in SUBSET Labels
    BY <2>1, <2>2 DEF Row
  <2>4. task'[t] = [task[t] EXCEPT !.labels = ls, !.version = v]
    BY <1>2, <1>3, <2>2
  <2>5. QED
    BY <1>3, <2>1, <2>2, <2>3, <2>4 DEF Row
<1>5. \A t \in Tasks : t \notin labelled => task'[t] = task[t]
  BY <1>2
<1>6. task' \in [Tasks -> Row \cup {None, Deleted}]
  <2>1. \A t \in Tasks : task'[t] \in Row \cup {None, Deleted}
    BY <1>4, <1>5 DEF BoardInv, TypeOK
  <2>2. task' = [t \in Tasks |-> task'[t]]
    BY <1>2
  <2>3. QED
    BY <2>1, <2>2
<1>7. Present' = Present
  <2>1. \A t \in Tasks : t \in Present' <=> t \in Present
    <3>1. ASSUME NEW t \in Tasks
          PROVE  t \in Present' <=> t \in Present
      <4>1. CASE t \in labelled
        BY <1>3, <1>4, <1>6, <4>1, PresentAfter
      <4>2. CASE t \notin labelled
        BY <1>5, <4>2 DEF Present
      <4>3. QED
        BY <4>1, <4>2
    <3>2. QED
      BY <3>1
  <2>2. QED
    BY <2>1 DEF Present
<1>8. \A t \in Present : /\ task'[t].project = task[t].project
                         /\ task'[t].identifier = task[t].identifier
                         /\ task[t].version <= task'[t].version
  <2>1. ASSUME NEW t \in Present
        PROVE  /\ task'[t].project = task[t].project
               /\ task'[t].identifier = task[t].identifier
               /\ task[t].version <= task'[t].version
    <3>1. CASE t \in labelled
      BY <1>3, <1>4, <3>1
    <3>2. CASE t \notin labelled
      <4>1. task'[t] = task[t] /\ task[t] \in Row
        BY <1>5, <3>2, HomeIs
      <4>2. task[t].version \in Nat
        BY <4>1 DEF Row
      <4>3. QED
        BY <4>1, <4>2
    <3>3. QED
      BY <3>1, <3>2
  <2>2. QED
    BY <2>1
<1>9. project' \in [Projects -> Project \cup {None}] /\ project'[p] # None
      /\ project'[p].labels = project[p].labels \ {l}
      /\ \A o \in Projects : o # p => project'[o] = project[o]
  <2>1. project[p] \in Project /\ project \in [Projects -> Project \cup {None}]
    BY <1>2 DEF BoardInv, TypeOK
  <2>2. PICK new : new = [project[p] EXCEPT !.labels = project[p].labels \ {l}]
    OBVIOUS
  <2>3. new \in Project /\ new.labels = project[p].labels \ {l}
    BY <2>1, <2>2 DEF Project
  <2>4. project' = [project EXCEPT ![p] = new]
    BY <1>2, <2>2
  <2>5. QED
    BY <2>1, <2>3, <2>4, BoardAssumption
<1>10. ASSUME NEW t \in Present
       PROVE  /\ project'[task'[t].project] # None
              /\ task'[t].labels \subseteq project'[task'[t].project].labels
  <2>1. CASE t \in labelled
    <3>1. task'[t].project = p /\ task'[t].labels = task[t].labels \ {l} /\ task[t].project = p
      BY <1>3, <1>4, <2>1
    <3>2. QED
      BY <1>9, <3>1, HomeIs
  <2>2. CASE t \notin labelled
    <3>1. task'[t] = task[t]
      BY <1>5, <2>2, HomeIs
    <3>2. task[t].project = p => l \notin task[t].labels
      BY <1>1, <2>2 DEF TasksOf
    <3>3. QED
      BY <1>9, <3>1, <3>2, HomeIs
  <2>3. QED
    BY <2>1, <2>2
<1>11. TypeOK' /\ LabelsKnown'
  BY <1>2, <1>6, <1>7, <1>9, <1>10 DEF BoardInv, TypeOK, LabelsKnown
<1>12. IdentifiersUnique'
  BY <1>7, <1>8, IdentifiersStay DEF BoardInv
<1>13. RelationsInv'
  BY <1>2, <1>7, <1>8, RelationsStay DEF BoardInv, RelationsInv, RelationsWithinProject
<1>14. ActivityInv'
  <2>1. \A t \in Tasks : task'[t] = None => task[t] = None
    BY <1>4, <1>5, BoardAssumption
  <2>2. QED
    BY <1>2, <1>6, <1>7, <1>8, <2>1, ActivityStays DEF BoardInv
<1>15. \A t \in Tasks : Ages(t)
  <2>1. ASSUME NEW t \in labelled
        PROVE  t \in Present /\ t \in Present' /\ task[t].version < task'[t].version
    BY <1>3, <1>4, <1>7
  <2>2. QED
    BY <1>5, <2>1 DEF Ages
<1>16. \A q \in Requests : RequestFits(q)'
  BY <1>2, <1>6, <1>15, RequestsStayFit
<1>17. QED
  BY <1>11, <1>12, <1>13, <1>14, <1>16 DEF BoardInv

\* A project goes only if it has no task.
LEMMA DeleteProjectKeeps ==
  ASSUME BoardInv, NEW r \in Requests, DeleteProject(r)
  PROVE  BoardInv'
<1>1. PICK p : p = request[r].project
  OBVIOUS
<1>2. /\ project' = IF TasksOf(p) = {} THEN [project EXCEPT ![p] = None] ELSE project
      /\ Leave(r) /\ UNCHANGED <<task, relations, activity, tied>>
  BY <1>1 DEF DeleteProject
<1>3. project \in [Projects -> Project \cup {None}]
  BY DEF BoardInv, TypeOK
<1>4. project' \in [Projects -> Project \cup {None}]
  BY <1>2, <1>3
<1>5. ASSUME NEW t \in Present
      PROVE  project'[task[t].project] = project[task[t].project]
  <2>1. CASE TasksOf(p) = {}
    <3>1. task[t].project # p
      BY <2>1 DEF TasksOf
    <3>2. task[t].project \in Projects
      BY HomeIs
    <3>3. QED
      BY <1>2, <1>3, <2>1, <3>1, <3>2
  <2>2. QED
    BY <1>2, <2>1
<1>6. \A t \in Present : /\ project'[task[t].project] # None
                         /\ project[task[t].project].labels \subseteq project'[task[t].project].labels
  BY <1>5, HomeIs
<1>7. QED
  BY <1>2, <1>4, <1>6, NoRowWritten

\* Reading changes nothing but the request.
LEMMA EnterKeeps ==
  ASSUME BoardInv, NEW r \in Requests, NEW q \in Request, Enter(r, q), RequestFits(r)'
  PROVE  BoardInv'
<1>1. /\ request' \in [Requests -> Request \cup {None}]
      /\ \A o \in Requests : o # r => request'[o] = request[o]
      /\ UNCHANGED <<project, task, relations, activity, tied>>
  BY DEF Enter, BoardInv, TypeOK
<1>2. Present' = Present
  BY <1>1 DEF Present
<1>3. TypeOK' /\ IdentifiersUnique' /\ LabelsKnown'
  BY <1>1, <1>2 DEF BoardInv, TypeOK, IdentifiersUnique, LabelsKnown
<1>4. RelationsInv'
  BY <1>1, <1>2, RelationsStay DEF BoardInv, RelationsInv, RelationsWithinProject
<1>5. ActivityInv'
  BY <1>1, <1>2 DEF BoardInv, ActivityInv, OneActivityPerVersion
<1>6. \A o \in Requests : o # r => RequestFits(o)'
  BY <1>1, RequestsStayFit DEF BoardInv, TypeOK, Ages
<1>7. QED
  BY <1>3, <1>4, <1>5, <1>6 DEF BoardInv

\* A request that has just read its task fits.
LEMMA ReadFits ==
  ASSUME BoardInv, NEW r \in Requests, NEW q, q \in Request, Enter(r, q),
         q.task \in Present, q.seen = task[q.task].version,
         q.op = "update" => /\ q.relabels \/ q.labels = task[q.task].labels
                            /\ q.moves \/ q.project = task[q.task].project
  PROVE  BoardInv'
<1>1. request'[r] = q /\ task' = task /\ Present' = Present
  BY DEF Enter, BoardInv, TypeOK, Present
<1>2. task[q.task] \in Row
  BY HomeIs
<1>3. task[q.task] # None /\ task[q.task].version \in Nat
  BY <1>2, BoardAssumption DEF Row
<1>4. q.seen <= task[q.task].version
  BY <1>3
<1>5. RequestFits(r)'
  BY <1>1, <1>3, <1>4 DEF RequestFits
<1>6. QED
  BY <1>5, EnterKeeps

\* The version a request reads is not the last one.
LEMMA ReadingIs ==
  ASSUME BoardInv, NEW t \in Tasks, Reading(t)
  PROVE  /\ t \in Present /\ task[t] \in Row
         /\ task[t].version \in 1..(MaxVersion - 1)
<1>1. t \in Present /\ task[t] \in Row /\ task[t].version < MaxVersion
  BY HomeIs DEF Reading
<1>2. task[t].version \in 1..MaxVersion /\ MaxVersion \in Nat
  BY <1>1, BoardAssumption DEF Row
<1>3. QED
  BY <1>1, <1>2

\* What is read before a project is deleted or a task created.
LEMMA ProjectReadsKeep ==
  ASSUME BoardInv, NEW r \in Requests, NEW p \in Projects,
         DeleteProjectReads(r, p) \/ \E labels \in SUBSET Labels : CreateTaskReads(r, p, labels)
  PROVE  BoardInv'
<1>1. CASE DeleteProjectReads(r, p)
  <2>1. PICK q : q = [op |-> "deleteProject", project |-> p]
    OBVIOUS
  <2>2. q \in Request /\ q.op = "deleteProject"
    BY <2>1 DEF Request
  <2>3. Enter(r, q)
    BY <1>1, <2>1 DEF DeleteProjectReads
  <2>4. RequestFits(r)'
    BY <2>2, <2>3 DEF Enter, RequestFits, BoardInv, TypeOK
  <2>5. QED
    BY <2>2, <2>3, <2>4, EnterKeeps
<1>2. ASSUME NEW labels \in SUBSET Labels, CreateTaskReads(r, p, labels)
      PROVE  BoardInv'
  <2>1. Prefix(p) \in Projects
    <3>1. CASE TasksOf(p) = {}
      BY <3>1 DEF Prefix
    <3>2. CASE TasksOf(p) # {}
      <4>1. TasksOf(p) \subseteq Nat
        BY HomeIs, BoardAssumption DEF TasksOf
      <4>2. Min(TasksOf(p)) \in TasksOf(p)
        BY <3>2, <4>1, MinExists
      <4>3. task[Min(TasksOf(p))] \in Row
        BY <4>2, HomeIs DEF TasksOf
      <4>4. QED
        BY <3>2, <4>3 DEF Prefix, Row
    <3>3. QED
      BY <3>1, <3>2
  <2>2. PICK q, prefix : /\ q = [op |-> "create", project |-> p, labels |-> labels, prefix |-> prefix]
                         /\ prefix = Prefix(p)
    OBVIOUS
  <2>3. q \in Request /\ q.op = "create"
    BY <2>1, <2>2 DEF Request
  <2>4. Enter(r, q)
    BY <1>2, <2>2 DEF CreateTaskReads
  <2>5. RequestFits(r)'
    BY <2>3, <2>4 DEF Enter, RequestFits, BoardInv, TypeOK
  <2>6. QED
    BY <2>3, <2>4, <2>5, EnterKeeps
<1>3. QED
  BY <1>1, <1>2

\* What is read before a task is changed.
LEMMA UpdateReadsKeep ==
  ASSUME BoardInv, NEW r \in Requests, NEW t \in Tasks, NEW to \in Projects,
         NEW labels \in SUBSET Labels, NEW fields \in BOOLEAN, UpdateTaskReads(r, t, to, labels, fields)
  PROVE  BoardInv'
<1>1. PICK relabels \in BOOLEAN, moves \in BOOLEAN :
        relabels = (labels # task[t].labels) /\ moves = (to # task[t].project)
  OBVIOUS
<1>2. PICK logged \in BOOLEAN : logged = (fields \/ moves \/ relabels)
  OBVIOUS
<1>3. PICK q : q = [op |-> "update", task |-> t, seen |-> task[t].version, project |-> to,
               labels |-> labels, relabels |-> relabels, moves |-> moves, logged |-> logged]
  OBVIOUS
<1>4. Reading(t) /\ Enter(r, q)
  BY <1>1, <1>2, <1>3 DEF UpdateTaskReads
<1>5. t \in Present /\ task[t].version \in 1..(MaxVersion - 1)
  BY <1>4, ReadingIs
<1>6. q \in Request
  BY <1>3, <1>5 DEF Request
<1>7. QED
  BY <1>1, <1>3, <1>4, <1>5, <1>6, ReadFits

\* What is read before a task is moved, archived, restored or deleted.
LEMMA TaskReadsKeep ==
  ASSUME BoardInv, NEW r \in Requests, NEW t \in Tasks, NEW logged \in BOOLEAN,
         NEW op \in {"move", "archive", "restore", "delete"}, TaskReads(r, op, t, logged)
  PROVE  BoardInv'
<1>1. PICK q : q = [op |-> op, task |-> t, seen |-> task[t].version, logged |-> logged]
  OBVIOUS
<1>2. Reading(t) /\ Enter(r, q)
  BY <1>1 DEF TaskReads
<1>3. t \in Present /\ task[t].version \in 1..(MaxVersion - 1)
  BY <1>2, ReadingIs
<1>4. q \in Request /\ q.op # "update"
  BY <1>1, <1>3 DEF Request
<1>5. QED
  BY <1>1, <1>2, <1>3, <1>4, ReadFits

\* Both ends of a relation are tasks.
LEMMA EndpointsAre ==
  ASSUME NEW type \in RelationTypes, NEW t \in Tasks, NEW other \in Tasks,
         NEW origin \in {"manual", "mention"}
  PROVE  Endpoints(type, t, other, origin) \in Relation
<1>1. {t, other} \subseteq Nat /\ {t, other} # {}
  BY BoardAssumption
<1>2. IsFiniteSet({t, other})
  BY BoardAssumption, FS_Subset
<1>3. Min({t, other}) \in {t, other} /\ Max({t, other}) \in {t, other}
  BY <1>1, <1>2, MinExists, MaxExists
<1>4. PICK a, b : a = Min({t, other}) /\ b = Max({t, other})
  OBVIOUS
<1>5. a \in Tasks /\ b \in Tasks
  BY <1>3, <1>4
<1>6. QED
  BY <1>4, <1>5 DEF Endpoints, Relation

\* What is read before a relation is added or removed.
LEMMA RelationReadsKeep ==
  ASSUME BoardInv, NEW r \in Requests, NEW t \in Tasks, NEW other \in Tasks, NEW type \in RelationTypes,
         \/ \E origin \in {"manual", "mention"} : AddRelationReads(r, type, t, other, origin)
         \/ \E mention \in BOOLEAN : RemoveRelationReads(r, type, t, other, mention)
  PROVE  BoardInv'
<1>1. t \in Present /\ task[t].version \in 1..(MaxVersion - 1)
  BY ReadingIs DEF AddRelationReads, RemoveRelationReads, RelationTasks
<1>2. ASSUME NEW origin \in {"manual", "mention"}, AddRelationReads(r, type, t, other, origin)
      PROVE  BoardInv'
  <2>1. PICK replaces \in BOOLEAN : replaces = (type = "parent" /\ ParentOf(t) # {})
    OBVIOUS
  <2>2. PICK e \in Relation : e = Endpoints(type, t, other, origin)
    BY EndpointsAre
  <2>3. PICK q : q = [op |-> "addRelation", task |-> t, seen |-> task[t].version,
                      relation |-> e, logged |-> TRUE, replaces |-> replaces]
    OBVIOUS
  <2>4. Enter(r, q)
    BY <1>2, <2>1, <2>2, <2>3 DEF AddRelationReads
  <2>5. q \in Request /\ q.op # "update"
    BY <1>1, <2>3 DEF Request
  <2>6. QED
    BY <1>1, <2>3, <2>4, <2>5, ReadFits
<1>3. ASSUME NEW mention \in BOOLEAN, RemoveRelationReads(r, type, t, other, mention)
      PROVE  BoardInv'
  <2>1. PICK e \in SameEnds(Endpoints(type, t, other, "manual")) :
          Enter(r, [op |-> "removeRelation", task |-> t, seen |-> task[t].version,
                    relation |-> e, logged |-> TRUE, mention |-> mention])
    BY <1>3 DEF RemoveRelationReads
  <2>2. e \in Relation
    BY DEF SameEnds, BoardInv, TypeOK
  <2>3. PICK q : q = [op |-> "removeRelation", task |-> t, seen |-> task[t].version,
                      relation |-> e, logged |-> TRUE, mention |-> mention]
    OBVIOUS
  <2>4. q \in Request /\ q.op # "update"
    BY <1>1, <2>2, <2>3 DEF Request
  <2>5. QED
    BY <1>1, <2>1, <2>3, <2>4, ReadFits
<1>4. QED
  BY <1>2, <1>3

-----------------------------------------------------------------------------
(* CloudBoard: the theorems                                                *)

\* Two tasks without relations satisfy the invariant.
LEMMA BoardInvInit == Init => BoardInv
<1> SUFFICES ASSUME Init
             PROVE  BoardInv
  OBVIOUS
<1>1. PICK first \in Projects \ Temporary, used \in SUBSET Labels :
    /\ project = [p \in Projects |->
                    [archived |-> FALSE, labels |-> IF p = first THEN Labels ELSE {},
                     next |-> IF p = first THEN 3 ELSE 1]]
    /\ task = [t \in Tasks |->
                 IF t > 2 THEN None
                 ELSE [project |-> first, labels |-> IF t = 1 THEN used ELSE {},
                       archived |-> FALSE, version |-> 1, identifier |-> <<first, t>>]]
    /\ relations = {}
    /\ activity = [t \in Tasks |-> <<>>]
    /\ tied = {}
    /\ request = [r \in Requests |-> None]
  BY DEF Init
<1>2. \A p \in Projects : project[p] \in Project /\ project[p] # None
  <2>1. \A p \in Projects : project[p] \in Project
    BY <1>1 DEF Project
  <2>2. QED
    BY <2>1, BoardAssumption
<1>3. \A t \in Tasks : t > 2 => task[t] = None
  BY <1>1
<1>4. ASSUME NEW t \in Tasks, ~(t > 2)
      PROVE  /\ task[t] \in Row /\ task[t].project = first /\ task[t].labels \subseteq Labels
             /\ task[t].identifier = <<first, t>>
  <2>1. t \in Nat /\ 1 \in 1..MaxVersion
    BY BoardAssumption
  <2>2. PICK ls \in SUBSET Labels : ls = IF t = 1 THEN used ELSE {}
    OBVIOUS
  <2>3. task[t] = [project |-> first, labels |-> ls,
                   archived |-> FALSE, version |-> 1, identifier |-> <<first, t>>]
    BY <1>1, <1>4, <2>2
  <2>4. QED
    BY <2>1, <2>3 DEF Row
<1>5. \A t \in Present : /\ t \in Tasks /\ task[t].project = first /\ task[t].labels \subseteq Labels
                         /\ task[t].identifier = <<first, t>>
  BY <1>3, <1>4 DEF Present
<1>6. \A t \in Tasks : activity[t] = <<>> /\ <<>> \in Seq(1..MaxVersion)
  BY <1>1, EmptySeq
<1>7. TypeOK
  <2>1. task \in [Tasks -> Row \cup {None, Deleted}]
    <3>1. \A t \in Tasks : task[t] \in Row \cup {None, Deleted}
      BY <1>3, <1>4
    <3>2. task = [t \in Tasks |-> task[t]]
      BY <1>1
    <3>3. QED
      BY <3>1, <3>2
  <2>2. project \in [Projects -> Project \cup {None}]
    <3>1. project = [p \in Projects |-> project[p]]
      BY <1>1
    <3>2. QED
      BY <1>2, <3>1
  <2>3. activity \in [Tasks -> Seq(1..MaxVersion)] /\ request \in [Requests -> Request \cup {None}]
    BY <1>1, <1>6
  <2>4. QED
    BY <1>1, <1>2, <1>5, <2>1, <2>2, <2>3 DEF TypeOK
<1>8. IdentifiersUnique
  BY <1>5 DEF IdentifiersUnique
<1>9. LabelsKnown
  BY <1>1, <1>5 DEF LabelsKnown
<1>10. RelationsInv
  <2>1. ASSUME NEW t \in Tasks
        PROVE  t \notin Ancestors(t, relations)
    <3>1. ParentsIn(relations, {t} \cup {}) = {}
      BY <1>1 DEF ParentsIn
    <3>2. Ancestors(t, relations) \subseteq {}
      BY <1>1, <3>1, AncestorsAre
    <3>3. QED
      BY <3>2
  <2>2. QED
    BY <1>1, <2>1 DEF RelationsInv, RelationsWithinProject, OneParent, NobodysOwnAncestor
<1>11. ActivityInv
  <2>1. \A t \in Tasks : DOMAIN activity[t] = {}
    BY <1>6
  <2>2. QED
    BY <1>5, <1>6, <2>1 DEF ActivityInv, OneActivityPerVersion
<1>12. \A r \in Requests : RequestFits(r)
  BY <1>1 DEF RequestFits
<1>13. QED
  BY <1>7, <1>8, <1>9, <1>10, <1>11, <1>12 DEF BoardInv

\* Every read and every batch keeps it.
LEMMA BoardInvStep == BoardInv /\ [Next]_vars => BoardInv'
<1> SUFFICES ASSUME BoardInv, [Next]_vars
             PROVE  BoardInv'
  OBVIOUS
<1>1. CASE ProjectNext
  <2>1. PICK p \in Projects :
          \/ \E archived \in BOOLEAN : SetProjectArchived(p, archived)
          \/ \E l \in Labels : AddProjectLabel(p, l) \/ DeleteProjectLabel(p, l)
          \/ \E r \in Requests : \/ DeleteProjectReads(r, p)
                                 \/ \E labels \in SUBSET Labels : CreateTaskReads(r, p, labels)
    BY <1>1 DEF ProjectNext
  <2>2. CASE \/ \E archived \in BOOLEAN : SetProjectArchived(p, archived)
             \/ \E l \in Labels : AddProjectLabel(p, l)
    BY <2>2, ProjectEditsKeep
  <2>3. CASE \E l \in Labels : DeleteProjectLabel(p, l)
    BY <2>3, DeleteProjectLabelKeeps
  <2>4. CASE \E r \in Requests : \/ DeleteProjectReads(r, p)
                                 \/ \E labels \in SUBSET Labels : CreateTaskReads(r, p, labels)
    BY <2>4, ProjectReadsKeep
  <2>5. QED
    BY <2>1, <2>2, <2>3, <2>4
<1>2. CASE ReadNext
  <2>1. PICK r \in Requests, t \in Tasks :
    \/ \E p \in Projects, labels \in SUBSET Labels, fields \in BOOLEAN :
         UpdateTaskReads(r, t, p, labels, fields)
    \/ \E op \in {"archive", "restore", "delete"} : TaskReads(r, op, t, TRUE)
    \/ \E restaged \in BOOLEAN : TaskReads(r, "move", t, restaged)
    \/ \E type \in RelationTypes, other \in Tasks :
         \/ \E origin \in {"manual", "mention"} : AddRelationReads(r, type, t, other, origin)
         \/ \E mention \in BOOLEAN : RemoveRelationReads(r, type, t, other, mention)
    BY <1>2 DEF ReadNext, Present
  <2>2. CASE \E p \in Projects, labels \in SUBSET Labels, fields \in BOOLEAN :
               UpdateTaskReads(r, t, p, labels, fields)
    BY <2>2, UpdateReadsKeep
  <2>3. CASE \/ \E op \in {"archive", "restore", "delete"} : TaskReads(r, op, t, TRUE)
             \/ \E restaged \in BOOLEAN : TaskReads(r, "move", t, restaged)
    BY <2>3, TaskReadsKeep
  <2>4. CASE \E type \in RelationTypes, other \in Tasks :
         \/ \E origin \in {"manual", "mention"} : AddRelationReads(r, type, t, other, origin)
         \/ \E mention \in BOOLEAN : RemoveRelationReads(r, type, t, other, mention)
    BY <2>4, RelationReadsKeep
  <2>5. QED
    BY <2>1, <2>2, <2>3, <2>4
<1>3. CASE WriteNext
  <2>1. PICK r \in Requests :
          \/ \E t \in Fresh : CreateTask(r, t)
          \/ DeleteProject(r) \/ UpdateTask(r)
          \/ MoveTask(r) \/ ArchiveTask(r) \/ RestoreTask(r)
          \/ DeleteArchivedTask(r) \/ AddRelation(r) \/ RemoveRelation(r)
    BY <1>3 DEF WriteNext
  <2>2. CASE \E t \in Fresh : CreateTask(r, t)
    BY <2>2, CreateTaskKeeps
  <2>3. CASE DeleteProject(r)
    BY <2>3, DeleteProjectKeeps
  <2>4. CASE UpdateTask(r)
    BY <2>4, UpdateTaskKeeps
  <2>5. CASE MoveTask(r) \/ ArchiveTask(r) \/ RestoreTask(r)
    BY <2>5, RowUpdatesKeep
  <2>6. CASE DeleteArchivedTask(r)
    BY <2>6, DeleteArchivedTaskKeeps
  <2>7. CASE AddRelation(r)
    BY <2>7, AddRelationKeeps
  <2>8. CASE RemoveRelation(r)
    BY <2>8, RemoveRelationKeeps
  <2>9. QED
    BY <2>1, <2>2, <2>3, <2>4, <2>5, <2>6, <2>7, <2>8
<1>4. CASE UNCHANGED vars
  <2>1. UNCHANGED <<project, task, relations, activity, tied, request>>
    BY <1>4 DEF vars
  <2>2. project' \in [Projects -> Project \cup {None}]
        /\ \A t \in Present : /\ project'[task[t].project] # None
                              /\ task[t].labels \subseteq project'[task[t].project].labels
    BY <2>1 DEF BoardInv, TypeOK, LabelsKnown
  <2>3. QED
    BY <2>1, <2>2, ProjectsChange
<1>5. QED
  BY <1>1, <1>2, <1>3, <1>4 DEF Next

\* The board keeps its invariant, however many requests are under way.
THEOREM BoardInvariant == Spec => []BoardInv
<1>1. Init => BoardInv
  BY BoardInvInit
<1>2. BoardInv /\ [Next]_vars => BoardInv'
  BY BoardInvStep
<1>3. QED
  BY <1>1, <1>2, PTL DEF Spec

\* Identifiers stay unique, projects know the labels of their tasks and every change is
\* told of once, though each batch is written long after its reads
\* (cloud/src/index.mjs); it is told of again only by a request that has found its
\* version written by another in the same millisecond.
THEOREM BoardIsConsistent == Spec => []BoardConsistent
<1>1. BoardInv => BoardConsistent
  BY DEF BoardInv, ActivityInv, BoardConsistent
<1>2. QED
  BY <1>1, BoardInvariant, PTL

\* Relations stay within one project and parents form a forest, whatever other requests
\* have written between the reads of addRelation or updateTask and their batches.
THEOREM RelationsStaySound == Spec => []RelationsSound
<1>1. BoardInv => RelationsSound
  <2> SUFFICES ASSUME BoardInv
               PROVE  RelationsSound
    OBVIOUS
  <2>1. RelationsWithinProject /\ OneParent /\ NobodysOwnAncestor
    BY DEF BoardInv, RelationsInv
  <2>2. ASSUME NEW t \in Tasks
        PROVE  Cardinality(ParentOf(t)) <= 1
    <3>1. \A x, y \in ParentOf(t) : x = y
      BY <2>1 DEF ParentOf, OneParent, IsParent
    <3>2. QED
      BY <3>1, AtMostOne
  <2>3. QED
    BY <2>1, <2>2 DEF RelationsSound, ParentsFormForest, NobodysOwnAncestor
<1>2. QED
  BY <1>1, BoardInvariant, PTL

\* A label that a project learns in a step of a request is that of a task of the project,
\* or of the request, which takes the row of another for its own.
LearnedFromTasks ==
  \A p \in Projects : project[p] # None /\ project'[p] # None /\ request' # request =>
    \A l \in project'[p].labels \ project[p].labels :
      \/ \E t \in Present' : task'[t].project = p /\ l \in task'[t].labels
      \/ \E r \in Requests : /\ TakesForItsOwn(r)
                            /\ p = request[r].project /\ l \in request[r].labels

\* A task is created in a project that is there and not archived.
ActiveWhenCreated ==
  \A t \in Tasks : task[t] = None /\ t \in Present' =>
    project[task'[t].project] # None /\ ~project[task'[t].project].archived

\* Steps that create no task and teach no project anything guard both.
LEMMA NothingToGuard ==
  ASSUME \A t \in Tasks : task[t] = None => task'[t] \in {None, Deleted},
         \/ request' = request
         \/ \A p \in Projects : project'[p] = project[p] \/ project'[p] = None
  PROVE  LearnedFromTasks /\ ActiveWhenCreated
<1>1. LearnedFromTasks
  BY DEF LearnedFromTasks
<1>2. ActiveWhenCreated
  BY DEF ActiveWhenCreated, Present
<1>3. QED
  BY <1>1, <1>2

\* A row that is written belongs to no task that was not there.
LEMMA WriteCreatesNothing ==
  ASSUME BoardInv, NEW r \in Requests, OfTask(r), NEW row, task' \in {task, Updated(r, row)},
         Unchanged(r) \/ task' = task
  PROVE  \A t \in Tasks : task[t] = None => task'[t] \in {None, Deleted}
<1>1. CASE task' = task
  BY <1>1
<1>2. CASE Unchanged(r) /\ task' = Updated(r, row)
  <2>1. task[request[r].task] # None
    BY <1>2 DEF Unchanged, Present
  <2>2. \A t \in Tasks : t # request[r].task => task'[t] = task[t]
    BY <1>2 DEF Updated, BoardInv, TypeOK
  <2>3. QED
    BY <2>1, <2>2
<1>3. QED
  BY <1>1, <1>2

\* createTask looks at the project in its batch.
LEMMA CreateTaskGuarded ==
  ASSUME BoardInv, NEW r \in Requests, NEW t \in Fresh, CreateTask(r, t)
  PROVE  LearnedFromTasks /\ ActiveWhenCreated
<1>1. PICK p : p = request[r].project
  OBVIOUS
<1>2. CASE project[p] # None /\ ~project[p].archived
  <2>1. /\ p \in Projects /\ t \in Tasks
        /\ task'[t].project = p /\ task'[t].labels = request[r].labels
        /\ \A u \in Tasks : u # t => task'[u] = task[u]
        /\ Present' = Present \cup {t}
        /\ project'[p].labels = project[p].labels \cup request[r].labels
        /\ \A o \in Projects : o # p => project'[o] = project[o]
    BY <1>1, <1>2, CreateIs
  <2>2. LearnedFromTasks
    BY <2>1 DEF LearnedFromTasks
  <2>3. ActiveWhenCreated
    BY <1>2, <2>1 DEF ActiveWhenCreated, Present
  <2>4. QED
    BY <2>2, <2>3
<1>3. CASE ~(project[p] # None /\ ~project[p].archived)
  <2>1. task' = task /\ project' = project
    BY <1>1, <1>3 DEF CreateTask
  <2>2. QED
    BY <2>1, NothingToGuard
<1>4. QED
  BY <1>2, <1>3

\* updateTask tells the destination only labels it writes to the row as well, unless it
\* takes the row of another request for its own.
LEMMA UpdateTaskGuarded ==
  ASSUME BoardInv, NEW r \in Requests, UpdateTask(r)
  PROVE  LearnedFromTasks /\ ActiveWhenCreated
<1>1. PICK t, to : t = request[r].task /\ to = request[r].project
  OBVIOUS
<1>2. OfTask(r) /\ request[r].op = "update"
  BY UpdateIs
<1>3. ASSUME Unchanged(r), Learns(r), NEW row \in Row, task' = Updated(r, row),
             row.version = task[t].version, row.identifier = task[t].identifier,
             row.project = to, row.labels = request[r].labels
      PROVE  LearnedFromTasks /\ ActiveWhenCreated
  <2>1. /\ \A p \in Projects : project[p] # None =>
             project'[p].labels = project[p].labels \cup LabelsLearned(p, r)
    BY <1>2, <1>3, LearnsIs
  <2>2. /\ t \in Present' /\ t \in Tasks
        /\ task'[t].project = to /\ task'[t].labels = request[r].labels
    BY <1>1, <1>2, <1>3, RowWritten
  <2>3. LearnedFromTasks
    BY <1>1, <2>1, <2>2 DEF LearnedFromTasks, LabelsLearned
  <2>4. \A u \in Tasks : task[u] = None => task'[u] \in {None, Deleted}
    BY <1>2, <1>3, WriteCreatesNothing
  <2>5. ActiveWhenCreated
    BY <2>4 DEF ActiveWhenCreated, Present
  <2>6. QED
    BY <2>3, <2>5
<1>4. CASE task' = task /\ project' = project
  BY <1>4, NothingToGuard
<1>5. ASSUME task' = task, Learns(r), TakesAnothers(r)
      PROVE  LearnedFromTasks /\ ActiveWhenCreated
  <2>1. \A p \in Projects : project[p] # None =>
          project'[p].labels = project[p].labels \cup LabelsLearned(p, r)
    BY <1>2, <1>5, LearnsIs
  <2>2. TakesForItsOwn(r)
    <3>1. request'[r] = None /\ At(r, "update")
      BY <1>2, UpdateIs DEF Leave, BoardInv, TypeOK, OfTask, At
    <3>2. QED
      BY <1>5, <3>1 DEF TakesForItsOwn, TakesAnothers
  <2>3. LearnedFromTasks
    BY <2>1, <2>2 DEF LearnedFromTasks, LabelsLearned
  <2>4. QED
    BY <1>5, <2>3 DEF ActiveWhenCreated, Present
<1>6. QED
  <2>1. \/ /\ Unchanged(r) /\ Learns(r)
           /\ \E row \in Row : /\ task' = Updated(r, row)
                               /\ row.version = task[t].version /\ row.identifier = task[t].identifier
                               /\ row.project = to /\ row.labels = request[r].labels
        \/ task' = task /\ project' = project
        \/ task' = task /\ Learns(r) /\ TakesAnothers(r)
    BY <1>1, UpdateIs
  <2>2. QED
    BY <1>3, <1>4, <1>5, <2>1

\* So does every other step.
LEMMA StepsAreGuarded ==
  ASSUME BoardInv, Next
  PROVE  LearnedFromTasks /\ ActiveWhenCreated
<1>1. CASE ProjectNext
  <2>1. PICK p \in Projects :
          \/ \E archived \in BOOLEAN : SetProjectArchived(p, archived)
          \/ \E l \in Labels : AddProjectLabel(p, l) \/ DeleteProjectLabel(p, l)
          \/ \E r \in Requests : \/ DeleteProjectReads(r, p)
                                 \/ \E labels \in SUBSET Labels : CreateTaskReads(r, p, labels)
    BY <1>1 DEF ProjectNext
  <2>2. CASE \E l \in Labels : DeleteProjectLabel(p, l)
    <3>1. PICK l \in Labels : DeleteProjectLabel(p, l)
      BY <2>2
    <3>2. request' = request
      BY <3>1 DEF DeleteProjectLabel
    <3>3. \A t \in Tasks : task[t] = None => task'[t] = task[t]
      BY <3>1 DEF DeleteProjectLabel, TasksOf, Present
    <3>4. QED
      BY <3>2, <3>3, NothingToGuard
  <2>3. CASE \/ \E archived \in BOOLEAN : SetProjectArchived(p, archived)
             \/ \E l \in Labels : AddProjectLabel(p, l)
    <3>1. task' = task /\ request' = request
      BY <2>3 DEF SetProjectArchived, AddProjectLabel
    <3>2. QED
      BY <3>1, NothingToGuard
  <2>4. CASE \E r \in Requests : \/ DeleteProjectReads(r, p)
                                 \/ \E labels \in SUBSET Labels : CreateTaskReads(r, p, labels)
    <3>1. task' = task /\ project' = project
      BY <2>4 DEF DeleteProjectReads, CreateTaskReads, Enter
    <3>2. QED
      BY <3>1, NothingToGuard
  <2>5. QED
    BY <2>1, <2>2, <2>3, <2>4
<1>2. CASE ReadNext
  <2>1. task' = task /\ project' = project
    BY <1>2 DEF ReadNext, UpdateTaskReads, TaskReads, AddRelationReads, RemoveRelationReads, Enter
  <2>2. QED
    BY <2>1, NothingToGuard
<1>3. CASE WriteNext
  <2>1. PICK r \in Requests :
          \/ \E t \in Fresh : CreateTask(r, t)
          \/ DeleteProject(r) \/ UpdateTask(r)
          \/ MoveTask(r) \/ ArchiveTask(r) \/ RestoreTask(r)
          \/ DeleteArchivedTask(r) \/ AddRelation(r) \/ RemoveRelation(r)
    BY <1>3 DEF WriteNext
  <2>2. CASE \E t \in Fresh : CreateTask(r, t)
    BY <2>2, CreateTaskGuarded
  <2>3. CASE UpdateTask(r)
    BY <2>3, UpdateTaskGuarded
  <2>4. CASE DeleteProject(r)
    <3>1. task' = task
      BY <2>4 DEF DeleteProject
    <3>2. \A p \in Projects : project'[p] = project[p] \/ project'[p] = None
      BY <2>4 DEF DeleteProject, BoardInv, TypeOK
    <3>3. QED
      BY <3>1, <3>2, NothingToGuard
  <2>5. CASE MoveTask(r) \/ ArchiveTask(r) \/ RestoreTask(r) \/ AddRelation(r) \/ RemoveRelation(r)
    <3>1. OfTask(r)
      BY <2>5 DEF MoveTask, ArchiveTask, RestoreTask, UpdateRow, AddRelation, RemoveRelation, At, OfTask
    <3>2. /\ project' = project
          /\ \/ task' = task
             \/ Unchanged(r) /\ \E row : task' = Updated(r, row)
      BY <2>5 DEF MoveTask, ArchiveTask, RestoreTask, UpdateRow, AddRelation, RemoveRelation, Conflict
    <3>3. \A t \in Tasks : task[t] = None => task'[t] \in {None, Deleted}
      BY <3>1, <3>2, WriteCreatesNothing
    <3>4. QED
      BY <3>2, <3>3, NothingToGuard
  <2>6. CASE DeleteArchivedTask(r)
    <3>1. project' = project
      BY <2>6 DEF DeleteArchivedTask
    <3>2. \A t \in Tasks : task'[t] = task[t] \/ task'[t] = Deleted
      BY <2>6 DEF DeleteArchivedTask, BoardInv, TypeOK
    <3>3. QED
      BY <3>1, <3>2, NothingToGuard
  <2>7. QED
    BY <2>1, <2>2, <2>3, <2>4, <2>5, <2>6
<1>4. QED
  BY <1>1, <1>2, <1>3 DEF Next

\* A label that was deleted, or a project that was archived, between the reads of a
\* request and its batch does not come back and gets no task; a label does only if the
\* request finds its version written by another in the same millisecond.
THEOREM ProjectsStayGuarded == Spec => ProjectsGuarded
<1>1. ASSUME BoardInv, [Next]_vars
      PROVE  [LearnedFromTasks]_vars /\ [ActiveWhenCreated]_vars
  BY <1>1, StepsAreGuarded
<1>2. Spec => [][LearnedFromTasks]_vars /\ [][ActiveWhenCreated]_vars
  BY <1>1, BoardInvariant, PTL DEF Spec
<1>3. QED
  BY <1>2 DEF ProjectsGuarded, LabelsComeWithTasks, CreatedInActiveProject, LearnedFromTasks,
      ActiveWhenCreated
-----------------------------------------------------------------------------
(* AutomationPolicy: the inductive invariant                               *)

Record == [version : Nat, enabled : BOOLEAN, aware : BOOLEAN, quota : Quotas]
Jobs == [by : {"update", "list", "timer", "restore"}, record : Nat, version : Nat]
Works == {NoWork} \cup [at : {"check", "persist"}, record : Nat]
         \cup [at : {"list", "apply", "applied"}, record : Nat, todo : BOOLEAN, quota : Quotas,
               status : {"none", "PAUSED", "ACTIVE"}]
Stored == Policy \cup {NoPolicy}
Writes == [data : Stored, by : Nat]

PolicyTypes ==
  /\ queued \in Options \cup {NoPolicy} /\ wanted \in Options \cup {NoPolicy}
  /\ rec \in Seq(Record)
  /\ updates \in [DOMAIN updates -> [before : Nat, at : {"persist", "queued", "undo"}]]
  /\ jobs \in Seq(Jobs) /\ work \in Works
  /\ writes \in Seq(Writes) /\ stored \in Stored
  /\ timer \in Nat /\ restoring \in BOOLEAN /\ broken \in BOOLEAN
  /\ item \in {"none", "PAUSED", "ACTIVE"} /\ byCodex \in BOOLEAN

IdsAreKnown ==
  /\ current \in 0..Len(rec)
  /\ DOMAIN updates \subseteq Ids /\ \A i \in DOMAIN updates : updates[i].before \in 0..Len(rec)
  /\ \A n \in DOMAIN jobs : jobs[n].record \in Ids
  /\ work # NoWork => work.record \in Ids

\* The policy that is asked for is the one in memory, but for a pause of its own, unless
\* a save waits.
WantedIsKept ==
  IF queued # NoPolicy THEN wanted = queued
  ELSE IF current = 0 THEN wanted = NoPolicy
  ELSE /\ wanted \in Options /\ rec[current].aware = wanted.aware
       /\ rec[current].enabled => wanted.enabled

\* Policies that were restored have no other before them.
RestoredIsThere == restoring => current # 0 /\ \A i \in DOMAIN updates : updates[i].before # 0

\* An update has one write or one job at a time, a mutation at its end has one write.
JobsInOrder ==
  /\ work # NoWork => jobs # <<>>
  /\ \A n \in DOMAIN jobs : jobs[n].by = "update" =>
       jobs[n].record \in DOMAIN updates /\ updates[jobs[n].record].at = "queued"
  /\ \A m, n \in DOMAIN jobs :
       jobs[m].by = "update" /\ jobs[n].by = "update" /\ jobs[m].record = jobs[n].record => m = n
WritesInOrder ==
  /\ \A k \in DOMAIN writes :
       IF writes[k].by = 0 THEN work.at = "persist"
       ELSE writes[k].by \in DOMAIN updates /\ updates[writes[k].by].at \in {"persist", "undo"}
  /\ \A j, k \in DOMAIN writes : writes[j].by = writes[k].by => j = k
  /\ work.at = "persist" => \E k \in DOMAIN writes : writes[k].by = 0

\* What the file says after so many of the writes.
FileAfter(n) == IF n = 0 THEN stored ELSE writes[n].data

OfUpdate(k) == writes[k].by # 0 /\ updates[writes[k].by].at = "persist"

\* After the last write the file says what is in memory, and already before it, if that
\* is of a mutation of another policy.  The last new policy to be written is that in memory.
FileFollows ==
  /\ ~broken \/ work.at = "persist" => FileAfter(Len(writes)) = Data(rec, current)
  /\ \A k \in DOMAIN writes : OfUpdate(k) /\ (\A m \in DOMAIN writes : m > k => writes[m].by = 0) =>
       current = writes[k].by
  /\ /\ ~broken /\ work.at = "persist" /\ work.record # current
     /\ writes # <<>> /\ writes[Len(writes)].by = 0
     => FileAfter(Len(writes) - 1) = Data(rec, current)

\* A mutation starts the automation only for a policy that lets it run.
Lets(r) == item = "ACTIVE" /\ ~byCodex => r.enabled /\ (r.aware => r.quota = "available")
WorkIsApplied ==
  /\ work.at = "applied" => (item = "ACTIVE" /\ ~byCodex => Op(work) = "ensure-active")
  /\ work.at = "persist" => Lets(Mine)

\* Unless it has met a failure, the policy is being checked, will be, or has been; and it
\* will be if another one is being checked.
Checking == work # NoWork /\ work.record = current
CheckComes ==
  \/ current \in DOMAIN updates /\ updates[current].at = "persist"
  \/ \E n \in DOMAIN jobs : jobs[n].record = current /\ (n > 1 \/ work = NoWork)
Settled ==
  /\ Lets(rec[current])
  /\ rec[current].enabled => timer = rec[current].version
PolicyIsChecked ==
  ~broken =>
    /\ current # 0 => Checking \/ CheckComes \/ Settled
    /\ work # NoWork /\ work.record # current => CheckComes

PolicyInv ==
  /\ PolicyTypes /\ IdsAreKnown /\ WantedIsKept /\ RestoredIsThere /\ JobsInOrder /\ WritesInOrder
  /\ FileFollows /\ WorkIsApplied /\ PolicyIsChecked

\* Sequences that grow at the end or lose their head.
LEMMA AppendIs ==
  ASSUME NEW S, NEW s \in Seq(S), NEW e \in S
  PROVE  /\ Append(s, e) \in Seq(S) /\ Len(Append(s, e)) = Len(s) + 1 /\ Append(s, e) # <<>>
         /\ DOMAIN Append(s, e) = 1..(Len(s) + 1) /\ DOMAIN s = 1..Len(s) /\ Len(s) \in Nat
         /\ \A n \in 1..Len(s) : Append(s, e)[n] = s[n]
         /\ Append(s, e)[Len(s) + 1] = e
BY AppendProperties, LenProperties

LEMMA TailIs ==
  ASSUME NEW S, NEW s \in Seq(S), s # <<>>
  PROVE  /\ Tail(s) \in Seq(S) /\ Len(Tail(s)) = Len(s) - 1 /\ Len(s) \in Nat \ {0}
         /\ DOMAIN Tail(s) = 1..(Len(s) - 1) /\ DOMAIN s = 1..Len(s)
         /\ \A n \in 1..(Len(s) - 1) : Tail(s)[n] = s[n + 1]
         /\ Head(s) = s[1] /\ Head(s) \in S
BY HeadTailProperties, LenProperties, ElementOfSeq, EmptySeq

LEMMA SeqIs ==
  ASSUME NEW S, NEW s \in Seq(S)
  PROVE  DOMAIN s = 1..Len(s) /\ Len(s) \in Nat /\ (s = <<>> <=> Len(s) = 0) /\ \A n \in 1..Len(s) : s[n] \in S
BY LenProperties, ElementOfSeq, EmptySeq

\* What is known of the state piece by piece.
LEMMA PolicyParts ==
  ASSUME PolicyTypes, IdsAreKnown
  PROVE  /\ Len(rec) \in Nat /\ Ids = DOMAIN rec /\ \A i \in Ids : rec[i] \in Record
         /\ DOMAIN jobs = 1..Len(jobs) /\ Len(jobs) \in Nat /\ \A n \in DOMAIN jobs : jobs[n] \in Jobs
         /\ jobs # <<>> => Head(jobs) = jobs[1] /\ 1 \in DOMAIN jobs
         /\ DOMAIN writes = 1..Len(writes) /\ Len(writes) \in Nat
         /\ \A k \in DOMAIN writes : writes[k] \in Writes
         /\ writes # <<>> => Head(writes) = writes[1] /\ 1 \in DOMAIN writes
         /\ current # 0 => current \in Ids
<1>1. Len(rec) \in Nat /\ Ids = DOMAIN rec /\ \A i \in Ids : rec[i] \in Record
  BY SeqIs DEF PolicyTypes, Ids
<1>2. /\ DOMAIN jobs = 1..Len(jobs) /\ Len(jobs) \in Nat /\ \A n \in DOMAIN jobs : jobs[n] \in Jobs
      /\ jobs # <<>> => Head(jobs) = jobs[1] /\ 1 \in DOMAIN jobs
  <2>1. jobs \in Seq(Jobs)
    BY DEF PolicyTypes
  <2>2. jobs # <<>> => Head(jobs) = jobs[1] /\ Len(jobs) \in Nat \ {0}
    BY <2>1, TailIs
  <2>3. QED
    BY <2>1, <2>2, SeqIs
<1>3. /\ DOMAIN writes = 1..Len(writes) /\ Len(writes) \in Nat
      /\ \A k \in DOMAIN writes : writes[k] \in Writes
      /\ writes # <<>> => Head(writes) = writes[1] /\ 1 \in DOMAIN writes
  <2>1. writes \in Seq(Writes)
    BY DEF PolicyTypes
  <2>2. writes # <<>> => Head(writes) = writes[1] /\ Len(writes) \in Nat \ {0}
    BY <2>1, TailIs
  <2>3. QED
    BY <2>1, <2>2, SeqIs
<1>4. QED
  BY <1>1, <1>2, <1>3 DEF IdsAreKnown, Ids

LEMMA WorkIs ==
  ASSUME PolicyTypes
  PROVE  /\ work = NoWork <=> work.at = "idle"
         /\ work.at \in {"idle", "check", "persist", "list", "apply", "applied"}
         /\ work.at \in {"check", "persist"} => work \in [at : {"check", "persist"}, record : Nat]
         /\ work.at \in {"list", "apply", "applied"} =>
              work \in [at : {"list", "apply", "applied"}, record : Nat, todo : BOOLEAN, quota : Quotas,
                        status : {"none", "PAUSED", "ACTIVE"}]
BY DEF PolicyTypes, Works, NoWork

\* What the file would say.
LEMMA DataIs ==
  ASSUME PolicyTypes, IdsAreKnown, NEW i \in 0..Len(rec)
  PROVE  /\ Data(rec, i) \in Stored
         /\ i = 0 => Data(rec, i) = NoPolicy
         /\ i # 0 => /\ Asked(Data(rec, i)) = [enabled |-> rec[i].enabled, aware |-> rec[i].aware]
                     /\ Asked(Data(rec, i)) \in Options
<1>1. CASE i = 0
  BY <1>1 DEF Data, Stored
<1>2. CASE i # 0
  <2>1. rec[i] \in Record
    BY <1>2, PolicyParts DEF Ids
  <2>2. Data(rec, i) = [enabled |-> rec[i].enabled, aware |-> rec[i].aware, quota |-> rec[i].quota]
    BY <1>2 DEF Data
  <2>3. Data(rec, i) \in Policy /\ Data(rec, i) # NoPolicy
    BY <2>1, <2>2, PolicyAssumption DEF Record, Policy
  <2>4. Asked(Data(rec, i)) = [enabled |-> rec[i].enabled, aware |-> rec[i].aware]
    BY <2>2, <2>3 DEF Asked
  <2>5. QED
    BY <1>2, <2>1, <2>3, <2>4 DEF Stored, Options, Record
<1>3. QED
  BY <1>1, <1>2

LEMMA PolicyBegins == PolicyInit => PolicyInv
<1> SUFFICES ASSUME PolicyInit
             PROVE  PolicyInv
  OBVIOUS
<1>1. /\ Len(rec) = 0 /\ DOMAIN updates = {} /\ DOMAIN jobs = {} /\ DOMAIN writes = {}
      /\ Len(writes) = 0 /\ work = NoWork /\ work.at = "idle"
  BY DEF PolicyInit, NoWork
<1>2. PolicyTypes
  <2>1. rec \in Seq(Record) /\ jobs \in Seq(Jobs) /\ writes \in Seq(Writes)
    BY EmptySeq DEF PolicyInit
  <2>2. updates \in [DOMAIN updates -> [before : Nat, at : {"persist", "queued", "undo"}]]
    BY DEF PolicyInit
  <2>3. QED
    BY <2>1, <2>2 DEF PolicyInit, PolicyTypes, Works, Stored
<1>3. IdsAreKnown /\ WantedIsKept /\ RestoredIsThere /\ JobsInOrder /\ WritesInOrder
  BY <1>1 DEF PolicyInit, IdsAreKnown, WantedIsKept, RestoredIsThere, JobsInOrder, WritesInOrder
<1>4. FileFollows
  BY <1>1 DEF PolicyInit, FileFollows, FileAfter, Data
<1>5. WorkIsApplied /\ PolicyIsChecked
  BY <1>1 DEF PolicyInit, WorkIsApplied, PolicyIsChecked
<1>6. QED
  BY <1>2, <1>3, <1>4, <1>5 DEF PolicyInv

-----------------------------------------------------------------------------
(* AutomationPolicy: updates                                               *)

\* Where the records of the work and of the policy stay as they are, so does what
\* follows from them.
LEMMA WorkStaysApplied ==
  ASSUME PolicyInv, work' = work, work.at # "idle" => rec'[work.record] = rec[work.record],
         work.at = "applied" => Head(jobs') = Head(jobs),
         item' = "ACTIVE" /\ ~byCodex' => item = "ACTIVE" /\ ~byCodex
  PROVE  WorkIsApplied'
<1>1. work.at = "persist" => Lets(Mine)'
  BY DEF PolicyInv, WorkIsApplied, Lets, Mine
<1>2. work.at = "applied" => (Op(work) = Op(work)')
  BY DEF Op, Mine, Explicit
<1>3. QED
  BY <1>1, <1>2 DEF PolicyInv, WorkIsApplied

\* A new record: its write will be followed by its check.
LEMMA UpdateKeeps ==
  ASSUME PolicyInv, NEW o \in Options, Update(o), WantedIsKept',
         queued' \in Options \cup {NoPolicy}, wanted' \in Options \cup {NoPolicy},
         UNCHANGED <<jobs, work, stored, timer, restoring, itemVars, broken>>
  PROVE  PolicyInv'
<1>1. PICK i : i = Len(rec) + 1
  OBVIOUS
<1>2. PICK record : record = [version |-> IF current = 0 THEN 1 ELSE rec[current].version + 1,
                              enabled |-> o.enabled, aware |-> o.aware,
                              quota |-> IF o.aware /\ current # 0 THEN rec[current].quota ELSE "none"]
  OBVIOUS
<1>3. /\ rec' = Append(rec, record) /\ current' = i
      /\ updates' = [j \in DOMAIN updates \cup {i} |->
                       IF j = i THEN [before |-> current, at |-> "persist"] ELSE updates[j]]
      /\ writes' = Append(writes, [data |-> Data(rec', i), by |-> i])
  BY <1>1, <1>2 DEF Update, Persist
<1>4. /\ PolicyTypes /\ IdsAreKnown /\ JobsInOrder /\ WritesInOrder /\ FileFollows /\ RestoredIsThere
      /\ Len(rec) \in Nat /\ current \in 0..Len(rec)
  BY PolicyParts DEF PolicyInv, IdsAreKnown
<1>5. record \in Record
  <2>1. current # 0 => rec[current] \in Record
    BY <1>4, PolicyParts
  <2>2. record.version \in Nat
    BY <1>2, <2>1 DEF Record
  <2>3. QED
    BY <1>2, <2>1, <2>2 DEF Record, Options, Quotas
<1>6. /\ rec' \in Seq(Record) /\ Len(rec') = i /\ i \in Nat \ {0} /\ i \notin Ids
      /\ rec'[i] = record /\ \A j \in Ids : rec'[j] = rec[j]
  BY <1>1, <1>3, <1>4, <1>5, AppendIs DEF PolicyTypes, Ids
<1>7. Ids' = Ids \cup {i}
  BY <1>1, <1>4, <1>6 DEF Ids
<1>8. Data(rec', i) = [enabled |-> record.enabled, aware |-> record.aware, quota |-> record.quota]
  BY <1>6 DEF Data
<1>9. [data |-> Data(rec', i), by |-> i] \in Writes
  BY <1>5, <1>6, <1>8 DEF Writes, Stored, Policy, Record
<1>10. /\ writes' \in Seq(Writes) /\ Len(writes') = Len(writes) + 1 /\ Len(writes) \in Nat
       /\ writes' # <<>> /\ DOMAIN writes' = 1..(Len(writes) + 1) /\ DOMAIN writes = 1..Len(writes)
       /\ \A k \in DOMAIN writes : writes'[k] = writes[k]
       /\ writes'[Len(writes')] = [data |-> Data(rec', i), by |-> i]
  BY <1>3, <1>4, <1>9, AppendIs DEF PolicyTypes
<1>11. /\ DOMAIN updates' = DOMAIN updates \cup {i} /\ i \notin DOMAIN updates
       /\ updates'[i] = [before |-> current, at |-> "persist"]
       /\ \A j \in DOMAIN updates : updates'[j] = updates[j]
  BY <1>3, <1>4, <1>6 DEF IdsAreKnown
<1>12. PolicyTypes'
  <2>1. updates' \in [DOMAIN updates' -> [before : Nat, at : {"persist", "queued", "undo"}]]
    BY <1>3, <1>4, <1>11 DEF PolicyTypes
  <2>2. QED
    BY <1>4, <1>6, <1>10, <2>1 DEF PolicyTypes, itemVars
<1>13. IdsAreKnown'
  <2>1. current' \in 0..Len(rec')
    BY <1>3, <1>6
  <2>2. \A j \in DOMAIN updates' : updates'[j].before \in 0..Len(rec')
    BY <1>1, <1>4, <1>6, <1>11 DEF IdsAreKnown
  <2>3. QED
    BY <1>4, <1>7, <1>11, <2>1, <2>2 DEF IdsAreKnown
<1>14. RestoredIsThere'
  BY <1>3, <1>4, <1>6, <1>11 DEF RestoredIsThere
<1>15. JobsInOrder'
  BY <1>4, <1>11 DEF JobsInOrder
<1>16. WritesInOrder'
  <2>1. \A k \in DOMAIN writes : writes'[k].by # i
    BY <1>4, <1>6, <1>10, <1>11 DEF WritesInOrder
  <2>2. \A k \in DOMAIN writes' : k \in DOMAIN writes \/ k = Len(writes')
    BY <1>10
  <2>3. QED
    BY <1>4, <1>6, <1>10, <1>11, <2>1, <2>2, SMTT(30) DEF WritesInOrder
<1>17. FileFollows'
  <2>1. FileAfter(Len(writes))' = Data(rec', i)
    BY <1>10 DEF FileAfter
  <2>2. writes'[Len(writes')].by = i /\ i # 0
    BY <1>6, <1>10
  <2>3. \A k \in DOMAIN writes' : (\A m \in DOMAIN writes' : m > k => writes'[m].by = 0) => k = Len(writes')
    <3> SUFFICES ASSUME NEW k \in DOMAIN writes', \A m \in DOMAIN writes' : m > k => writes'[m].by = 0,
                        k # Len(writes')
                 PROVE  FALSE
      OBVIOUS
    <3>1. Len(writes') \in DOMAIN writes' /\ Len(writes') > k
      BY <1>10
    <3>2. QED
      BY <2>2, <3>1
  <2>4. QED
    BY <1>3, <2>1, <2>2, <2>3 DEF FileFollows
<1>18. WorkIsApplied'
  BY <1>4, <1>6, WorkStaysApplied, WorkIs DEF IdsAreKnown, itemVars
<1>19. PolicyIsChecked'
  BY <1>3, <1>11 DEF PolicyIsChecked, CheckComes
<1>20. QED
  BY <1>12, <1>13, <1>14, <1>15, <1>16, <1>17, <1>18, <1>19 DEF PolicyInv

\* The end of a mutation that is left to the write of the file.
LEMMA FinishKeeps ==
  ASSUME PolicyInv, work.at \in {"list", "applied"}, NEW w, NEW op, Finish(w, op),
         w.record = work.record, w.quota \in Quotas,
         UNCHANGED <<pageVars, current, updates, jobs, stored, timer, restoring, itemVars, broken>>,
         Lets(Outcome(Mine, op, w.todo, w.quota, w.status))
  PROVE  PolicyInv'
<1>1. PICK i : i = work.record
  OBVIOUS
<1>2. PICK r : r = Outcome(Mine, op, w.todo, w.quota, w.status)
  OBVIOUS
<1>3. /\ PolicyTypes /\ IdsAreKnown /\ JobsInOrder /\ WritesInOrder /\ FileFollows /\ RestoredIsThere
      /\ Len(rec) \in Nat /\ i \in Ids /\ Ids = DOMAIN rec /\ rec[i] \in Record
      /\ work # NoWork /\ i \in Nat
  BY <1>1, PolicyParts, WorkIs DEF PolicyInv, IdsAreKnown, Ids
<1>4. /\ rec' = [rec EXCEPT ![i] = r] /\ work' = [at |-> "persist", record |-> i]
      /\ writes' = Append(writes, [data |-> Data(rec', current), by |-> 0])
  BY <1>1, <1>2 DEF Finish, Persist, Mine
<1>5. r \in Record /\ r.aware = rec[i].aware /\ (r.enabled => rec[i].enabled)
  <2>1. Mine = rec[i]
    BY <1>1 DEF Mine
  <2>2. PICK off \in BOOLEAN :
          r = [rec[i] EXCEPT !.version = IF off THEN @ + 1 ELSE @, !.enabled = @ /\ ~off,
                             !.quota = IF ~rec[i].aware THEN "none" ELSE IF w.quota # "none" THEN w.quota ELSE @]
    BY <1>2, <2>1 DEF Outcome
  <2>3. (IF off THEN rec[i].version + 1 ELSE rec[i].version) \in Nat
    BY <1>3 DEF Record
  <2>4. QED
    BY <1>3, <2>2, <2>3 DEF Record, Quotas
<1>6. /\ rec' \in Seq(Record) /\ Len(rec') = Len(rec) /\ rec'[i] = r
      /\ \A j \in Ids \ {i} : rec'[j] = rec[j]
  BY <1>3, <1>4, <1>5, ExceptSeq DEF PolicyTypes
<1>7. Ids' = Ids
  BY <1>6 DEF Ids
<1>8. current \in 0..Len(rec') /\ current \in 0..Len(rec)
  BY <1>3, <1>6 DEF IdsAreKnown
<1>9. Data(rec', current) \in Stored
  <2>1. CASE current = 0
    BY <2>1 DEF Data, Stored
  <2>2. CASE current # 0
    <3>1. current \in Ids
      BY <1>3, <2>2, PolicyParts
    <3>2. rec'[current] \in Record
      BY <1>3, <1>5, <1>6, <3>1, PolicyParts
    <3>3. QED
      BY <2>2, <3>2 DEF Data, Stored, Policy, Record
  <2>3. QED
    BY <2>1, <2>2
<1>10. [data |-> Data(rec', current), by |-> 0] \in Writes
  BY <1>9 DEF Writes
<1>11. /\ writes' \in Seq(Writes) /\ Len(writes') = Len(writes) + 1 /\ Len(writes) \in Nat
       /\ writes' # <<>> /\ DOMAIN writes' = 1..(Len(writes) + 1) /\ DOMAIN writes = 1..Len(writes)
       /\ \A k \in DOMAIN writes : writes'[k] = writes[k]
       /\ writes'[Len(writes')] = [data |-> Data(rec', current), by |-> 0]
  BY <1>3, <1>4, <1>10, AppendIs DEF PolicyTypes
<1>12. work' \in Works /\ work' # NoWork /\ work'.at = "persist" /\ work'.record = i
  BY <1>3, <1>4 DEF Works, NoWork
<1>13. PolicyTypes'
  BY <1>3, <1>6, <1>11, <1>12 DEF PolicyTypes, pageVars, itemVars
<1>14. IdsAreKnown'
  BY <1>3, <1>6, <1>7, <1>12 DEF IdsAreKnown
<1>15. WantedIsKept'
  <2>1. current # 0 => /\ rec'[current].aware = rec[current].aware
                       /\ rec'[current].enabled => rec[current].enabled
    BY <1>3, <1>5, <1>6, PolicyParts
  <2>2. QED
    BY <2>1 DEF PolicyInv, WantedIsKept, pageVars
<1>16. RestoredIsThere' /\ JobsInOrder'
  BY <1>3, <1>12 DEF RestoredIsThere, JobsInOrder
<1>17. WritesInOrder'
  <2>1. \A k \in DOMAIN writes : writes'[k].by # 0
    BY <1>3, <1>11 DEF WritesInOrder
  <2>2. \A k \in DOMAIN writes' : k \in DOMAIN writes \/ k = Len(writes')
    BY <1>11
  <2>3. QED
    BY <1>3, <1>11, <1>12, <2>1, <2>2 DEF WritesInOrder
<1>18. FileFollows'
  <2>1. FileAfter(Len(writes))' = Data(rec', current)
    BY <1>11 DEF FileAfter
  <2>2. writes'[Len(writes')].by = 0
    BY <1>11
  <2>3. ASSUME ~broken, i # current
        PROVE  (FileAfter(Len(writes) - 1) = Data(rec, current))'
    <3>1. Data(rec', current) = Data(rec, current)
      BY <1>3, <1>6, <2>3, PolicyParts DEF Data
    <3>2. FileAfter(Len(writes)) = Data(rec, current)
      BY <1>3, <2>3 DEF FileFollows
    <3>3. Len(writes') - 1 = Len(writes)
      BY <1>11
    <3>4. CASE Len(writes) = 0
      BY <3>1, <3>2, <3>3, <3>4 DEF FileAfter
    <3>5. CASE Len(writes) # 0
      <4>1. writes'[Len(writes)] = writes[Len(writes)]
        BY <1>11, <3>5
      <4>2. QED
        BY <3>1, <3>2, <3>3, <3>5, <4>1 DEF FileAfter
    <3>6. QED
      BY <3>4, <3>5
  <2>4. ASSUME NEW k \in DOMAIN writes', OfUpdate(k)',
               \A m \in DOMAIN writes' : m > k => writes'[m].by = 0
        PROVE  current' = writes'[k].by
    <3>1. k \in DOMAIN writes /\ writes'[k] = writes[k] /\ OfUpdate(k)
      BY <1>11, <2>2, <2>4 DEF OfUpdate
    <3>2. \A m \in DOMAIN writes : m > k => writes[m].by = 0
      BY <1>11, <2>4
    <3>3. QED
      BY <1>3, <3>1, <3>2 DEF FileFollows
  <2>5. QED
    BY <1>12, <2>1, <2>2, <2>3, <2>4 DEF FileFollows
<1>19. WorkIsApplied'
  <2>1. Mine' = r
    BY <1>6, <1>12 DEF Mine
  <2>2. Lets(Mine)'
    BY <1>2, <2>1 DEF Lets, itemVars
  <2>3. QED
    BY <1>12, <2>2 DEF WorkIsApplied
<1>20. PolicyIsChecked'
  <2>1. Checking \/ CheckComes \/ broken
    BY <1>1, <1>3 DEF PolicyInv, PolicyIsChecked, Checking
  <2>2. (Checking <=> Checking') /\ (CheckComes => CheckComes')
    BY <1>1, <1>3, <1>12 DEF Checking, CheckComes
  <2>3. i # current /\ ~broken => CheckComes
    BY <1>1, <1>3 DEF PolicyInv, PolicyIsChecked
  <2>4. QED
    BY <1>12, <2>1, <2>2, <2>3 DEF PolicyIsChecked
<1>21. QED
  BY <1>13, <1>14, <1>15, <1>16, <1>17, <1>18, <1>19, <1>20 DEF PolicyInv

-----------------------------------------------------------------------------
(* AutomationPolicy: the queue of mutations                                *)

\* Where no record, update or write changes, neither does what they say about each other.
LEMMA FilesStay ==
  ASSUME WritesInOrder, FileFollows,
         UNCHANGED <<recordVars, updates, fileVars>>, broken => broken', 
         (work.at = "persist") <=> (work'.at = "persist"), work.at = "persist" => work' = work
  PROVE  WritesInOrder' /\ FileFollows'
<1>1. FileAfter(Len(writes))' = FileAfter(Len(writes)) /\ FileAfter(Len(writes) - 1)' = FileAfter(Len(writes) - 1)
  BY DEF FileAfter, fileVars
<1>2. WritesInOrder'
  BY DEF WritesInOrder, fileVars
<1>3. FileFollows'
  BY <1>1 DEF FileFollows, OfUpdate, fileVars, recordVars
<1>4. QED
  BY <1>2, <1>3

\* A check of the policy joins the queue.
LEMMA JobsGrow ==
  ASSUME PolicyInv, NEW by \in {"list", "timer", "restore"}, current # 0,
         jobs' = Append(jobs, Job(by, current)), timer' \in Nat,
         UNCHANGED <<pageVars, recordVars, updates, work, fileVars, restoring, itemVars, broken>>
  PROVE  PolicyInv'
<1>1. /\ PolicyTypes /\ IdsAreKnown /\ JobsInOrder /\ WritesInOrder /\ FileFollows /\ RestoredIsThere
      /\ current \in Ids /\ rec[current] \in Record /\ current \in Nat
  BY PolicyParts DEF PolicyInv, Ids
<1>2. Job(by, current) \in Jobs /\ Job(by, current).record = current /\ Job(by, current).by = by
  BY <1>1 DEF Job, Jobs, Record
<1>3. PICK n : n = Len(jobs) + 1
  OBVIOUS
<1>4. /\ jobs' \in Seq(Jobs) /\ DOMAIN jobs' = DOMAIN jobs \cup {n} /\ DOMAIN jobs = 1..Len(jobs)
      /\ Len(jobs) \in Nat /\ n \notin DOMAIN jobs /\ jobs'[n] = Job(by, current) /\ jobs' # <<>>
      /\ \A m \in DOMAIN jobs : jobs'[m] = jobs[m]
  <2>1. jobs \in Seq(Jobs)
    BY <1>1 DEF PolicyTypes
  <2>2. QED
    BY <1>2, <1>3, <2>1, AppendIs
<1>5. PolicyTypes'
  BY <1>1, <1>4 DEF PolicyTypes, pageVars, recordVars, fileVars, itemVars
<1>6. IdsAreKnown'
  BY <1>1, <1>2, <1>4 DEF IdsAreKnown, Ids, recordVars
<1>7. WantedIsKept' /\ RestoredIsThere'
  BY <1>1 DEF PolicyInv, WantedIsKept, RestoredIsThere, pageVars, recordVars
<1>8. JobsInOrder'
  <2>1. \A m \in DOMAIN jobs' : jobs'[m].by = "update" => m \in DOMAIN jobs
    BY <1>2, <1>4
  <2>2. QED
    BY <1>1, <1>4, <2>1 DEF JobsInOrder
<1>9. WritesInOrder' /\ FileFollows'
  BY <1>1, FilesStay
<1>10. WorkIsApplied'
  <2>1. work.at = "applied" => Head(jobs') = Head(jobs)
    <3> SUFFICES ASSUME work.at = "applied"
                 PROVE  Head(jobs') = Head(jobs)
      OBVIOUS
    <3>1. jobs # <<>>
      BY <1>1, WorkIs DEF JobsInOrder
    <3>2. Head(jobs) = jobs[1] /\ 1 \in DOMAIN jobs
      BY <1>1, <3>1, PolicyParts
    <3>3. Head(jobs') = jobs'[1]
      BY <1>4, TailIs
    <3>4. QED
      BY <1>4, <3>2, <3>3
  <2>2. QED
    BY <2>1, WorkStaysApplied DEF itemVars, recordVars
<1>11. PolicyIsChecked'
  <2>1. n > 1 \/ work = NoWork
    <3>1. CASE jobs = <<>>
      BY <1>1, <3>1 DEF JobsInOrder
    <3>2. CASE jobs # <<>>
      BY <1>1, <1>3, <3>2, PolicyParts
    <3>3. QED
      BY <3>1, <3>2
  <2>2. CheckComes'
    BY <1>2, <1>4, <2>1 DEF CheckComes, recordVars
  <2>3. QED
    BY <2>2 DEF PolicyIsChecked
<1>12. QED
  BY <1>5, <1>6, <1>7, <1>8, <1>9, <1>10, <1>11 DEF PolicyInv

\* The first mutation leaves the queue.
LEMMA JobsLose ==
  ASSUME PolicyTypes, IdsAreKnown, JobsInOrder, jobs # <<>>, jobs' = Tail(jobs), work' = NoWork,
         Len(rec') = Len(rec),
         \A i \in DOMAIN updates : (Head(jobs).by = "update" => i # Head(jobs).record) =>
           i \in DOMAIN updates' /\ updates'[i] = updates[i]
  PROVE  /\ jobs' \in Seq(Jobs) /\ JobsInOrder'
         /\ \A n \in DOMAIN jobs' : jobs'[n].record \in Ids'
         /\ CheckComes /\ current' = current /\ (work = NoWork => Head(jobs).record # current) => CheckComes'
<1>1. jobs \in Seq(Jobs)
  BY DEF PolicyTypes
<1>2. /\ jobs' \in Seq(Jobs) /\ Len(jobs) \in Nat \ {0}
      /\ DOMAIN jobs' = 1..(Len(jobs) - 1) /\ DOMAIN jobs = 1..Len(jobs)
      /\ \A n \in DOMAIN jobs' : jobs'[n] = jobs[n + 1]
      /\ Head(jobs) = jobs[1]
  BY <1>1, TailIs
<1>3. \A n \in DOMAIN jobs' : n + 1 \in DOMAIN jobs /\ n + 1 # 1 /\ jobs'[n] = jobs[n + 1]
  BY <1>2
<1>4. \A n \in DOMAIN jobs : n # 1 => n - 1 \in DOMAIN jobs' /\ jobs'[n - 1] = jobs[n]
  BY <1>2
<1>5. 1 \in DOMAIN jobs
  BY <1>2
<1>6. JobsInOrder'
  <2>1. ASSUME NEW n \in DOMAIN jobs', jobs'[n].by = "update"
        PROVE  jobs'[n].record \in DOMAIN updates' /\ updates'[jobs'[n].record].at = "queued"
    <3>1. n + 1 \in DOMAIN jobs /\ n + 1 # 1 /\ jobs'[n] = jobs[n + 1]
      BY <1>3
    <3>2. jobs[n + 1].record \in DOMAIN updates /\ updates[jobs[n + 1].record].at = "queued"
      BY <2>1, <3>1 DEF JobsInOrder
    <3>3. jobs[1].by = "update" => jobs[n + 1].record # jobs[1].record
      BY <1>5, <2>1, <3>1 DEF JobsInOrder
    <3>4. QED
      BY <1>2, <3>1, <3>2, <3>3
  <2>2. ASSUME NEW m \in DOMAIN jobs', NEW n \in DOMAIN jobs', jobs'[m].by = "update", jobs'[n].by = "update",
               jobs'[m].record = jobs'[n].record
        PROVE  m = n
    <3>1. m + 1 = n + 1
      BY <1>3, <2>2 DEF JobsInOrder
    <3>2. QED
      BY <1>2, <3>1
  <2>3. QED
    BY <2>1, <2>2 DEF JobsInOrder
<1>7. \A n \in DOMAIN jobs' : jobs'[n].record \in Ids'
  BY <1>3 DEF IdsAreKnown, Ids
<1>8. ASSUME CheckComes, current' = current, work = NoWork => Head(jobs).record # current
      PROVE  CheckComes'
  <2>1. CASE current \in DOMAIN updates /\ updates[current].at = "persist"
    <3>1. Head(jobs).by = "update" => current # Head(jobs).record
      BY <1>2, <1>5, <2>1 DEF JobsInOrder
    <3>2. QED
      BY <1>8, <2>1, <3>1 DEF CheckComes
  <2>2. ASSUME NEW n \in DOMAIN jobs, jobs[n].record = current, n > 1 \/ work = NoWork
        PROVE  CheckComes'
    <3>1. n # 1
      BY <1>2, <1>8, <2>2
    <3>2. n - 1 \in DOMAIN jobs' /\ jobs'[n - 1] = jobs[n]
      BY <1>4, <3>1
    <3>3. QED
      BY <1>8, <2>2, <3>2 DEF CheckComes
  <2>3. QED
    BY <1>8, <2>1, <2>2 DEF CheckComes
<1>9. QED
  BY <1>2, <1>6, <1>7, <1>8

-----------------------------------------------------------------------------
(* AutomationPolicy: each action keeps the invariant                       *)

\* What is asked for and what Codex holds change, the rest is as it was.
LEMMA PageKeeps ==
  ASSUME PolicyInv, WantedIsKept',
         queued' \in Options \cup {NoPolicy}, wanted' \in Options \cup {NoPolicy},
         UNCHANGED <<recordVars, updates, jobs, work, fileVars, timer, restoring, broken>>,
         UNCHANGED itemVars \/ (item' \in {"none", "PAUSED", "ACTIVE"} /\ byCodex' = TRUE)
  PROVE  PolicyInv'
<1>1. PolicyTypes'
  BY DEF PolicyInv, PolicyTypes, recordVars, fileVars, itemVars
<1>2. IdsAreKnown' /\ RestoredIsThere' /\ JobsInOrder'
  BY DEF PolicyInv, IdsAreKnown, Ids, RestoredIsThere, JobsInOrder, recordVars
<1>3. WritesInOrder' /\ FileFollows'
  BY FilesStay DEF PolicyInv
<1>4. WorkIsApplied'
  BY WorkStaysApplied DEF itemVars, recordVars
<1>5. PolicyIsChecked'
  <2>1. (Checking <=> Checking') /\ (CheckComes => CheckComes') /\ (Settled => Settled')
    BY DEF Checking, CheckComes, Settled, Lets, recordVars, itemVars
  <2>2. QED
    BY <2>1 DEF PolicyInv, PolicyIsChecked, recordVars
<1>6. QED
  BY <1>1, <1>2, <1>3, <1>4, <1>5 DEF PolicyInv

LEMMA SaveKeeps == ASSUME PolicyInv, NEW o \in Options, Save(o) PROVE PolicyInv'
<1>1. o # NoPolicy
  BY PolicyAssumption
<1>2. WantedIsKept'
  BY <1>1 DEF Save, WantedIsKept
<1>3. QED
  BY <1>2, PageKeeps DEF Save

LEMMA PageStaysAsked ==
  ASSUME PolicyInv, UNCHANGED <<queued, wanted, recordVars>>
  PROVE  WantedIsKept' /\ queued' \in Options \cup {NoPolicy} /\ wanted' \in Options \cup {NoPolicy}
BY DEF PolicyInv, PolicyTypes, WantedIsKept, recordVars

LEMMA TimeOutKeeps == ASSUME PolicyInv, SaveTimesOut \/ UNCHANGED policyVars \/ CodexChangesItem PROVE PolicyInv'
<1>1. UNCHANGED <<queued, wanted, recordVars, updates, jobs, work, fileVars, timer, restoring, broken>>
  BY DEF SaveTimesOut, CodexChangesItem, policyVars, pageVars
<1>2. UNCHANGED itemVars \/ (item' \in {"none", "PAUSED", "ACTIVE"} /\ byCodex' = TRUE)
  BY DEF SaveTimesOut, CodexChangesItem, policyVars
<1>3. QED
  BY <1>1, <1>2, PageStaysAsked, PageKeeps

\* The policy that a new record holds.
LEMMA NewRecordIs ==
  ASSUME PolicyTypes, IdsAreKnown, NEW o, Update(o)
  PROVE  current' # 0 /\ rec'[current'].enabled = o.enabled /\ rec'[current'].aware = o.aware
<1>1. PICK record : record = [version |-> IF current = 0 THEN 1 ELSE rec[current].version + 1,
                              enabled |-> o.enabled, aware |-> o.aware,
                              quota |-> IF o.aware /\ current # 0 THEN rec[current].quota ELSE "none"]
  OBVIOUS
<1>2. rec' = Append(rec, record) /\ current' = Len(rec) + 1
  BY <1>1 DEF Update
<1>3. Len(rec) \in Nat /\ rec'[Len(rec) + 1] = record
  <2>1. rec \in Seq(Record)
    BY DEF PolicyTypes
  <2>2. Len(rec) \in Nat
    BY PolicyParts
  <2>3. QED
    BY <1>2, <2>1, <2>2
<1>4. QED
  BY <1>1, <1>2, <1>3

LEMMA SendSaveKeeps == ASSUME PolicyInv, SendSave PROVE PolicyInv'
<1>1. /\ PolicyTypes /\ IdsAreKnown /\ WantedIsKept /\ queued \in Options /\ Update(queued)
      /\ queued' = NoPolicy /\ wanted' = wanted /\ queued # NoPolicy
  BY DEF PolicyInv, PolicyTypes, SendSave
<1>2. wanted = queued
  BY <1>1 DEF WantedIsKept
<1>3. WantedIsKept'
  BY <1>1, <1>2, NewRecordIs DEF WantedIsKept
<1>4. QED
  BY <1>1, <1>2, <1>3, UpdateKeeps DEF SendSave

LEMMA ListKeeps == ASSUME PolicyInv, List PROVE PolicyInv'
<1>1. /\ PolicyTypes /\ IdsAreKnown /\ WantedIsKept /\ current # 0 /\ current \in 0..Len(rec)
      /\ queued \in Options \cup {NoPolicy} /\ wanted \in Options \cup {NoPolicy} /\ timer \in Nat
  BY DEF PolicyInv, PolicyTypes, IdsAreKnown, List
<1>2. CASE jobs' = Append(jobs, Job("list", current)) /\ UNCHANGED <<recordVars, updates, writes>>
  BY <1>1, <1>2, JobsGrow DEF List, fileVars
<1>3. CASE Update(Asked(Data(rec, current))) /\ UNCHANGED jobs
  <2>1. PICK o : o = Asked(Data(rec, current))
    OBVIOUS
  <2>2. o = [enabled |-> rec[current].enabled, aware |-> rec[current].aware] /\ o \in Options
    BY <1>1, <2>1, DataIs
  <2>3. Update(o) /\ UNCHANGED <<queued, wanted>>
    BY <1>3, <2>1 DEF List, pageVars
  <2>4. current' # 0 /\ rec'[current'].enabled = rec[current].enabled /\ rec'[current'].aware = rec[current].aware
    BY <1>1, <2>2, <2>3, NewRecordIs
  <2>5. WantedIsKept'
    BY <1>1, <2>3, <2>4 DEF WantedIsKept
  <2>6. QED
    BY <1>1, <1>3, <2>2, <2>3, <2>5, UpdateKeeps DEF List, pageVars
<1>4. QED
  BY <1>2, <1>3 DEF List

\* The timer of a policy is lost only if the policy is checked all the same.
LEMMA TimerKeeps ==
  ASSUME PolicyInv, timer' \in Nat, restoring' \in BOOLEAN, restoring' => restoring,
         current # 0 /\ rec[current].enabled /\ ~broken => timer' = timer \/ Checking \/ CheckComes,
         UNCHANGED <<pageVars, recordVars, updates, jobs, work, fileVars, itemVars, broken>>
  PROVE  PolicyInv'
<1>1. PolicyTypes'
  BY DEF PolicyInv, PolicyTypes, pageVars, recordVars, fileVars, itemVars
<1>2. IdsAreKnown' /\ WantedIsKept' /\ RestoredIsThere' /\ JobsInOrder'
  BY DEF PolicyInv, IdsAreKnown, Ids, WantedIsKept, RestoredIsThere, JobsInOrder, recordVars, pageVars
<1>3. WritesInOrder' /\ FileFollows'
  BY FilesStay DEF PolicyInv
<1>4. WorkIsApplied'
  BY WorkStaysApplied DEF itemVars, recordVars
<1>5. PolicyIsChecked'
  <2>1. (Checking <=> Checking') /\ (CheckComes => CheckComes')
    BY DEF Checking, CheckComes, recordVars
  <2>2. Settled /\ (rec[current].enabled => timer' = timer) => Settled'
    BY DEF Settled, Lets, recordVars, itemVars
  <2>3. QED
    BY <2>1, <2>2 DEF PolicyInv, PolicyIsChecked, recordVars
<1>6. QED
  BY <1>1, <1>2, <1>3, <1>4, <1>5 DEF PolicyInv

LEMMA TimerFiresKeeps == ASSUME PolicyInv, TimerFires PROVE PolicyInv'
<1>1. CASE current # 0 /\ rec[current].version = timer
  BY <1>1, JobsGrow DEF TimerFires
<1>2. CASE ~(current # 0 /\ rec[current].version = timer)
  <2>1. timer' = 0 /\ UNCHANGED <<pageVars, recordVars, updates, jobs, work, fileVars, itemVars, restoring, broken>>
    BY <1>2 DEF TimerFires
  <2>2. ASSUME current # 0, rec[current].enabled, ~broken
        PROVE  Checking \/ CheckComes
    BY <1>2, <2>2 DEF PolicyInv, PolicyIsChecked, Settled
  <2>3. timer' \in Nat /\ restoring' \in BOOLEAN
    BY <2>1 DEF PolicyInv, PolicyTypes
  <2>4. QED
    BY <2>1, <2>2, <2>3, TimerKeeps
<1>3. QED
  BY <1>1, <1>2

LEMMA RestoreKeeps == ASSUME PolicyInv, Restore PROVE PolicyInv'
<1>1. current # 0 /\ timer' \in Nat /\ timer' = timer
  BY DEF PolicyInv, PolicyTypes, RestoredIsThere, Restore
<1>2. CASE rec[current].enabled
  BY <1>1, <1>2, JobsGrow DEF Restore
<1>3. CASE ~rec[current].enabled
  BY <1>1, <1>3, TimerKeeps DEF Restore
<1>4. QED
  BY <1>2, <1>3

\* The work goes on with the policy it began with, or begins with the one in memory.
LEMMA WorkKeeps ==
  ASSUME PolicyInv, jobs # <<>>, work' \in Works, work' # NoWork, work'.record \in Ids,
         work.at # "persist", work'.at # "persist",
         work'.record = current \/ (work # NoWork /\ work'.record = work.record),
         item' \in {"none", "PAUSED", "ACTIVE"}, byCodex' \in BOOLEAN, WorkIsApplied',
         UNCHANGED <<pageVars, recordVars, updates, jobs, fileVars, timer, restoring, broken>>,
         UNCHANGED itemVars \/ work # NoWork
  PROVE  PolicyInv'
<1>1. PolicyTypes' /\ IdsAreKnown' /\ WantedIsKept' /\ RestoredIsThere' /\ JobsInOrder'
  BY DEF PolicyInv, PolicyTypes, IdsAreKnown, Ids, WantedIsKept, RestoredIsThere, JobsInOrder,
         pageVars, recordVars, fileVars
<1>2. WritesInOrder' /\ FileFollows'
  BY FilesStay DEF PolicyInv
<1>3. PolicyIsChecked'
  <2> SUFFICES ASSUME ~broken
               PROVE  /\ current # 0 => (Checking \/ CheckComes \/ Settled)'
                      /\ (work'.record # current) => CheckComes'
    BY DEF PolicyIsChecked, recordVars
  <2>1. CASE work'.record = current
    BY <2>1 DEF Checking, recordVars
  <2>2. CASE work # NoWork /\ work'.record = work.record /\ work'.record # current
    <3>1. CheckComes
      BY <2>2 DEF PolicyInv, PolicyIsChecked
    <3>2. CheckComes'
      BY <2>2, <3>1 DEF CheckComes, recordVars
    <3>3. QED
      BY <3>2
  <2>3. QED
    BY <2>1, <2>2
<1>4. QED
  BY <1>1, <1>2, <1>3 DEF PolicyInv

LEMMA JobStartsKeeps == ASSUME PolicyInv, JobStarts PROVE PolicyInv'
<1>1. current \in Ids /\ current \in Nat /\ item \in {"none", "PAUSED", "ACTIVE"} /\ byCodex \in BOOLEAN
  BY PolicyParts DEF PolicyInv, PolicyTypes, JobStarts, SameVersion, Ids
<1>2. work' \in Works /\ work' # NoWork /\ work'.at = "check" /\ work'.record = current
  BY <1>1 DEF JobStarts, Works, NoWork
<1>3. work.at = "idle"
  BY DEF JobStarts, NoWork
<1>4. WorkIsApplied'
  BY <1>2 DEF WorkIsApplied
<1>5. QED
  BY <1>1, <1>2, <1>3, <1>4, WorkKeeps DEF JobStarts, itemVars

LEMMA CheckedKeeps ==
  ASSUME PolicyInv, NEW todo \in BOOLEAN, NEW quota \in Quotas, Checked(todo, quota)
  PROVE  PolicyInv'
<1>1. work # NoWork /\ work.at = "check" /\ work.record \in Ids /\ work.record \in Nat /\ jobs # <<>>
  BY DEF PolicyInv, IdsAreKnown, Ids, JobsInOrder, Checked
<1>2. work' \in Works /\ work' # NoWork /\ work'.at \in {"list", "apply"} /\ work'.record = work.record
  BY <1>1 DEF Checked, Works, NoWork
<1>3. WorkIsApplied'
  BY <1>2 DEF WorkIsApplied
<1>4. item \in {"none", "PAUSED", "ACTIVE"} /\ byCodex \in BOOLEAN
  BY DEF PolicyInv, PolicyTypes
<1>5. QED
  BY <1>1, <1>2, <1>3, <1>4, WorkKeeps DEF Checked, itemVars

\* A list ends a check only if the automation is paused.
LEMMA ListedKeeps == ASSUME PolicyInv, Listed PROVE PolicyInv'
<1>1. /\ work # NoWork /\ work.at = "list" /\ work.record \in Ids /\ work.record \in Nat /\ jobs # <<>>
      /\ item \in {"none", "PAUSED", "ACTIVE"} /\ byCodex \in BOOLEAN
      /\ work \in [at : {"list", "apply", "applied"}, record : Nat, todo : BOOLEAN, quota : Quotas,
                   status : {"none", "PAUSED", "ACTIVE"}]
  BY WorkIs DEF PolicyInv, PolicyTypes, IdsAreKnown, JobsInOrder, Listed
<1>2. PICK w : w = [work EXCEPT !.status = item]
  OBVIOUS
<1>3. /\ w \in [at : {"list", "apply", "applied"}, record : Nat, todo : BOOLEAN, quota : Quotas,
                status : {"none", "PAUSED", "ACTIVE"}]
      /\ w.record = work.record /\ w.status = item /\ w.quota \in Quotas
  BY <1>1, <1>2
<1>4. CASE Op(w) = "list"
  <2>1. Finish(w, "list")
    BY <1>2, <1>4 DEF Listed
  <2>2. item # "ACTIVE"
    BY <1>3, <1>4 DEF Op, Operation
  <2>3. QED
    BY <1>1, <1>3, <2>1, <2>2, FinishKeeps DEF Listed, Lets
<1>5. CASE Op(w) # "list"
  <2>1. work' = [w EXCEPT !.at = "apply"] /\ UNCHANGED <<rec, writes>>
    BY <1>2, <1>5 DEF Listed
  <2>2. work' \in Works /\ work' # NoWork /\ work'.at = "apply" /\ work'.record = work.record
    BY <1>3, <2>1 DEF Works, NoWork
  <2>3. WorkIsApplied'
    BY <2>2 DEF WorkIsApplied
  <2>4. QED
    BY <1>1, <2>1, <2>2, <2>3, WorkKeeps DEF Listed, itemVars, recordVars, fileVars
<1>6. QED
  BY <1>4, <1>5

LEMMA AppliesKeeps == ASSUME PolicyInv, Applies PROVE PolicyInv'
<1>1. /\ work # NoWork /\ work.at = "apply" /\ work.record \in Ids /\ work.record \in Nat /\ jobs # <<>>
      /\ item \in {"none", "PAUSED", "ACTIVE"}
      /\ work \in [at : {"list", "apply", "applied"}, record : Nat, todo : BOOLEAN, quota : Quotas,
                   status : {"none", "PAUSED", "ACTIVE"}]
  BY WorkIs DEF PolicyInv, PolicyTypes, IdsAreKnown, JobsInOrder, Applies
<1>2. /\ work' \in Works /\ work' # NoWork /\ work'.at = "applied" /\ work'.record = work.record
      /\ work'.todo = work.todo /\ work'.quota = work.quota /\ work'.status = work.status
  BY <1>1 DEF Applies, Works, NoWork
<1>3. Op(work)' = Op(work)
  BY <1>2 DEF Op, Mine, Explicit, Applies, recordVars
<1>4. WorkIsApplied'
  <2>1. item' = "ACTIVE" => Op(work) = "ensure-active"
    BY <1>1 DEF Applies
  <2>2. QED
    BY <1>2, <1>3, <2>1 DEF WorkIsApplied
<1>5. item' \in {"none", "PAUSED", "ACTIVE"} /\ byCodex' \in BOOLEAN
  BY <1>1 DEF Applies
<1>6. QED
  BY <1>1, <1>2, <1>4, <1>5, WorkKeeps DEF Applies

\* A mutation that starts the automation leaves a policy that lets it run.
LEMMA OutcomeLets ==
  ASSUME NEW r \in Record, NEW todo, NEW quota, NEW status,
         Operation(r, Explicit, todo, quota, status) = "ensure-active"
  PROVE  LET o == Outcome(r, "ensure-active", todo, quota, status)
         IN  o.enabled /\ (o.aware => o.quota = "available")
<1>1. r.enabled /\ todo /\ (r.aware => quota = "available")
  BY DEF Operation
<1>2. QED
  BY <1>1 DEF Outcome, Record

LEMMA AppliedKeeps == ASSUME PolicyInv, Applied PROVE PolicyInv'
<1>1. /\ work # NoWork /\ work.at = "applied" /\ work.record \in Ids
      /\ work \in [at : {"list", "apply", "applied"}, record : Nat, todo : BOOLEAN, quota : Quotas,
                   status : {"none", "PAUSED", "ACTIVE"}]
      /\ rec[work.record] \in Record
  BY WorkIs, PolicyParts DEF PolicyInv, PolicyTypes, IdsAreKnown, Applied
<1>2. item = "ACTIVE" /\ ~byCodex => Op(work) = "ensure-active"
  BY <1>1 DEF PolicyInv, WorkIsApplied
<1>3. Lets(Outcome(Mine, Op(work), work.todo, work.quota, work.status))
  BY <1>1, <1>2, OutcomeLets DEF Lets, Op, Mine
<1>4. QED
  BY <1>1, <1>3, FinishKeeps DEF Applied

-----------------------------------------------------------------------------
(* AutomationPolicy: mutations that end, and failures                      *)

LEMMA AnsweredIs ==
  ASSUME PolicyTypes, IdsAreKnown, NEW i, Answered(i), rec' = rec
  PROVE  /\ DOMAIN updates' = DOMAIN updates \ {i}
         /\ \A j \in DOMAIN updates \ {i} : updates'[j] = updates[j]
         /\ updates' \in [DOMAIN updates' -> [before : Nat, at : {"persist", "queued", "undo"}]]
         /\ DOMAIN updates' \subseteq Ids' /\ \A j \in DOMAIN updates' : updates'[j].before \in 0..Len(rec')
<1>1. updates' = [j \in DOMAIN updates \ {i} |-> updates[j]]
  BY DEF Answered
<1>2. updates' \in [DOMAIN updates' -> [before : Nat, at : {"persist", "queued", "undo"}]]
  BY <1>1 DEF PolicyTypes
<1>3. QED
  BY <1>1, <1>2 DEF IdsAreKnown, Ids

\* An update that is undone leaves the record before it, or the newer one.
LEMMA UndoIs ==
  ASSUME PolicyTypes, IdsAreKnown, RestoredIsThere, WantedIsKept, NEW others, NEW i \in DOMAIN updates,
         Undo(i, others), UNCHANGED <<rec, queued>>, restoring' => restoring
  PROVE  /\ DOMAIN updates' \subseteq DOMAIN updates
         /\ \A j \in DOMAIN updates \ {i} : j \in DOMAIN updates' /\ updates'[j] = updates[j]
         /\ updates' \in [DOMAIN updates' -> [before : Nat, at : {"persist", "queued", "undo"}]]
         /\ DOMAIN updates' \subseteq Ids' /\ \A j \in DOMAIN updates' : updates'[j].before \in 0..Len(rec')
         /\ current' \in 0..Len(rec') /\ wanted' \in Options \cup {NoPolicy}
         /\ WantedIsKept' /\ RestoredIsThere'
         /\ \/ /\ SameVersion(current, i) /\ i \in DOMAIN updates' /\ updates'[i].at = "undo"
               /\ writes' = Append(others, [data |-> Data(rec, current'), by |-> i])
            \/ /\ ~SameVersion(current, i) /\ i \notin DOMAIN updates' /\ current' = current /\ writes' = others
<1>1. CASE SameVersion(current, i)
  <2>1. PICK before : before = updates[i].before
    OBVIOUS
  <2>2. /\ current' = before /\ updates' = [updates EXCEPT ![i].at = "undo"]
        /\ writes' = Append(others, [data |-> Data(rec, before), by |-> i])
        /\ wanted' = IF queued = NoPolicy THEN Asked(Data(rec, before)) ELSE wanted
    BY <1>1, <2>1 DEF Undo
  <2>3. before \in 0..Len(rec) /\ (restoring => before # 0)
    BY <2>1 DEF IdsAreKnown, RestoredIsThere
  <2>4. updates[i] \in [before : Nat, at : {"persist", "queued", "undo"}]
    BY DEF PolicyTypes
  <2>5. /\ DOMAIN updates' = DOMAIN updates /\ updates'[i].at = "undo" /\ updates'[i].before = before
        /\ \A j \in DOMAIN updates \ {i} : updates'[j] = updates[j]
        /\ updates' \in [DOMAIN updates' -> [before : Nat, at : {"persist", "queued", "undo"}]]
    BY <2>1, <2>2, <2>4 DEF PolicyTypes
  <2>6. Asked(Data(rec, before)) \in Options \cup {NoPolicy}
    BY <2>3, DataIs DEF Asked
  <2>7. WantedIsKept'
    <3>1. CASE queued # NoPolicy
      BY <2>2, <3>1 DEF WantedIsKept
    <3>2. CASE queued = NoPolicy /\ before = 0
      BY <2>2, <2>3, <3>2, DataIs DEF WantedIsKept, Asked
    <3>3. CASE queued = NoPolicy /\ before # 0
      <4>1. /\ Asked(Data(rec, before)) = [enabled |-> rec[before].enabled, aware |-> rec[before].aware]
            /\ Asked(Data(rec, before)) \in Options
        BY <2>3, <3>3, DataIs
      <4>2. QED
        BY <2>2, <3>3, <4>1 DEF WantedIsKept
    <3>4. QED
      BY <3>1, <3>2, <3>3
  <2>8. RestoredIsThere'
    BY <2>2, <2>3, <2>5 DEF RestoredIsThere
  <2>9. wanted' \in Options \cup {NoPolicy}
    BY <2>2, <2>6 DEF PolicyTypes
  <2>10. DOMAIN updates' \subseteq Ids' /\ \A j \in DOMAIN updates' : updates'[j].before \in 0..Len(rec')
    BY <2>3, <2>5 DEF IdsAreKnown, Ids
  <2>11. QED
    BY <1>1, <2>2, <2>3, <2>5, <2>7, <2>8, <2>9, <2>10
<1>2. CASE ~SameVersion(current, i)
  <2>1. Answered(i) /\ writes' = others /\ UNCHANGED <<current, wanted>>
    BY <1>2 DEF Undo
  <2>2. /\ DOMAIN updates' = DOMAIN updates \ {i}
        /\ \A j \in DOMAIN updates \ {i} : updates'[j] = updates[j]
        /\ updates' \in [DOMAIN updates' -> [before : Nat, at : {"persist", "queued", "undo"}]]
        /\ DOMAIN updates' \subseteq Ids' /\ \A j \in DOMAIN updates' : updates'[j].before \in 0..Len(rec')
    BY <2>1, AnsweredIs
  <2>3. WantedIsKept' /\ RestoredIsThere'
    BY <2>1, <2>2 DEF WantedIsKept, RestoredIsThere
  <2>4. current' \in 0..Len(rec') /\ wanted' \in Options \cup {NoPolicy}
    BY <2>1 DEF IdsAreKnown, PolicyTypes
  <2>5. QED
    BY <1>2, <2>1, <2>2, <2>3, <2>4
<1>3. QED
  BY <1>1, <1>2

\* A mutation is over.
LEMMA JobOverKeeps ==
  ASSUME PolicyInv, jobs # <<>>, JobOver, UNCHANGED <<queued, wanted, recordVars, itemVars>>,
         writes' \in Seq(Writes), stored' \in Stored, timer' \in Nat, broken' \in BOOLEAN,
         WritesInOrder', FileFollows',
         ~broken' /\ current # 0 => Settled' \/ (CheckComes /\ (work = NoWork => Head(jobs).record # current))
  PROVE  PolicyInv'
<1>1. /\ PolicyTypes /\ IdsAreKnown /\ WantedIsKept /\ RestoredIsThere /\ JobsInOrder
      /\ jobs' = Tail(jobs) /\ work' = NoWork /\ rec' = rec /\ current' = current
      /\ queued' = queued /\ wanted' = wanted /\ item' = item /\ byCodex' = byCodex
      /\ restoring' = (restoring /\ Head(jobs).by # "restore")
  BY DEF PolicyInv, JobOver, recordVars, itemVars
<1>2. /\ DOMAIN updates' \subseteq DOMAIN updates
      /\ \A j \in DOMAIN updates' : updates'[j] = updates[j]
      /\ \A j \in DOMAIN updates : (Head(jobs).by = "update" => j # Head(jobs).record) =>
           j \in DOMAIN updates' /\ updates'[j] = updates[j]
      /\ updates' \in [DOMAIN updates' -> [before : Nat, at : {"persist", "queued", "undo"}]]
      /\ DOMAIN updates' \subseteq Ids' /\ \A j \in DOMAIN updates' : updates'[j].before \in 0..Len(rec')
  <2>1. CASE Head(jobs).by = "update"
    <3>1. PICK i : i = Head(jobs).record
      OBVIOUS
    <3>2. Answered(i)
      BY <2>1, <3>1 DEF JobOver
    <3>3. /\ DOMAIN updates' = DOMAIN updates \ {i}
          /\ \A j \in DOMAIN updates \ {i} : updates'[j] = updates[j]
          /\ updates' \in [DOMAIN updates' -> [before : Nat, at : {"persist", "queued", "undo"}]]
          /\ DOMAIN updates' \subseteq Ids' /\ \A j \in DOMAIN updates' : updates'[j].before \in 0..Len(rec')
      BY <1>1, <3>2, AnsweredIs
    <3>4. QED
      BY <2>1, <3>1, <3>3
  <2>2. CASE Head(jobs).by # "update"
    <3>1. updates' = updates
      BY <2>2 DEF JobOver
    <3>2. QED
      BY <1>1, <3>1 DEF PolicyTypes, IdsAreKnown, Ids
  <2>3. QED
    BY <2>1, <2>2
<1>3. /\ jobs' \in Seq(Jobs) /\ JobsInOrder'
      /\ \A n \in DOMAIN jobs' : jobs'[n].record \in Ids'
      /\ CheckComes /\ current' = current /\ (work = NoWork => Head(jobs).record # current) => CheckComes'
  BY <1>1, <1>2, JobsLose
<1>4. restoring' \in BOOLEAN /\ (restoring' => restoring)
  BY <1>1 DEF PolicyTypes
<1>5. PolicyTypes'
  BY <1>1, <1>2, <1>3, <1>4 DEF PolicyTypes, Works
<1>6. IdsAreKnown'
  BY <1>1, <1>2, <1>3 DEF IdsAreKnown
<1>7. WantedIsKept' /\ RestoredIsThere'
  BY <1>1, <1>2, <1>4 DEF WantedIsKept, RestoredIsThere
<1>8. WorkIsApplied'
  BY <1>1 DEF WorkIsApplied, NoWork
<1>9. PolicyIsChecked'
  BY <1>1, <1>3 DEF PolicyIsChecked
<1>10. QED
  BY <1>3, <1>5, <1>6, <1>7, <1>8, <1>9 DEF PolicyInv

LEMMA StaleKeeps == ASSUME PolicyInv, JobIsStale PROVE PolicyInv'
<1>1. /\ PolicyTypes /\ IdsAreKnown /\ JobsInOrder /\ WritesInOrder /\ FileFollows /\ jobs # <<>> /\ JobOver
      /\ work' = NoWork /\ work'.at = "idle"
      /\ rec' = rec /\ current' = current /\ writes' = writes /\ stored' = stored /\ timer' = timer
      /\ broken' = broken
  BY DEF PolicyInv, JobIsStale, JobOver, recordVars, fileVars, NoWork
<1>2. work.at \in {"idle", "check"} /\ (work = NoWork <=> work.at = "idle")
  BY <1>1, WorkIs DEF JobIsStale
<1>3. Head(jobs) = jobs[1] /\ 1 \in DOMAIN jobs /\ Head(jobs).record \in Ids /\ (current # 0 => current \in Ids)
  BY <1>1, PolicyParts DEF IdsAreKnown
<1>4. \A k \in DOMAIN writes : /\ writes[k].by # 0 /\ writes[k].by \in DOMAIN updates
                               /\ updates[writes[k].by].at \in {"persist", "undo"}
                               /\ writes[k].by \in DOMAIN updates' /\ updates'[writes[k].by] = updates[writes[k].by]
  <2> SUFFICES ASSUME NEW k \in DOMAIN writes
               PROVE  /\ writes[k].by # 0 /\ writes[k].by \in DOMAIN updates
                      /\ updates[writes[k].by].at \in {"persist", "undo"}
                      /\ writes[k].by \in DOMAIN updates' /\ updates'[writes[k].by] = updates[writes[k].by]
    OBVIOUS
  <2>1. /\ writes[k].by # 0 /\ writes[k].by \in DOMAIN updates
        /\ updates[writes[k].by].at \in {"persist", "undo"}
    BY <1>1, <1>2 DEF WritesInOrder
  <2>2. CASE Head(jobs).by = "update"
    <3>1. Answered(Head(jobs).record)
      BY <1>1, <2>2 DEF JobOver
    <3>2. updates[Head(jobs).record].at = "queued"
      BY <1>1, <1>3, <2>2 DEF JobsInOrder
    <3>3. QED
      BY <2>1, <3>1, <3>2 DEF Answered
  <2>3. CASE Head(jobs).by # "update"
    BY <1>1, <2>1, <2>3 DEF JobOver
  <2>4. QED
    BY <2>2, <2>3
<1>5. WritesInOrder'
  BY <1>1, <1>4 DEF WritesInOrder
<1>6. FileFollows'
  <2>1. FileAfter(Len(writes))' = FileAfter(Len(writes))
    BY <1>1 DEF FileAfter
  <2>2. \A k \in DOMAIN writes' : OfUpdate(k)' => OfUpdate(k)
    BY <1>1, <1>4 DEF OfUpdate
  <2>3. QED
    BY <1>1, <2>1, <2>2 DEF FileFollows
<1>7. ASSUME ~broken', current # 0
      PROVE  Settled' \/ (CheckComes /\ (work = NoWork => Head(jobs).record # current))
  <2>1. Settled => Settled'
    BY <1>1 DEF Settled, Lets, JobIsStale, itemVars
  <2>2. CASE work = NoWork
    <3>1. ~SameVersion(current, Head(jobs).record)
      BY <1>2, <2>2 DEF JobIsStale
    <3>2. Head(jobs).record # current
      BY <1>7, <3>1 DEF SameVersion
    <3>3. ~Checking
      BY <2>2 DEF Checking
    <3>4. CheckComes \/ Settled
      BY <1>1, <1>7, <3>3 DEF PolicyInv, PolicyIsChecked
    <3>5. QED
      BY <2>1, <3>2, <3>4
  <2>3. CASE work # NoWork
    <3>1. ~SameVersion(current, work.record)
      BY <1>2, <2>3 DEF JobIsStale
    <3>2. work.record # current
      BY <1>7, <3>1 DEF SameVersion
    <3>3. QED
      BY <1>1, <1>7, <2>3, <3>2 DEF PolicyInv, PolicyIsChecked
  <2>4. QED
    BY <2>2, <2>3
<1>8. QED
  BY <1>1, <1>5, <1>6, <1>7, JobOverKeeps DEF PolicyTypes, JobIsStale

\* A mutation fails, "others" are the writes that are left.
LEMMA JobFailsKeeps ==
  ASSUME PolicyInv, work # NoWork, NEW others \in Seq(Writes), JobFails(others),
         UNCHANGED <<queued, rec, stored, restoring, itemVars>>,
         \A k \in DOMAIN others : \E j \in DOMAIN writes : others[k] = writes[j] /\ writes[j].by # 0,
         \A k, m \in DOMAIN others : others[k].by = others[m].by => k = m,
         \A k \in DOMAIN others :
           updates[others[k].by].at = "persist" /\ (\A m \in DOMAIN others : m > k => others[m].by = 0) =>
             current = others[k].by,
         ~broken /\ (work.at = "persist" => work.record # current) =>
           (IF Len(others) = 0 THEN stored ELSE others[Len(others)].data) = Data(rec, current)
  PROVE  PolicyInv'
<1>1. PICK job : job = Head(jobs)
  OBVIOUS
<1>2. /\ PolicyTypes /\ IdsAreKnown /\ WantedIsKept /\ RestoredIsThere /\ JobsInOrder /\ WritesInOrder
      /\ jobs # <<>> /\ rec' = rec /\ stored' = stored /\ queued' = queued /\ restoring' = restoring
      /\ item' = item /\ byCodex' = byCodex
  BY DEF PolicyInv, JobsInOrder, itemVars
<1>3. /\ jobs' = Tail(jobs) /\ work' = NoWork
      /\ broken' = (broken \/ work.record = current \/ SameVersion(current, job.record))
      /\ IF job.by = "update"
         THEN Undo(job.record, others)
         ELSE writes' = others /\ UNCHANGED <<current, updates, asking, wanted>>
      /\ IF job.by = "timer" /\ current # 0 /\ rec[current].version = job.version
         THEN Schedule(rec, current) ELSE UNCHANGED timer
  BY <1>1 DEF JobFails
<1>4. /\ job = jobs[1] /\ 1 \in DOMAIN jobs /\ job \in Jobs /\ job.record \in Ids
      /\ (current # 0 => current \in Ids /\ rec[current] \in Record)
  BY <1>1, <1>2, PolicyParts DEF IdsAreKnown
<1>5. job.by = "update" => job.record \in DOMAIN updates /\ updates[job.record].at = "queued"
  BY <1>2, <1>4 DEF JobsInOrder
<1>6. \A k \in DOMAIN others : /\ others[k].by # 0 /\ others[k].by \in DOMAIN updates
                               /\ updates[others[k].by].at \in {"persist", "undo"}
                               /\ (job.by = "update" => others[k].by # job.record)
  BY <1>2, <1>5 DEF WritesInOrder
<1>7. /\ \A j \in DOMAIN updates : (job.by = "update" => j # job.record) => j \in DOMAIN updates' /\ updates'[j] = updates[j]
      /\ updates' \in [DOMAIN updates' -> [before : Nat, at : {"persist", "queued", "undo"}]]
      /\ DOMAIN updates' \subseteq Ids' /\ \A j \in DOMAIN updates' : updates'[j].before \in 0..Len(rec')
      /\ current' \in 0..Len(rec') /\ wanted' \in Options \cup {NoPolicy}
      /\ WantedIsKept' /\ RestoredIsThere'
      /\ \/ /\ job.by = "update" /\ SameVersion(current, job.record) /\ job.record \in DOMAIN updates'
            /\ updates'[job.record].at = "undo"
            /\ writes' = Append(others, [data |-> Data(rec, current'), by |-> job.record])
         \/ current' = current /\ writes' = others
  <2>1. CASE job.by = "update"
    <3>1. PICK i : i = job.record
      OBVIOUS
    <3>2. i \in DOMAIN updates /\ Undo(i, others)
      BY <1>3, <1>5, <2>1, <3>1
    <3>3. /\ \A j \in DOMAIN updates \ {i} : j \in DOMAIN updates' /\ updates'[j] = updates[j]
          /\ updates' \in [DOMAIN updates' -> [before : Nat, at : {"persist", "queued", "undo"}]]
          /\ DOMAIN updates' \subseteq Ids' /\ \A j \in DOMAIN updates' : updates'[j].before \in 0..Len(rec')
          /\ current' \in 0..Len(rec') /\ wanted' \in Options \cup {NoPolicy}
          /\ WantedIsKept' /\ RestoredIsThere'
          /\ \/ /\ SameVersion(current, i) /\ i \in DOMAIN updates' /\ updates'[i].at = "undo"
                /\ writes' = Append(others, [data |-> Data(rec, current'), by |-> i])
             \/ /\ current' = current /\ writes' = others
      BY <1>2, <3>2, UndoIs
    <3>4. QED
      BY <2>1, <3>1, <3>3
  <2>2. CASE job.by # "update"
    <3>1. writes' = others /\ current' = current /\ updates' = updates /\ wanted' = wanted
      BY <1>3, <2>2
    <3>2. QED
      BY <1>2, <3>1 DEF PolicyTypes, IdsAreKnown, Ids, WantedIsKept, RestoredIsThere
  <2>3. QED
    BY <2>1, <2>2
<1>8. /\ jobs' \in Seq(Jobs) /\ JobsInOrder'
      /\ \A n \in DOMAIN jobs' : jobs'[n].record \in Ids'
      /\ CheckComes /\ current' = current /\ (work = NoWork => Head(jobs).record # current) => CheckComes'
  BY <1>1, <1>2, <1>3, <1>7, JobsLose
<1>9. \A k \in DOMAIN others : others[k].by \in DOMAIN updates' /\ updates'[others[k].by] = updates[others[k].by]
  BY <1>6, <1>7
<1>10. DOMAIN others = 1..Len(others) /\ Len(others) \in Nat
  BY LenProperties
<1>11. writes' \in Seq(Writes) /\ WritesInOrder' /\ FileFollows'
  <2>1. CASE current' = current /\ writes' = others
    <3>1. WritesInOrder'
      BY <1>3, <1>6, <1>9, <2>1 DEF WritesInOrder, NoWork
    <3>2. ~broken' => FileAfter(Len(writes))' = Data(rec, current)
      BY <1>2, <1>3, <2>1 DEF FileAfter
    <3>3. \A k \in DOMAIN writes' : OfUpdate(k)' => updates[others[k].by].at = "persist"
      BY <1>9, <2>1 DEF OfUpdate
    <3>4. FileFollows'
      BY <1>2, <1>3, <2>1, <3>2, <3>3 DEF FileFollows, NoWork
    <3>5. QED
      BY <2>1, <3>1, <3>4
  <2>2. CASE /\ job.by = "update" /\ SameVersion(current, job.record) /\ job.record \in DOMAIN updates'
             /\ updates'[job.record].at = "undo"
             /\ writes' = Append(others, [data |-> Data(rec, current'), by |-> job.record])
    <3>1. broken'
      BY <1>3, <2>2
    <3>2. PICK e : e = [data |-> Data(rec, current'), by |-> job.record]
      OBVIOUS
    <3>3. e \in Writes
      BY <1>2, <1>4, <1>7, <3>2, DataIs DEF Writes, Jobs
    <3>4. /\ writes' \in Seq(Writes) /\ DOMAIN writes' = 1..(Len(others) + 1) /\ writes'[Len(others) + 1] = e
          /\ \A k \in DOMAIN others : writes'[k] = others[k]
      BY <1>10, <2>2, <3>2, <3>3, AppendIs
    <3>5. /\ job.record # 0 /\ e.by = job.record
          /\ \A k \in DOMAIN writes' : k \in DOMAIN others \/ k = Len(others) + 1
          /\ Len(others) + 1 \in DOMAIN writes' /\ \A k \in DOMAIN others : Len(others) + 1 > k
      BY <1>4, <1>10, <3>2, <3>4 DEF Ids
    <3>6. WritesInOrder'
      BY <1>3, <1>6, <1>9, <2>2, <3>4, <3>5 DEF WritesInOrder, NoWork
    <3>7. \A k \in DOMAIN writes' :
            ~(OfUpdate(k)' /\ (\A m \in DOMAIN writes' : m > k => writes'[m].by = 0))
      BY <2>2, <3>4, <3>5 DEF OfUpdate
    <3>8. FileFollows'
      BY <1>3, <3>1, <3>7 DEF FileFollows, NoWork
    <3>9. QED
      BY <3>4, <3>6, <3>8
  <2>3. QED
    BY <1>7, <2>1, <2>2
<1>12. timer' \in Nat
  BY <1>2, <1>3, <1>4 DEF PolicyTypes, Schedule, Record
<1>13. broken' \in BOOLEAN
  BY <1>2, <1>3 DEF PolicyTypes
<1>14. PolicyTypes'
  BY <1>2, <1>3, <1>7, <1>8, <1>11, <1>12, <1>13 DEF PolicyTypes, Works
<1>15. IdsAreKnown'
  BY <1>2, <1>3, <1>7, <1>8 DEF IdsAreKnown
<1>16. WorkIsApplied'
  BY <1>3 DEF WorkIsApplied, NoWork
<1>17. PolicyIsChecked'
  <2> SUFFICES ASSUME ~broken'
               PROVE  CheckComes'
    BY <1>3 DEF PolicyIsChecked
  <2>1. current' = current /\ ~broken /\ work.record # current
    BY <1>3, <1>7
  <2>2. QED
    BY <1>8, <2>1 DEF PolicyInv, PolicyIsChecked
<1>18. QED
  BY <1>7, <1>8, <1>11, <1>14, <1>15, <1>16, <1>17 DEF PolicyInv

LEMMA RequestFailsKeeps == ASSUME PolicyInv, RequestFails PROVE PolicyInv'
<1>1. /\ PolicyTypes /\ WritesInOrder /\ FileFollows /\ work # NoWork /\ work.at # "persist" /\ JobFails(writes)
      /\ writes \in Seq(Writes)
  BY DEF PolicyInv, RequestFails, PolicyTypes
<1>2. \A k \in DOMAIN writes : writes[k].by # 0
  BY <1>1 DEF WritesInOrder
<1>3. \A k, m \in DOMAIN writes : writes[k].by = writes[m].by => k = m
  BY <1>1 DEF WritesInOrder
<1>4. \A k \in DOMAIN writes :
        updates[writes[k].by].at = "persist" /\ (\A m \in DOMAIN writes : m > k => writes[m].by = 0) =>
          current = writes[k].by
  BY <1>1, <1>2 DEF FileFollows, OfUpdate
<1>5. ~broken => (IF Len(writes) = 0 THEN stored ELSE writes[Len(writes)].data) = Data(rec, current)
  BY <1>1 DEF FileFollows, FileAfter
<1>6. QED
  BY <1>1, <1>2, <1>3, <1>4, <1>5, JobFailsKeeps DEF RequestFails

-----------------------------------------------------------------------------
(* AutomationPolicy: the file                                              *)

\* The first write leaves: the others move up.
LEMMA WritesLose ==
  ASSUME PolicyTypes, WritesInOrder, writes # <<>>, NEW t, t = Tail(writes)
  PROVE  /\ t \in Seq(Writes) /\ Len(t) = Len(writes) - 1 /\ Len(writes) \in Nat \ {0} /\ Head(writes) \in Writes
         /\ DOMAIN writes = 1..Len(writes) /\ DOMAIN t = 1..Len(t)
         /\ Head(writes) = writes[1] /\ 1 \in DOMAIN writes
         /\ \A k \in DOMAIN t : k + 1 \in DOMAIN writes /\ t[k] = writes[k + 1] /\ writes[k + 1].by # writes[1].by
         /\ \A k, m \in DOMAIN t : t[k].by = t[m].by => k = m
<1>1. writes \in Seq(Writes)
  BY DEF PolicyTypes
<1>2. /\ t \in Seq(Writes) /\ Len(t) = Len(writes) - 1 /\ Len(writes) \in Nat \ {0} /\ Head(writes) \in Writes
      /\ DOMAIN writes = 1..Len(writes) /\ DOMAIN t = 1..Len(t) /\ Head(writes) = writes[1]
      /\ \A k \in DOMAIN t : t[k] = writes[k + 1]
  BY <1>1, TailIs
<1>3. 1 \in DOMAIN writes /\ \A k \in DOMAIN t : k + 1 \in DOMAIN writes /\ k + 1 # 1
  BY <1>2
<1>4. \A k \in DOMAIN t : writes[k + 1].by # writes[1].by
  BY <1>3 DEF WritesInOrder
<1>5. ASSUME NEW k \in DOMAIN t, NEW m \in DOMAIN t, t[k].by = t[m].by
      PROVE  k = m
  <2>1. k + 1 = m + 1
    BY <1>2, <1>3, <1>5 DEF WritesInOrder
  <2>2. QED
    BY <1>2, <2>1
<1>6. QED
  BY <1>2, <1>3, <1>4, <1>5

\* The last new policy is still the last one.
LEMMA LastStays ==
  ASSUME PolicyTypes, WritesInOrder, FileFollows, writes # <<>>, NEW t, t = Tail(writes),
         NEW k \in DOMAIN t, t[k].by # 0, updates[t[k].by].at = "persist",
         \A m \in DOMAIN t : m > k => t[m].by = 0
  PROVE  current = t[k].by
<1>1. /\ DOMAIN writes = 1..Len(writes) /\ DOMAIN t = 1..Len(t) /\ Len(t) = Len(writes) - 1 /\ Len(writes) \in Nat
      /\ k + 1 \in DOMAIN writes /\ t[k] = writes[k + 1] /\ \A m \in DOMAIN t : t[m] = writes[m + 1]
  BY WritesLose
<1>2. ASSUME NEW m \in DOMAIN writes, m > k + 1
      PROVE  writes[m].by = 0
  <2>1. m - 1 \in DOMAIN t /\ m - 1 > k /\ (m - 1) + 1 = m
    BY <1>1, <1>2
  <2>2. QED
    BY <1>1, <2>1
<1>3. OfUpdate(k + 1)
  BY <1>1 DEF OfUpdate
<1>4. QED
  BY <1>1, <1>2, <1>3 DEF FileFollows

\* What the file says after the last write, and before it.
LEMMA FileMoves ==
  ASSUME PolicyTypes, WritesInOrder, writes # <<>>, writes' = Tail(writes), stored' = Head(writes).data
  PROVE  /\ FileAfter(Len(writes))' = FileAfter(Len(writes))
         /\ writes' # <<>> => FileAfter(Len(writes) - 1)' = FileAfter(Len(writes) - 1)
         /\ writes' # <<>> => writes'[Len(writes')] = writes[Len(writes)]
<1>1. /\ writes' \in Seq(Writes) /\ DOMAIN writes' = 1..Len(writes') /\ Len(writes') = Len(writes) - 1
      /\ Len(writes) \in Nat \ {0} /\ Head(writes) = writes[1]
      /\ \A k \in DOMAIN writes' : writes'[k] = writes[k + 1]
  BY WritesLose
<1>2. writes' # <<>> => Len(writes') # 0
  BY <1>1, SeqIs
<1>3. Len(writes') # 0 => /\ writes'[Len(writes')] = writes[Len(writes)]
                          /\ Len(writes') # 1 => writes'[Len(writes') - 1] = writes[Len(writes) - 1]
  <2> SUFFICES ASSUME Len(writes') # 0
               PROVE  /\ writes'[Len(writes')] = writes[Len(writes)]
                      /\ Len(writes') # 1 => writes'[Len(writes') - 1] = writes[Len(writes) - 1]
    OBVIOUS
  <2>1. Len(writes') \in DOMAIN writes' /\ Len(writes') + 1 = Len(writes)
    BY <1>1
  <2>2. Len(writes') # 1 => Len(writes') - 1 \in DOMAIN writes' /\ (Len(writes') - 1) + 1 = Len(writes) - 1
    BY <1>1
  <2>3. QED
    BY <1>1, <2>1, <2>2
<1>4. FileAfter(Len(writes))' = FileAfter(Len(writes))
  BY <1>1, <1>3 DEF FileAfter
<1>5. Len(writes') # 0 => FileAfter(Len(writes) - 1)' = FileAfter(Len(writes) - 1)
  BY <1>1, <1>3 DEF FileAfter
<1>6. QED
  BY <1>2, <1>3, <1>4, <1>5

\* The file has been written after a mutation: it is over.
LEMMA FinishedKeeps == ASSUME PolicyInv, WriteDone, Head(writes).by = 0 PROVE PolicyInv'
<1>1. /\ PolicyTypes /\ IdsAreKnown /\ JobsInOrder /\ WritesInOrder /\ FileFollows /\ WorkIsApplied
      /\ writes # <<>> /\ stored' = Head(writes).data /\ writes' = Tail(writes)
      /\ JobOver /\ work' = NoWork /\ work'.at = "idle" /\ Schedule(rec, work.record)
      /\ broken' = (broken /\ work.record # current) /\ broken \in BOOLEAN
      /\ rec' = rec /\ current' = current /\ item' = item /\ byCodex' = byCodex
  BY DEF PolicyInv, PolicyTypes, WriteDone, JobOver, recordVars, itemVars, NoWork
<1>2. /\ writes' \in Seq(Writes) /\ Head(writes) = writes[1] /\ 1 \in DOMAIN writes /\ Head(writes) \in Writes
      /\ \A k \in DOMAIN writes' : k + 1 \in DOMAIN writes /\ writes'[k] = writes[k + 1] /\ writes[k + 1].by # writes[1].by
      /\ \A k, m \in DOMAIN writes' : writes'[k].by = writes'[m].by => k = m
  BY <1>1, WritesLose
<1>3. work.at = "persist" /\ work # NoWork /\ jobs # <<>> /\ work.record \in Ids /\ rec[work.record] \in Record
  BY <1>1, <1>2, PolicyParts DEF WritesInOrder, NoWork, JobsInOrder, IdsAreKnown
<1>4. Head(jobs) = jobs[1] /\ 1 \in DOMAIN jobs
  BY <1>1, <1>3, PolicyParts
<1>5. \A k \in DOMAIN writes' : /\ writes'[k].by # 0 /\ writes'[k].by \in DOMAIN updates
                                /\ updates[writes'[k].by].at \in {"persist", "undo"}
                                /\ writes'[k].by \in DOMAIN updates' /\ updates'[writes'[k].by] = updates[writes'[k].by]
  <2> SUFFICES ASSUME NEW k \in DOMAIN writes'
               PROVE  /\ writes'[k].by # 0 /\ writes'[k].by \in DOMAIN updates
                      /\ updates[writes'[k].by].at \in {"persist", "undo"}
                      /\ writes'[k].by \in DOMAIN updates' /\ updates'[writes'[k].by] = updates[writes'[k].by]
    OBVIOUS
  <2>1. /\ writes'[k].by # 0 /\ writes'[k].by \in DOMAIN updates
        /\ updates[writes'[k].by].at \in {"persist", "undo"}
    BY <1>1, <1>2 DEF WritesInOrder
  <2>2. CASE Head(jobs).by = "update"
    <3>1. Answered(Head(jobs).record)
      BY <1>1, <2>2 DEF JobOver
    <3>2. updates[Head(jobs).record].at = "queued"
      BY <1>1, <1>4, <2>2 DEF JobsInOrder
    <3>3. QED
      BY <2>1, <3>1, <3>2 DEF Answered
  <2>3. CASE Head(jobs).by # "update"
    BY <1>1, <2>1, <2>3 DEF JobOver
  <2>4. QED
    BY <2>2, <2>3
<1>6. WritesInOrder'
  BY <1>1, <1>2, <1>5 DEF WritesInOrder
<1>7. FileFollows'
  <2>1. FileAfter(Len(writes))' = Data(rec, current)
    BY <1>1, <1>3, FileMoves DEF FileFollows
  <2>2. ASSUME NEW k \in DOMAIN writes', OfUpdate(k)', \A m \in DOMAIN writes' : m > k => writes'[m].by = 0
        PROVE  current = writes'[k].by
    BY <1>1, <1>5, <2>2, LastStays DEF OfUpdate
  <2>3. QED
    BY <1>1, <2>1, <2>2 DEF FileFollows
<1>8. stored' \in Stored /\ timer' \in Nat /\ broken' \in BOOLEAN
  BY <1>1, <1>2, <1>3 DEF Writes, Schedule, Record
<1>9. ASSUME ~broken', current # 0
      PROVE  Settled' \/ (CheckComes /\ (work = NoWork => Head(jobs).record # current))
  <2>1. CASE work.record = current
    <3>1. Lets(rec[current])
      BY <1>1, <1>3, <2>1 DEF WorkIsApplied, Mine
    <3>2. QED
      BY <1>1, <2>1, <3>1 DEF Settled, Lets, Schedule
  <2>2. CASE work.record # current
    BY <1>1, <1>3, <1>9, <2>2 DEF PolicyInv, PolicyIsChecked
  <2>3. QED
    BY <2>1, <2>2
<1>10. QED
  BY <1>1, <1>2, <1>3, <1>6, <1>7, <1>8, <1>9, JobOverKeeps DEF WriteDone

\* The file has been written for an update: it joins the queue, or its answer is given.
LEMMA WrittenKeeps == ASSUME PolicyInv, WriteDone, Head(writes).by # 0 PROVE PolicyInv'
<1>1. PICK i : i = Head(writes).by
  OBVIOUS
<1>2. /\ PolicyTypes /\ IdsAreKnown /\ WantedIsKept /\ RestoredIsThere /\ JobsInOrder /\ WritesInOrder /\ FileFollows
      /\ WorkIsApplied /\ writes # <<>> /\ stored' = Head(writes).data /\ writes' = Tail(writes)
      /\ rec' = rec /\ current' = current /\ item' = item /\ byCodex' = byCodex
      /\ queued' = queued /\ wanted' = wanted
      /\ work' = work /\ timer' = timer /\ restoring' = restoring /\ broken' = broken
      /\ IF updates[i].at = "persist"
         THEN /\ jobs' = Append(jobs, Job("update", i))
              /\ updates' = [updates EXCEPT ![i].at = "queued"] /\ UNCHANGED asking
         ELSE Answered(i) /\ UNCHANGED jobs
  BY <1>1 DEF PolicyInv, WriteDone, recordVars, itemVars
<1>3. /\ writes' \in Seq(Writes) /\ Head(writes) = writes[1] /\ 1 \in DOMAIN writes /\ Head(writes) \in Writes
      /\ \A k \in DOMAIN writes' : k + 1 \in DOMAIN writes /\ writes'[k] = writes[k + 1] /\ writes[k + 1].by # writes[1].by
      /\ \A k, m \in DOMAIN writes' : writes'[k].by = writes'[m].by => k = m
      /\ DOMAIN writes = 1..Len(writes) /\ DOMAIN writes' = 1..Len(writes') /\ Len(writes') = Len(writes) - 1
  BY <1>2, WritesLose
<1>4. i # 0 /\ i \in DOMAIN updates /\ updates[i].at \in {"persist", "undo"} /\ i \in Ids /\ i \in Nat
  BY <1>1, <1>2, <1>3 DEF WritesInOrder, IdsAreKnown, Ids
<1>5. /\ \A j \in DOMAIN updates \ {i} : j \in DOMAIN updates' /\ updates'[j] = updates[j]
      /\ DOMAIN updates' \subseteq DOMAIN updates
      /\ \A j \in DOMAIN updates' : updates'[j].before = updates[j].before
      /\ updates' \in [DOMAIN updates' -> [before : Nat, at : {"persist", "queued", "undo"}]]
      /\ DOMAIN updates' \subseteq Ids' /\ \A j \in DOMAIN updates' : updates'[j].before \in 0..Len(rec')
      /\ updates[i].at = "persist" => i \in DOMAIN updates' /\ updates'[i].at = "queued"
  <2>1. CASE updates[i].at = "persist"
    <3>1. updates' = [updates EXCEPT ![i].at = "queued"]
      BY <1>2, <2>1
    <3>2. updates[i] \in [before : Nat, at : {"persist", "queued", "undo"}]
      BY <1>2, <1>4 DEF PolicyTypes
    <3>3. /\ DOMAIN updates' = DOMAIN updates /\ updates'[i].at = "queued" /\ updates'[i].before = updates[i].before
          /\ \A j \in DOMAIN updates \ {i} : updates'[j] = updates[j]
          /\ updates' \in [DOMAIN updates' -> [before : Nat, at : {"persist", "queued", "undo"}]]
      BY <1>2, <1>4, <3>1, <3>2 DEF PolicyTypes
    <3>4. \A j \in DOMAIN updates' : updates'[j].before = updates[j].before
      BY <3>3
    <3>5. DOMAIN updates' \subseteq Ids' /\ \A j \in DOMAIN updates' : updates'[j].before \in 0..Len(rec')
      BY <1>2, <3>3, <3>4 DEF IdsAreKnown, Ids
    <3>6. QED
      BY <1>4, <3>3, <3>4, <3>5
  <2>2. CASE updates[i].at # "persist"
    <3>1. Answered(i)
      BY <1>2, <2>2
    <3>2. /\ DOMAIN updates' = DOMAIN updates \ {i}
          /\ \A j \in DOMAIN updates \ {i} : updates'[j] = updates[j]
          /\ updates' \in [DOMAIN updates' -> [before : Nat, at : {"persist", "queued", "undo"}]]
          /\ DOMAIN updates' \subseteq Ids' /\ \A j \in DOMAIN updates' : updates'[j].before \in 0..Len(rec')
      BY <1>2, <3>1, AnsweredIs
    <3>3. QED
      BY <2>2, <3>2
  <2>3. QED
    BY <2>1, <2>2
<1>6. \A n \in DOMAIN jobs : jobs[n].by = "update" =>
        jobs[n].record # i /\ jobs[n].record \in DOMAIN updates' /\ updates'[jobs[n].record].at = "queued"
  BY <1>2, <1>4, <1>5 DEF JobsInOrder
<1>7. /\ jobs' \in Seq(Jobs) /\ JobsInOrder' /\ \A n \in DOMAIN jobs' : jobs'[n].record \in Ids'
      /\ DOMAIN jobs \subseteq DOMAIN jobs' /\ \A n \in DOMAIN jobs : jobs'[n] = jobs[n]
      /\ jobs # <<>> => Head(jobs') = Head(jobs)
      /\ updates[i].at = "persist" => \E n \in DOMAIN jobs' : jobs'[n].record = i /\ (n > 1 \/ work = NoWork)
  <2>1. CASE updates[i].at = "persist"
    <3>1. PICK job : job = Job("update", i)
      OBVIOUS
    <3>2. rec[i] \in Record
      BY <1>2, <1>4, PolicyParts
    <3>3. job \in Jobs /\ job.by = "update" /\ job.record = i
      BY <1>4, <3>1, <3>2 DEF Job, Jobs, Record
    <3>4. PICK n : n = Len(jobs) + 1
      OBVIOUS
    <3>5. /\ jobs' \in Seq(Jobs) /\ DOMAIN jobs' = DOMAIN jobs \cup {n} /\ n \notin DOMAIN jobs /\ jobs'[n] = job
          /\ \A m \in DOMAIN jobs : jobs'[m] = jobs[m]
          /\ Len(jobs) \in Nat /\ DOMAIN jobs = 1..Len(jobs) /\ jobs' # <<>>
      <4>1. jobs \in Seq(Jobs) /\ jobs' = Append(jobs, job)
        BY <1>2, <2>1, <3>1 DEF PolicyTypes
      <4>2. QED
        BY <3>3, <3>4, <4>1, AppendIs
    <3>6. JobsInOrder'
      <4>1. work' # NoWork => jobs' # <<>>
        BY <3>5
      <4>2. \A m \in DOMAIN jobs' : jobs'[m].by = "update" =>
              jobs'[m].record \in DOMAIN updates' /\ updates'[jobs'[m].record].at = "queued"
        BY <1>5, <1>6, <2>1, <3>3, <3>5
      <4>3. \A m, p \in DOMAIN jobs' :
              jobs'[m].by = "update" /\ jobs'[p].by = "update" /\ jobs'[m].record = jobs'[p].record => m = p
        BY <1>2, <1>6, <3>3, <3>5 DEF JobsInOrder
      <4>4. QED
        BY <4>1, <4>2, <4>3 DEF JobsInOrder
    <3>7. \A m \in DOMAIN jobs' : jobs'[m].record \in Ids'
      BY <1>2, <1>4, <3>3, <3>5 DEF IdsAreKnown, Ids
    <3>8. jobs # <<>> => Head(jobs') = Head(jobs)
      <4> SUFFICES ASSUME jobs # <<>>
                   PROVE  Head(jobs') = Head(jobs)
        OBVIOUS
      <4>1. Head(jobs) = jobs[1] /\ 1 \in DOMAIN jobs
        BY <1>2, PolicyParts
      <4>2. Head(jobs') = jobs'[1]
        BY <3>5, TailIs
      <4>3. QED
        BY <3>5, <4>1, <4>2
    <3>9. n > 1 \/ work = NoWork
      <4>1. CASE jobs = <<>>
        BY <1>2, <4>1 DEF JobsInOrder
      <4>2. CASE jobs # <<>>
        BY <1>2, <3>4, <4>2, PolicyParts
      <4>3. QED
        BY <4>1, <4>2
    <3>10. QED
      BY <3>3, <3>5, <3>6, <3>7, <3>8, <3>9
  <2>2. CASE updates[i].at # "persist"
    <3>1. jobs' = jobs
      BY <1>2, <2>2
    <3>2. JobsInOrder'
      BY <1>2, <1>6, <3>1 DEF JobsInOrder
    <3>3. QED
      BY <1>2, <2>2, <3>1, <3>2 DEF PolicyTypes, IdsAreKnown, Ids
  <2>3. QED
    BY <2>1, <2>2
<1>8. PolicyTypes'
  <2>1. stored' \in Stored
    BY <1>2, <1>3 DEF Writes
  <2>2. QED
    BY <1>2, <1>3, <1>5, <1>7, <2>1 DEF PolicyTypes
<1>9. IdsAreKnown'
  BY <1>2, <1>5, <1>7 DEF IdsAreKnown, Ids
<1>10. WantedIsKept' /\ RestoredIsThere'
  BY <1>2, <1>5 DEF WantedIsKept, RestoredIsThere
<1>11. \A k \in DOMAIN writes' : writes'[k].by # 0 =>
         /\ writes'[k].by \in DOMAIN updates' /\ updates'[writes'[k].by] = updates[writes'[k].by]
  BY <1>1, <1>2, <1>3, <1>5 DEF WritesInOrder
<1>12. WritesInOrder'
  <2>1. \A k \in DOMAIN writes' :
          IF writes'[k].by = 0 THEN work'.at = "persist"
          ELSE writes'[k].by \in DOMAIN updates' /\ updates'[writes'[k].by].at \in {"persist", "undo"}
    BY <1>2, <1>3, <1>11 DEF WritesInOrder
  <2>2. ASSUME work.at = "persist"
        PROVE  \E k \in DOMAIN writes' : writes'[k].by = 0
    <3>1. PICK k \in DOMAIN writes : writes[k].by = 0
      BY <1>2, <2>2 DEF WritesInOrder
    <3>2. k # 1
      BY <1>1, <1>3, <1>4, <3>1
    <3>3. k - 1 \in DOMAIN writes' /\ (k - 1) + 1 = k
      BY <1>3, <3>2
    <3>4. QED
      BY <1>3, <3>1, <3>3
  <2>3. QED
    BY <1>2, <1>3, <2>1, <2>2 DEF WritesInOrder
<1>13. FileFollows'
  <2>1. /\ FileAfter(Len(writes))' = FileAfter(Len(writes))
        /\ writes' # <<>> => FileAfter(Len(writes) - 1)' = FileAfter(Len(writes) - 1)
        /\ writes' # <<>> => writes'[Len(writes')] = writes[Len(writes)]
    BY <1>2, FileMoves
  <2>2. ASSUME NEW k \in DOMAIN writes', OfUpdate(k)', \A m \in DOMAIN writes' : m > k => writes'[m].by = 0
        PROVE  current = writes'[k].by
    BY <1>2, <1>11, <2>2, LastStays DEF OfUpdate
  <2>3. QED
    BY <1>2, <2>1, <2>2 DEF FileFollows
<1>14. WorkIsApplied'
  <2>1. work.at = "applied" => jobs # <<>>
    BY <1>2, WorkIs DEF JobsInOrder
  <2>2. QED
    BY <1>2, <1>7, <2>1, WorkStaysApplied
<1>15. PolicyIsChecked'
  <2>1. CheckComes => CheckComes'
    <3>1. CASE current \in DOMAIN updates /\ updates[current].at = "persist" /\ current = i
      BY <1>2, <1>7, <3>1 DEF CheckComes
    <3>2. CASE current \in DOMAIN updates /\ updates[current].at = "persist" /\ current # i
      BY <1>2, <1>5, <3>2 DEF CheckComes
    <3>3. CASE \E n \in DOMAIN jobs : jobs[n].record = current /\ (n > 1 \/ work = NoWork)
      BY <1>2, <1>7, <3>3 DEF CheckComes
    <3>4. QED
      BY <3>1, <3>2, <3>3 DEF CheckComes
  <2>2. (Checking <=> Checking') /\ (Settled <=> Settled')
    BY <1>2 DEF Checking, Settled, Lets
  <2>3. QED
    BY <1>2, <2>1, <2>2 DEF PolicyInv, PolicyIsChecked
<1>16. QED
  BY <1>7, <1>8, <1>9, <1>10, <1>12, <1>13, <1>14, <1>15 DEF PolicyInv

\* The file cannot be written: the mutation fails, or the update is undone.
LEMMA WriteFailsKeeps == ASSUME PolicyInv, WriteFails PROVE PolicyInv'
<1>1. PICK i : i = Head(writes).by
  OBVIOUS
<1>2. PICK t : t = Tail(writes)
  OBVIOUS
<1>3. /\ PolicyTypes /\ IdsAreKnown /\ WantedIsKept /\ RestoredIsThere /\ JobsInOrder /\ WritesInOrder /\ FileFollows
      /\ writes # <<>> /\ rec' = rec /\ item' = item /\ byCodex' = byCodex /\ queued' = queued
      /\ stored' = stored /\ restoring' = restoring
  BY DEF PolicyInv, WriteFails, itemVars
<1>4. /\ t \in Seq(Writes) /\ Len(t) = Len(writes) - 1 /\ Len(writes) \in Nat \ {0}
      /\ DOMAIN writes = 1..Len(writes) /\ DOMAIN t = 1..Len(t)
      /\ Head(writes) = writes[1] /\ 1 \in DOMAIN writes
      /\ \A k \in DOMAIN t : k + 1 \in DOMAIN writes /\ t[k] = writes[k + 1] /\ writes[k + 1].by # writes[1].by
      /\ \A k, m \in DOMAIN t : t[k].by = t[m].by => k = m
  BY <1>2, <1>3, WritesLose
<1>5. Len(t) # 0 => Len(t) \in DOMAIN t /\ t[Len(t)] = writes[Len(writes)]
  <2> SUFFICES ASSUME Len(t) # 0
               PROVE  Len(t) \in DOMAIN t /\ t[Len(t)] = writes[Len(writes)]
    OBVIOUS
  <2>1. Len(t) \in DOMAIN t /\ Len(t) + 1 = Len(writes)
    BY <1>4
  <2>2. QED
    BY <1>4, <2>1
<1>6. CASE i = 0
  <2>1. JobFails(t)
    BY <1>1, <1>2, <1>6 DEF WriteFails
  <2>2. work # NoWork /\ work.at = "persist"
    BY <1>1, <1>3, <1>4, <1>6 DEF WritesInOrder, NoWork
  <2>3. \A k \in DOMAIN t : \E j \in DOMAIN writes : t[k] = writes[j] /\ writes[j].by # 0
    BY <1>1, <1>4, <1>6
  <2>4. \A k \in DOMAIN t :
          updates[t[k].by].at = "persist" /\ (\A m \in DOMAIN t : m > k => t[m].by = 0) => current = t[k].by
    BY <1>2, <1>3, <2>3, LastStays
  <2>5. ASSUME ~broken, work.record # current
        PROVE  (IF Len(t) = 0 THEN stored ELSE t[Len(t)].data) = Data(rec, current)
    <3>1. CASE Len(t) = 0
      <4>1. Len(writes) = 1 /\ writes[Len(writes)].by = 0 /\ Len(writes) - 1 = 0
        BY <1>1, <1>4, <1>6, <3>1
      <4>2. FileAfter(0) = Data(rec, current)
        BY <1>3, <2>2, <2>5, <4>1 DEF FileFollows
      <4>3. QED
        BY <3>1, <4>2 DEF FileAfter
    <3>2. CASE Len(t) # 0
      <4>1. FileAfter(Len(writes)) = Data(rec, current)
        BY <1>3, <2>2 DEF FileFollows
      <4>2. QED
        BY <1>4, <1>5, <3>2, <4>1 DEF FileAfter
    <3>3. QED
      BY <3>1, <3>2
  <2>6. QED
    BY <1>4, <2>1, <2>2, <2>3, <2>4, <2>5, JobFailsKeeps DEF WriteFails
<1>7. CASE i # 0
  <2>1. i \in DOMAIN updates /\ updates[i].at \in {"persist", "undo"} /\ i \in Ids /\ i \in Nat
    BY <1>1, <1>3, <1>4, <1>7 DEF WritesInOrder, IdsAreKnown, Ids
  <2>2. jobs' = jobs /\ work' = work /\ timer' = timer /\ broken' \in BOOLEAN
    BY <1>1, <1>3, <1>7 DEF WriteFails, PolicyTypes
  <2>3. /\ \A j \in DOMAIN updates \ {i} : j \in DOMAIN updates' /\ updates'[j] = updates[j]
        /\ updates' \in [DOMAIN updates' -> [before : Nat, at : {"persist", "queued", "undo"}]]
        /\ DOMAIN updates' \subseteq Ids' /\ \A j \in DOMAIN updates' : updates'[j].before \in 0..Len(rec')
        /\ current' \in 0..Len(rec') /\ wanted' \in Options \cup {NoPolicy}
        /\ WantedIsKept' /\ RestoredIsThere'
        /\ \/ /\ broken' /\ i \in DOMAIN updates' /\ updates'[i].at = "undo"
              /\ writes' = Append(t, [data |-> Data(rec, current'), by |-> i])
           \/ /\ current' = current /\ writes' = t
              /\ \/ broken'
                 \/ updates[i].at = "persist" /\ current # i /\ broken' = broken
    <3>1. CASE updates[i].at = "persist"
      <4>1. Undo(i, t) /\ broken' = (broken \/ SameVersion(current, i))
        BY <1>1, <1>2, <1>7, <3>1 DEF WriteFails
      <4>2. ~SameVersion(current, i) => current # i
        BY <1>7 DEF SameVersion
      <4>3. /\ \A j \in DOMAIN updates \ {i} : j \in DOMAIN updates' /\ updates'[j] = updates[j]
            /\ updates' \in [DOMAIN updates' -> [before : Nat, at : {"persist", "queued", "undo"}]]
            /\ DOMAIN updates' \subseteq Ids' /\ \A j \in DOMAIN updates' : updates'[j].before \in 0..Len(rec')
            /\ current' \in 0..Len(rec') /\ wanted' \in Options \cup {NoPolicy}
            /\ WantedIsKept' /\ RestoredIsThere'
            /\ \/ /\ SameVersion(current, i) /\ i \in DOMAIN updates' /\ updates'[i].at = "undo"
                  /\ writes' = Append(t, [data |-> Data(rec, current'), by |-> i])
               \/ /\ ~SameVersion(current, i) /\ current' = current /\ writes' = t
        BY <1>3, <2>1, <4>1, UndoIs
      <4>4. broken \in BOOLEAN
        BY <1>3 DEF PolicyTypes
      <4>5. QED
        BY <3>1, <4>1, <4>2, <4>3, <4>4
    <3>2. CASE updates[i].at # "persist"
      <4>1. Answered(i) /\ writes' = t /\ broken' = TRUE /\ current' = current /\ wanted' = wanted
        BY <1>1, <1>2, <1>7, <3>2 DEF WriteFails
      <4>2. /\ DOMAIN updates' = DOMAIN updates \ {i}
            /\ \A j \in DOMAIN updates \ {i} : updates'[j] = updates[j]
            /\ updates' \in [DOMAIN updates' -> [before : Nat, at : {"persist", "queued", "undo"}]]
            /\ DOMAIN updates' \subseteq Ids' /\ \A j \in DOMAIN updates' : updates'[j].before \in 0..Len(rec')
        BY <1>3, <4>1, AnsweredIs
      <4>3. WantedIsKept' /\ RestoredIsThere'
        BY <1>3, <4>1, <4>2 DEF WantedIsKept, RestoredIsThere
      <4>4. current' \in 0..Len(rec') /\ wanted' \in Options \cup {NoPolicy}
        BY <1>3, <4>1 DEF IdsAreKnown, PolicyTypes
      <4>5. QED
        BY <4>1, <4>2, <4>3, <4>4
    <3>3. QED
      BY <3>1, <3>2
  <2>4. JobsInOrder'
    <3>1. \A n \in DOMAIN jobs : jobs[n].by = "update" =>
            jobs[n].record \in DOMAIN updates' /\ updates'[jobs[n].record].at = "queued"
      BY <1>3, <2>1, <2>3 DEF JobsInOrder
    <3>2. QED
      BY <1>3, <2>2, <3>1 DEF JobsInOrder
  <2>5. \A k \in DOMAIN t : /\ t[k].by # i
                            /\ t[k].by = 0 => work.at = "persist"
                            /\ t[k].by # 0 => /\ t[k].by \in DOMAIN updates /\ updates[t[k].by].at \in {"persist", "undo"}
                                              /\ t[k].by \in DOMAIN updates' /\ updates'[t[k].by] = updates[t[k].by]
    BY <1>1, <1>3, <1>4, <2>3 DEF WritesInOrder
  <2>6. work.at = "persist" => (\E k \in DOMAIN t : t[k].by = 0) /\ Len(t) # 0
    <3> SUFFICES ASSUME work.at = "persist"
                 PROVE  (\E k \in DOMAIN t : t[k].by = 0) /\ Len(t) # 0
      OBVIOUS
    <3>1. PICK k \in DOMAIN writes : writes[k].by = 0
      BY <1>3 DEF WritesInOrder
    <3>2. k # 1
      BY <1>1, <1>4, <1>7, <3>1
    <3>3. k - 1 \in DOMAIN t /\ (k - 1) + 1 = k /\ Len(t) # 0
      BY <1>4, <3>2
    <3>4. QED
      BY <1>4, <3>1, <3>3
  <2>7. writes' \in Seq(Writes) /\ WritesInOrder' /\ FileFollows'
    <3>1. CASE current' = current /\ writes' = t
      <4>1. WritesInOrder'
        BY <1>4, <2>2, <2>5, <2>6, <3>1 DEF WritesInOrder
      <4>2. ASSUME NEW k \in DOMAIN writes', OfUpdate(k)', \A m \in DOMAIN writes' : m > k => writes'[m].by = 0
            PROVE  current = writes'[k].by
        BY <1>2, <1>3, <2>5, <3>1, <4>2, LastStays DEF OfUpdate
      <4>3. Len(t) # 0 => FileAfter(Len(writes))' = FileAfter(Len(writes))
        BY <1>4, <1>5, <3>1 DEF FileAfter
      <4>4. ASSUME ~broken'
            PROVE  Len(t) # 0 /\ ~broken /\ (t[Len(t)].by = 0 => Len(t) # 1)
        <5>1. updates[i].at = "persist" /\ current # i /\ ~broken
          BY <2>3, <1>7, <3>1, <4>4
        <5>2. OfUpdate(1) /\ writes[1].by = i
          BY <1>1, <1>4, <1>7, <5>1 DEF OfUpdate
        <5>3. PICK m \in DOMAIN writes : m > 1 /\ writes[m].by # 0
          BY <1>3, <1>4, <5>1, <5>2 DEF FileFollows
        <5>4. m - 1 \in DOMAIN t /\ (m - 1) + 1 = m /\ Len(t) # 0
          BY <1>4, <5>3
        <5>5. t[m - 1].by # 0
          BY <1>4, <5>3, <5>4
        <5>6. Len(t) = 1 => m - 1 = Len(t)
          <6>1. m \in Nat /\ m > 1 /\ m =< Len(writes) /\ Len(writes) \in Nat
            BY <1>4, <5>3
          <6>2. PICK p \in Nat : p = Len(t)
            BY <1>4
          <6>3. p = Len(writes) - 1
            BY <1>4, <6>2
          <6>4. p = 1 => m - 1 = p
            BY <6>1, <6>3
          <6>5. QED
            BY <6>2, <6>4
        <5>7. QED
          BY <5>1, <5>4, <5>5, <5>6
      <4>5. ~broken' \/ work'.at = "persist" => FileAfter(Len(writes))' = Data(rec, current)
        BY <1>3, <2>2, <2>6, <4>3, <4>4 DEF FileFollows
      <4>6. ASSUME ~broken', work'.at = "persist", work'.record # current, writes'[Len(writes')].by = 0
            PROVE  FileAfter(Len(writes) - 1)' = Data(rec, current)
        <5>1. Len(t) # 0 /\ Len(t) # 1 /\ ~broken /\ writes[Len(writes)].by = 0
          BY <1>5, <3>1, <4>4, <4>6
        <5>2. Len(t) - 1 \in DOMAIN t /\ (Len(t) - 1) + 1 = Len(writes) - 1 /\ Len(writes) - 1 # 0
          BY <1>4, <5>1
        <5>3. t[Len(t) - 1] = writes[Len(writes) - 1]
          BY <1>4, <5>2
        <5>4. FileAfter(Len(writes) - 1) = Data(rec, current)
          BY <1>3, <2>2, <4>6, <5>1 DEF FileFollows
        <5>5. Len(t) - 1 # 0
          BY <1>4, <5>1
        <5>6. QED
          BY <3>1, <5>2, <5>3, <5>4, <5>5 DEF FileAfter
      <4>7. FileFollows'
        BY <1>3, <3>1, <4>2, <4>5, <4>6 DEF FileFollows
      <4>8. QED
        BY <1>4, <3>1, <4>1, <4>7
    <3>2. CASE /\ broken' /\ i \in DOMAIN updates' /\ updates'[i].at = "undo"
               /\ writes' = Append(t, [data |-> Data(rec, current'), by |-> i])
      <4>1. PICK e : e = [data |-> Data(rec, current'), by |-> i]
        OBVIOUS
      <4>2. e \in Writes /\ e.by = i /\ e.data = Data(rec, current')
        BY <1>3, <2>1, <2>3, <4>1, DataIs DEF Writes
      <4>3. /\ writes' \in Seq(Writes) /\ DOMAIN writes' = 1..(Len(t) + 1) /\ Len(writes') = Len(t) + 1
            /\ writes'[Len(t) + 1] = e /\ \A k \in DOMAIN t : writes'[k] = t[k]
        BY <1>4, <3>2, <4>1, <4>2, AppendIs
      <4>4. /\ \A k \in DOMAIN writes' : k \in DOMAIN t \/ k = Len(t) + 1
            /\ Len(t) + 1 \in DOMAIN writes' /\ \A k \in DOMAIN t : Len(t) + 1 > k /\ k \in DOMAIN writes'
            /\ Len(t) + 1 # 0
        BY <1>4, <4>3
      <4>5. WritesInOrder'
        BY <1>4, <1>7, <2>2, <2>5, <2>6, <3>2, <4>2, <4>3, <4>4 DEF WritesInOrder
      <4>6. \A k \in DOMAIN writes' :
              ~(OfUpdate(k)' /\ (\A m \in DOMAIN writes' : m > k => writes'[m].by = 0))
        BY <1>7, <3>2, <4>2, <4>3, <4>4 DEF OfUpdate
      <4>7. FileAfter(Len(writes))' = Data(rec', current')
        BY <1>3, <4>2, <4>3, <4>4 DEF FileAfter
      <4>8. FileFollows'
        BY <3>2, <4>6, <4>7 DEF FileFollows
      <4>9. QED
        BY <4>3, <4>5, <4>8
    <3>3. QED
      BY <2>3, <3>1, <3>2
  <2>8. PolicyTypes'
    BY <1>3, <2>2, <2>3, <2>7 DEF PolicyTypes
  <2>9. IdsAreKnown'
    BY <1>3, <2>2, <2>3 DEF IdsAreKnown, Ids
  <2>10. WorkIsApplied'
    BY <1>3, <2>2, WorkStaysApplied
  <2>11. PolicyIsChecked'
    <3> SUFFICES ASSUME ~broken'
                 PROVE  PolicyIsChecked'
      BY DEF PolicyIsChecked
    <3>1. current' = current /\ ~broken /\ current # i
      BY <2>3
    <3>2. CheckComes => CheckComes'
      BY <2>2, <2>3, <3>1 DEF CheckComes
    <3>3. (Checking <=> Checking') /\ (Settled <=> Settled')
      BY <1>3, <2>2, <3>1 DEF Checking, Settled, Lets
    <3>4. QED
      BY <2>2, <3>1, <3>2, <3>3 DEF PolicyInv, PolicyIsChecked
  <2>12. QED
    BY <2>3, <2>4, <2>7, <2>8, <2>9, <2>10, <2>11 DEF PolicyInv
<1>8. QED
  BY <1>6, <1>7

LEMMA RestartKeeps == ASSUME PolicyInv, RestartInjector PROVE PolicyInv'
<1>1. /\ PolicyTypes /\ WantedIsKept /\ Len(rec) \in Nat /\ stored \in Stored
      /\ queued \in Options \cup {NoPolicy} /\ wanted \in Options \cup {NoPolicy}
  BY PolicyParts DEF PolicyInv, PolicyTypes
<1>2. /\ updates' = [i \in {} |-> 0] /\ jobs' = <<>> /\ work' = NoWork /\ writes' = <<>> /\ timer' = 0
      /\ restoring' = (stored # NoPolicy) /\ broken' = TRUE /\ queued' = queued /\ stored' = stored
      /\ item' = item /\ byCodex' = byCodex
      /\ wanted' = IF queued = NoPolicy THEN Asked(stored) ELSE wanted
  BY DEF RestartInjector, itemVars
<1>3. /\ DOMAIN updates' = {} /\ DOMAIN jobs' = {} /\ DOMAIN writes' = {} /\ work'.at = "idle"
      /\ jobs' \in Seq(Jobs) /\ writes' \in Seq(Writes)
      /\ updates' \in [DOMAIN updates' -> [before : Nat, at : {"persist", "queued", "undo"}]]
  BY <1>2, EmptySeq DEF NoWork
<1>4. /\ rec' \in Seq(Record) /\ current' \in 0..Len(rec') /\ (current' = 0 <=> stored = NoPolicy)
      /\ wanted' \in Options \cup {NoPolicy} /\ WantedIsKept'
  <2>1. CASE stored = NoPolicy
    <3>1. rec' = rec /\ current' = 0
      BY <2>1 DEF RestartInjector
    <3>2. wanted' = IF queued = NoPolicy THEN NoPolicy ELSE wanted
      BY <1>2, <2>1 DEF Asked
    <3>3. QED
      BY <1>1, <1>2, <2>1, <3>1, <3>2 DEF WantedIsKept, PolicyTypes
  <2>2. CASE stored # NoPolicy
    <3>1. PICK r : r = [version |-> 1, enabled |-> stored.enabled, aware |-> stored.aware, quota |-> stored.quota]
      OBVIOUS
    <3>2. rec' = [i \in 1..(Len(rec) + 1) |-> r] /\ current' = Len(rec) + 1
      BY <2>2, <3>1 DEF RestartInjector
    <3>3. stored \in Policy
      BY <1>1, <2>2 DEF Stored
    <3>4. r \in Record
      BY <3>1, <3>3 DEF Policy, Record
    <3>5. /\ rec' \in Seq(Record) /\ Len(rec') = Len(rec) + 1 /\ current' \in 1..Len(rec')
          /\ rec'[current'] = r
      BY <1>1, <3>2, <3>4, IsASeq, LenProperties
    <3>6. Asked(stored) = [enabled |-> stored.enabled, aware |-> stored.aware] /\ Asked(stored) \in Options
      BY <2>2, <3>3 DEF Asked, Policy, Options
    <3>7. WantedIsKept'
      BY <1>1, <1>2, <3>1, <3>5, <3>6 DEF WantedIsKept
    <3>8. QED
      BY <1>1, <1>2, <2>2, <3>5, <3>6, <3>7
  <2>3. QED
    BY <2>1, <2>2
<1>5. PolicyTypes'
  BY <1>1, <1>2, <1>3, <1>4 DEF PolicyTypes, Works
<1>6. IdsAreKnown' /\ RestoredIsThere' /\ JobsInOrder' /\ WritesInOrder'
  BY <1>2, <1>3, <1>4 DEF IdsAreKnown, RestoredIsThere, JobsInOrder, WritesInOrder
<1>7. FileFollows' /\ WorkIsApplied' /\ PolicyIsChecked'
  BY <1>2, <1>3 DEF FileFollows, WorkIsApplied, PolicyIsChecked
<1>8. QED
  BY <1>4, <1>5, <1>6, <1>7 DEF PolicyInv

LEMMA PolicyStep == PolicyInv /\ [PolicyNext]_policyVars => PolicyInv'
<1> SUFFICES ASSUME PolicyInv, [PolicyNext]_policyVars
             PROVE  PolicyInv'
  OBVIOUS
<1>1. CASE \E o \in Options : Save(o)
  BY <1>1, SaveKeeps
<1>2. CASE SendSave
  BY <1>2, SendSaveKeeps
<1>3. CASE SaveTimesOut \/ CodexChangesItem \/ UNCHANGED policyVars
  BY <1>3, TimeOutKeeps
<1>4. CASE List
  BY <1>4, ListKeeps
<1>5. CASE TimerFires
  BY <1>5, TimerFiresKeeps
<1>6. CASE JobStarts
  BY <1>6, JobStartsKeeps
<1>7. CASE JobIsStale
  BY <1>7, StaleKeeps
<1>8. CASE \E todo \in BOOLEAN, quota \in Quotas : Checked(todo, quota)
  BY <1>8, CheckedKeeps
<1>9. CASE Listed
  BY <1>9, ListedKeeps
<1>10. CASE Applies
  BY <1>10, AppliesKeeps
<1>11. CASE Applied
  BY <1>11, AppliedKeeps
<1>12. CASE RequestFails
  BY <1>12, RequestFailsKeeps
<1>13. CASE WriteDone
  BY <1>13, FinishedKeeps, WrittenKeeps
<1>14. CASE WriteFails
  BY <1>14, WriteFailsKeeps
<1>15. CASE RestartInjector
  BY <1>15, RestartKeeps
<1>16. CASE Restore
  BY <1>16, RestoreKeeps
<1>17. QED
  BY <1>1, <1>2, <1>3, <1>4, <1>5, <1>6, <1>7, <1>8, <1>9, <1>10, <1>11, <1>12, <1>13, <1>14, <1>15, <1>16
     DEF PolicyNext

\* The invariant of an automation's policy: what the file will say, what is being checked.
THEOREM PolicyInvariant == PolicySpec => []PolicyInv
<1>1. PolicyInv /\ [PolicyNext]_policyVars => PolicyInv'
  BY PolicyStep
<1>2. QED
  BY <1>1, PolicyBegins, PTL DEF PolicySpec

\* Once nothing is under way, and the policy has met no failure since it was last
\* checked, the policy of an automation is the one saved last, in memory and on disk, the
\* automation runs only if it lets it, and it is checked again
\* (updateAndApplyQuotaPolicy, applyQuotaPolicyRecord, persistQuotaPolicies).
THEOREM PolicyHolds == PolicySpec => []PolicyInForce
<1>1. PolicyInv => PolicyInForce
  <2> SUFFICES ASSUME PolicyInv, Quiet, ~broken
               PROVE  IF current = 0 THEN wanted = NoPolicy /\ stored = NoPolicy
                      ELSE /\ rec[current].aware = wanted.aware /\ (rec[current].enabled => wanted.enabled)
                           /\ stored = Data(rec, current)
                           /\ Settled
    BY DEF PolicyInForce, Settled, Lets
  <2>1. stored = Data(rec, current)
    <3>1. Len(writes) = 0
      BY DEF Quiet
    <3>2. QED
      BY <3>1 DEF PolicyInv, FileFollows, FileAfter
  <2>2. CASE current = 0
    BY <2>1, <2>2 DEF PolicyInv, WantedIsKept, Quiet, Data
  <2>3. CASE current # 0
    <3>1. ~Checking
      BY DEF PolicyInv, JobsInOrder, Quiet, Checking
    <3>2. DOMAIN jobs = {}
      BY DEF Quiet
    <3>3. ~CheckComes
      BY <3>2 DEF Quiet, CheckComes
    <3>4. QED
      BY <2>1, <2>3, <3>1, <3>3 DEF PolicyInv, WantedIsKept, PolicyIsChecked, Quiet
  <2>4. QED
    BY <2>2, <2>3
<1>2. QED
  BY <1>1, PolicyInvariant, PTL
=============================================================================
