-------------------------- MODULE TaskStarts_proofs --------------------------
(***************************************************************************)
(* Invariants of the starts of a task, for any number of starts, of users' *)
(* interventions and of restarts.                                          *)
(***************************************************************************)
EXTENDS TaskStarts, DataFacts

-----------------------------------------------------------------------------
(* The inductive invariant                                                 *)

\* A row with a claim belongs to the last start; the server has not touched its
\* status since, and what the user chose stands.
ClaimOK(t, n) ==
  t.claim.by # None => /\ t.claim.by = n
                       /\ t.byServer => t.status = "in_progress"
                       /\ t.chosen # None => t.status = t.chosen /\ t.claim.moved
RowOK(t, n) ==
  t \in Rows /\ (t.claim.by = None => t.claim = NoClaim) /\ ClaimOK(t, n)

\* What a start has by the time it gets to a step.
StepOK(s) ==
  /\ pc[s] = "idle" <=> s > started
  /\ pc[s] \in {"idle", "thread", "turn"} =>
       chat[s] = None /\ auto[s] = None /\ reconcile[s] = None /\ report[s] = None /\ s \notin local
  /\ pc[s] \in {"thread", "turn"} => Owns(task, s) /\ ~task.claim.run
  /\ pc[s] = "prepare" => auto[s] # None
  /\ pc[s] = "run" /\ s \notin local => s \in kept /\ s \in working
  /\ pc[s] = "report" => s \in local
  /\ s \in local => auto[s] # None /\ (report[s] # None => pc[s] = "report")

\* A run that is running has the claim of the task, and a claim with a run has its row.
RunOK(s) ==
  /\ chat[s] = "running" => MaySettle(task, s) /\ pc[s] \in {"prepare", "run", "report"}
  /\ chat[s] # None => s \in kept
  /\ MaySettle(task, s) => chat[s] # None

\* A reconciliation that awaits the receipt reads what does not change any more.
ReadingOK(s) ==
  reconcile[s] # None =>
    /\ artifact[s] \in {reconcile[s].zip, None} /\ chat[s] # "running"
    /\ auto[s] \notin {None, "completed"}
    /\ reconcile[s].chat = "completed" => pc[s] \in {"over", "gone"} /\ auto[s] = reconcile[s].auto

\* What is proven is over.
ProofOK(s) == auto[s] = "completed" => pc[s] \in {"over", "gone"} /\ ~Owns(task, s)

StartOK(s) == StepOK(s) /\ RunOK(s) /\ ReadingOK(s) /\ ProofOK(s)
StartsOK == \A s \in Starts : StartOK(s)

TaskInv == TypeOK /\ ClaimOK(task, started) /\ StartsOK /\ FinishedWithItsZip
-----------------------------------------------------------------------------
(* What the transactions do to the row of a task                           *)

Finished(t) == t.status = "finished" /\ t.byServer

\* Rows that agree on the ZIP that has finished the task.
SameZip(t, u) == u.completion = t.completion /\ u.withdrawn = t.withdrawn

\* Starts are numbered from one; None is no start.
LEMMA StartsAre ==
  /\ MaxStarts \in Nat /\ MaxEdits \in Nat /\ MaxRestarts \in Nat
  /\ \A s \in Starts : s \in Nat /\ s >= 1 /\ s <= MaxStarts /\ s # None
BY TaskAssumption DEF Starts

\* The fields of a row.
LEMMA RowFields ==
  ASSUME NEW t \in Rows
  PROVE  /\ t.status \in Statuses /\ t.archived \in BOOLEAN /\ t.thread \in Starts \cup {None, Other}
         /\ t.trusted \in BOOLEAN /\ t.completion \in Starts \cup {None} /\ t.chosen \in Statuses \cup {None}
         /\ t.claim \in [by : Starts \cup {None}, run : BOOLEAN, moved : BOOLEAN, edited : BOOLEAN]
         /\ t.claim.by \in Starts \cup {None} /\ t.claim.run \in BOOLEAN /\ t.claim.moved \in BOOLEAN
BY DEF Rows

\* Nobody's claim is a claim.
LEMMA NoClaimIs ==
  /\ NoClaim \in [by : Starts \cup {None}, run : BOOLEAN, moved : BOOLEAN, edited : BOOLEAN]
  /\ NoClaim.by = None /\ NoClaim.run = FALSE
  /\ [NoClaim EXCEPT !.moved = FALSE] = NoClaim
<1>1. /\ NoClaim \in [by : Starts \cup {None}, run : BOOLEAN, moved : BOOLEAN, edited : BOOLEAN]
      /\ NoClaim.by = None /\ NoClaim.run = FALSE /\ NoClaim.moved = FALSE
  BY DEF NoClaim
<1>2. [NoClaim EXCEPT !.moved = FALSE] = NoClaim
  BY <1>1
<1>3. QED
  BY <1>1, <1>2

\* A claim that goes leaves the rest of the row.
LEMMA UnclaimedIs ==
  ASSUME NEW t \in Rows
  PROVE  /\ Unclaimed(t) \in Rows /\ Unclaimed(t).claim = NoClaim
         /\ Unclaimed(t).status = t.status /\ Unclaimed(t).byServer = t.byServer
         /\ Unclaimed(t).completion = t.completion /\ Unclaimed(t).thread = t.thread
<1>1. Unclaimed(t) \in Rows
  BY NoClaimIs DEF Unclaimed, Rows
<1>2. QED
  BY <1>1 DEF Unclaimed, Rows

\* The server gives a row a status.
LEMMA SetStatusIs ==
  ASSUME NEW t \in Rows, NEW status \in Statuses
  PROVE  /\ SetStatus(t, status) \in Rows
         /\ SetStatus(t, status).claim = t.claim /\ SetStatus(t, status).completion = t.completion
         /\ SetStatus(t, status).status = status
<1>1. SetStatus(t, status) \in Rows
  BY DEF SetStatus, Rows
<1>2. QED
  BY DEF SetStatus, Rows

\* What it means for a row t that its claim goes and it becomes u.
ClaimGone(t, u) ==
  /\ u \in Rows /\ u.claim = NoClaim
  /\ t.chosen # None => u.status = t.chosen \/ (t.chosen = "in_progress" /\ u.status = "todo")

\* A release takes the claim of its start and finishes nothing.
LEMMA ReleasedIs ==
  ASSUME NEW t, NEW n, RowOK(t, n), NEW s \in Starts
  PROVE  /\ ~Owns(t, s) => Released(t, s) = t
         /\ Owns(t, s) => ClaimGone(t, Released(t, s)) /\ ~Finished(Released(t, s))
<1>0. t \in Rows
  BY DEF RowOK
<1>1. CASE ~Owns(t, s)
  BY <1>1 DEF Released
<1>2. CASE Owns(t, s)
  <2>0. /\ t.byServer => t.status = "in_progress"
        /\ t.chosen # None => t.status = t.chosen
    BY <1>2, StartsAre DEF RowOK, ClaimOK, Owns
  <2>1. CASE t.status = "in_progress" /\ t.thread = s
    <3> DEFINE u == SetStatus(Unclaimed(t), "todo")
    <3>1. u \in Rows /\ u.claim = NoClaim /\ u.status = "todo"
      BY <1>0, UnclaimedIs, SetStatusIs DEF Statuses
    <3>2. /\ [u EXCEPT !.thread = None] \in Rows /\ [u EXCEPT !.thread = None].claim = u.claim
          /\ [u EXCEPT !.thread = None].status = u.status
      <4> HIDE DEF u
      <4>1. QED
        BY <3>1 DEF Rows
    <3>3. Released(t, s) = [u EXCEPT !.thread = None]
      BY <1>2, <2>1 DEF Released
    <3> HIDE DEF u
    <3>4. QED
      BY <1>2, <2>0, <2>1, <3>1, <3>2, <3>3 DEF ClaimGone, Finished
  <2>2. CASE ~(t.status = "in_progress" /\ t.thread = s)
    <3>1. Released(t, s) = Unclaimed(t)
      BY <1>2, <2>2 DEF Released
    <3>2. QED
      BY <1>0, <1>2, <2>0, <3>1, UnclaimedIs DEF ClaimGone, Finished
  <2>3. QED
    BY <2>1, <2>2
<1>3. QED
  BY <1>1, <1>2

\* A settlement takes the claim, keeps what the user chose, and finishes a task only
\* with the artifact it is given.
LEMMA SettledIs ==
  ASSUME NEW t, NEW n, RowOK(t, n), NEW s \in Starts, Owns(t, s),
         NEW status \in Statuses, NEW zip \in Starts \cup {None}
  PROVE  /\ ClaimGone(t, Settled(t, s, status, zip))
         /\ Finished(Settled(t, s, status, zip)) =>
              status = "finished" /\ Settled(t, s, status, zip).completion = zip
<1>0. /\ t \in Rows
      /\ t.byServer => t.status = "in_progress"
      /\ t.chosen # None => t.status = t.chosen /\ t.claim.moved
  BY StartsAre DEF RowOK, ClaimOK, Owns
<1>1. CASE t.archived \/ t.thread # s
  <2>1. Settled(t, s, status, zip) = Unclaimed(t)
    BY <1>1 DEF Settled
  <2>2. QED
    BY <1>0, <2>1, UnclaimedIs DEF ClaimGone, Finished
<1>2. CASE ~(t.archived \/ t.thread # s)
  <2> DEFINE u == Unclaimed(t)
             over == [u EXCEPT !.completion = zip]
  <2>1. u \in Rows /\ u.claim = NoClaim /\ u.status = t.status /\ u.byServer = t.byServer
    BY <1>0, UnclaimedIs
  <2>2. Settled(t, s, status, zip) =
          IF t.status # "in_progress" \/ t.claim.moved \/ status = "in_progress" THEN over
          ELSE SetStatus(over, status)
    BY <1>2 DEF Settled
  <2> HIDE DEF u
  <2>3. over \in Rows
    BY <2>1 DEF Rows
  <2>4. /\ over.claim = NoClaim /\ over.status = t.status /\ over.byServer = t.byServer
        /\ over.completion = zip
    BY <2>1 DEF Rows
  <2> HIDE DEF over
  <2>5. /\ SetStatus(over, status) \in Rows /\ SetStatus(over, status).claim = NoClaim
        /\ SetStatus(over, status).status = status /\ SetStatus(over, status).completion = zip
    BY <2>3, <2>4, SetStatusIs
  <2>6. QED
    BY <1>0, <2>2, <2>3, <2>4, <2>5 DEF ClaimGone, Finished
<1>3. QED
  BY <1>1, <1>2

\* A row whose claim is gone is in order.
LEMMA GoneIsOK ==
  ASSUME NEW t, NEW u, NEW n, ClaimGone(t, u)
  PROVE  RowOK(u, n) /\ u.claim.by = None /\ u.claim.run = FALSE
BY NoClaimIs DEF ClaimGone, RowOK, ClaimOK

\* A start claims the row.
LEMMA ClaimedIs ==
  ASSUME task \in Rows, NEW s \in Starts
  PROVE  /\ RowOK(Claimed(s), s) /\ Claimed(s).claim.by = s /\ Claimed(s).claim.run = FALSE
         /\ Claimed(s).status = "in_progress" /\ Claimed(s).chosen = None
<1> DEFINE c == [NoClaim EXCEPT !.by = s]
<1>1. /\ c \in [by : Starts \cup {None}, run : BOOLEAN, moved : BOOLEAN, edited : BOOLEAN]
      /\ c.by = s /\ c.run = FALSE
  BY DEF NoClaim
<1>2. Claimed(s) = [task EXCEPT !.status = "in_progress", !.thread = s, !.retried = FALSE,
                                !.claim = c, !.completion = None,
                                !.chosen = None, !.byServer = TRUE, !.lost = FALSE]
  BY DEF Claimed
<1> HIDE DEF c
<1>3. Claimed(s) \in Rows
  BY <1>1, <1>2 DEF Rows, Statuses
<1>4. /\ Claimed(s).claim = c /\ Claimed(s).status = "in_progress" /\ Claimed(s).chosen = None
  BY <1>2, <1>3 DEF Rows
<1>5. s # None
  BY StartsAre
<1>6. QED
  BY <1>1, <1>3, <1>4, <1>5 DEF RowOK, ClaimOK

\* The claim gets or loses its run.
LEMMA RunBoundIs ==
  ASSUME NEW t, NEW n, RowOK(t, n), t.claim.by # None, NEW bound \in BOOLEAN, NEW lost \in BOOLEAN
  PROVE  LET u == [t EXCEPT !.claim.run = bound, !.lost = lost] IN
         /\ RowOK(u, n) /\ u.claim.by = t.claim.by /\ u.claim.run = bound /\ u.status = t.status
         /\ u.chosen = t.chosen /\ u.byServer = t.byServer /\ SameZip(t, u)
<1> DEFINE c == [t.claim EXCEPT !.run = bound]
           u == [t EXCEPT !.claim = c, !.lost = lost]
<1>0. t \in Rows
  BY DEF RowOK
<1>1. /\ c \in [by : Starts \cup {None}, run : BOOLEAN, moved : BOOLEAN, edited : BOOLEAN]
      /\ c.by = t.claim.by /\ c.run = bound /\ c.moved = t.claim.moved
  BY <1>0, RowFields
<1> HIDE DEF c
<1>2. u \in Rows
  BY <1>0, <1>1 DEF Rows
<1>3. /\ u.claim = c /\ u.status = t.status /\ u.chosen = t.chosen /\ u.byServer = t.byServer
      /\ SameZip(t, u)
  BY <1>0 DEF Rows, SameZip
<1>4. u = [t EXCEPT !.claim.run = bound, !.lost = lost]
  BY DEF c
<1> HIDE DEF u
<1>5. RowOK(u, n)
  BY <1>1, <1>2, <1>3 DEF RowOK, ClaimOK
<1>6. QED
  BY <1>1, <1>3, <1>4, <1>5

\* A claim that gets its run.
LEMMA RunGivenIs ==
  ASSUME NEW t, NEW n, RowOK(t, n), t.claim.by # None
  PROVE  LET u == [t EXCEPT !.claim.run = TRUE] IN
         /\ RowOK(u, n) /\ u.claim.by = t.claim.by /\ u.claim.run = TRUE /\ u.status = t.status
         /\ u.chosen = t.chosen /\ u.byServer = t.byServer /\ SameZip(t, u)
<1> DEFINE u == [t EXCEPT !.claim.run = TRUE, !.lost = t.lost]
<1>1. t \in Rows /\ t.lost \in BOOLEAN
  BY DEF RowOK, Rows
<1>2. u = [t EXCEPT !.claim.run = TRUE]
  BY <1>1 DEF Rows
<1>3. /\ RowOK(u, n) /\ u.claim.by = t.claim.by /\ u.claim.run = TRUE /\ u.status = t.status
      /\ u.chosen = t.chosen /\ u.byServer = t.byServer /\ SameZip(t, u)
  BY <1>1, RunBoundIs
<1> HIDE DEF u
<1>4. QED
  BY <1>2, <1>3

\* A user's edit marks the claim of the row t it leaves, and keeps the rest.
LEMMA EditIs ==
  ASSUME NEW t, NEW n, RowOK(t, n), Edit(t)
  PROVE  /\ RowOK(task', n) /\ task'.claim.by = t.claim.by /\ task'.claim.run = t.claim.run
         /\ task'.status = t.status /\ task'.byServer = t.byServer /\ SameZip(t, task')
         /\ task'.chosen = t.chosen
<1>0. t \in Rows
  BY DEF RowOK
<1>1. CASE t.claim.by = None
  BY <1>1 DEF Edit, SameZip
<1>2. CASE t.claim.by # None
  <2> DEFINE c == [t.claim EXCEPT !.edited = TRUE]
             u == [t EXCEPT !.claim = c]
  <2>1. /\ c \in [by : Starts \cup {None}, run : BOOLEAN, moved : BOOLEAN, edited : BOOLEAN]
        /\ c.by = t.claim.by /\ c.run = t.claim.run /\ c.moved = t.claim.moved
    BY <1>0, RowFields
  <2>2. task' = u
    BY <1>2 DEF Edit
  <2> HIDE DEF c
  <2>3. u \in Rows
    BY <1>0, <2>1 DEF Rows
  <2>4. /\ u.claim = c /\ u.status = t.status /\ u.chosen = t.chosen /\ u.byServer = t.byServer
        /\ SameZip(t, u)
    BY <1>0 DEF Rows, SameZip
  <2> HIDE DEF u
  <2>5. RowOK(u, n)
    BY <1>2, <2>1, <2>3, <2>4 DEF RowOK, ClaimOK
  <2>6. QED
    BY <2>1, <2>2, <2>4, <2>5
<1>3. QED
  BY <1>1, <1>2
-----------------------------------------------------------------------------
(* What a step of one start leaves as it is                                *)

Same(s) ==
  /\ pc'[s] = pc[s] /\ chat'[s] = chat[s] /\ auto'[s] = auto[s] /\ reconcile'[s] = reconcile[s]
  /\ report'[s] = report[s] /\ artifact'[s] = artifact[s]
  /\ (s \in local' <=> s \in local) /\ (s \in kept' <=> s \in kept) /\ (s \in working' <=> s \in working)
Elsewhere(r) == \A s \in Starts : s # r => Same(s)

\* A step of start r takes, gives up or leaves the claim.
ClaimElsewhere(r) ==
  \/ task'.claim.by = task.claim.by /\ task'.claim.run = task.claim.run
  \/ task.claim.by \in {r, None} /\ task'.claim.by \in {r, None}

\* The other starts stay in order.
LEMMA OthersAreOK ==
  ASSUME StartsOK, NEW r \in Starts, Elsewhere(r), ClaimElsewhere(r),
         started' = started \/ (started' = started + 1 /\ started' = r), started \in Nat,
         StartOK(r)'
  PROVE  StartsOK'
<1> SUFFICES ASSUME NEW s \in Starts, s # r
             PROVE  StartOK(s)'
  BY DEF StartsOK
<1>1. StartOK(s) /\ Same(s) /\ s # None /\ s \in Nat
  BY StartsAre DEF StartsOK, Elsewhere
<1>2. /\ Owns(task, s)' => Owns(task, s)
      /\ MaySettle(task, s)' => MaySettle(task, s)
      /\ Owns(task, s) => (Owns(task, s)' /\ task'.claim.run = task.claim.run)
  BY <1>1 DEF ClaimElsewhere, Owns, MaySettle
<1>3. (s > started)' <=> s > started
  BY <1>1, StartsAre
<1>4. StepOK(s)'
  BY <1>1, <1>2, <1>3 DEF StartOK, StepOK, Same, Owns
<1>5. RunOK(s)' /\ ReadingOK(s)' /\ ProofOK(s)'
  BY <1>1, <1>2 DEF StartOK, RunOK, ReadingOK, ProofOK, Same, Owns, MaySettle
<1>6. QED
  BY <1>4, <1>5 DEF StartOK

\* Nobody's edit of the row, or of what only one start knows, disturbs the starts.
LEMMA StartsStayOK ==
  ASSUME StartsOK, \A s \in Starts : Same(s), started' = started,
         task'.claim.by = task.claim.by, task'.claim.run = task.claim.run
  PROVE  StartsOK'
<1> SUFFICES ASSUME NEW s \in Starts
             PROVE  StartOK(s)'
  BY DEF StartsOK
<1>1. StartOK(s) /\ Same(s)
  BY DEF StartsOK
<1>2. StepOK(s)'
  BY <1>1 DEF StartOK, StepOK, Same, Owns
<1>3. RunOK(s)' /\ ReadingOK(s)' /\ ProofOK(s)'
  BY <1>1 DEF StartOK, RunOK, ReadingOK, ProofOK, Same, Owns, MaySettle
<1>4. QED
  BY <1>2, <1>3 DEF StartOK

\* A finished task stays proven, unless a step finishes it anew.
LEMMA FinishedStays ==
  ASSUME TaskInv, NEW r \in Starts, Elsewhere(r), started' = started,
         Finished(task)' => Finished(task) /\ SameZip(task, task'),
         artifact[r] # None => artifact'[r] # None,
         ~Owns(task, r) /\ auto[r] \in {None, "completed"} => auto'[r] = auto[r]
  PROVE  FinishedWithItsZip'
<1> SUFFICES ASSUME Finished(task)'
             PROVE  /\ auto'[started] \in {None, "completed"}
                    /\ \/ task'.completion = started /\ artifact'[started] # None
                       \/ task'.completion = None /\ task'.withdrawn = started
  BY DEF FinishedWithItsZip, Finished
<1>1. /\ Finished(task) /\ task'.completion = task.completion /\ task'.withdrawn = task.withdrawn
  BY DEF SameZip
<1>2. /\ auto[started] \in {None, "completed"}
      /\ \/ task.completion = started /\ artifact[started] # None
         \/ task.completion = None /\ task.withdrawn = started
  BY <1>1 DEF TaskInv, FinishedWithItsZip, Finished
<1>3. started \in Starts
  BY <1>2, TaskAssumption DEF TaskInv, TypeOK, Rows
<1>4. ~Owns(task, r)
  BY <1>1, StartsAre DEF TaskInv, ClaimOK, Finished, Owns
<1>5. auto'[started] = auto[started] /\ (artifact[started] # None => artifact'[started] # None)
  BY <1>2, <1>3, <1>4 DEF Elsewhere, Same
<1>6. QED
  BY <1>1, <1>2, <1>5

\* What the end of the run of start r does to the task and to its readings.
LEMMA ReconcileIs ==
  ASSUME TaskInv, NEW r \in Starts, NEW outcome \in Terminal,
         NEW state \in {None, "preparing", "running", "blocked", "reported", "completed"},
         Reconcile(r, outcome, state)
  PROVE  /\ leases' \subseteq leases
         /\ \/ UNCHANGED <<task, reconcile>>
            \/ /\ UNCHANGED task /\ MaySettle(task, r) /\ state # None
               /\ reconcile' = [reconcile EXCEPT ![r] =
                                  [chat |-> outcome, auto |-> state, zip |-> artifact[r]]]
            \/ /\ UNCHANGED reconcile /\ MaySettle(task, r) /\ ClaimGone(task, task')
               /\ Finished(task') => /\ outcome = "completed" /\ state = None
                                     /\ artifact[r] # None /\ task'.completion = r
<1>0. RowOK(task, started)
  BY DEF TaskInv, TypeOK, RowOK
<1>1. CASE task.thread # r \/ ~MaySettle(task, r)
  BY <1>1 DEF Reconcile, GiveBack
<1>2. CASE ~(task.thread # r \/ ~MaySettle(task, r)) /\ ~task.trusted
  <2>1. Owns(task, r) /\ MaySettle(task, r)
    BY <1>2 DEF MaySettle
  <2>2. task' = Released(task, r) /\ GiveBack(r) /\ UNCHANGED reconcile
    BY <1>2 DEF Reconcile
  <2>3. QED
    BY <1>0, <2>1, <2>2, ReleasedIs DEF GiveBack
<1>3. CASE ~(task.thread # r \/ ~MaySettle(task, r)) /\ task.trusted /\ state # None
  BY <1>3 DEF Reconcile
<1>4. CASE ~(task.thread # r \/ ~MaySettle(task, r)) /\ task.trusted /\ state = None
  <2>1. Owns(task, r) /\ MaySettle(task, r)
    BY <1>4 DEF MaySettle
  <2>2. task' = SettledByRun(r, outcome) /\ GiveBack(r) /\ UNCHANGED reconcile
    BY <1>4 DEF Reconcile
  <2> DEFINE status == TerminalStatus(outcome, artifact[r])
             zip == IF status = "finished" THEN r ELSE None
  <2>3. /\ status \in Statuses /\ zip \in Starts \cup {None}
        /\ status = "finished" => outcome = "completed" /\ artifact[r] # None /\ zip = r
    BY DEF TerminalStatus, Statuses
  <2>4. task' = Settled(task, r, status, zip)
    BY <2>2 DEF SettledByRun
  <2> HIDE DEF status, zip
  <2>5. /\ ClaimGone(task, task')
        /\ Finished(task') => status = "finished" /\ task'.completion = zip
    BY <1>0, <2>1, <2>3, <2>4, SettledIs
  <2>6. QED
    BY <1>4, <2>1, <2>2, <2>3, <2>5 DEF GiveBack
<1>5. QED
  BY <1>1, <1>2, <1>3, <1>4

\* The same, as far as the invariant goes.
LEMMA ReconcileKeeps ==
  ASSUME TaskInv, NEW r \in Starts, NEW outcome \in Terminal,
         NEW state \in {None, "preparing", "running", "blocked", "reported", "completed"},
         Reconcile(r, outcome, state), ~Owns(task, r) \/ state # "completed"
  PROVE  /\ leases' \subseteq leases
         /\ RowOK(task', started) /\ ClaimElsewhere(r)
         /\ Owns(task', r) => Owns(task, r)
         /\ MaySettle(task', r) => MaySettle(task, r)
         /\ reconcile' \in [Starts -> {None} \cup Readings]
         /\ \A s \in Starts : s # r => reconcile'[s] = reconcile[s]
         /\ \/ reconcile'[r] = reconcile[r]
            \/ /\ reconcile'[r].zip = artifact[r] /\ state \notin {None, "completed"}
               /\ reconcile'[r].auto = state /\ reconcile'[r].chat = outcome
         /\ Finished(task') => \/ Finished(task) /\ SameZip(task, task')
                               \/ /\ outcome = "completed" /\ state = None /\ Owns(task, r)
                                  /\ artifact[r] # None /\ task'.completion = r
<1>0. RowOK(task, started) /\ reconcile \in [Starts -> {None} \cup Readings] /\ artifact[r] \in Zips \cup {None}
  BY DEF TaskInv, TypeOK, RowOK
<1>a. leases' \subseteq leases
  BY ReconcileIs
<1>1. CASE UNCHANGED <<task, reconcile>>
  BY <1>0, <1>a, <1>1 DEF ClaimElsewhere, Owns, MaySettle, SameZip
<1>2. CASE /\ UNCHANGED task /\ MaySettle(task, r) /\ state # None
           /\ reconcile' = [reconcile EXCEPT ![r] =
                              [chat |-> outcome, auto |-> state, zip |-> artifact[r]]]
  <2> DEFINE reading == [chat |-> outcome, auto |-> state, zip |-> artifact[r]]
  <2>1. state \notin {None, "completed"}
    BY <1>2 DEF MaySettle, Owns
  <2>2. reading \in Readings /\ reading.zip = artifact[r] /\ reading.auto = state /\ reading.chat = outcome
    BY <1>0, <2>1 DEF Readings
  <2> HIDE DEF reading
  <2>3. /\ reconcile' \in [Starts -> {None} \cup Readings] /\ reconcile'[r] = reading
        /\ \A s \in Starts : s # r => reconcile'[s] = reconcile[s]
    BY <1>0, <1>2, <2>2 DEF reading
  <2>4. QED
    BY <1>0, <1>a, <1>2, <2>1, <2>2, <2>3 DEF ClaimElsewhere, SameZip
<1>3. CASE /\ UNCHANGED reconcile /\ MaySettle(task, r) /\ ClaimGone(task, task')
           /\ Finished(task') => /\ outcome = "completed" /\ state = None
                                 /\ artifact[r] # None /\ task'.completion = r
  <2>1. RowOK(task', started) /\ task'.claim.by = None /\ task'.claim.run = FALSE
    BY <1>3, GoneIsOK
  <2>2. QED
    BY <1>0, <1>a, <1>3, <2>1 DEF ClaimElsewhere, Owns, MaySettle
<1>4. QED
  BY <1>1, <1>2, <1>3, ReconcileIs
-----------------------------------------------------------------------------
(* Every step keeps the invariant                                          *)

\* A start begins.
LEMMA StartWithAiKeeps == ASSUME TaskInv, NEW r \in Starts, StartWithAi(r)
                          PROVE  TaskInv'
<1>a. /\ TypeOK /\ ClaimOK(task, started) /\ StartsOK /\ StartOK(r)
      /\ started \in Nat /\ r \in Nat /\ r # None /\ r <= MaxStarts /\ task.claim.by = None /\ r = started + 1
  BY StartsAre DEF TaskInv, TypeOK, StartsOK, StartWithAi, Startable
<1>b. /\ RowOK(task', started') /\ task'.claim.by = r /\ task'.claim.run = FALSE
      /\ task'.status = "in_progress"
  BY <1>a, ClaimedIs DEF StartWithAi, TypeOK
<1>1. TypeOK'
  BY <1>a, <1>b, StartsAre DEF StartWithAi, Goto, TypeOK, RowOK, runVars, outside
<1>2. ClaimOK(task, started)'
  BY <1>b DEF RowOK
<1>3. Elsewhere(r)
  BY <1>a DEF StartWithAi, Goto, TypeOK, Elsewhere, Same, runVars, outside
<1>4. StartOK(r)'
  <2>1. /\ pc[r] = "idle" /\ pc'[r] = "thread" /\ started' = started + 1
        /\ UNCHANGED <<chat, auto, reconcile, report, local, kept, working>>
    BY <1>a DEF StartWithAi, Goto, StartOK, StepOK, TypeOK, runVars, outside
  <2>2. chat[r] = None /\ auto[r] = None /\ reconcile[r] = None /\ report[r] = None /\ r \notin local
    BY <1>a, <2>1 DEF StartOK, StepOK
  <2>3. None # "running" /\ None # "completed"
    BY TaskAssumption DEF Terminal
  <2>4. QED
    BY <1>a, <1>b, <2>1, <2>2, <2>3 DEF StartOK, StepOK, RunOK, ReadingOK, ProofOK, Owns, MaySettle
<1>5. StartsOK'
  BY <1>a, <1>b, <1>3, <1>4, OthersAreOK DEF StartWithAi, ClaimElsewhere
<1>6. FinishedWithItsZip'
  BY <1>b DEF FinishedWithItsZip
<1>7. QED
  BY <1>1, <1>2, <1>5, <1>6 DEF TaskInv

\* A local start begins, with its run.
LEMMA StartLocallyKeeps == ASSUME TaskInv, NEW r \in Starts, StartLocally(r)
                           PROVE  TaskInv'
<1>a. /\ TypeOK /\ ClaimOK(task, started) /\ StartsOK /\ StartOK(r)
      /\ started \in Nat /\ r \in Nat /\ r # None /\ r <= MaxStarts /\ task.claim.by = None /\ r = started + 1
  BY StartsAre DEF TaskInv, TypeOK, StartsOK, StartLocally, Startable
<1>b. /\ RowOK(task', started') /\ task'.claim.by = r /\ task'.claim.run = TRUE
      /\ task'.status = "in_progress"
  <2> DEFINE t == Claimed(r)
  <2>1. RowOK(t, r) /\ t.claim.by = r /\ t.status = "in_progress"
    BY <1>a, ClaimedIs DEF TypeOK
  <2>2. task' = [t EXCEPT !.claim.run = TRUE] /\ started' = r
    BY DEF StartLocally
  <2> HIDE DEF t
  <2>3. t.claim.by # None
    BY <1>a, <2>1
  <2>4. QED
    BY <2>1, <2>2, <2>3, RunGivenIs
<1>c. /\ pc[r] = "idle" /\ pc'[r] = "prepare" /\ chat'[r] = "running" /\ auto'[r] = "preparing"
      /\ UNCHANGED <<reconcile, report, working>> /\ r \in kept' /\ r \in local'
      /\ chat[r] = None /\ auto[r] = None /\ reconcile[r] = None /\ report[r] = None
  BY <1>a DEF StartLocally, Goto, StartOK, StepOK, TypeOK, outside
<1>1. TypeOK'
  BY <1>a, <1>b, StartsAre DEF StartLocally, Goto, TypeOK, RowOK, outside
<1>2. ClaimOK(task, started)'
  BY <1>b DEF RowOK
<1>3. Elsewhere(r)
  BY <1>a DEF StartLocally, Goto, TypeOK, Elsewhere, Same, outside
<1>4. StartOK(r)'
  <2>1. None # "running" /\ None # "preparing" /\ started' = r
    BY TaskAssumption DEF StartLocally
  <2>2. QED
    BY <1>a, <1>b, <1>c, <2>1 DEF StartOK, StepOK, RunOK, ReadingOK, ProofOK, Owns, MaySettle
<1>5. StartsOK'
  BY <1>a, <1>b, <1>3, <1>4, OthersAreOK DEF StartLocally, ClaimElsewhere
<1>6. FinishedWithItsZip'
  BY <1>b DEF FinishedWithItsZip
<1>7. QED
  BY <1>1, <1>2, <1>5, <1>6 DEF TaskInv

\* A start that fails gives the task back.
LEMMA GiveUpKeeps ==
  ASSUME TaskInv, NEW r \in Starts, GiveUp(r), pc[r] \in {"thread", "turn", "prepare"}, chat[r] = None,
         auto' = auto \/ (auto[r] = "preparing" /\ auto' = [auto EXCEPT ![r] = "running"]),
         UNCHANGED <<phased, started, local, begun, chat, outside, reconcile, edits, restarts>>
  PROVE  TaskInv'
<1>a. TypeOK /\ ClaimOK(task, started) /\ StartsOK /\ StartOK(r) /\ started \in Nat /\ RowOK(task, started)
  BY DEF TaskInv, TypeOK, StartsOK, RowOK
<1>b. task' = Released(task, r) /\ pc' = [pc EXCEPT ![r] = "over"]
  BY DEF GiveUp, Goto
<1>c. /\ RowOK(task', started) /\ ClaimElsewhere(r) /\ ~Owns(task', r)
      /\ Finished(task') => Finished(task) /\ SameZip(task, task')
  <2>1. CASE Owns(task, r)
    <3>1. ClaimGone(task, task') /\ ~Finished(task')
      BY <1>a, <1>b, <2>1, ReleasedIs
    <3>2. RowOK(task', started) /\ task'.claim.by = None
      BY <3>1, GoneIsOK
    <3>3. QED
      BY <2>1, <3>1, <3>2, StartsAre DEF ClaimElsewhere, Owns
  <2>2. CASE ~Owns(task, r)
    BY <1>a, <1>b, <2>2, ReleasedIs DEF ClaimElsewhere, SameZip
  <2>3. QED
    BY <2>1, <2>2
<1>1. TypeOK'
  BY <1>a, <1>b, <1>c DEF GiveUp, GiveBack, TypeOK, RowOK, outside
<1>2. ClaimOK(task, started)'
  BY <1>c DEF RowOK
<1>3. Elsewhere(r)
  BY <1>a, <1>b DEF GiveUp, TypeOK, Elsewhere, Same, outside
<1>4. StartOK(r)'
  <2>1. /\ pc'[r] = "over" /\ chat'[r] = None /\ reconcile'[r] = reconcile[r] /\ artifact'[r] = artifact[r]
        /\ auto'[r] = auto[r] \/ (auto[r] = "preparing" /\ auto'[r] = "running")
        /\ report'[r] = report[r]
    BY <1>a, <1>b DEF TypeOK, outside
  <2>2. r <= started
    BY <1>a, StartsAre DEF StartOK, StepOK
  <2>3. None # "running" /\ None # "preparing" /\ None # "completed"
    BY TaskAssumption DEF Terminal
  <2>4. ReadingOK(r)'
    <3>1. reconcile[r] # None /\ reconcile[r].chat = "completed" => auto[r] = reconcile[r].auto /\ pc[r] \in {"over", "gone"}
      BY <1>a DEF StartOK, ReadingOK
    <3>2. QED
      BY <1>a, <2>1, <2>3, <3>1 DEF StartOK, ReadingOK, GiveUp
  <2>5. StepOK(r)'
    BY <1>a, <2>1, <2>2, <2>3 DEF StartOK, StepOK
  <2>6. RunOK(r)' /\ ProofOK(r)'
    BY <1>a, <1>c, <2>1, <2>3 DEF StartOK, RunOK, ProofOK, MaySettle, Owns
  <2>7. QED
    BY <2>4, <2>5, <2>6 DEF StartOK
<1>5. StartsOK'
  BY <1>a, <1>c, <1>3, <1>4, OthersAreOK
<1>6. FinishedWithItsZip'
  <2>1. auto[r] \in {None, "completed"} => auto'[r] = auto[r]
    BY TaskAssumption
  <2>2. QED
    BY <1>c, <1>3, <2>1, FinishedStays DEF outside
<1>7. QED
  BY <1>1, <1>2, <1>5, <1>6 DEF TaskInv

\* A thread is made, or the start fails before it has a run.
LEMMA ThreadCreatedKeeps == ASSUME TaskInv, NEW r \in Starts, ThreadCreated(r)
                            PROVE  TaskInv'
<1>a. TypeOK /\ ClaimOK(task, started) /\ StartsOK /\ StartOK(r) /\ started \in Nat /\ pc[r] = "thread"
  BY DEF TaskInv, TypeOK, StartsOK, ThreadCreated
<1>b. chat[r] = None /\ auto[r] = None /\ reconcile[r] = None /\ report[r] = None /\ r \notin local
  BY <1>a DEF StartOK, StepOK
<1>1. CASE ~StillBound(r)
  BY <1>a, <1>b, <1>1, GiveUpKeeps DEF ThreadCreated
<1>2. CASE StillBound(r)
  <2>a. /\ kept' = kept \cup {r} /\ subscribed' = subscribed \cup {r} /\ pc' = [pc EXCEPT ![r] = "turn"]
        /\ UNCHANGED <<task, leases>>
        /\ UNCHANGED <<phased, started, local, begun, chat, auto, outside, reconcile, edits, restarts>>
    BY <1>2 DEF ThreadCreated, Goto
  <2>b. r <= started /\ r \in 1..started
    BY <1>a, StartsAre DEF StartOK, StepOK
  <2>1. TypeOK'
    BY <1>a, <2>a, <2>b DEF TypeOK, outside
  <2>2. ClaimOK(task, started)' /\ FinishedWithItsZip'
    BY <1>a, <2>a DEF TaskInv, FinishedWithItsZip, ClaimOK, outside
  <2>3. Elsewhere(r) /\ ClaimElsewhere(r)
    BY <1>a, <2>a DEF TypeOK, Elsewhere, Same, ClaimElsewhere, outside
  <2>4. StartOK(r)'
    <3>1. pc'[r] = "turn" /\ Owns(task, r) /\ ~task.claim.run
      BY <1>a, <2>a DEF StartOK, StepOK, TypeOK
    <3>2. None # "running" /\ None # "completed"
      BY TaskAssumption DEF Terminal
    <3>3. QED
      BY <1>a, <1>b, <2>a, <2>b, <3>1, <3>2
         DEF StartOK, StepOK, RunOK, ReadingOK, ProofOK, MaySettle, Owns, outside
  <2>5. StartsOK'
    BY <1>a, <2>a, <2>3, <2>4, OthersAreOK
  <2>6. QED
    BY <2>1, <2>2, <2>5 DEF TaskInv
<1>3. QED
  BY <1>1, <1>2

\* A start that fails keeps it too.
LEMMA StartFailsKeeps == ASSUME TaskInv, NEW r \in Starts, StartFails(r)
                         PROVE  TaskInv'
<1>a. StartOK(r) /\ pc[r] \in {"thread", "turn"}
  BY DEF TaskInv, StartsOK, StartFails
<1>b. chat[r] = None
  BY <1>a DEF StartOK, StepOK
<1>1. QED
  BY <1>a, <1>b, GiveUpKeeps DEF StartFails

\* A run gets its row.
LEMMA RunCreatedKeeps == ASSUME TaskInv, NEW r \in Starts, RunCreated(r)
                         PROVE  TaskInv'
<1>a. /\ TypeOK /\ ClaimOK(task, started) /\ StartsOK /\ StartOK(r) /\ started \in Nat /\ RowOK(task, started)
      /\ pc[r] = "turn" /\ r \in kept
  BY DEF TaskInv, TypeOK, StartsOK, RowOK, RunCreated
<1>b. /\ chat[r] = None /\ auto[r] = None /\ reconcile[r] = None /\ report[r] = None /\ r \notin local
      /\ Owns(task, r) /\ r <= started /\ r \in 1..started /\ r # None
  BY <1>a, StartsAre DEF StartOK, StepOK
<1>c. /\ RowOK(task', started) /\ task'.claim.by = r /\ task'.claim.run = TRUE
      /\ task'.status = task.status /\ task'.byServer = task.byServer /\ SameZip(task, task')
  BY <1>a, <1>b, RunGivenIs DEF RunCreated, Owns
<1>d. /\ chat' = [chat EXCEPT ![r] = "running"]
      /\ UNCHANGED <<phased, started, local, kept, begun, receipt, artifact, report, reconcile,
                     subscribed, leases, edits, restarts>>
      /\ \/ auto' = [auto EXCEPT ![r] = "preparing"] /\ pc' = [pc EXCEPT ![r] = "prepare"] /\ working' = working
         \/ auto' = auto /\ pc' = [pc EXCEPT ![r] = "run"] /\ working' = working \cup {r}
  BY DEF RunCreated, Goto
<1>1. TypeOK'
  BY <1>a, <1>b, <1>c, <1>d DEF TypeOK, RowOK
<1>2. ClaimOK(task, started)'
  BY <1>c, <1>d DEF RowOK
<1>3. Elsewhere(r) /\ ClaimElsewhere(r)
  BY <1>a, <1>b, <1>c, <1>d DEF TypeOK, Elsewhere, Same, ClaimElsewhere, Owns
<1>4. StartOK(r)'
  <2>1. None # "running" /\ None # "completed" /\ None # "preparing"
    BY TaskAssumption DEF Terminal
  <2>2. /\ chat'[r] = "running" /\ \/ pc'[r] = "prepare" /\ auto'[r] = "preparing"
                                   \/ pc'[r] = "run" /\ auto'[r] = None /\ r \in working'
    BY <1>a, <1>b, <1>d DEF TypeOK
  <2>3. QED
    BY <1>a, <1>b, <1>c, <1>d, <2>1, <2>2 DEF StartOK, StepOK, RunOK, ReadingOK, ProofOK, MaySettle, Owns
<1>5. StartsOK'
  BY <1>a, <1>d, <1>3, <1>4, OthersAreOK
<1>6. FinishedWithItsZip'
  BY <1>b, <1>c, <1>d, <1>3, FinishedStays DEF Finished
<1>7. QED
  BY <1>1, <1>2, <1>5, <1>6 DEF TaskInv

\* The inputs are ready.
LEMMA InputsPreparedKeeps == ASSUME TaskInv, NEW r \in Starts, InputsPrepared(r)
                             PROVE  TaskInv'
<1>a. /\ TypeOK /\ ClaimOK(task, started) /\ StartsOK /\ StartOK(r) /\ started \in Nat /\ RowOK(task, started)
      /\ pc[r] = "prepare" /\ auto[r] = "preparing" /\ auto' = [auto EXCEPT ![r] = "running"]
  BY DEF TaskInv, TypeOK, StartsOK, RowOK, InputsPrepared, ToPrepare
<1>1. CASE r \notin kept \cup local
  <2>1. chat[r] = None
    BY <1>a, <1>1 DEF StartOK, RunOK
  <2>2. /\ GiveUp(r)
        /\ UNCHANGED <<phased, started, local, begun, chat, outside, reconcile, edits, restarts>>
    BY <1>1 DEF InputsPrepared, outside
  <2>3. QED
    BY <1>a, <2>1, <2>2, GiveUpKeeps
<1>2. CASE r \in kept \cup local
  <2>a. /\ working' = working \cup {r} /\ pc' = [pc EXCEPT ![r] = "run"]
        /\ UNCHANGED <<task, kept, subscribed, leases, phased, started, local, begun, chat, receipt,
                       artifact, report, reconcile, edits, restarts>>
    BY <1>2 DEF InputsPrepared, Goto
  <2>b. r <= started /\ r \in 1..started
    BY <1>a, StartsAre DEF StartOK, StepOK
  <2>c. None # "running" /\ None # "completed" /\ None # "preparing"
    BY TaskAssumption DEF Terminal
  <2>1. TypeOK'
    BY <1>a, <2>a, <2>b DEF TypeOK
  <2>2. ClaimOK(task, started)'
    BY <1>a, <2>a
  <2>3. Elsewhere(r) /\ ClaimElsewhere(r)
    BY <1>a, <2>a DEF TypeOK, Elsewhere, Same, ClaimElsewhere
  <2>4. StartOK(r)'
    <3>1. pc'[r] = "run" /\ auto'[r] = "running" /\ r \in working' /\ (r \in local => report[r] = None)
      BY <1>a, <2>a DEF StartOK, StepOK, TypeOK
    <3>2. StepOK(r)'
      BY <1>a, <1>2, <2>a, <2>b, <2>c, <3>1 DEF StartOK, StepOK
    <3>3. RunOK(r)' /\ ReadingOK(r)' /\ ProofOK(r)'
      BY <1>a, <2>a, <2>c, <3>1 DEF StartOK, RunOK, ReadingOK, ProofOK, MaySettle, Owns
    <3>4. QED
      BY <3>2, <3>3 DEF StartOK
  <2>5. StartsOK'
    BY <1>a, <2>a, <2>3, <2>4, OthersAreOK
  <2>6. FinishedWithItsZip'
    BY <1>a, <2>a, <2>c, <2>3, FinishedStays DEF SameZip
  <2>7. QED
    BY <2>1, <2>2, <2>5, <2>6 DEF TaskInv
<1>3. QED
  BY <1>1, <1>2

\* The preparation fails.
LEMMA PreparationFailsKeeps == ASSUME TaskInv, NEW r \in Starts, PreparationFails(r)
                               PROVE  TaskInv'
<1>a. /\ TypeOK /\ ClaimOK(task, started) /\ StartsOK /\ StartOK(r) /\ started \in Nat /\ RowOK(task, started)
      /\ pc[r] = "prepare" /\ auto' = [auto EXCEPT ![r] = "blocked"] /\ pc' = [pc EXCEPT ![r] = "over"]
      /\ auto[r] # None /\ auto[r] # "completed" /\ r <= started /\ r # None
      /\ UNCHANGED <<phased, started, local, begun, outside, reconcile, edits, restarts>>
      /\ subscribed' = subscribed \ {r} /\ leases' = leases \ {r}
  BY StartsAre DEF TaskInv, TypeOK, StartsOK, RowOK, PreparationFails, StartOK, StepOK, ProofOK, Goto, GiveBack
<1>b. /\ kept' \subseteq kept /\ kept \ {r} \subseteq kept'
      /\ \/ chat' = [chat EXCEPT ![r] = "failed"] /\ r \in kept'
         \/ chat' = [chat EXCEPT ![r] = None]
      /\ chat'[r] = None => ~MaySettle(task, r) \/ r \notin kept
  <2>1. r \notin kept => chat[r] = None
    BY <1>a DEF StartOK, RunOK
  <2>2. r \notin kept => [chat EXCEPT ![r] = chat[r]] = [chat EXCEPT ![r] = None]
    BY <2>1
  <2>3. CASE MaySettle(task, r) \/ r \in local
    BY <1>a, <2>1, <2>2, <2>3, TaskAssumption DEF PreparationFails, TypeOK, Terminal
  <2>4. CASE ~(MaySettle(task, r) \/ r \in local)
    BY <2>4 DEF PreparationFails
  <2>5. QED
    BY <2>3, <2>4
<1>c. /\ RowOK(task', started) /\ ClaimElsewhere(r) /\ ~Owns(task', r)
      /\ Finished(task') => Finished(task) /\ SameZip(task, task')
  <2>1. CASE Owns(task, r)
    <3>1. ClaimGone(task, task') /\ ~Finished(task')
      <4>1. CASE MaySettle(task, r)
        <5>1. task' = Settled(task, r, "blocked", task.completion)
          BY <4>1 DEF PreparationFails
        <5>2. "blocked" \in Statuses /\ task.completion \in Starts \cup {None}
          BY <1>a, RowFields DEF Statuses, RowOK
        <5>3. QED
          BY <1>a, <2>1, <5>1, <5>2, SettledIs
      <4>2. CASE ~MaySettle(task, r)
        <5>1. task' = Released(task, r)
          BY <4>2 DEF PreparationFails
        <5>2. QED
          BY <1>a, <2>1, <5>1, ReleasedIs
      <4>3. QED
        BY <4>1, <4>2
    <3>2. RowOK(task', started) /\ task'.claim.by = None
      BY <3>1, GoneIsOK
    <3>3. QED
      BY <1>a, <2>1, <3>1, <3>2 DEF ClaimElsewhere, Owns
  <2>2. CASE ~Owns(task, r)
    BY <1>a, <2>2, ReleasedIs DEF ClaimElsewhere, MaySettle, PreparationFails, SameZip
  <2>3. QED
    BY <2>1, <2>2
<1>1. TypeOK'
  BY <1>a, <1>b, <1>c DEF TypeOK, RowOK, outside, Terminal
<1>2. ClaimOK(task, started)'
  BY <1>a, <1>c DEF RowOK
<1>3. Elsewhere(r)
  BY <1>a, <1>b DEF TypeOK, Elsewhere, Same, outside
<1>4. StartOK(r)'
  <2>1. /\ pc'[r] = "over" /\ auto'[r] = "blocked" /\ chat'[r] \in {None, "failed"}
        /\ chat'[r] = "failed" => r \in kept'
    BY <1>a, <1>b, TaskAssumption DEF TypeOK, Terminal
  <2>a. (r \in local => report[r] = None) /\ ~(r > started)
    BY <1>a DEF StartOK, StepOK
  <2>2. None # "failed" /\ None # "running" /\ None # "blocked"
    BY TaskAssumption DEF Terminal, Receipts
  <2>3. StepOK(r)'
    BY <1>a, <2>1, <2>2, <2>a DEF StepOK, outside
  <2>4. RunOK(r)' /\ ProofOK(r)'
    BY <1>c, <2>1, <2>2 DEF RunOK, ProofOK, MaySettle
  <2>5. ReadingOK(r)'
    BY <1>a, <2>1, <2>2 DEF StartOK, ReadingOK, outside
  <2>6. QED
    BY <2>3, <2>4, <2>5 DEF StartOK
<1>5. StartsOK'
  BY <1>a, <1>c, <1>3, <1>4, OthersAreOK
<1>6. FinishedWithItsZip'
  BY <1>a, <1>c, <1>3, FinishedStays DEF outside
<1>7. QED
  BY <1>1, <1>2, <1>5, <1>6 DEF TaskInv

\* The Codex process of a run ends.
LEMMA RunEndsKeeps == ASSUME TaskInv, NEW r \in Starts, RunEnds(r)
                      PROVE  TaskInv'
<1>a. /\ TypeOK /\ ClaimOK(task, started) /\ StartsOK /\ StartOK(r) /\ started \in Nat /\ RowOK(task, started)
      /\ pc[r] = "run" /\ r \notin local /\ pc' = [pc EXCEPT ![r] = "over"] /\ working' = working \ {r}
      /\ ~(r > started) /\ r \in 1..started /\ r \in kept /\ auto[r] # "completed"
      /\ auto[r] \in {None, "preparing", "running", "blocked", "reported", "completed"}
      /\ subscribed' = subscribed \ {r}
      /\ UNCHANGED <<phased, started, local, kept, auto, receipt, artifact, report, edits, restarts>>
  BY StartsAre DEF TaskInv, TypeOK, StartsOK, RowOK, RunEnds, StartOK, StepOK, ProofOK, Goto
<1>b. PICK outcome \in Terminal :
        /\ chat' = [chat EXCEPT ![r] = outcome]
        /\ begun' \in {begun} \cup (IF outcome = "failed" THEN {begun \cup {r}} ELSE {})
        /\ IF r \in subscribed THEN Reconcile(r, outcome, auto[r])
                               ELSE UNCHANGED <<task, reconcile, leases>>
  BY DEF RunEnds
<1>c. /\ leases' \subseteq leases
      /\ RowOK(task', started) /\ ClaimElsewhere(r)
      /\ Owns(task', r) => Owns(task, r)
      /\ MaySettle(task', r) => MaySettle(task, r)
      /\ reconcile' \in [Starts -> {None} \cup Readings]
      /\ \A s \in Starts : s # r => reconcile'[s] = reconcile[s]
      /\ \/ reconcile'[r] = reconcile[r]
         \/ /\ reconcile'[r].zip = artifact[r] /\ auto[r] \notin {None, "completed"}
            /\ reconcile'[r].auto = auto[r] /\ reconcile'[r].chat = outcome
      /\ Finished(task') => \/ Finished(task) /\ SameZip(task, task')
                            \/ /\ outcome = "completed" /\ auto[r] = None /\ Owns(task, r)
                               /\ artifact[r] # None /\ task'.completion = r
  <2>1. CASE r \in subscribed
    BY <1>a, <1>b, <2>1, ReconcileKeeps
  <2>2. CASE r \notin subscribed
    <3>1. UNCHANGED <<task, reconcile, leases>>
      BY <1>b, <2>2
    <3>2. QED
      BY <1>a, <3>1 DEF ClaimElsewhere, TypeOK, Owns, MaySettle, SameZip
  <2>3. QED
    BY <2>1, <2>2
<1>1. TypeOK'
  <2>1. pc' \in [Starts -> {"idle", "thread", "turn", "prepare", "run", "report", "over", "gone"}]
    BY <1>a DEF TypeOK
  <2>2. chat' \in [Starts -> {None, "running"} \cup Terminal]
    BY <1>a, <1>b DEF TypeOK
  <2>3. begun' \subseteq 1..started /\ working' \subseteq 1..started
        /\ subscribed' \subseteq 1..started /\ leases' \subseteq 1..started
    BY <1>a, <1>b, <1>c DEF TypeOK
  <2>4. task' \in Rows /\ (task'.claim.by = None => task'.claim = NoClaim)
        /\ reconcile' \in [Starts -> {None} \cup Readings]
    BY <1>c DEF RowOK
  <2>5. QED
    BY <1>a, <2>1, <2>2, <2>3, <2>4 DEF TypeOK
<1>2. ClaimOK(task, started)'
  BY <1>a, <1>c DEF RowOK
<1>3. Elsewhere(r)
  BY <1>a, <1>b, <1>c DEF TypeOK, Elsewhere, Same
<1>4. StartOK(r)'
  <2>1. pc'[r] = "over" /\ chat'[r] = outcome /\ outcome # None /\ outcome # "running"
    BY <1>a, <1>b, TaskAssumption DEF TypeOK, Terminal
  <2>2. StepOK(r)'
    BY <1>a, <2>1 DEF StepOK
  <2>3. RunOK(r)' /\ ProofOK(r)'
    BY <1>a, <1>c, <2>1 DEF RunOK, ProofOK
  <2>4. ReadingOK(r)'
    BY <1>a, <1>c, <2>1 DEF StartOK, ReadingOK
  <2>5. QED
    BY <2>2, <2>3, <2>4 DEF StartOK
<1>5. StartsOK'
  BY <1>a, <1>c, <1>3, <1>4, OthersAreOK
<1>6. FinishedWithItsZip'
  <2>1. CASE Finished(task') => Finished(task) /\ SameZip(task, task')
    BY <1>a, <1>3, <2>1, FinishedStays
  <2>2. CASE Owns(task, r) /\ auto[r] = None /\ artifact[r] # None /\ task'.completion = r
    <3>1. r = started
      BY <1>a, <2>2, StartsAre DEF ClaimOK, Owns
    <3>2. QED
      BY <1>a, <2>2, <3>1 DEF FinishedWithItsZip
  <2>3. QED
    BY <1>c, <2>1, <2>2
<1>7. QED
  BY <1>1, <1>2, <1>5, <1>6 DEF TaskInv

\* The end of a local run, whoever hears of it.
LEMMA LocalOverKeeps ==
  ASSUME TaskInv, NEW r \in Starts, r \in local, pc[r] \in {"run", "report"}, NEW outcome \in Terminal,
         NEW state, state \in {"blocked", auto[r]}, LocalOver(r, outcome, state),
         UNCHANGED <<phased, started, local, kept, begun, receipt, artifact, subscribed, edits, restarts>>,
         working' \subseteq working, working \ {r} \subseteq working',
         report' \in [Starts -> {None} \cup Reports], report'[r] = None,
         \A s \in Starts : s # r => report'[s] = report[s]
  PROVE  TaskInv'
<1>a. /\ TypeOK /\ ClaimOK(task, started) /\ StartsOK /\ StartOK(r) /\ started \in Nat /\ RowOK(task, started)
      /\ pc' = [pc EXCEPT ![r] = "over"] /\ ~(r > started)
      /\ auto[r] # None /\ auto[r] # "completed"
      /\ auto[r] \in {None, "preparing", "running", "blocked", "reported", "completed"}
  BY StartsAre DEF TaskInv, TypeOK, StartsOK, RowOK, LocalOver, StartOK, StepOK, ProofOK, Goto
<1>b. "blocked" # None /\ "running" # None /\ outcome # None /\ outcome # "running"
  BY TaskAssumption DEF Receipts, Terminal
<1>c. /\ state \in {None, "preparing", "running", "blocked", "reported", "completed"}
      /\ state # None /\ state # "completed"
  BY <1>a, <1>b
<1>d. /\ leases' \subseteq leases
      /\ RowOK(task', started) /\ ClaimElsewhere(r)
      /\ Owns(task', r) => Owns(task, r)
      /\ MaySettle(task', r) => MaySettle(task, r)
      /\ reconcile' \in [Starts -> {None} \cup Readings]
      /\ \A s \in Starts : s # r => reconcile'[s] = reconcile[s]
      /\ \/ reconcile'[r] = reconcile[r]
         \/ /\ reconcile'[r].zip = artifact[r] /\ reconcile'[r].auto = auto'[r] /\ reconcile'[r].chat = outcome
      /\ Finished(task') => Finished(task) /\ SameZip(task, task')
      /\ \/ chat' = [chat EXCEPT ![r] = outcome] /\ r \in kept
         \/ chat' = chat /\ r \notin kept
      /\ \E x \in {state, "blocked"} : auto' = [auto EXCEPT ![r] = x]
  <2>1. CASE r \in kept
    <3>1. /\ auto' = [auto EXCEPT ![r] = state] /\ chat' = [chat EXCEPT ![r] = outcome]
          /\ Reconcile(r, outcome, state)
      BY <2>1 DEF LocalOver
    <3>2. auto'[r] = state
      BY <1>a, <3>1 DEF TypeOK
    <3>3. /\ leases' \subseteq leases
          /\ RowOK(task', started) /\ ClaimElsewhere(r)
          /\ Owns(task', r) => Owns(task, r)
          /\ MaySettle(task', r) => MaySettle(task, r)
          /\ reconcile' \in [Starts -> {None} \cup Readings]
          /\ \A s \in Starts : s # r => reconcile'[s] = reconcile[s]
          /\ \/ reconcile'[r] = reconcile[r]
             \/ /\ reconcile'[r].zip = artifact[r] /\ reconcile'[r].auto = state /\ reconcile'[r].chat = outcome
          /\ Finished(task') => Finished(task) /\ SameZip(task, task')
      BY <1>c, <3>1, ReconcileKeeps
    <3>4. QED
      BY <2>1, <3>1, <3>2, <3>3
  <2>2. CASE r \notin kept
    <3>1. auto' = [auto EXCEPT ![r] = "blocked"] /\ UNCHANGED <<task, chat, reconcile, leases>>
      BY <2>2 DEF LocalOver
    <3>2. QED
      BY <1>a, <2>2, <3>1 DEF ClaimElsewhere, TypeOK, Owns, MaySettle, SameZip
  <2>3. QED
    BY <2>1, <2>2
<1>e. PICK x \in {state, "blocked"} : auto' = [auto EXCEPT ![r] = x]
  BY <1>d
<1>f. pc'[r] = "over" /\ auto'[r] = x /\ x \notin {None, "completed"}
  BY <1>a, <1>b, <1>c, <1>e DEF TypeOK
<1>1. TypeOK'
  <2>1. auto' \in [Starts -> {None, "preparing", "running", "blocked", "reported", "completed"}]
    BY <1>a, <1>c, <1>e DEF TypeOK
  <2>2. chat' \in [Starts -> {None, "running"} \cup Terminal] /\ pc' \in [Starts -> {"idle", "thread", "turn", "prepare", "run", "report", "over", "gone"}]
    BY <1>a, <1>d DEF TypeOK
  <2>3. QED
    BY <1>a, <1>d, <2>1, <2>2 DEF TypeOK, RowOK
<1>2. ClaimOK(task, started)'
  BY <1>d DEF RowOK
<1>3. Elsewhere(r)
  BY <1>a, <1>d, <1>e DEF TypeOK, Elsewhere, Same
<1>4. StartOK(r)'
  <2>1. \/ chat'[r] = outcome /\ r \in kept
        \/ chat'[r] = chat[r] /\ r \notin kept /\ chat[r] = None
    BY <1>a, <1>d DEF TypeOK, StartOK, RunOK
  <2>2. StepOK(r)'
    BY <1>a, <1>f DEF StepOK
  <2>3. RunOK(r)'
    <3>1. MaySettle(task, r) => chat[r] # None
      BY <1>a DEF StartOK, RunOK
    <3>2. QED
      BY <1>b, <1>d, <2>1, <3>1 DEF RunOK
  <2>4. ProofOK(r)'
    BY <1>f DEF ProofOK
  <2>5. ReadingOK(r)'
    <3>1. reconcile[r] # None => artifact[r] \in {reconcile[r].zip, None} /\ reconcile[r].chat # "completed"
      BY <1>a DEF StartOK, ReadingOK
    <3>2. chat'[r] # "running"
      BY <1>b, <2>1
    <3>3. QED
      BY <1>d, <1>f, <3>1, <3>2 DEF ReadingOK
  <2>6. QED
    BY <2>2, <2>3, <2>4, <2>5 DEF StartOK
<1>5. StartsOK'
  BY <1>a, <1>d, <1>3, <1>4, OthersAreOK
<1>6. FinishedWithItsZip'
  BY <1>a, <1>d, <1>3, FinishedStays
<1>7. QED
  BY <1>1, <1>2, <1>5, <1>6 DEF TaskInv

\* The local runner fails, or ends and reports.
LEMMA RunnerFailsKeeps == ASSUME TaskInv, NEW r \in Starts, RunnerFails(r)
                          PROVE  TaskInv'
<1>a. /\ r \in local /\ pc[r] = "run" /\ report[r] = None /\ report \in [Starts -> {None} \cup Reports]
      /\ working' = working \ {r} /\ report' = report
      /\ UNCHANGED <<phased, started, local, kept, begun, receipt, artifact, subscribed, edits, restarts>>
  BY DEF TaskInv, TypeOK, StartsOK, StartOK, StepOK, RunnerFails
<1>b. PICK outcome \in {"failed", "interrupted"} : LocalOver(r, outcome, "blocked")
  BY DEF RunnerFails
<1>1. QED
  BY <1>a, <1>b, LocalOverKeeps DEF Terminal

\* The local runner ends, with a receipt to report or without.
LEMMA RunnerSucceedsKeeps == ASSUME TaskInv, NEW r \in Starts, RunnerSucceeds(r)
                             PROVE  TaskInv'
<1>a. /\ TypeOK /\ ClaimOK(task, started) /\ StartsOK /\ StartOK(r) /\ started \in Nat
      /\ r \in local /\ pc[r] = "run" /\ report[r] = None /\ report \in [Starts -> {None} \cup Reports]
      /\ working' = working \ {r}
      /\ UNCHANGED <<phased, started, local, kept, begun, receipt, artifact, subscribed, edits, restarts>>
  BY DEF TaskInv, TypeOK, StartsOK, StartOK, StepOK, RunnerSucceeds
<1>1. CASE LocalOver(r, "completed", auto[r]) /\ UNCHANGED report
  BY <1>a, <1>1, LocalOverKeeps DEF Terminal
<1>2. CASE LocalOver(r, "failed", "blocked") /\ UNCHANGED report
  BY <1>a, <1>2, LocalOverKeeps DEF Terminal
<1>3. CASE /\ receipt[r] \in Zips
           /\ report' = [report EXCEPT ![r] = [zip |-> receipt[r], checked |-> FALSE]]
           /\ Goto(r, "report") /\ UNCHANGED <<task, chat, auto, reconcile, leases>>
  <2> DEFINE new == [zip |-> receipt[r], checked |-> FALSE]
  <2>a. new \in Reports
    BY <1>3 DEF Reports
  <2> HIDE DEF new
  <2>b. report' = [report EXCEPT ![r] = new] /\ pc' = [pc EXCEPT ![r] = "report"]
    BY <1>3 DEF Goto, new
  <2>1. TypeOK'
    BY <1>a, <1>3, <2>a, <2>b DEF TypeOK
  <2>2. ClaimOK(task, started)' /\ FinishedWithItsZip'
    BY <1>a, <1>3 DEF TaskInv, FinishedWithItsZip, ClaimOK
  <2>3. Elsewhere(r) /\ ClaimElsewhere(r)
    BY <1>a, <1>3, <2>b DEF TypeOK, Elsewhere, Same, ClaimElsewhere
  <2>4. StartOK(r)'
    <3>1. pc'[r] = "report"
      BY <1>a, <2>b DEF TypeOK
    <3>2. QED
      BY <1>a, <1>3, <3>1 DEF StartOK, StepOK, RunOK, ReadingOK, ProofOK, MaySettle, Owns
  <2>5. StartsOK'
    BY <1>a, <1>3, <2>3, <2>4, OthersAreOK
  <2>6. QED
    BY <2>1, <2>2, <2>5 DEF TaskInv
<1>4. QED
  BY <1>1, <1>2, <1>3 DEF RunnerSucceeds

\* The runner has reported.
LEMMA ReportAnsweredKeeps == ASSUME TaskInv, NEW r \in Starts, ReportAnswered(r)
                             PROVE  TaskInv'
<1>a. /\ r \in local /\ pc[r] = "report" /\ report[r] = None /\ report \in [Starts -> {None} \cup Reports]
      /\ LocalOver(r, "completed", auto[r]) /\ working' = working /\ report' = report
      /\ UNCHANGED <<phased, started, local, kept, begun, receipt, artifact, subscribed, edits, restarts>>
  BY DEF TaskInv, TypeOK, StartsOK, StartOK, StepOK, ReportAnswered, outside
<1>1. QED
  BY <1>a, LocalOverKeeps DEF Terminal

\* The end of a process without its server.
LEMMA OrphanEndsKeeps == ASSUME TaskInv, NEW r \in Starts, OrphanEnds(r)
                         PROVE  TaskInv'
<1>a. /\ TypeOK /\ ClaimOK(task, started) /\ StartsOK /\ StartOK(r) /\ started \in Nat
      /\ pc[r] = "gone" /\ working' = working \ {r}
      /\ UNCHANGED <<phased, task, started, pc, local, kept, begun, chat, auto, receipt, artifact, report,
                     reconcile, subscribed, leases, edits, restarts>>
  BY DEF TaskInv, TypeOK, StartsOK, OrphanEnds, runVars
<1>1. TypeOK'
  BY <1>a DEF TypeOK
<1>2. ClaimOK(task, started)' /\ FinishedWithItsZip'
  BY <1>a DEF TaskInv, FinishedWithItsZip, ClaimOK
<1>3. Elsewhere(r) /\ ClaimElsewhere(r)
  BY <1>a DEF Elsewhere, Same, ClaimElsewhere
<1>4. StartOK(r)'
  BY <1>a DEF StartOK, StepOK, RunOK, ReadingOK, ProofOK, MaySettle, Owns
<1>5. StartsOK'
  BY <1>a, <1>3, <1>4, OthersAreOK
<1>6. QED
  BY <1>1, <1>2, <1>5 DEF TaskInv

\* A report comes in, and is looked at again once it is copied.
LEMMA ReportReceivedKeeps == ASSUME TaskInv, NEW r \in Starts, ReportReceived(r)
                             PROVE  TaskInv'
<1>a. /\ TypeOK /\ ClaimOK(task, started) /\ StartsOK /\ StartOK(r) /\ started \in Nat
      /\ r \notin local /\ chat[r] = "running"
      /\ UNCHANGED <<phased, task, started, pc, local, kept, begun, chat, auto, working, receipt, artifact,
                     reconcile, subscribed, leases, edits, restarts>>
  BY DEF TaskInv, TypeOK, StartsOK, ReportReceived, ReportClaim, runVars
<1>b. PICK zip \in Zips : report' = [report EXCEPT ![r] = [zip |-> zip, checked |-> FALSE]]
  BY DEF ReportReceived
<1>1. TypeOK'
  <2>1. [zip |-> zip, checked |-> FALSE] \in Reports
    BY DEF Reports
  <2>2. report' \in [Starts -> {None} \cup Reports]
    BY <1>a, <1>b, <2>1 DEF TypeOK
  <2>3. QED
    BY <1>a, <2>2 DEF TypeOK
<1>2. ClaimOK(task, started)' /\ FinishedWithItsZip'
  BY <1>a DEF TaskInv, FinishedWithItsZip, ClaimOK
<1>3. Elsewhere(r) /\ ClaimElsewhere(r)
  BY <1>a, <1>b DEF TypeOK, Elsewhere, Same, ClaimElsewhere
<1>4. StartOK(r)'
  <2>1. pc[r] \in {"prepare", "run", "report"}
    BY <1>a DEF StartOK, RunOK
  <2>2. QED
    BY <1>a, <2>1 DEF StartOK, StepOK, RunOK, ReadingOK, ProofOK, MaySettle, Owns
<1>5. StartsOK'
  BY <1>a, <1>3, <1>4, OthersAreOK
<1>6. QED
  BY <1>1, <1>2, <1>5 DEF TaskInv

\* A refused report changes nothing but the run of the local runner.
LEMMA RefuseKeeps ==
  ASSUME TaskInv, NEW r \in Starts, Refuse(r), report[r] # None,
         UNCHANGED <<phased, started, local, kept, begun, working, receipt, artifact, subscribed,
                     edits, restarts>>
  PROVE  TaskInv'
<1>a. /\ TypeOK /\ ClaimOK(task, started) /\ StartsOK /\ StartOK(r) /\ started \in Nat
      /\ report' = [report EXCEPT ![r] = None] /\ report \in [Starts -> {None} \cup Reports]
      /\ r \in local => pc[r] = "report"
  BY DEF TaskInv, TypeOK, StartsOK, StartOK, StepOK, Refuse
<1>b. /\ report' \in [Starts -> {None} \cup Reports] /\ report'[r] = None
      /\ \A s \in Starts : s # r => report'[s] = report[s]
  BY <1>a
<1>1. CASE r \in local
  BY <1>a, <1>b, <1>1, LocalOverKeeps DEF Refuse, Terminal
<1>2. CASE r \notin local
  <2>a. UNCHANGED <<pc, task, chat, auto, reconcile, leases>>
    BY <1>2 DEF Refuse
  <2>1. TypeOK'
    BY <1>a, <1>b, <2>a DEF TypeOK
  <2>2. ClaimOK(task, started)' /\ FinishedWithItsZip'
    BY <1>a, <2>a DEF TaskInv, FinishedWithItsZip, ClaimOK
  <2>3. Elsewhere(r) /\ ClaimElsewhere(r)
    BY <1>b, <2>a DEF Elsewhere, Same, ClaimElsewhere
  <2>4. StartOK(r)'
    BY <1>a, <1>b, <1>2, <2>a DEF StartOK, StepOK, RunOK, ReadingOK, ProofOK, MaySettle, Owns
  <2>5. StartsOK'
    BY <1>a, <2>3, <2>4, OthersAreOK
  <2>6. QED
    BY <2>1, <2>2, <2>5 DEF TaskInv
<1>3. QED
  BY <1>1, <1>2

\* A copied report is looked at again.
LEMMA ReportCheckedKeeps == ASSUME TaskInv, NEW r \in Starts, ReportChecked(r)
                            PROVE  TaskInv'
<1>a. /\ TypeOK /\ ClaimOK(task, started) /\ StartsOK /\ StartOK(r) /\ started \in Nat
      /\ report[r] # None
      /\ UNCHANGED <<phased, started, local, kept, begun, working, receipt, artifact, subscribed,
                     edits, restarts>>
  BY DEF TaskInv, TypeOK, StartsOK, ReportChecked
<1>1. CASE Refuse(r)
  BY <1>a, <1>1, RefuseKeeps
<1>2. CASE /\ report' = [report EXCEPT ![r].checked = TRUE]
           /\ UNCHANGED <<pc, task, chat, auto, reconcile, leases>>
  <2> DEFINE new == [report[r] EXCEPT !.checked = TRUE]
  <2>a. new \in Reports
    BY <1>a DEF TypeOK, Reports
  <2>b. report' = [report EXCEPT ![r] = new]
    BY <1>2
  <2> HIDE DEF new
  <2>1. TypeOK'
    BY <1>a, <1>2, <2>a, <2>b DEF TypeOK
  <2>2. ClaimOK(task, started)' /\ FinishedWithItsZip'
    BY <1>a, <1>2 DEF TaskInv, FinishedWithItsZip, ClaimOK
  <2>3. Elsewhere(r) /\ ClaimElsewhere(r)
    BY <1>a, <1>2, <2>b DEF TypeOK, Elsewhere, Same, ClaimElsewhere
  <2>4. StartOK(r)'
    BY <1>a, <1>2 DEF StartOK, StepOK, RunOK, ReadingOK, ProofOK, MaySettle, Owns
  <2>5. StartsOK'
    BY <1>a, <1>2, <2>3, <2>4, OthersAreOK
  <2>6. QED
    BY <2>1, <2>2, <2>5 DEF TaskInv
<1>3. QED
  BY <1>1, <1>2 DEF ReportChecked

\* The ZIP is registered for its run, or refused.
LEMMA ReportStoredKeeps == ASSUME TaskInv, NEW r \in Starts, ReportStored(r)
                           PROVE  TaskInv'
<1>a. /\ TypeOK /\ ClaimOK(task, started) /\ StartsOK /\ StartOK(r) /\ started \in Nat
      /\ report[r] # None
      /\ UNCHANGED <<phased, started, local, kept, begun, working, receipt, subscribed,
                     edits, restarts>>
  BY DEF TaskInv, TypeOK, StartsOK, ReportStored
<1>1. CASE ~Accepted(r)
  BY <1>a, <1>1, RefuseKeeps DEF ReportStored
<1>2. CASE Accepted(r)
  <2> DEFINE state == IF auto[r] = None THEN None ELSE "reported"
  <2>a. /\ artifact' = [artifact EXCEPT ![r] = report[r].zip] /\ report' = [report EXCEPT ![r] = None]
        /\ auto' = [auto EXCEPT ![r] = state] /\ UNCHANGED <<pc, task, chat, reconcile, leases>>
    BY <1>2 DEF ReportStored
  <2>b. /\ MaySettle(task, r) /\ Owns(task, r) /\ chat[r] = "running" /\ auto[r] \in {None, "running", "reported"}
    BY <1>2 DEF Accepted, ReportClaim, MaySettle
  <2>c. None # "running" /\ None # "reported" /\ None # "completed" /\ None \notin Zips
    BY TaskAssumption DEF Zips, Terminal
  <2>d. state \in {None, "reported"} /\ (state = None => auto[r] = None)
    BY <2>c
  <2> HIDE DEF state
  <2>e. report[r].zip \in Zips
    BY <1>a DEF TypeOK, Reports
  <2>1. TypeOK'
    <3>1. artifact' \in [Starts -> Zips \cup {None}] /\ report' \in [Starts -> {None} \cup Reports]
      BY <1>a, <2>a, <2>e DEF TypeOK
    <3>2. auto' \in [Starts -> {None, "preparing", "running", "blocked", "reported", "completed"}]
      BY <1>a, <2>a, <2>d DEF TypeOK
    <3>3. QED
      BY <1>a, <2>a, <3>1, <3>2 DEF TypeOK
  <2>2. ClaimOK(task, started)'
    BY <1>a, <2>a
  <2>3. Elsewhere(r) /\ ClaimElsewhere(r)
    BY <1>a, <2>a DEF TypeOK, Elsewhere, Same, ClaimElsewhere
  <2>4. StartOK(r)'
    <3>1. auto'[r] = state /\ artifact'[r] = report[r].zip /\ report'[r] = None
      BY <1>a, <2>a DEF TypeOK
    <3>2. reconcile[r] = None /\ pc[r] \in {"prepare", "run", "report"}
      BY <1>a, <2>b DEF StartOK, ReadingOK, RunOK
    <3>3. StepOK(r)'
      BY <1>a, <2>a, <2>c, <2>d, <3>1, <3>2 DEF StartOK, StepOK
    <3>4. RunOK(r)' /\ ReadingOK(r)' /\ ProofOK(r)'
      BY <1>a, <2>a, <2>c, <2>d, <3>1, <3>2 DEF StartOK, RunOK, ReadingOK, ProofOK, MaySettle, Owns
    <3>5. QED
      BY <3>3, <3>4 DEF StartOK
  <2>5. StartsOK'
    BY <1>a, <2>a, <2>3, <2>4, OthersAreOK
  <2>6. FinishedWithItsZip'
    <3>1. artifact'[r] # None
      BY <1>a, <2>a, <2>c, <2>e DEF TypeOK
    <3>2. QED
      BY <1>a, <2>a, <2>b, <2>3, <3>1, FinishedStays DEF SameZip
  <2>7. QED
    BY <2>1, <2>2, <2>5, <2>6 DEF TaskInv
<1>3. QED
  BY <1>1, <1>2

\* The process writes its receipt; a reconciliation reads it.
LEMMA ReceiptWrittenKeeps == ASSUME TaskInv, NEW r \in Starts, ReceiptWritten(r)
                             PROVE  TaskInv'
<1>a. /\ TypeOK /\ StartsOK
      /\ UNCHANGED <<phased, task, started, pc, local, kept, begun, chat, auto, working, artifact, report,
                     reconcile, subscribed, leases, edits, restarts>>
  BY DEF TaskInv, ReceiptWritten, runVars
<1>b. PICK x \in Receipts : receipt' = [receipt EXCEPT ![r] = x]
  BY DEF ReceiptWritten, Receipts
<1>1. TypeOK'
  BY <1>a, <1>b DEF TypeOK
<1>2. ClaimOK(task, started)' /\ FinishedWithItsZip'
  BY <1>a DEF TaskInv, FinishedWithItsZip, ClaimOK
<1>3. StartsOK'
  BY <1>a, StartsStayOK DEF Same
<1>4. QED
  BY <1>1, <1>2, <1>3 DEF TaskInv

\* A reconciliation has read the receipt, and settles with what it has read before.
LEMMA ReceiptReadKeeps == ASSUME TaskInv, NEW r \in Starts, ReceiptRead(r)
                          PROVE  TaskInv'
<1>a. /\ TypeOK /\ ClaimOK(task, started) /\ StartsOK /\ StartOK(r) /\ started \in Nat /\ RowOK(task, started)
      /\ reconcile[r] # None /\ auto[r] \notin {None, "completed"} /\ chat[r] # "running"
      /\ artifact[r] \in {reconcile[r].zip, None} /\ r # None
      /\ reconcile[r].chat = "completed" => pc[r] \in {"over", "gone"} /\ auto[r] = reconcile[r].auto
      /\ pc[r] \notin {"idle", "thread", "turn"}
      /\ reconcile' = [reconcile EXCEPT ![r] = None] /\ leases' = leases \ {r}
      /\ UNCHANGED <<phased, started, pc, local, kept, begun, chat, outside, subscribed, edits, restarts>>
  BY StartsAre DEF TaskInv, TypeOK, StartsOK, RowOK, StartOK, StepOK, ReadingOK, ReceiptRead, GiveBack
<1> DEFINE state == IF ~Proven(r) THEN "blocked" ELSE IF MayFinish(r) THEN "completed" ELSE auto[r]
<1>b. auto' = [auto EXCEPT ![r] = state]
  BY DEF ReceiptRead
<1>c. /\ state \in {"blocked", "completed", auto[r]}
      /\ state = "completed" => Proven(r) /\ MayFinish(r)
      /\ Proven(r) /\ MayFinish(r) => state = "completed"
  BY <1>a
<1> HIDE DEF state
<1>d. /\ RowOK(task', started) /\ ClaimElsewhere(r)
      /\ MaySettle(task', r) => MaySettle(task, r)
      /\ Owns(task', r) => Owns(task, r)
      /\ Proven(r) /\ MayFinish(r) => ~Owns(task', r)
      /\ Finished(task') => \/ Finished(task) /\ SameZip(task, task')
                            \/ Proven(r) /\ MayFinish(r) /\ task'.completion = r
                               /\ ~(task.archived \/ task.thread # r)
  <2>a. Owns(task, r) => task.completion \in Starts \cup {None} /\ {"finished", "blocked"} \subseteq Statuses
    BY <1>a, RowFields DEF RowOK, Statuses
  <2>b. MayFinish(r) => Owns(task, r)
    BY DEF MayFinish, MaySettle
  <2>1. CASE task' = task
    <3>1. ~(Proven(r) /\ MayFinish(r)) \/ task' = Settled(task, r, "finished", r)
      BY DEF ReceiptRead
    <3>2. CASE Proven(r) /\ MayFinish(r)
      <4>1. ClaimGone(task, Settled(task, r, "finished", r))
        BY <1>a, <2>a, <2>b, <3>2, SettledIs
      <4>2. task'.claim.by = None
        BY <3>1, <3>2, <4>1, GoneIsOK
      <4>3. QED
        BY <1>a, <2>1, <2>b, <3>2, <4>2 DEF Owns
    <3>3. QED
      BY <1>a, <2>1, <3>2 DEF ClaimElsewhere, SameZip
  <2>2. CASE ~Proven(r) /\ MaySettle(task, r) /\ task' # task
    <3>1. task' = Settled(task, r, "blocked", task.completion) /\ Owns(task, r)
      BY <2>2 DEF ReceiptRead, MaySettle
    <3>2. ClaimGone(task, task') /\ ~Finished(task')
      BY <1>a, <2>a, <3>1, SettledIs
    <3>3. RowOK(task', started) /\ task'.claim.by = None
      BY <3>2, GoneIsOK
    <3>4. QED
      BY <1>a, <2>2, <3>1, <3>2, <3>3 DEF ClaimElsewhere, Owns, MaySettle
  <2>3. CASE Proven(r) /\ MayFinish(r)
    <3>1. task' = Settled(task, r, "finished", r) /\ Owns(task, r)
      BY <2>3, <2>b DEF ReceiptRead
    <3>2. /\ ClaimGone(task, task')
          /\ Finished(task') => task'.completion = r
      BY <1>a, <2>a, <3>1, SettledIs
    <3>3. RowOK(task', started) /\ task'.claim.by = None
      BY <3>2, GoneIsOK
    <3>4. ASSUME Finished(task')
          PROVE  ~(task.archived \/ task.thread # r)
      <4>1. SUFFICES ASSUME task.archived \/ task.thread # r
                     PROVE  ~Finished(task')
        BY <3>4
      <4>2. task' = Unclaimed(task)
        BY <3>1, <4>1 DEF Settled
      <4>3. task'.status = task.status /\ task'.byServer = task.byServer
        BY <1>a, <4>2, UnclaimedIs DEF RowOK
      <4>4. QED
        BY <1>a, <3>1, <4>3 DEF RowOK, ClaimOK, Owns, Finished
    <3>5. QED
      BY <1>a, <2>3, <3>1, <3>2, <3>3, <3>4 DEF ClaimElsewhere, Owns, MaySettle, MayFinish
  <2>4. QED
    BY <2>1, <2>2, <2>3 DEF ReceiptRead
<1>1. TypeOK'
  <2>1. auto' \in [Starts -> {None, "preparing", "running", "blocked", "reported", "completed"}]
    BY <1>a, <1>b, <1>c DEF TypeOK
  <2>2. reconcile' \in [Starts -> {None} \cup Readings]
    BY <1>a DEF TypeOK
  <2>3. QED
    BY <1>a, <1>d, <2>1, <2>2 DEF TypeOK, RowOK, outside
<1>2. ClaimOK(task, started)'
  BY <1>a, <1>d DEF RowOK
<1>3. Elsewhere(r)
  BY <1>a, <1>b DEF TypeOK, Elsewhere, Same, outside
<1>4. StartOK(r)'
  <2>1. auto'[r] = state /\ reconcile'[r] = None /\ "blocked" # None /\ "completed" # None
    BY <1>a, <1>b, TaskAssumption DEF TypeOK, Receipts, Terminal
  <2>2. StepOK(r)'
    BY <1>a, <1>c, <2>1 DEF StartOK, StepOK, outside
  <2>3. RunOK(r)' /\ ReadingOK(r)'
    BY <1>a, <1>d, <2>1 DEF StartOK, RunOK, ReadingOK, outside
  <2>4. ProofOK(r)'
    BY <1>a, <1>c, <1>d, <2>1 DEF ProofOK, Proven
  <2>5. QED
    BY <2>2, <2>3, <2>4 DEF StartOK
<1>5. StartsOK'
  BY <1>a, <1>d, <1>3, <1>4, OthersAreOK
<1>6. FinishedWithItsZip'
  <2>1. CASE Finished(task') => Finished(task) /\ SameZip(task, task')
    BY <1>a, <1>3, <2>1, FinishedStays DEF outside
  <2>2. CASE Proven(r) /\ MayFinish(r) /\ task'.completion = r /\ ~(task.archived \/ task.thread # r)
    <3>1. r = started
      BY <1>a, <2>2 DEF ClaimOK, Owns, MayFinish, MaySettle
    <3>2. artifact[r] # None
      BY <2>2 DEF MayFinish
    <3>3. auto'[r] = "completed"
      BY <1>a, <1>b, <1>c, <2>2 DEF TypeOK
    <3>4. QED
      BY <1>a, <2>2, <3>1, <3>2, <3>3 DEF FinishedWithItsZip, outside
  <2>3. QED
    BY <1>d, <2>1, <2>2
<1>7. QED
  BY <1>1, <1>2, <1>5, <1>6 DEF TaskInv

\* What users do to the row alone.
LEMMA EditKeeps ==
  ASSUME TaskInv, NEW t, RowOK(t, started), EditTask(t),
         t.claim.by = task.claim.by, t.claim.run = task.claim.run,
         Finished(t) => Finished(task) /\ SameZip(task, t)
  PROVE  TaskInv'
<1>a. /\ TypeOK /\ StartsOK /\ Edit(t) /\ edits' = edits + 1 /\ edits < MaxEdits
      /\ UNCHANGED <<phased, started, pc, local, kept, begun, chat, auto, outside, reconcile, subscribed,
                     leases, restarts>>
  BY DEF TaskInv, EditTask, Edit, runVars
<1>b. /\ RowOK(task', started) /\ task'.claim.by = task.claim.by /\ task'.claim.run = task.claim.run
      /\ Finished(task') => Finished(task) /\ SameZip(task, task')
  BY <1>a, EditIs DEF Finished, SameZip
<1>1. TypeOK'
  BY <1>a, <1>b, StartsAre DEF TypeOK, RowOK, outside
<1>2. ClaimOK(task, started)'
  BY <1>a, <1>b DEF RowOK
<1>3. StartsOK'
  BY <1>a, <1>b, StartsStayOK DEF Same, outside
<1>4. FinishedWithItsZip'
  BY <1>a, <1>b DEF TaskInv, FinishedWithItsZip, Finished, outside, SameZip
<1>5. QED
  BY <1>1, <1>2, <1>3, <1>4 DEF TaskInv

\* A user moves the task, under a claim or not.
LEMMA UserMovesKeeps == ASSUME TaskInv, NEW status \in Statuses, UserMoves(status)
                        PROVE  TaskInv'
<1> DEFINE moved == task.claim.by # None
           c == [task.claim EXCEPT !.moved = moved]
           t == [task EXCEPT !.status = status, !.byServer = FALSE, !.chosen = status, !.claim = c]
<1>a. task \in Rows /\ (task.claim.by = None => task.claim = NoClaim) /\ ClaimOK(task, started)
  BY DEF TaskInv, TypeOK
<1>b. /\ c \in [by : Starts \cup {None}, run : BOOLEAN, moved : BOOLEAN, edited : BOOLEAN]
      /\ c.by = task.claim.by /\ c.run = task.claim.run /\ c.moved = moved
      /\ task.claim.by = None => c = NoClaim
  <2>1. task.claim \in [by : Starts \cup {None}, run : BOOLEAN, moved : BOOLEAN, edited : BOOLEAN]
    BY <1>a, RowFields
  <2>2. ASSUME task.claim.by = None
        PROVE  c = NoClaim
    <3>1. moved = FALSE /\ task.claim = NoClaim
      BY <1>a, <2>2
    <3> HIDE DEF moved
    <3>2. QED
      BY <3>1, NoClaimIs
  <2>3. QED
    BY <2>1, <2>2
<1>c. EditTask(t)
  BY DEF UserMoves
<1> HIDE DEF c
<1>d. t \in Rows
  BY <1>a, <1>b DEF Rows
<1>e. t.claim = c /\ t.status = status /\ t.chosen = status /\ t.byServer = FALSE
  BY <1>a DEF Rows
<1> HIDE DEF t
<1>1. RowOK(t, started)
  BY <1>a, <1>b, <1>d, <1>e DEF RowOK, ClaimOK
<1>2. QED
  BY <1>b, <1>c, <1>e, <1>1, EditKeeps DEF Finished

\* An archived, rebound or marked row keeps its claim and its status.
LEMMA FieldEditKeeps ==
  ASSUME TaskInv, NEW t, t \in Rows, EditTask(t), t.claim = task.claim, t.status = task.status,
         t.byServer = task.byServer, SameZip(task, t), t.chosen = task.chosen
  PROVE  TaskInv'
<1>1. RowOK(t, started)
  BY DEF TaskInv, TypeOK, RowOK, ClaimOK
<1>2. QED
  BY <1>1, EditKeeps DEF Finished

\* A user archives, rebinds or marks the task.
LEMMA UserEditsKeep == ASSUME TaskInv, UserArchives \/ UserBindsThread \/ UserEditsMarker
                       PROVE  TaskInv'
<1>a. task \in Rows /\ task.archived \in BOOLEAN /\ task.trusted \in BOOLEAN
  BY RowFields DEF TaskInv, TypeOK
<1>b. (~task.archived) \in BOOLEAN /\ (~task.trusted) \in BOOLEAN
  OBVIOUS
<1>c. ASSUME NEW flag \in BOOLEAN
      PROVE  /\ [task EXCEPT !.archived = flag] \in Rows /\ [task EXCEPT !.trusted = flag] \in Rows
             /\ [task EXCEPT !.thread = Other] \in Rows
  BY <1>a DEF Rows
<1>1. CASE UserArchives
  <2> DEFINE t == [task EXCEPT !.archived = ~@]
  <2>1. t \in Rows
    BY <1>b, <1>c
  <2>2. /\ t.claim = task.claim /\ t.status = task.status /\ t.byServer = task.byServer
        /\ SameZip(task, t) /\ t.chosen = task.chosen
    BY <1>a DEF Rows, SameZip
  <2>3. EditTask(t)
    BY <1>1 DEF UserArchives
  <2> HIDE DEF t
  <2>4. QED
    BY <2>1, <2>2, <2>3, FieldEditKeeps
<1>2. CASE UserBindsThread
  <2> DEFINE t == [task EXCEPT !.thread = Other]
  <2>1. t \in Rows
    BY <1>c
  <2>2. /\ t.claim = task.claim /\ t.status = task.status /\ t.byServer = task.byServer
        /\ SameZip(task, t) /\ t.chosen = task.chosen
    BY <1>a DEF Rows, SameZip
  <2>3. EditTask(t)
    BY <1>2 DEF UserBindsThread
  <2> HIDE DEF t
  <2>4. QED
    BY <2>1, <2>2, <2>3, FieldEditKeeps
<1>3. CASE UserEditsMarker
  <2> DEFINE t == [task EXCEPT !.trusted = ~@]
  <2>1. t \in Rows
    BY <1>b, <1>c
  <2>2. /\ t.claim = task.claim /\ t.status = task.status /\ t.byServer = task.byServer
        /\ SameZip(task, t) /\ t.chosen = task.chosen
    BY <1>a DEF Rows, SameZip
  <2>3. EditTask(t)
    BY <1>3 DEF UserEditsMarker
  <2> HIDE DEF t
  <2>4. QED
    BY <2>1, <2>2, <2>3, FieldEditKeeps
<1>4. QED
  BY <1>1, <1>2, <1>3

\* A user retries a blocked task.
LEMMA UserRetriesKeeps == ASSUME TaskInv, UserRetries
                          PROVE  TaskInv'
<1>a. /\ TypeOK /\ StartsOK /\ task.claim.by = None /\ task \in Rows /\ task.claim = NoClaim
      /\ UNCHANGED <<phased, started, pc, local, kept, begun, chat, auto, outside, reconcile, subscribed,
                     leases, edits, restarts>>
  BY DEF TaskInv, TypeOK, UserRetries, runVars
<1> DEFINE t == [task EXCEPT !.status = "todo", !.thread = None, !.retried = TRUE,
                             !.completion = None, !.byServer = TRUE]
<1>b. t \in Rows
  BY <1>a DEF Rows, Statuses
<1>c. t.claim = task.claim /\ t.status = "todo"
  BY <1>a DEF Rows
<1>d. task' = t
  BY DEF UserRetries
<1> HIDE DEF t
<1>1. TypeOK'
  BY <1>a, <1>b, <1>c, <1>d DEF TypeOK, outside
<1>2. ClaimOK(task, started)' /\ FinishedWithItsZip'
  BY <1>a, <1>c, <1>d DEF ClaimOK, FinishedWithItsZip
<1>3. StartsOK'
  BY <1>a, <1>c, <1>d, StartsStayOK DEF Same, outside
<1>4. QED
  BY <1>1, <1>2, <1>3 DEF TaskInv

\* A run without a process is interrupted.
LEMMA UserInterruptsKeeps == ASSUME TaskInv, NEW r \in Starts, UserInterrupts(r)
                             PROVE  TaskInv'
<1>a. /\ TypeOK /\ ClaimOK(task, started) /\ StartsOK /\ StartOK(r) /\ started \in Nat /\ RowOK(task, started)
      /\ pc[r] \in {"prepare", "run", "report"} /\ (r \in local \/ pc[r] = "prepare") /\ chat[r] = "running"
      /\ chat' = [chat EXCEPT ![r] = "interrupted"]
      /\ ~(r > started) /\ r \in kept /\ auto[r] # "completed" /\ auto[r] # None
      /\ auto[r] \in {None, "preparing", "running", "blocked", "reported", "completed"}
      /\ subscribed' = subscribed \ {r} /\ edits < MaxEdits /\ edits' = edits + 1
      /\ UNCHANGED <<phased, started, pc, local, kept, begun, auto, outside, restarts>>
      /\ IF r \in subscribed THEN Reconcile(r, "interrupted", auto[r])
                             ELSE UNCHANGED <<task, reconcile, leases>>
  <2>1. /\ TypeOK /\ ClaimOK(task, started) /\ StartsOK /\ StartOK(r) /\ started \in Nat /\ RowOK(task, started)
        /\ auto[r] \in {None, "preparing", "running", "blocked", "reported", "completed"}
    BY DEF TaskInv, TypeOK, StartsOK, RowOK
  <2>2. chat[r] = "running" /\ pc[r] \in {"prepare", "run", "report"} /\ (r \in local \/ pc[r] = "prepare")
    BY DEF UserInterrupts
  <2>3. ~(r > started) /\ auto[r] # "completed" /\ auto[r] # None
    BY <2>1, <2>2 DEF StartOK, StepOK, ProofOK
  <2>4. r \in kept
    BY <2>1, <2>2, TaskAssumption DEF StartOK, RunOK
  <2>5. QED
    BY <2>1, <2>2, <2>3, <2>4 DEF UserInterrupts
<1>b. "interrupted" \in Terminal /\ "interrupted" # None /\ "interrupted" # "running"
  BY TaskAssumption DEF Terminal
<1>c. /\ leases' \subseteq leases
      /\ RowOK(task', started) /\ ClaimElsewhere(r)
      /\ Owns(task', r) => Owns(task, r)
      /\ MaySettle(task', r) => MaySettle(task, r)
      /\ reconcile' \in [Starts -> {None} \cup Readings]
      /\ \A s \in Starts : s # r => reconcile'[s] = reconcile[s]
      /\ \/ reconcile'[r] = reconcile[r]
         \/ /\ reconcile'[r].zip = artifact[r] /\ auto[r] \notin {None, "completed"}
            /\ reconcile'[r].auto = auto[r] /\ reconcile'[r].chat = "interrupted"
      /\ Finished(task') => Finished(task) /\ SameZip(task, task')
  <2>1. CASE r \in subscribed
    BY <1>a, <1>b, <2>1, ReconcileKeeps
  <2>2. CASE r \notin subscribed
    <3>1. UNCHANGED <<task, reconcile, leases>>
      BY <1>a, <2>2
    <3>2. QED
      BY <1>a, <3>1 DEF ClaimElsewhere, TypeOK, Owns, MaySettle, SameZip
  <2>3. QED
    BY <2>1, <2>2
<1>1. TypeOK'
  <2>1. chat' \in [Starts -> {None, "running"} \cup Terminal]
    BY <1>a, <1>b DEF TypeOK
  <2>2. edits' \in 0..MaxEdits
    BY <1>a, StartsAre DEF TypeOK
  <2>3. QED
    BY <1>a, <1>c, <2>1, <2>2 DEF TypeOK, RowOK, outside
<1>2. ClaimOK(task, started)'
  BY <1>a, <1>c DEF RowOK
<1>3. Elsewhere(r)
  BY <1>a, <1>c DEF TypeOK, Elsewhere, Same, outside
<1>4. StartOK(r)'
  <2>1. chat'[r] = "interrupted"
    BY <1>a DEF TypeOK
  <2>2. StepOK(r)'
    BY <1>a, <1>c, <2>1 DEF StartOK, StepOK, outside
  <2>3. RunOK(r)' /\ ProofOK(r)'
    BY <1>a, <1>b, <1>c, <2>1 DEF RunOK, ProofOK
  <2>4. ReadingOK(r)'
    <3>1. reconcile[r] = None
      BY <1>a DEF StartOK, ReadingOK
    <3>2. QED
      BY <1>a, <1>c, <2>1, <3>1 DEF ReadingOK, outside
  <2>5. QED
    BY <2>2, <2>3, <2>4 DEF StartOK
<1>5. StartsOK'
  BY <1>a, <1>c, <1>3, <1>4, OthersAreOK
<1>6. FinishedWithItsZip'
  BY <1>a, <1>c, <1>3, FinishedStays DEF outside
<1>7. QED
  BY <1>1, <1>2, <1>5, <1>6 DEF TaskInv

\* An idle thread is deleted, and its run.
LEMMA UserDeletesThreadKeeps == ASSUME TaskInv, NEW r \in Starts, UserDeletesThread(r)
                                PROVE  TaskInv'
<1>a. /\ TypeOK /\ ClaimOK(task, started) /\ StartsOK /\ StartOK(r) /\ started \in Nat /\ RowOK(task, started)
      /\ ~(pc[r] = "run" /\ r \in working \ local) /\ chat' = [chat EXCEPT ![r] = None] /\ kept' = kept \ {r}
      /\ edits < MaxEdits /\ edits' = edits + 1
      /\ UNCHANGED <<phased, started, pc, local, begun, auto, outside, reconcile, subscribed, leases, restarts>>
  BY DEF TaskInv, TypeOK, StartsOK, RowOK, UserDeletesThread
<1>b. /\ RowOK(task', started) /\ ClaimElsewhere(r) /\ ~MaySettle(task', r) /\ (Owns(task', r) <=> Owns(task, r))
      /\ Owns(task, r) => task'.claim.run = FALSE
      /\ Finished(task') => Finished(task) /\ SameZip(task, task')
  <2>1. CASE Owns(task, r)
    <3> DEFINE t == [task EXCEPT !.claim.run = FALSE, !.lost = TRUE]
    <3>1. task.claim.by # None /\ task.claim.by = r
      BY <2>1, StartsAre DEF Owns
    <3>2. /\ RowOK(t, started) /\ t.claim.by = task.claim.by /\ t.claim.run = FALSE
          /\ t.status = task.status /\ t.byServer = task.byServer /\ SameZip(task, t)
      BY <1>a, <3>1, RunBoundIs
    <3>3. task' = t
      BY <2>1 DEF UserDeletesThread
    <3> HIDE DEF t
    <3>4. QED
      BY <2>1, <3>1, <3>2, <3>3 DEF ClaimElsewhere, Owns, MaySettle, Finished
  <2>2. CASE ~Owns(task, r)
    BY <1>a, <2>2 DEF UserDeletesThread, ClaimElsewhere, MaySettle, SameZip
  <2>3. QED
    BY <2>1, <2>2
<1>1. TypeOK'
  BY <1>a, <1>b, StartsAre DEF TypeOK, RowOK, outside
<1>2. ClaimOK(task, started)'
  BY <1>a, <1>b DEF RowOK
<1>3. Elsewhere(r)
  BY <1>a DEF TypeOK, Elsewhere, Same, outside
<1>4. StartOK(r)'
  <2>1. chat'[r] = None /\ None # "running"
    BY <1>a, TaskAssumption DEF TypeOK
  <2>2. StepOK(r)'
    BY <1>a, <1>b, <2>1 DEF StartOK, StepOK, outside
  <2>3. RunOK(r)' /\ ProofOK(r)' /\ ReadingOK(r)'
    BY <1>a, <1>b, <2>1 DEF StartOK, RunOK, ProofOK, ReadingOK, outside
  <2>4. QED
    BY <2>2, <2>3 DEF StartOK
<1>5. StartsOK'
  BY <1>a, <1>b, <1>3, <1>4, OthersAreOK
<1>6. FinishedWithItsZip'
  BY <1>a, <1>b, <1>3, FinishedStays DEF outside
<1>7. QED
  BY <1>1, <1>2, <1>5, <1>6 DEF TaskInv

\* A user deletes the ZIP of a run: the task stays finished without it.
LEMMA UserDeletesArtifactKeeps == ASSUME TaskInv, NEW r \in Starts, UserDeletesArtifact(r)
                                  PROVE  TaskInv'
<1>a. /\ TypeOK /\ ClaimOK(task, started) /\ StartsOK /\ started \in Nat /\ RowOK(task, started) /\ r # None
      /\ edits < MaxEdits /\ edits' = edits + 1 /\ artifact' = [artifact EXCEPT ![r] = None]
      /\ UNCHANGED <<phased, started, pc, local, kept, begun, chat, auto, working, receipt, report, reconcile,
                     subscribed, leases, restarts>>
  BY StartsAre DEF TaskInv, TypeOK, RowOK, UserDeletesArtifact, runVars
<1> DEFINE t == [task EXCEPT !.completion = None, !.withdrawn = r]
<1>b. t \in Rows
  BY <1>a DEF RowOK, Rows
<1>c. /\ t.claim = task.claim /\ t.status = task.status /\ t.byServer = task.byServer
      /\ t.chosen = task.chosen /\ t.completion = None /\ t.withdrawn = r
  BY <1>a DEF RowOK, Rows
<1>d. task' = IF task.completion = r THEN t ELSE task
  BY DEF UserDeletesArtifact
<1> HIDE DEF t
<1>e. /\ RowOK(task', started) /\ task'.claim = task.claim
      /\ task'.status = task.status /\ task'.byServer = task.byServer
  BY <1>a, <1>b, <1>c, <1>d DEF RowOK, ClaimOK
<1>f. artifact' \in [Starts -> Zips \cup {None}] /\ \A s \in Starts : artifact'[s] \in {artifact[s], None}
  BY <1>a DEF TypeOK
<1>1. TypeOK'
  BY <1>a, <1>e, <1>f, StartsAre DEF TypeOK, RowOK
<1>2. ClaimOK(task, started)'
  BY <1>a, <1>e DEF RowOK
<1>3. StartsOK'
  <2> SUFFICES ASSUME NEW s \in Starts
               PROVE  StartOK(s)'
    BY DEF StartsOK
  <2>1. StartOK(s) /\ artifact'[s] \in {artifact[s], None}
    BY <1>a, <1>f DEF StartsOK
  <2>2. StepOK(s)'
    BY <1>a, <1>e, <2>1 DEF StartOK, StepOK, Owns
  <2>3. RunOK(s)' /\ ReadingOK(s)' /\ ProofOK(s)'
    BY <1>a, <1>e, <2>1 DEF StartOK, RunOK, ReadingOK, ProofOK, Owns, MaySettle
  <2>4. QED
    BY <2>2, <2>3 DEF StartOK
<1>4. FinishedWithItsZip'
  <2> SUFFICES ASSUME Finished(task)
               PROVE  /\ auto[started] \in {None, "completed"}
                      /\ \/ task'.completion = started /\ artifact'[started] # None
                         \/ task'.completion = None /\ task'.withdrawn = started
    BY <1>a, <1>e DEF FinishedWithItsZip, Finished
  <2>1. /\ auto[started] \in {None, "completed"}
        /\ \/ task.completion = started /\ artifact[started] # None
           \/ task.completion = None /\ task.withdrawn = started
    BY DEF TaskInv, FinishedWithItsZip, Finished
  <2>2. CASE task.completion = r
    BY <1>a, <1>c, <1>d, <2>1, <2>2
  <2>3. CASE task.completion # r
    <3>1. task.completion = started => started \in Starts /\ started # r
      BY <1>a, <2>3, TaskAssumption DEF RowOK, Rows, TypeOK
    <3>2. QED
      BY <1>a, <1>d, <2>1, <2>3, <3>1 DEF TypeOK
  <2>4. QED
    BY <2>2, <2>3
<1>5. QED
  BY <1>1, <1>2, <1>3, <1>4 DEF TaskInv

\* A restart interrupts the runs and settles or resumes the claim.
LEMMA RestartKeeps == ASSUME TaskInv, Restart
                      PROVE  TaskInv'
<1> DEFINE owner == task.claim.by
           removed == {s \in Starts : Owns(task, s) /\ task.trusted /\ ~task.claim.run /\ chat[s] = None}
<1>a. /\ TypeOK /\ ClaimOK(task, started) /\ StartsOK /\ started \in Nat /\ RowOK(task, started)
      /\ restarts < MaxRestarts /\ restarts' = restarts + 1
      /\ kept' = kept \ removed
      /\ pc' = [s \in Starts |-> IF pc[s] = "idle" THEN "idle" ELSE "gone"]
      /\ report' = [s \in Starts |-> None] /\ subscribed' = {} /\ leases' = {}
      /\ UNCHANGED <<phased, started, local, begun, auto, receipt, artifact, edits>>
  BY DEF TaskInv, TypeOK, RowOK, Restart
<1>b. PICK last \in [{s \in Starts : chat[s] = "running"} -> Terminal] :
        /\ \A s \in DOMAIN last : last[s] \in LastWord(s)
        /\ chat' = [s \in Starts |-> IF s \in DOMAIN last THEN last[s] ELSE chat[s]]
        /\ working' = working \ {s \in DOMAIN last : last[s] # "interrupted"}
        /\ Recover(chat')
  BY DEF Restart
<1>c. /\ chat' \in [Starts -> {None} \cup Terminal]
      /\ \A s \in Starts : chat'[s] = None <=> chat[s] = None
  <2>1. DOMAIN last = {s \in Starts : chat[s] = "running"} /\ \A s \in DOMAIN last : last[s] \in Terminal
    BY <1>b
  <2>2. \A s \in Starts : chat[s] \in {None, "running"} \cup Terminal
    BY <1>a DEF TypeOK
  <2>3. None \notin Terminal /\ None # "running"
    BY TaskAssumption
  <2>4. QED
    BY <1>b, <2>1, <2>2, <2>3
<1>d. owner \in Starts \cup {None}
  BY <1>a, RowFields DEF RowOK
<1>e. /\ RowOK(task', started)
      /\ \A s \in Starts : /\ Owns(task', s) => Owns(task, s)
                           /\ MaySettle(task', s) => MaySettle(task, s)
      /\ reconcile' \in [Starts -> {None} \cup Readings]
      /\ \A s \in Starts : reconcile'[s] # None =>
           /\ auto[s] # None /\ MaySettle(task, s) /\ s \in kept /\ reconcile'[s].zip = artifact[s]
           /\ reconcile'[s].auto = auto[s]
      /\ Finished(task') => \/ Finished(task) /\ SameZip(task, task')
                            \/ /\ owner \in Starts /\ auto[owner] = None /\ artifact[owner] # None
                               /\ task'.completion = owner
  <2> DEFINE nothing == [x \in Starts |-> None]
  <2>a. /\ nothing \in [Starts -> {None} \cup Readings]
        /\ \A s \in Starts : nothing[s] = None
    OBVIOUS
  <2>1. CASE owner = None
    <3>1. task' = task /\ reconcile' = nothing
      BY <1>b, <2>1 DEF Recover
    <3> HIDE DEF nothing
    <3>2. QED
      BY <1>a, <2>a, <3>1 DEF SameZip
  <2>2. CASE owner # None /\ (~task.trusted \/ owner \notin kept \/ ~task.claim.run)
    <3>1. task' = Released(task, owner) /\ reconcile' = nothing
      BY <1>b, <2>2 DEF Recover
    <3>2. owner \in Starts /\ Owns(task, owner)
      BY <1>d, <2>2 DEF Owns
    <3>3. ClaimGone(task, task') /\ ~Finished(task')
      BY <1>a, <3>1, <3>2, ReleasedIs
    <3>4. RowOK(task', started) /\ task'.claim.by = None
      BY <3>3, GoneIsOK
    <3> HIDE DEF nothing, owner
    <3>5. QED
      BY <2>a, <3>1, <3>3, <3>4, StartsAre DEF Owns, MaySettle
  <2>3. CASE owner # None /\ ~(~task.trusted \/ owner \notin kept \/ ~task.claim.run) /\ auto[owner] = None
    <3>1. task' = SettledByRun(owner, chat'[owner]) /\ reconcile' = nothing
      BY <1>b, <2>3 DEF Recover
    <3>2. owner \in Starts /\ Owns(task, owner)
      BY <1>d, <2>3 DEF Owns
    <3> DEFINE status == TerminalStatus(chat'[owner], artifact[owner])
               zip == IF status = "finished" THEN owner ELSE None
    <3>3. /\ status \in Statuses /\ zip \in Starts \cup {None}
          /\ status = "finished" => artifact[owner] # None /\ zip = owner
      BY <3>2 DEF TerminalStatus, Statuses
    <3>4. task' = Settled(task, owner, status, zip)
      BY <3>1 DEF SettledByRun
    <3> HIDE DEF status, zip
    <3>5. /\ ClaimGone(task, task')
          /\ Finished(task') => status = "finished" /\ task'.completion = zip
      BY <1>a, <3>2, <3>3, <3>4, SettledIs
    <3>6. RowOK(task', started) /\ task'.claim.by = None
      BY <3>5, GoneIsOK
    <3> HIDE DEF nothing, owner
    <3>7. QED
      BY <2>a, <2>3, <3>1, <3>2, <3>3, <3>5, <3>6, StartsAre DEF Owns, MaySettle
  <2>4. CASE owner # None /\ ~(~task.trusted \/ owner \notin kept \/ ~task.claim.run) /\ auto[owner] # None
    <3> DEFINE reading == [chat |-> chat'[owner], auto |-> auto[owner], zip |-> artifact[owner]]
    <3>1. /\ task' = task
          /\ reconcile' = IF task.thread # owner THEN nothing ELSE [nothing EXCEPT ![owner] = reading]
      BY <1>b, <2>4 DEF Recover
    <3>2. owner \in Starts /\ Owns(task, owner) /\ MaySettle(task, owner) /\ owner \in kept
      BY <1>d, <2>4 DEF Owns, MaySettle
    <3>3. chat[owner] # None /\ auto[owner] # "completed"
      BY <1>a, <3>2 DEF StartsOK, StartOK, RunOK, ProofOK
    <3>4. chat'[owner] \in Terminal
      BY <1>c, <3>2, <3>3
    <3>5. reading \in Readings /\ reading.zip = artifact[owner] /\ reading.auto = auto[owner]
      BY <1>a, <2>4, <3>2, <3>3, <3>4 DEF Readings, TypeOK
    <3> HIDE DEF reading, owner
    <3>6. /\ reconcile' \in [Starts -> {None} \cup Readings]
          /\ \A s \in Starts : reconcile'[s] # None => s = owner /\ reconcile'[s] = reading
      BY <3>1, <3>2, <3>5
    <3> HIDE DEF nothing
    <3>7. QED
      BY <1>a, <2>4, <3>1, <3>2, <3>5, <3>6 DEF SameZip
  <2>5. QED
    BY <2>1, <2>2, <2>3, <2>4
<1> HIDE DEF owner, removed
<1>1. TypeOK'
  <2>1. chat' \in [Starts -> {None, "running"} \cup Terminal]
    BY <1>c
  <2>2. pc' \in [Starts -> {"idle", "thread", "turn", "prepare", "run", "report", "over", "gone"}]
    BY <1>a
  <2>3. report' \in [Starts -> {None} \cup Reports]
    BY <1>a
  <2>4. restarts' \in 0..MaxRestarts
    BY <1>a, StartsAre DEF TypeOK
  <2>5. kept' \cup begun' \cup local' \cup working' \cup subscribed' \cup leases' \subseteq 1..started'
    BY <1>a, <1>b DEF TypeOK
  <2>6. task' \in Rows /\ (task'.claim.by = None => task'.claim = NoClaim)
    BY <1>e DEF RowOK
  <2>7. QED
    BY <1>a, <1>e, <2>1, <2>2, <2>3, <2>4, <2>5, <2>6 DEF TypeOK
<1>2. ClaimOK(task, started)'
  BY <1>a, <1>e DEF RowOK
<1>3. StartsOK'
  <2> SUFFICES ASSUME NEW s \in Starts
               PROVE  StartOK(s)'
    BY DEF StartsOK
  <2>a. StartOK(s) /\ s # None
    BY <1>a, StartsAre DEF StartsOK
  <2>b. /\ pc'[s] \in {"idle", "gone"} /\ (pc'[s] = "idle" <=> pc[s] = "idle")
        /\ report'[s] = None /\ chat'[s] # "running"
    BY <1>a, <1>c, TaskAssumption DEF Terminal
  <2>c. reconcile'[s] # None => auto[s] # None /\ auto[s] # "completed" /\ pc'[s] = "gone"
    BY <1>e, <2>a, <2>b DEF StartOK, StepOK, ProofOK, MaySettle
  <2>1. StepOK(s)'
    BY <1>a, <1>c, <2>a, <2>b, <2>c DEF StartOK, StepOK
  <2>2. RunOK(s)'
    <3>1. chat'[s] # None => s \in kept /\ s \notin removed
      BY <1>c, <2>a DEF StartOK, RunOK, removed
    <3>2. MaySettle(task', s) => chat'[s] # None
      BY <1>c, <1>e, <2>a DEF StartOK, RunOK
    <3>3. QED
      BY <1>a, <2>b, <3>1, <3>2 DEF RunOK
  <2>3. ReadingOK(s)'
    BY <1>a, <1>e, <2>b, <2>c DEF ReadingOK
  <2>4. ProofOK(s)'
    BY <1>a, <1>e, <2>a, <2>b DEF StartOK, StepOK, ProofOK
  <2>5. QED
    BY <2>1, <2>2, <2>3, <2>4 DEF StartOK
<1>4. FinishedWithItsZip'
  <2>1. CASE Finished(task') => Finished(task) /\ SameZip(task, task')
    BY <1>a, <2>1 DEF TaskInv, FinishedWithItsZip, Finished, SameZip
  <2>2. CASE owner \in Starts /\ auto[owner] = None /\ artifact[owner] # None /\ task'.completion = owner
    <3>1. owner = started
      BY <1>a, <2>2, StartsAre DEF ClaimOK, owner
    <3>2. QED
      BY <1>a, <2>2, <3>1 DEF FinishedWithItsZip
  <2>3. QED
    BY <1>e, <2>1, <2>2
<1>5. QED
  BY <1>1, <1>2, <1>3, <1>4 DEF TaskInv
-----------------------------------------------------------------------------
(* The invariant and what follows from it                                  *)

\* At first nothing has been started.
LEMMA TaskInvInit == Init => TaskInv
<1> SUFFICES ASSUME Init
             PROVE  TaskInv
  OBVIOUS
<1>a. None # "running" /\ None # "completed"
  BY TaskAssumption DEF Terminal
<1>1. task \in Rows /\ task.claim = NoClaim /\ task.chosen = None /\ task.status = "todo"
  BY NoClaimIs DEF Init, Rows, Statuses
<1>2. TypeOK
  BY <1>1, StartsAre DEF Init, TypeOK
<1>3. ClaimOK(task, started)
  BY <1>1, NoClaimIs DEF ClaimOK
<1>4. StartsOK
  <2> SUFFICES ASSUME NEW s \in Starts
               PROVE  StartOK(s)
    BY DEF StartsOK
  <2>1. /\ pc[s] = "idle" /\ chat[s] = None /\ auto[s] = None /\ reconcile[s] = None /\ report[s] = None
        /\ s \notin local /\ s > started /\ task.claim.run = FALSE
    BY <1>1, NoClaimIs, StartsAre DEF Init
  <2>2. StepOK(s)
    BY <2>1 DEF StepOK
  <2>3. RunOK(s) /\ ReadingOK(s) /\ ProofOK(s)
    BY <1>a, <2>1 DEF RunOK, ReadingOK, ProofOK, MaySettle
  <2>4. QED
    BY <2>2, <2>3 DEF StartOK
<1>5. FinishedWithItsZip
  BY <1>1 DEF FinishedWithItsZip
<1>6. QED
  BY <1>2, <1>3, <1>4, <1>5 DEF TaskInv

\* Every step of the server, of a process and of a user keeps it.
LEMMA TaskInvStep == TaskInv /\ [Next]_vars => TaskInv'
<1> SUFFICES ASSUME TaskInv, [Next]_vars
             PROVE  TaskInv'
  OBVIOUS
<1>1. ASSUME NEW r \in Starts, Starting(r) \/ StartWithAi(r) \/ StartLocally(r)
      PROVE  TaskInv'
  BY <1>1, StartWithAiKeeps, StartLocallyKeeps, ThreadCreatedKeeps, StartFailsKeeps, RunCreatedKeeps,
     InputsPreparedKeeps, PreparationFailsKeeps DEF Starting
<1>2. ASSUME NEW r \in Starts, Ending(r) \/ OrphanEnds(r)
      PROVE  TaskInv'
  BY <1>2, RunEndsKeeps, RunnerFailsKeeps, RunnerSucceedsKeeps, ReportAnsweredKeeps, OrphanEndsKeeps DEF Ending
<1>3. ASSUME NEW r \in Starts, ReportReceived(r) \/ Storing(r) \/ ReceiptWritten(r) \/ ReceiptRead(r)
      PROVE  TaskInv'
  BY <1>3, ReportReceivedKeeps, ReportCheckedKeeps, ReportStoredKeeps, ReceiptWrittenKeeps,
     ReceiptReadKeeps DEF Storing
<1>4. CASE User
  BY <1>4, UserMovesKeeps, UserEditsKeep, UserRetriesKeeps, UserInterruptsKeeps, UserDeletesThreadKeeps,
     UserDeletesArtifactKeeps DEF User
<1>5. CASE UNCHANGED vars
  <2>1. TypeOK' /\ ClaimOK(task, started)' /\ FinishedWithItsZip'
    BY <1>5 DEF vars, runVars, outside, TaskInv, TypeOK, ClaimOK, FinishedWithItsZip
  <2>2. StartsOK'
    BY <1>5, StartsStayOK DEF vars, runVars, outside, TaskInv, Same
  <2>3. QED
    BY <2>1, <2>2 DEF TaskInv
<1>6. QED
  BY <1>1, <1>2, <1>3, <1>4, <1>5, RestartKeeps DEF Next

\* TaskInv is an invariant of the starts of a task, whatever comes in between.
THEOREM TaskInvariant == Spec => []TaskInv
BY TaskInvInit, TaskInvStep, PTL DEF Spec

\* The rows and maps of a task keep their types, and one run of a task at most is
\* running, however users move, archive, rebind, retry and interrupt.
THEOREM RunsAreExclusive == Spec => []RunsExclusive
<1>1. ASSUME TaskInv
      PROVE  RunsExclusive
  <2> DEFINE S == {s \in Starts : chat[s] = "running"}
  <2>1. \A x, y \in S : x = y
    BY <1>1 DEF TaskInv, StartsOK, StartOK, RunOK, MaySettle, Owns
  <2>2. Cardinality(S) <= 1
    BY <2>1, AtMostOne
  <2>3. QED
    BY <1>1, <2>2 DEF TaskInv, RunsExclusive, OneRunPerTask
<1>2. QED
  BY <1>1, TaskInvariant, PTL

\* The server finishes a task with the ZIP its last run has proven, and a
\* reconciliation decides with readings that still hold.
THEOREM FinishedOnlyByProof == Spec => []FinishedByProof
<1>1. ASSUME TaskInv
      PROVE  FinishedByProof
  BY <1>1 DEF TaskInv, StartsOK, StartOK, ReadingOK, ReadingsHold, FinishedByProof
<1>2. QED
  BY <1>1, TaskInvariant, PTL
-----------------------------------------------------------------------------
(* Decisions are not taken back                                            *)

\* When the claim goes, what the user has chosen stands.
ChoiceStands ==
  task.claim.by # None /\ task'.claim.by = None /\ task.chosen # None
  => task'.status = task.chosen \/ (task.chosen = "in_progress" /\ task'.status = "todo")

\* It stands when a start releases the task, or settles it.
LEMMA ReleaseStands ==
  ASSUME TaskInv, NEW r \in Starts, task' = Released(task, r)
  PROVE  ChoiceStands
<1>1. RowOK(task, started)
  BY DEF TaskInv, TypeOK, RowOK
<1>2. CASE Owns(task, r)
  BY <1>1, <1>2, ReleasedIs DEF ClaimGone, ChoiceStands
<1>3. CASE ~Owns(task, r)
  BY <1>1, <1>3, ReleasedIs DEF ChoiceStands
<1>4. QED
  BY <1>2, <1>3

\* A settlement keeps what the user has chosen.
LEMMA SettleStands ==
  ASSUME TaskInv, NEW r \in Starts, Owns(task, r), NEW status \in Statuses, NEW zip \in Starts \cup {None},
         task' = Settled(task, r, status, zip)
  PROVE  ChoiceStands
<1>1. RowOK(task, started)
  BY DEF TaskInv, TypeOK, RowOK
<1>2. ClaimGone(task, task')
  BY <1>1, SettledIs
<1>3. QED
  BY <1>2 DEF ClaimGone, ChoiceStands

\* The end of a run, local or not, lets it stand and keeps decided attempts.
LEMMA ReconcileStands ==
  ASSUME TaskInv, NEW r \in Starts, NEW outcome \in Terminal,
         NEW state \in {None, "preparing", "running", "blocked", "reported", "completed"},
         Reconcile(r, outcome, state)
  PROVE  ChoiceStands
<1>1. task' = task \/ ClaimGone(task, task')
  BY ReconcileIs
<1>2. QED
  BY <1>1 DEF ClaimGone, ChoiceStands

\* The end of a local run keeps the choice and what is decided.
LEMMA LocalOverStands ==
  ASSUME TaskInv, NEW r \in Starts, r \in local, pc[r] \in {"run", "report"}, NEW outcome \in Terminal,
         NEW state, state \in {"blocked", auto[r]}, LocalOver(r, outcome, state)
  PROVE  /\ ChoiceStands
         /\ \A s \in Starts : auto[s] \in {"blocked", "completed"} => auto'[s] = auto[s]
<1>1. /\ auto \in [Starts -> {None, "preparing", "running", "blocked", "reported", "completed"}]
      /\ auto[r] # "completed"
  BY DEF TaskInv, TypeOK, StartsOK, StartOK, ProofOK
<1>2. state \in {None, "preparing", "running", "blocked", "reported", "completed"}
  BY <1>1
<1>3. CASE r \in kept
  <2>1. auto' = [auto EXCEPT ![r] = state] /\ Reconcile(r, outcome, state)
    BY <1>3 DEF LocalOver
  <2>2. QED
    BY <1>1, <1>2, <2>1, ReconcileStands
<1>4. CASE r \notin kept
  BY <1>1, <1>4 DEF LocalOver, ChoiceStands
<1>5. QED
  BY <1>3, <1>4

\* No step takes back what a user has chosen.
LEMMA ChoicesStand == TaskInv /\ Next => ChoiceStands
<1> SUFFICES ASSUME TaskInv, Next
             PROVE  ChoiceStands
  OBVIOUS
<1>a. /\ TypeOK /\ RowOK(task, started) /\ StartsOK /\ task.completion \in Starts \cup {None}
      /\ {"blocked", "finished"} \subseteq Statuses
      /\ \A s \in Starts : auto[s] \in {None, "preparing", "running", "blocked", "reported", "completed"}
      /\ \A s \in Starts : s \in local /\ report[s] # None => pc[s] = "report"
  BY RowFields DEF TaskInv, TypeOK, RowOK, Statuses, StartsOK, StartOK, StepOK
<1>b. "interrupted" \in Terminal /\ "failed" \in Terminal /\ "completed" \in Terminal
  BY DEF Terminal
<1>1. ASSUME NEW r \in Starts, StartWithAi(r) \/ StartLocally(r)
      PROVE  ChoiceStands
  BY <1>1 DEF StartWithAi, StartLocally, Startable, ChoiceStands
<1>2. ASSUME NEW r \in Starts, GiveUp(r)
      PROVE  ChoiceStands
  BY <1>2, ReleaseStands DEF GiveUp
<1>3. ASSUME NEW r \in Starts, RunCreated(r)
      PROVE  ChoiceStands
  <2>1. Owns(task, r) /\ r # None
    BY <1>a, <1>3, StartsAre DEF RunCreated, StartsOK, StartOK, StepOK
  <2>2. task'.claim.by # None
    BY <1>a, <1>3, <2>1, RunGivenIs DEF RunCreated, Owns
  <2>3. QED
    BY <2>2 DEF ChoiceStands
<1>4. ASSUME NEW r \in Starts, PreparationFails(r)
      PROVE  ChoiceStands
  <2>1. CASE MaySettle(task, r)
    BY <1>a, <1>4, <2>1, SettleStands DEF PreparationFails, MaySettle
  <2>2. CASE ~MaySettle(task, r)
    BY <1>4, <2>2, ReleaseStands DEF PreparationFails
  <2>3. QED
    BY <2>1, <2>2
<1>5. ASSUME NEW r \in Starts, Starting(r)
      PROVE  ChoiceStands
  BY <1>2, <1>3, <1>4, <1>5 DEF Starting, ThreadCreated, StartFails, InputsPrepared, ChoiceStands
<1>6. ASSUME NEW r \in Starts, RunEnds(r) \/ UserInterrupts(r)
      PROVE  ChoiceStands
  <2>1. \/ \E outcome \in Terminal : Reconcile(r, outcome, auto[r])
        \/ task' = task
    BY <1>b, <1>6 DEF RunEnds, UserInterrupts
  <2>2. QED
    BY <1>a, <2>1, ReconcileStands DEF ChoiceStands
<1>7. ASSUME NEW r \in Starts, RunnerFails(r) \/ RunnerSucceeds(r) \/ ReportAnswered(r)
      PROVE  ChoiceStands
  <2>1. r \in local /\ pc[r] \in {"run", "report"}
    BY <1>a, <1>7 DEF RunnerFails, RunnerSucceeds, ReportAnswered, StartsOK, StartOK, StepOK
  <2>2. \/ \E outcome \in Terminal, state \in {"blocked", auto[r]} : LocalOver(r, outcome, state)
        \/ task' = task
    BY <1>b, <1>7 DEF RunnerFails, RunnerSucceeds, ReportAnswered
  <2>3. QED
    BY <2>1, <2>2, LocalOverStands DEF ChoiceStands
<1>8. ASSUME NEW r \in Starts, Storing(r)
      PROVE  ChoiceStands
  <2>1. (r \in local /\ pc[r] = "report" /\ LocalOver(r, "failed", "blocked")) \/ task' = task
    BY <1>a, <1>8 DEF Storing, ReportChecked, ReportStored, Refuse
  <2>2. QED
    BY <1>b, <2>1, LocalOverStands DEF ChoiceStands
<1>9. ASSUME NEW r \in Starts, OrphanEnds(r) \/ ReportReceived(r) \/ ReceiptWritten(r)
      PROVE  ChoiceStands
  BY <1>9 DEF OrphanEnds, ReportReceived, ReceiptWritten, ChoiceStands
<1>10. ASSUME NEW r \in Starts, ReceiptRead(r)
       PROVE  ChoiceStands
  <2>1. \/ task' = task
        \/ Owns(task, r) /\ \E status \in Statuses, zip \in Starts \cup {None} : task' = Settled(task, r, status, zip)
    <3>a. {"finished", "blocked"} \subseteq Statuses /\ r \in Starts \cup {None}
      BY DEF Statuses
    <3>1. \/ task' = task
          \/ MaySettle(task, r) /\ task' = Settled(task, r, "blocked", task.completion)
          \/ MayFinish(r) /\ task' = Settled(task, r, "finished", r)
      BY <1>10 DEF ReceiptRead
    <3>2. QED
      BY <1>a, <3>a, <3>1 DEF MayFinish, MaySettle
  <2>2. QED
    BY <2>1, SettleStands DEF ChoiceStands
<1>11. CASE User
  <2>1. task.claim.by = task'.claim.by \/ task.claim.by = None \/ \E r \in Starts : UserInterrupts(r)
    <3>1. \A s \in Starts : UserDeletesThread(s) => task'.claim.by = task.claim.by
      BY <1>a DEF UserDeletesThread, RowOK, Rows
    <3>6. \A s \in Starts : UserDeletesArtifact(s) => task'.claim.by = task.claim.by
      BY <1>a DEF UserDeletesArtifact, RowOK, Rows
    <3>2. UserRetries => task.claim.by = None
      BY DEF UserRetries
    <3>3. \A t \in Rows : EditTask(t) => task'.claim.by = t.claim.by
      BY DEF EditTask, Edit, Rows
    <3>4. UserArchives \/ UserBindsThread \/ UserEditsMarker \/ (\E status \in Statuses : UserMoves(status))
          => \E t \in Rows : EditTask(t) /\ t.claim.by = task.claim.by
      <4>a. task \in Rows /\ task.archived \in BOOLEAN /\ task.trusted \in BOOLEAN
        BY <1>a, RowFields DEF RowOK
      <4>b. (~task.archived) \in BOOLEAN /\ (~task.trusted) \in BOOLEAN /\ (task.claim.by # None) \in BOOLEAN
        OBVIOUS
      <4>c. ASSUME NEW flag \in BOOLEAN, NEW status \in Statuses
            PROVE  /\ [task EXCEPT !.archived = flag] \in Rows /\ [task EXCEPT !.trusted = flag] \in Rows
                   /\ [task EXCEPT !.thread = Other] \in Rows
                   /\ [task EXCEPT !.status = status, !.byServer = FALSE, !.chosen = status,
                                   !.claim.moved = flag] \in Rows
                   /\ [task EXCEPT !.archived = flag].claim.by = task.claim.by
                   /\ [task EXCEPT !.trusted = flag].claim.by = task.claim.by
                   /\ [task EXCEPT !.thread = Other].claim.by = task.claim.by
                   /\ [task EXCEPT !.status = status, !.byServer = FALSE, !.chosen = status,
                                   !.claim.moved = flag].claim.by = task.claim.by
        BY <4>a DEF Rows
      <4>1. CASE UserArchives
        BY <4>b, <4>c, <4>1 DEF UserArchives, Statuses
      <4>2. CASE UserBindsThread
        BY <4>b, <4>c, <4>2 DEF UserBindsThread, Statuses
      <4>3. CASE UserEditsMarker
        BY <4>b, <4>c, <4>3 DEF UserEditsMarker, Statuses
      <4>4. CASE \E status \in Statuses : UserMoves(status)
        BY <4>b, <4>c, <4>4 DEF UserMoves
      <4>5. QED
        BY <4>1, <4>2, <4>3, <4>4
    <3>5. QED
      BY <1>11, <3>1, <3>2, <3>3, <3>4, <3>6 DEF User
  <2>2. QED
    BY <1>6, <2>1 DEF ChoiceStands
<1>12. CASE Restart
  <2> DEFINE owner == task.claim.by
  <2>1. owner \in Starts \cup {None}
    BY <1>a, RowFields DEF RowOK
  <2>2. PICK runs : Recover(runs)
    BY <1>12 DEF Restart
  <2>3. CASE owner = None
    BY <2>3 DEF ChoiceStands
  <2>4. CASE owner \in Starts /\ task' = Released(task, owner)
    BY <2>4, ReleaseStands
  <2>5. CASE owner \in Starts /\ task' = SettledByRun(owner, runs[owner])
    <3> DEFINE status == TerminalStatus(runs[owner], artifact[owner])
               zip == IF status = "finished" THEN owner ELSE None
    <3>1. status \in Statuses /\ zip \in Starts \cup {None} /\ task' = Settled(task, owner, status, zip)
      BY <2>5 DEF TerminalStatus, Statuses, SettledByRun
    <3>2. Owns(task, owner)
      BY DEF Owns
    <3> HIDE DEF status, zip, owner
    <3>3. QED
      BY <2>5, <3>1, <3>2, SettleStands
  <2>6. CASE task' = task
    BY <2>6 DEF ChoiceStands
  <2>7. QED
    BY <2>1, <2>2, <2>3, <2>4, <2>5, <2>6 DEF Recover
<1>13. QED
  BY <1>1, <1>5, <1>6, <1>7, <1>8, <1>9, <1>10, <1>11, <1>12 DEF Next, Ending

\* No step takes back what an attempt has come to.
LEMMA AttemptsStand ==
  ASSUME TaskInv, Next, NEW s \in Starts, auto[s] \in {"blocked", "completed"}
  PROVE  auto'[s] = auto[s]
<1>a. /\ auto \in [Starts -> {None, "preparing", "running", "blocked", "reported", "completed"}]
      /\ auto[s] # None /\ auto[s] # "running" /\ auto[s] # "preparing" /\ auto[s] # "reported"
      /\ StartOK(s) /\ (reconcile[s] # None => auto[s] = "blocked")
      /\ \A r \in Starts : r \in local /\ report[r] # None => pc[r] = "report"
  BY TaskAssumption DEF TaskInv, TypeOK, StartsOK, StartOK, StepOK, ReadingOK, Receipts, Terminal
<1>b. "interrupted" \in Terminal /\ "failed" \in Terminal /\ "completed" \in Terminal
  BY DEF Terminal
<1>1. ASSUME NEW r \in Starts, r # s,
             StartWithAi(r) \/ StartLocally(r) \/ Starting(r) \/ OrphanEnds(r) \/ RunEnds(r)
             \/ ReportReceived(r) \/ ReceiptWritten(r) \/ ReceiptRead(r)
      PROVE  auto'[s] = auto[s]
  BY <1>a, <1>1 DEF StartWithAi, StartLocally, Starting, ThreadCreated, StartFails, RunCreated,
     InputsPrepared, PreparationFails, OrphanEnds, RunEnds, ReportReceived, ReceiptWritten, ReceiptRead, runVars
<1>2. CASE StartWithAi(s) \/ StartLocally(s) \/ ThreadCreated(s) \/ StartFails(s) \/ RunCreated(s)
  <2>1. pc[s] \notin {"idle", "thread", "turn"}
    BY <1>a DEF StartOK, StepOK
  <2>2. ~StartLocally(s)
    BY <1>a, <2>1, StartsAre DEF StartLocally, StartOK, StepOK, TaskInv, TypeOK
  <2>3. QED
    BY <1>2, <2>1, <2>2 DEF StartWithAi, ThreadCreated, StartFails, RunCreated, runVars
<1>3. CASE InputsPrepared(s) \/ PreparationFails(s)
  <2>1. pc[s] = "prepare" => auto[s] = "blocked"
    BY <1>a DEF StartOK, ProofOK
  <2>2. QED
    BY <1>a, <1>3, <2>1 DEF InputsPrepared, ToPrepare, PreparationFails
<1>4. CASE OrphanEnds(s) \/ RunEnds(s) \/ ReportReceived(s) \/ ReceiptWritten(s)
  BY <1>4 DEF OrphanEnds, RunEnds, ReportReceived, ReceiptWritten, runVars
<1>5. CASE ReceiptRead(s)
  <2>1. auto[s] = "blocked" /\ ~Proven(s)
    BY <1>a, <1>5 DEF ReceiptRead, Proven, StartOK, ReadingOK
  <2>2. QED
    BY <1>a, <1>5, <2>1 DEF ReceiptRead
<1>6. ASSUME NEW r \in Starts, RunnerFails(r) \/ RunnerSucceeds(r) \/ ReportAnswered(r)
      PROVE  auto'[s] = auto[s]
  <2>1. r \in local /\ pc[r] \in {"run", "report"}
    BY <1>6 DEF RunnerFails, RunnerSucceeds, ReportAnswered, TaskInv, StartsOK, StartOK, StepOK
  <2>2. \/ \E outcome \in Terminal, state \in {"blocked", auto[r]} : LocalOver(r, outcome, state)
        \/ auto' = auto
    BY <1>b, <1>6 DEF RunnerFails, RunnerSucceeds, ReportAnswered
  <2>3. QED
    BY <2>1, <2>2, LocalOverStands
<1>7. ASSUME NEW r \in Starts, Storing(r)
      PROVE  auto'[s] = auto[s]
  <2>1. CASE Refuse(r) /\ report[r] # None
    <3>1. (r \in local /\ pc[r] = "report" /\ LocalOver(r, "failed", "blocked")) \/ auto' = auto
      BY <1>a, <2>1 DEF Refuse
    <3>2. QED
      BY <1>b, <3>1, LocalOverStands
  <2>2. CASE auto' = auto
    BY <2>2
  <2>3. CASE ReportStored(r) /\ Accepted(r)
    BY <1>a, <2>3 DEF ReportStored, Accepted
  <2>4. QED
    BY <1>7, <2>1, <2>2, <2>3 DEF Storing, ReportChecked, ReportStored
<1>8. CASE User \/ Restart
  BY <1>8 DEF User, Restart, UserMoves, UserArchives, UserBindsThread, UserEditsMarker, EditTask, UserRetries,
     UserInterrupts, UserDeletesThread, UserDeletesArtifact, runVars
<1>9. QED
  BY <1>1, <1>2, <1>3, <1>4, <1>5, <1>6, <1>7, <1>8 DEF Next, Starting, Ending

\* A claim that goes leaves the status a user has chosen since, and an attempt that is
\* blocked or completed stays so, whatever overlaps.
THEOREM DecisionsAreKept == Spec => DecisionsStand
<1>1. TaskInv /\ [Next]_vars => [ChoiceStands]_vars
  BY ChoicesStand
<1>2. TaskInv /\ [Next]_vars
      => [\A s \in Starts : auto[s] \in {"blocked", "completed"} => auto'[s] = auto[s]]_vars
  BY AttemptsStand
<1>3. Spec => UserMovesStand
  BY TaskInvariant, <1>1, PTL DEF Spec, UserMovesStand, ChoiceStands
<1>4. Spec => AttemptsAreFinal
  BY TaskInvariant, <1>2, PTL DEF Spec, AttemptsAreFinal
<1>5. QED
  BY <1>3, <1>4 DEF DecisionsStand
====
