----------------------------- MODULE CoordinatorInv -----------------------------
(***************************************************************************)
(* The inductive invariant of ExecutionCoordinator, as a predicate on the  *)
(* records its steps are made of, and what the parts of a step do to such  *)
(* a record.                                                               *)
(***************************************************************************)
EXTENDS ExecutionCoordinator

-----------------------------------------------------------------------------
(* The inductive invariant                                                 *)

\* The fields of a record of all variables, and their values.
Fields == {"status", "archived", "hasThread", "claim", "row", "entries", "object", "call",
           "queue", "lease", "closed", "recovery", "enabled", "toWake", "waking", "restarts"}

Typed(s) ==
  /\ DOMAIN s = Fields
  /\ s.status \in [Tasks -> TaskStatuses] /\ s.archived \in [Tasks -> BOOLEAN]
  /\ s.hasThread \in [Tasks -> BOOLEAN] /\ s.claim \in [Tasks -> Claims \cup {Nil}]
  /\ s.row \in [Tasks -> Rows \cup {Nil}] /\ s.entries \in [Tasks -> Entries \cup {Nil}]
  /\ s.object \in [Entries -> Objects \cup {Nil}]
  /\ s.call \in [Calls -> AsyncCalls \cup {Nil}]
  /\ s.queue \in Seq(Tasks) /\ s.lease \in [Tasks -> LeaseIds \cup {Nil}]
  /\ s.closed \in BOOLEAN /\ s.enabled \in BOOLEAN
  /\ s.recovery \in [left : SUBSET Tasks, at : Calls \cup {Nil}]
  /\ s.toWake \in SUBSET Tasks /\ s.waking \in SUBSET Entries /\ s.restarts \in 0..MaxRestarts

\* No lease is given to two tasks.
LeasesApart(s) ==
  \A t, u \in Tasks : s.lease[t] # Nil /\ s.lease[t] = s.lease[u] => t = u

\* The group has no more leases than its limit.
WithinLimit(s) == Cardinality(Active(s)) <= Limit

\* A request waits once, and only for a task without a lease.
QueueWaits(s) ==
  /\ \A i \in 1..Len(s.queue) : s.lease[s.queue[i]] = Nil
  /\ \A i, j \in 1..Len(s.queue) : s.queue[i] = s.queue[j] => i = j

\* A call that is past the scheduler holds its task's lease, but for the call x
\* that is giving its own back.
Holds(s, p) ==
  /\ s.call[p].pc = "package" => s.call[p].lease = Nil
  /\ s.call[p].pc \notin {"package", "lease"} => s.call[p].lease # Nil
  /\ s.call[p].lease # Nil => s.lease[s.call[p].task] = s.call[p].lease

GaveBack(s, p) ==
  s.call[p].lease # Nil /\ \A t \in Tasks : s.lease[t] # s.call[p].lease

\* Every call but x holds what its step needs.
LeasesMatch(s, x) ==
  \A p \in Calls : s.call[p] # Nil => IF p = x THEN GaveBack(s, p) ELSE Holds(s, p)

\* A waiting request belongs to an entry of the map: what close() cancels is all there is.
QueueMapped(s) ==
  ~s.closed => \A i \in 1..Len(s.queue) : s.entries[s.queue[i]] # Nil

HeldBy(s, t) == \E p \in Calls : s.call[p] # Nil /\ s.call[p].lease = s.lease[t]
AwaitedBy(s, t) == \E p \in Calls : WaitsFor(s, p, t)

\* z: a task whose request is just being made.
\* Before the shutdown a lease is in the hands of a call, and a request is awaited by one.
\* (With ArchiveMidway the write after a request may throw, and nobody awaits it.)
LeasesOwned(s, z) ==
  ~ArchiveMidway /\ ~s.closed =>
    /\ \A t \in Tasks : t # z /\ s.lease[t] # Nil => HeldBy(s, t)
    /\ \A i \in 1..Len(s.queue) : s.queue[i] # z => AwaitedBy(s, s.queue[i])

\* At most one call, launch or run, works on a task: what wake() midway would break.
OneCall(s) ==
  \A p, q \in Calls :
    s.call[p] # Nil /\ s.call[q] # Nil /\ s.call[p].task = s.call[q].task => p = q

\* w: a call that is just ending.
\* A run has left the map, and its row says so.
RunsPlaced(s, w) ==
  \A p \in Calls : p # w /\ s.call[p] # Nil /\ s.call[p].pc = "run" =>
    /\ s.call[p].entry = Nil /\ s.entries[s.call[p].task] = Nil
    /\ s.row[s.call[p].task] # Nil /\ s.row[s.call[p].task].state = "running"

\* Call p is in pump() or launch().
Launch(s, p) == s.call[p] # Nil /\ s.call[p].pc # "run"

\* A launch has an entry of its task, whose promise is pending only while it waits for its
\* lease, and its reservation is due.
LaunchesPlaced(s, w) ==
  \A p \in Calls : p # w /\ Launch(s, p) =>
    /\ s.call[p].entry \in Entries /\ s.object[s.call[p].entry] # Nil
    /\ s.object[s.call[p].entry].task = s.call[p].task
    /\ s.object[s.call[p].entry].pending => s.call[p].pc = "lease"
    /\ Pending(s, s.call[p].task) /\ s.row[s.call[p].task].ready

\* Before the shutdown the entry of a launch is the one in the map, and pending while the
\* launch waits: nothing else pumps it.
LaunchesMapped(s, w) ==
  ~s.closed => \A p \in Calls : p # w /\ Launch(s, p) =>
    /\ s.entries[s.call[p].task] = s.call[p].entry
    /\ s.call[p].pc = "lease" /\ s.call[p].lease = Nil => s.object[s.call[p].entry].pending

\* A launch that begins is not of an archived task.
FreshUnarchived(s) ==
  ~ArchiveMidway => \A p \in Calls :
    s.call[p] # Nil /\ s.call[p].pc = "package" => ~s.archived[s.call[p].task]

\* A run, and a start that has made its run, owns the claim of the task.
RunsClaimed(s, w) ==
  \A p \in Calls : p # w /\ s.call[p] # Nil /\ s.call[p].pc \in {"prepare", "run"} =>
    /\ s.claim[s.call[p].task] # Nil
    /\ s.claim[s.call[p].task].by = p /\ s.claim[s.call[p].task].run

\* A timer runs for no task that a call works on, and for an entry of the map.
TimersIdle(s, w) ==
  \A e \in Entries : s.object[e] # Nil /\ s.object[e].timer =>
    /\ \A p \in Calls : p # w /\ s.call[p] # Nil => s.call[p].task # s.object[e].task
    /\ ~s.closed => s.entries[s.object[e].task] = e

\* An entry of the map is an object of its task, and close() leaves none.
MapKept(s) ==
  \A t \in Tasks : s.entries[t] # Nil =>
    ~s.closed /\ s.object[s.entries[t]] # Nil /\ s.object[s.entries[t]].task = t

\* A call works on entry e.
WorkedOn(s, e) == \E p \in Calls : s.call[p] # Nil /\ s.call[p].entry = e

\* leasePending stands for a call that will clear it.
PendingHeld(s) ==
  ~ArchiveMidway => \A t \in Tasks :
    s.entries[t] # Nil /\ s.object[s.entries[t]].pending => WorkedOn(s, s.entries[t])

\* The tasks recover() has yet to visit are still as the restart left them: reserved, and
\* without an entry.
RecoveryLeft(s) ==
  \A t \in s.recovery.left : ~s.closed /\ Pending(s, t) /\ s.entries[t] = Nil

\* A running row has its run.
RunningRows(s) ==
  \A t \in Tasks : s.row[t] # Nil /\ s.row[t].state = "running" =>
    \E p \in Calls : s.call[p] # Nil /\ s.call[p].pc = "run" /\ s.call[p].task = t

\* A pending reservation of the map has somebody to wake it.
\* y: an entry object that is just being pumped.
Alive(s, y) ==
  ~ArchiveMidway => \A t \in Tasks :
    s.entries[t] # Nil /\ s.entries[t] # y /\ Pending(s, t) =>
      \/ s.object[s.entries[t]].timer
      \/ WorkedOn(s, s.entries[t])
      \/ t \in s.toWake \/ s.entries[t] \in s.waking
      \/ ~s.enabled

\* While wake() pumps the entry it has visited, no start is under way.
WakingQuiet(s) ==
  \A e \in s.waking :
    /\ s.waking = {e} /\ ~s.closed
    /\ s.object[e] # Nil /\ ~s.object[e].timer /\ s.entries[s.object[e].task] = e
    /\ \A p \in Calls : Launch(s, p) => s.call[p].pc = "lease" /\ s.call[p].lease = Nil

\* The parts about the scheduler, and those about reservations, entries and calls.  The
\* exceptions x, y, z and w name what is in the middle of a step: Nil for none.
Scheduled(s, x, z) ==
  /\ LeasesApart(s) /\ WithinLimit(s) /\ QueueWaits(s) /\ QueueMapped(s)
  /\ LeasesMatch(s, x) /\ LeasesOwned(s, z)

Placed(s, y, w) ==
  /\ OneCall(s) /\ RunsPlaced(s, w) /\ LaunchesPlaced(s, w) /\ LaunchesMapped(s, w)
  /\ FreshUnarchived(s) /\ RunsClaimed(s, w) /\ TimersIdle(s, w) /\ MapKept(s)
  /\ PendingHeld(s) /\ RecoveryLeft(s) /\ RunningRows(s) /\ Alive(s, y)

Core(s) == Typed(s) /\ Scheduled(s, Nil, Nil) /\ Placed(s, Nil, Nil)

\* The inductive invariant.
IndInv(s) == Core(s) /\ WakingQuiet(s)

\* One call at a time works on a task, and whatever it holds or waits for, its lease,
\* request, entry, claim and row, is its own and agrees with the maps: what one await
\* leaves behind is still true at the next.
CoordinatorHolds == IndInv(Now)

-----------------------------------------------------------------------------
(* The parts of a step: s is the record before, r the one after            *)

\* r is s without the entry objects nobody refers to any more.
Collects(s, r) ==
  /\ Typed(r)
  /\ r.status = s.status /\ r.archived = s.archived /\ r.hasThread = s.hasThread
  /\ r.claim = s.claim /\ r.row = s.row /\ r.entries = s.entries
  /\ r.object = [e \in Entries |-> IF Referenced(s, e) THEN s.object[e] ELSE Nil]
  /\ r.call = s.call /\ r.queue = s.queue /\ r.lease = s.lease
  /\ r.closed = s.closed /\ r.recovery = s.recovery
  /\ r.enabled = s.enabled /\ r.toWake = s.toWake /\ r.waking = s.waking
  /\ r.restarts = s.restarts

\* Only waiting calls and the leases change.
Grants(s, r) ==
  /\ Typed(r)
  /\ r.status = s.status /\ r.archived = s.archived /\ r.hasThread = s.hasThread
  /\ r.claim = s.claim /\ r.row = s.row /\ r.entries = s.entries /\ r.object = s.object
  /\ r.closed = s.closed /\ r.recovery = s.recovery
  /\ r.enabled = s.enabled /\ r.toWake = s.toWake /\ r.waking = s.waking
  /\ r.restarts = s.restarts
  /\ \A p \in Calls :
       \/ r.call[p] = s.call[p]
       \/ /\ s.call[p] # Nil /\ s.call[p].pc = "lease" /\ s.call[p].lease = Nil
          /\ r.call[p] # Nil /\ r.call[p].lease # Nil
          /\ r.call[p].pc = s.call[p].pc /\ r.call[p].task = s.call[p].task
          /\ r.call[p].entry = s.call[p].entry /\ r.call[p].background = s.call[p].background
          /\ r.call[p].fresh = s.call[p].fresh /\ r.call[p].seen = s.call[p].seen

CallAlike(s, r, p) ==
  IF s.call[p] = Nil THEN r.call[p] = Nil
  ELSE /\ r.call[p] # Nil
       /\ r.call[p].pc = s.call[p].pc /\ r.call[p].task = s.call[p].task
       /\ r.call[p].entry = s.call[p].entry /\ r.call[p].lease = s.call[p].lease
       /\ r.call[p].background = s.call[p].background /\ r.call[p].seen = s.call[p].seen

\* A step of the task's own tables: its status, its thread, what the claims and the
\* calls know of it; of the claims only one of call w may go.
Alike(s, r, w) ==
  /\ Typed(r)
  /\ r.archived = s.archived
  /\ r.row = s.row /\ r.entries = s.entries /\ r.object = s.object
  /\ r.queue = s.queue /\ r.lease = s.lease
  /\ r.closed = s.closed /\ r.recovery = s.recovery
  /\ r.enabled = s.enabled /\ r.toWake = s.toWake /\ r.waking = s.waking
  /\ r.restarts = s.restarts
  /\ \A p \in Calls : CallAlike(s, r, p)
  /\ \A t \in Tasks : s.claim[t] # Nil /\ s.claim[t].by # w =>
       r.claim[t] # Nil /\ r.claim[t].by = s.claim[t].by /\ r.claim[t].run = s.claim[t].run

\* r is s once call p has ended: what it changes of its task t and of the entry objects.
Ends(s, r, p) ==
  LET t == s.call[p].task IN
  /\ Typed(r)
  /\ r.archived = s.archived /\ r.claim = s.claim
  /\ r.queue = s.queue /\ r.lease = s.lease
  /\ r.closed = s.closed /\ r.enabled = s.enabled /\ r.toWake = s.toWake /\ r.waking = s.waking
  /\ r.recovery.left \subseteq s.recovery.left
  /\ r.call[p] = Nil /\ \A q \in Calls : q # p => r.call[q] = s.call[q]
  /\ \A u \in Tasks : u # t => r.row[u] = s.row[u] /\ r.entries[u] = s.entries[u]
  /\ r.row[t] = Nil \/ r.row[t] = s.row[t]
  /\ r.entries[t] = Nil \/ r.entries[t] = s.entries[t]
  /\ \A o \in Entries :
       /\ r.object[o] = Nil <=> s.object[o] = Nil
       /\ s.object[o] # Nil =>
            /\ r.object[o].task = s.object[o].task
            /\ r.object[o].pending => s.object[o].pending
            /\ s.object[o].task # t =>
                 r.object[o].pending = s.object[o].pending /\ r.object[o].timer = s.object[o].timer
            /\ s.object[o].task = t /\ r.object[o].timer => s.closed \/ r.entries[t] = o
  /\ ~ArchiveMidway /\ r.entries[t] # Nil =>
       /\ ~r.object[r.entries[t]].pending
       /\ r.object[r.entries[t]].timer \/ ~r.enabled \/ ~Pending(r, t)

\* The call p of s is about to end.
Ending(s, p) ==
  LET t == s.call[p].task IN
  /\ s.call[p] # Nil
  /\ s.call[p].entry # Nil =>
       s.call[p].entry \in Entries /\ s.object[s.call[p].entry] # Nil
       /\ s.object[s.call[p].entry].task = t
  /\ t \notin s.recovery.left

\* What the end of call p does to the record: only its own object and recover() see it.
Stopped(s, r, p) ==
  /\ Typed(r)
  /\ r.status = s.status /\ r.archived = s.archived /\ r.hasThread = s.hasThread
  /\ r.claim = s.claim /\ r.row = s.row /\ r.entries = s.entries
  /\ r.queue = s.queue /\ r.lease = s.lease
  /\ r.closed = s.closed /\ r.enabled = s.enabled /\ r.toWake = s.toWake /\ r.waking = s.waking
  /\ r.recovery.left \subseteq s.recovery.left
  /\ r.call = [s.call EXCEPT ![p] = Nil]
  /\ \A o \in Entries :
       /\ r.object[o] = Nil <=> s.object[o] = Nil
       /\ o # s.call[p].entry => r.object[o] = s.object[o]
       /\ s.object[o] # Nil =>
            /\ r.object[o].task = s.object[o].task /\ r.object[o].timer = s.object[o].timer
            /\ r.object[o].pending => s.object[o].pending

\* Call p is a launch whose lease is there, and is about to fail.
Failing(s, p) ==
  LET t == s.call[p].task
      e == s.call[p].entry
  IN  /\ s.call[p] # Nil /\ s.call[p].lease # Nil
      /\ e \in Entries /\ s.object[e] # Nil /\ s.object[e].task = t
      /\ \A o \in Entries : s.object[o] # Nil /\ s.object[o].timer => s.object[o].task # t
      /\ t \notin s.recovery.left
      /\ \A i \in 1..Len(s.queue) : s.queue[i] # t
      /\ Pending(s, t)
      /\ ~s.closed => s.entries[t] = e

\* q is s once all that is left of launch p is to end: its entry e is out of the map, or in
\* it with a timer, or waits for the next edit of a disabled package.
LastWord(s, q, p) ==
  LET t == s.call[p].task
      e == s.call[p].entry
  IN  /\ Typed(q)
      /\ q.archived = s.archived /\ q.claim = s.claim
      /\ q.queue = s.queue /\ q.lease = s.lease
      /\ q.closed = s.closed /\ q.enabled = s.enabled /\ q.toWake = s.toWake
      /\ q.waking = s.waking /\ q.recovery = s.recovery /\ q.call = s.call
      /\ \A u \in Tasks : u # t => q.row[u] = s.row[u] /\ q.entries[u] = s.entries[u]
      /\ q.row[t] = Nil \/ q.row[t] = s.row[t]
      /\ ~(q.row[t] # Nil /\ q.row[t].state = "running")
      /\ q.entries[t] = Nil \/ q.entries[t] = s.entries[t]
      /\ \A o \in Entries :
           /\ q.object[o] = Nil <=> s.object[o] = Nil
           /\ o # e => q.object[o] = s.object[o]
      /\ q.object[e].task = t
      /\ q.object[e].pending => s.object[e].pending
      /\ q.entries[t] = Nil \/ q.entries[t] = e
      /\ q.object[e].timer => q.closed \/ q.entries[t] = e
      /\ ~ArchiveMidway /\ q.entries[t] # Nil =>
           ~q.object[e].pending /\ (q.object[e].timer \/ ~q.enabled)
      /\ \/ q.entries[t] = s.entries[t]
         \/ \A i \in 1..Len(s.queue) : s.queue[i] # t

\* Call p of s is a launch; no other entry object of its task has a timer.
LastCall(s, p) ==
  LET t == s.call[p].task
      e == s.call[p].entry
  IN  /\ s.call[p] # Nil
      /\ e \in Entries /\ s.object[e] # Nil /\ s.object[e].task = t
      /\ \A o \in Entries : o # e /\ s.object[o] # Nil /\ s.object[o].timer => s.object[o].task # t
      /\ t \notin s.recovery.left

\* r is s after a step of call p that keeps its lease and its entry.
Advances(s, r, p) ==
  LET t == s.call[p].task
      e == s.call[p].entry
  IN  /\ Typed(r)
      /\ r.archived = s.archived /\ r.row = s.row /\ r.entries = s.entries
      /\ r.queue = s.queue /\ r.lease = s.lease
      /\ r.closed = s.closed /\ r.recovery = s.recovery
      /\ r.enabled = s.enabled /\ r.toWake = s.toWake /\ r.waking = s.waking
      /\ \A q \in Calls : q # p => CallAlike(s, r, q)
      /\ r.call[p] # Nil /\ r.call[p].pc \notin {"package", "lease", "run"}
      /\ r.call[p].task = t /\ r.call[p].entry = e /\ r.call[p].lease = s.call[p].lease
      /\ r.call[p].pc = "prepare" => r.claim[t] # Nil /\ r.claim[t].by = p /\ r.claim[t].run
      /\ \A u \in Tasks : s.claim[u] # Nil /\ s.claim[u].by # p =>
           r.claim[u] # Nil /\ r.claim[u].by = s.claim[u].by /\ r.claim[u].run = s.claim[u].run
      /\ \A o \in Entries : o # e => r.object[o] = s.object[o]
      /\ r.object[e] # Nil /\ r.object[e].task = t /\ ~r.object[e].pending
      /\ r.object[e].timer = s.object[e].timer

\* r is s once the run of call p is there.
RunsNow(s, r, p) ==
  LET t == s.call[p].task
      e == s.call[p].entry
  IN  /\ Typed(r)
      /\ r.archived = s.archived /\ r.claim = s.claim
      /\ r.queue = s.queue /\ r.lease = s.lease
      /\ r.closed = s.closed /\ r.enabled = s.enabled /\ r.toWake = s.toWake /\ r.waking = s.waking
      /\ r.recovery.left = s.recovery.left
      /\ \A q \in Calls : q # p => r.call[q] = s.call[q]
      /\ r.call[p] # Nil /\ r.call[p].pc = "run" /\ r.call[p].task = t
      /\ r.call[p].lease = s.call[p].lease /\ r.call[p].entry = Nil
      /\ \A u \in Tasks : u # t => r.row[u] = s.row[u] /\ r.entries[u] = s.entries[u]
      /\ r.row[t] # Nil /\ r.row[t].state = "running" /\ r.entries[t] = Nil
      /\ \A o \in Entries : o # e => r.object[o] = s.object[o]
      /\ r.object[e] # Nil /\ r.object[e].task = t /\ ~r.object[e].timer

\* Call p is in pump(), with leasePending set on its entry.
Asking(s, p) ==
  LET t == s.call[p].task
      e == s.call[p].entry
  IN  /\ s.call[p] # Nil /\ s.call[p].pc = "package" /\ s.call[p].lease = Nil
      /\ t \in Tasks /\ e \in Entries /\ s.object[e] # Nil /\ s.object[e].task = t
      /\ s.object[e].pending
      /\ \A o \in Entries : s.object[o] # Nil /\ s.object[o].timer => s.object[o].task # t
      /\ Pending(s, t) /\ s.row[t].ready
      /\ ~s.closed => s.entries[t] = e
      /\ t \notin s.recovery.left

\* r is s once the request of call p is answered with a lease or a promise.
Answered(s, r, p) ==
  LET t == s.call[p].task IN
  /\ Typed(r)
  /\ r.archived = s.archived /\ r.claim = s.claim /\ r.row = s.row /\ r.entries = s.entries
  /\ r.object = s.object /\ r.queue = s.queue /\ r.lease = s.lease
  /\ r.closed = s.closed /\ r.enabled = s.enabled /\ r.toWake = s.toWake /\ r.waking = s.waking
  /\ r.recovery.left = s.recovery.left
  /\ \A q \in Calls : q # p => r.call[q] = s.call[q]
  /\ r.call[p] # Nil /\ r.call[p].pc = "lease" /\ r.call[p].task = t
  /\ r.call[p].entry = s.call[p].entry /\ r.call[p].lease = s.lease[t]

\* No call works on task t.
Unattended(s, t) == \A p \in Calls : s.call[p] # Nil => s.call[p].task # t

\* The entry e of task t has left the map, and the task the queue.
Leaves(s, k, t, e) ==
  /\ Typed(k)
  /\ k.archived = s.archived /\ k.claim = s.claim /\ k.row = s.row
  /\ k.call = s.call /\ k.lease = s.lease
  /\ k.closed = s.closed /\ k.recovery = s.recovery
  /\ k.enabled = s.enabled /\ k.toWake = s.toWake /\ k.waking = s.waking
  /\ k.entries = [s.entries EXCEPT ![t] = Nil]
  /\ \A o \in Entries : o # e => k.object[o] = s.object[o]
  /\ k.object[e] # Nil /\ k.object[e].task = t /\ ~k.object[e].timer
  /\ k.object[e].pending = s.object[e].pending
  /\ \A i \in 1..Len(k.queue) : k.queue[i] # t /\ \E j \in 1..Len(s.queue) : k.queue[i] = s.queue[j]
  /\ \A i, j \in 1..Len(k.queue) : k.queue[i] = k.queue[j] => i = j

\* What close() leaves: no entry in the map, no request and fewer calls.
Closes(s, r) ==
  /\ Typed(r)
  /\ r.archived = s.archived /\ r.claim = s.claim /\ r.row = s.row /\ r.lease = s.lease
  /\ r.closed /\ r.queue = <<>> /\ r.recovery.left = {}
  /\ \A t \in Tasks : r.entries[t] = Nil
  /\ \A p \in Calls : \/ r.call[p] = s.call[p]
                      \/ r.call[p] = Nil /\ s.call[p].pc # "run"
  /\ \A o \in Entries :
       /\ r.object[o] = Nil <=> s.object[o] = Nil
       /\ s.object[o] # Nil => /\ r.object[o].task = s.object[o].task
                               /\ r.object[o].timer => s.object[o].timer
                               /\ r.object[o].pending => s.object[o].pending

\* A process that has just started: nothing is in flight, and no row is running.
NewProcess(r) ==
  /\ Typed(r) /\ ~r.closed /\ r.queue = <<>> /\ r.waking = {}
  /\ \A p \in Calls : r.call[p] = Nil
  /\ \A t \in Tasks : r.entries[t] = Nil /\ r.lease[t] = Nil
  /\ \A e \in Entries : r.object[e] = Nil
  /\ \A t \in Tasks : ~(r.row[t] # Nil /\ r.row[t].state = "running")
  /\ \A t \in r.recovery.left : Pending(r, t)
=============================================================================
