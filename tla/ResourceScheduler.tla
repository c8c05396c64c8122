-------------------------- MODULE ResourceScheduler --------------------------
(***************************************************************************)
(* The in-process scheduler of server/resource-scheduler.mjs.              *)
(*                                                                         *)
(* A concurrency group is a counted semaphore whose limit is the smallest  *)
(* limit asked for by the requests that hold or wait for it; a resource    *)
(* group is an exclusive semaphore.  Every handler of the code runs        *)
(* synchronously and ends in drain(), a loop that grants one queue entry   *)
(* per turn.  Here each turn of that loop is a step of its own, and        *)
(* `draining' keeps every other handler out until the loop has ended.      *)
(***************************************************************************)
EXTENDS Naturals, SequencesExt

CONSTANTS
  Requests,   \* request ids (the task ids of the execution coordinator)
  Groups,     \* names of concurrency groups
  Resources,  \* names of resource groups
  Limits,     \* limits setConcurrencyLimit is called with
  LeaseIds,   \* lease identities; an id is reused once nobody knows it
  Offers,     \* Offers[r]: the parameters request r may be made with
  None

\* A normalized request (normalizeRequest): the four keys the scheduler reads,
\* and whether a later setConcurrencyLimit may change its limit.
Parameters ==
  [group: Groups, max: Nat \ {0}, fixed: BOOLEAN, res: SUBSET Resources,
   policy: {"fifo", "per-group"}]

ASSUME SchedulerAssumption ==
  /\ IsFiniteSet(Requests)
  /\ Limits \subseteq Nat \ {0}
  /\ \A r \in Requests : Offers[r] \subseteq Parameters
  /\ None \notin Parameters \cup LeaseIds \cup Requests

VARIABLES
  queue,        \* waiting requests, oldest first (queue and pendingByRequest)
  entry,        \* parameters of each waiting or active request
  lease,        \* lease of each active request (activeByRequest)
  groupActive,  \* concurrencyGroups[g].active
  groupMax,     \* concurrencyGroups[g].maxConcurrent, 0 before the first use
  resCount,     \* resourceGroups
  draining,     \* a handler is inside drain()
  issued,       \* lease objects callers still have, with the request they name
  holding       \* leases whose caller has not called release() yet

schedulerVars == <<queue, entry, lease, groupActive, groupMax, resCount, draining>>
callerVars == <<issued, holding>>
vars == <<schedulerVars, callerVars>>

Active == {r \in Requests : lease[r] # None}
Waiting == {r \in Requests : entry[r] # None /\ lease[r] = None}

\* The requests of group g, waiting or active, under the parameters e.
Members(e, g) == {r \in Requests : e[r] # None /\ e[r].group = g}

Init ==
  /\ queue = <<>>
  /\ entry = [r \in Requests |-> None]
  /\ lease = [r \in Requests |-> None]
  /\ groupActive = [g \in Groups |-> 0]
  /\ groupMax = [g \in Groups |-> 0]
  /\ resCount = [x \in Resources |-> 0]
  /\ draining = FALSE
  /\ issued = [l \in LeaseIds |-> None]
  /\ holding = {}

-----------------------------------------------------------------------------
(* Helpers shared by the handlers.                                         *)

\* refreshGroupLimit: the smallest limit among the group's entries, or the
\* caller's own limit once the group is empty.
GroupLimit(e, g, fallback) ==
  LET limits == {e[r].max : r \in Members(e, g)}
  IN  IF limits = {} THEN fallback ELSE Min(limits)

RefreshGroupLimit(g, fallback) ==
  groupMax' = [groupMax EXCEPT ![g] = GroupLimit(entry', g, fallback)]

\* Faulty: resource groups are not looked at.
CanStartIgnoringResources(r) == groupActive[entry[r].group] < groupMax[entry[r].group]

CanStart(r) ==
  /\ groupActive[entry[r].group] < groupMax[entry[r].group]
  /\ \A x \in entry[r].res : resCount[x] = 0

\* Faulty: every startable entry may pass.
MayAlwaysPass(i) == TRUE

\* The entry at position i may pass the ones before it: a fifo entry passes
\* nobody, a per-group entry passes per-group entries of other groups.
MayPassEarlier(i) ==
  \A j \in 1..(i - 1) :
    /\ entry[queue[i]].policy = "per-group"
    /\ entry[queue[j]].policy = "per-group"
    /\ entry[queue[j]].group # entry[queue[i]].group

Startable(i) == CanStart(queue[i]) /\ MayPassEarlier(i)

-----------------------------------------------------------------------------
(* drain()                                                                 *)

\* One turn of the loop: the first startable entry leaves the queue and is
\* granted a fresh lease, which its caller receives.
Grant(i) ==
  /\ draining
  /\ Startable(i)
  /\ \A j \in 1..(i - 1) : ~Startable(j)
  /\ LET r == queue[i] IN
       /\ \E l \in LeaseIds :
            /\ issued[l] = None
            /\ lease' = [lease EXCEPT ![r] = l]
            /\ issued' = [issued EXCEPT ![l] = r]
            /\ holding' = holding \cup {l}
       /\ groupActive' = [groupActive EXCEPT ![entry[r].group] = @ + 1]
       /\ resCount' = [x \in Resources |->
                         IF x \in entry[r].res THEN resCount[x] + 1 ELSE resCount[x]]
  /\ queue' = RemoveAt(queue, i)
  /\ UNCHANGED <<entry, groupMax, draining>>

\* Faulty: the loop gives up when the oldest entry cannot start.
DrainEndsAtHead ==
  /\ draining
  /\ queue # <<>> => ~Startable(1)
  /\ draining' = FALSE
  /\ UNCHANGED <<queue, entry, lease, groupActive, groupMax, resCount, callerVars>>

DrainEnds ==
  /\ draining
  /\ \A i \in 1..Len(queue) : ~Startable(i)
  /\ draining' = FALSE
  /\ UNCHANGED <<queue, entry, lease, groupActive, groupMax, resCount, callerVars>>

-----------------------------------------------------------------------------
(* The handlers.  A repeated request for an id that is waiting or active   *)
(* returns the promise it already has: no state changes.                   *)

Request(r, p) ==
  /\ ~draining
  /\ entry[r] = None
  /\ queue' = Append(queue, r)
  /\ entry' = [entry EXCEPT ![r] = p]
  /\ RefreshGroupLimit(p.group, p.max)
  /\ draining' = TRUE
  /\ UNCHANGED <<lease, groupActive, resCount, callerVars>>

\* Faulty: a lease object frees whatever its request holds now.
ReleaseTargetByRequest(l) == IF issued[l] \in Active THEN issued[l] ELSE None

\* leaseFor and the stale-object check of release(): the active request a
\* lease object may free, if any.
ReleaseTarget(l) ==
  IF issued[l] \in Active /\ lease[issued[l]] = l THEN issued[l] ELSE None

Release(l) ==
  /\ ~draining
  /\ issued[l] # None
  /\ LET r == ReleaseTarget(l) IN
       IF r = None
       THEN UNCHANGED schedulerVars
       ELSE /\ lease' = [lease EXCEPT ![r] = None]
            /\ entry' = [entry EXCEPT ![r] = None]
            /\ groupActive' = [groupActive EXCEPT ![entry[r].group] = IF @ > 0 THEN @ - 1 ELSE 0]
            /\ resCount' = [x \in Resources |->
                              IF x \in entry[r].res /\ resCount[x] > 0
                              THEN resCount[x] - 1 ELSE resCount[x]]
            /\ RefreshGroupLimit(entry[r].group, entry[r].max)
            /\ draining' = TRUE
            /\ UNCHANGED queue
  /\ holding' = holding \ {l}
  /\ UNCHANGED issued

\* Faulty: the cancelled request gives back a slot it never had.
CancelFreesSlot(r) ==
  /\ ~draining
  /\ r \in Waiting
  /\ \E i \in 1..Len(queue) : queue[i] = r /\ queue' = RemoveAt(queue, i)
  /\ entry' = [entry EXCEPT ![r] = None]
  /\ groupActive' = [groupActive EXCEPT ![entry[r].group] = IF @ > 0 THEN @ - 1 ELSE 0]
  /\ RefreshGroupLimit(entry[r].group, entry[r].max)
  /\ draining' = TRUE
  /\ UNCHANGED <<lease, resCount, callerVars>>

Cancel(r) ==
  /\ ~draining
  /\ r \in Waiting
  /\ \E i \in 1..Len(queue) : queue[i] = r /\ queue' = RemoveAt(queue, i)
  /\ entry' = [entry EXCEPT ![r] = None]
  /\ RefreshGroupLimit(entry[r].group, entry[r].max)
  /\ draining' = TRUE
  /\ UNCHANGED <<lease, groupActive, resCount, callerVars>>

SetConcurrencyLimit(g, m) ==
  /\ ~draining
  /\ entry' = [r \in Requests |->
                 IF r \in Members(entry, g) /\ ~entry[r].fixed
                 THEN [entry[r] EXCEPT !.max = m] ELSE entry[r]]
  /\ RefreshGroupLimit(g, m)
  /\ draining' = TRUE
  /\ UNCHANGED <<queue, lease, groupActive, resCount, callerVars>>

\* The exported wake() is drain() itself.
Wake ==
  /\ ~draining
  /\ draining' = TRUE
  /\ UNCHANGED <<queue, entry, lease, groupActive, groupMax, resCount, callerVars>>

\* A caller drops its last reference to a lease object it has released.
Forget(l) ==
  /\ issued[l] # None
  /\ l \notin holding
  /\ issued' = [issued EXCEPT ![l] = None]
  /\ UNCHANGED <<schedulerVars, holding>>

-----------------------------------------------------------------------------
Next ==
  \/ \E i \in 1..Len(queue) : Grant(i)
  \/ DrainEnds
  \/ \E r \in Requests : \E p \in Offers[r] : Request(r, p)
  \/ \E l \in LeaseIds : Release(l)
  \/ \E r \in Requests : Cancel(r)
  \/ \E g \in Groups, m \in Limits : SetConcurrencyLimit(g, m)
  \/ Wake
  \/ \E l \in LeaseIds : Forget(l)

Spec == Init /\ [][Next]_vars

\* The loop of drain() runs to its end, every holder of a lease eventually
\* releases it (a run always ends), and dropped objects are collected.  The
\* holder's fairness is strong because `draining' disables it for the length
\* of a synchronous call only.
Fairness ==
  /\ WF_vars(\E i \in 1..Len(queue) : Grant(i))
  /\ WF_vars(DrainEnds)
  /\ \A l \in LeaseIds : SF_vars(l \in holding /\ Release(l))
  /\ \A l \in LeaseIds : WF_vars(Forget(l))

FairSpec == Spec /\ Fairness

-----------------------------------------------------------------------------
(* Properties                                                              *)

\* The types of the scheduler's maps, counters and queue, and of what callers
\* hold.
TypeOK ==
  /\ queue \in Seq(Requests)
  /\ entry \in [Requests -> Parameters \cup {None}]
  /\ lease \in [Requests -> LeaseIds \cup {None}]
  /\ groupActive \in [Groups -> Nat]
  /\ groupMax \in [Groups -> Nat]
  /\ resCount \in [Resources -> Nat]
  /\ draining \in BOOLEAN
  /\ issued \in [LeaseIds -> Requests \cup {None}]
  /\ holding \subseteq LeaseIds

\* Exactly the waiting requests are in the queue, once each: pendingByRequest
\* and queue name the same requests, and no granted request is still queued,
\* whatever the order of grant, cancel and release.
QueueHoldsWaiters ==
  /\ {queue[i] : i \in 1..Len(queue)} = Waiting
  /\ \A i, j \in 1..Len(queue) : queue[i] = queue[j] => i = j
  /\ \A r \in Active : entry[r] # None

\* A resource group is an exclusive semaphore: two active requests never share
\* one, across concurrency groups and queue policies (doc comment, line 76).
ResourceExclusive ==
  \A r, s \in Active : r # s => entry[r].res \cap entry[s].res = {}

\* The counters canStart() trusts are the leases there are: neither a double
\* release nor a cancel leaves a group with a count no lease explains.
CountersMatchLeases ==
  /\ \A g \in Groups :
       groupActive[g] = Cardinality({r \in Active : entry[r].group = g})
  /\ \A x \in Resources :
       resCount[x] = Cardinality({r \in Active : x \in entry[r].res})

\* The cached limit of a group in use is the smallest limit any of its active
\* or waiting entries asks for, after every mix of live limit changes, fixed
\* (phased) entries, grants, releases and cancels.
GroupLimitIsMinimum ==
  \A g \in Groups : Members(entry, g) # {} =>
    /\ \E r \in Members(entry, g) : groupMax[g] = entry[r].max
    /\ \A r \in Members(entry, g) : groupMax[g] <= entry[r].max

\* The books of the scheduler agree with each other at every turn of drain(): the
\* queue with pendingByRequest, the counters with the leases, the cached limits
\* with the requests they are taken from.
BooksAgree == TypeOK /\ QueueHoldsWaiters /\ CountersMatchLeases /\ GroupLimitIsMinimum

\* No wake-up is lost: whenever no handler runs, no waiting entry could be
\* granted, so every handler that frees capacity, raises a limit or removes a
\* blocking entry does call drain().
NoStartableWaiter ==
  ~draining => \A i \in 1..Len(queue) : ~Startable(i)

\* A caller that has not released its lease still owns it: no other caller's
\* late or repeated release() of an older lease object takes it away.
HolderKeepsLease ==
  \A l \in holding : issued[l] \in Requests /\ lease[issued[l]] = l

\* A grant never takes a group above the limit of any request that holds or
\* waits for it, the fixed limit 1 of a phased run included.
GrantWithinEveryLimit ==
  [][\A g \in Groups : groupActive'[g] > groupActive[g] =>
       \A r \in Members(entry, g) : groupActive'[g] <= entry[r].max]_vars

\* The scheduler implements AdmissionSlots: what its counters, cached limits,
\* queue and leases let in is what the demands of the present requests allow, and
\* a run leaves only when the caller that holds its own lease gives it back: the
\* repeated or late release of an older lease object of the request changes
\* nothing (resource-scheduler.mjs:217).
Slots == INSTANCE AdmissionSlots
           WITH demand <- entry, owner <- lease, held <- holding, Leases <- LeaseIds
ImplementsSlots == Slots!Spec

\* A waiter that others may pass for as long as they come: it needs two resources
\* at once, which drain() looks at one release at a time while requests of other
\* groups take one of them each, or it is queued behind such a request of its own
\* group.  A fifo entry is never passed, so it is not one of them.
MayBePassedForEver(r) ==
  /\ entry[r].policy = "per-group"
  /\ \E i, j \in 1..Len(queue) :
       /\ i <= j /\ queue[j] = r
       /\ entry[queue[i]].group = entry[r].group
       /\ Cardinality(entry[queue[i]].res) > 1

\* Every other waiting request is granted or cancelled, although limits change,
\* later requests of other packages pass it and take the resource it needs, and
\* requests that may wait for ever stand in the same queue.
EveryWaiterServed ==
  \A r \in Requests :
    (r \in Waiting /\ ~MayBePassedForEver(r)) ~> (r \notin Waiting)

\* Does not hold: the same without the exception.
NobodyWaitsForEver ==
  \A r \in Requests : (r \in Waiting) ~> (r \notin Waiting)

\* Does not hold: "Preserve FIFO for requests that share a package/resource group"
\* (resource-scheduler.mjs:155), no request is granted while an older one of its
\* concurrency group, or one that needs a resource it takes, still waits.
FifoWhereShared ==
  [][\A i \in 1..Len(queue) : \A j \in 1..(i - 1) :
       lease'[queue[i]] # lease[queue[i]] =>
         /\ entry[queue[j]].group # entry[queue[i]].group
         /\ entry[queue[j]].res \cap entry[queue[i]].res = {}]_vars
=============================================================================
