----------------------- MODULE ResourceScheduler_proofs -----------------------
(***************************************************************************)
(* Invariants of ResourceScheduler for every set of requests, groups,      *)
(* resources, limits and leases.                                           *)
(***************************************************************************)
EXTENDS ResourceScheduler, DataFacts

\* Every limit in a parameter record is a positive natural, so the limit a
\* group is given from its entries, or from its caller, is one too.
LEMMA GroupLimitPositive ==
  ASSUME NEW e \in [Requests -> Parameters \cup {None}],
         NEW g, NEW fallback \in Nat \ {0}
  PROVE  /\ GroupLimit(e, g, fallback) \in Nat \ {0}
         /\ Members(e, g) # {} =>
              /\ \E r \in Members(e, g) : GroupLimit(e, g, fallback) = e[r].max
              /\ \A r \in Members(e, g) : GroupLimit(e, g, fallback) <= e[r].max
<1> DEFINE limits == {e[r].max : r \in Members(e, g)}
<1>1. \A r \in Members(e, g) : e[r].max \in Nat \ {0}
  BY DEF Members, Parameters
<1>2. limits \subseteq Nat /\ limits \subseteq Nat \ {0}
  BY <1>1
<1>3. CASE limits = {}
  BY <1>3 DEF GroupLimit
<1>4. CASE limits # {}
  <2>1. Min(limits) \in limits /\ \A m \in limits : Min(limits) <= m
    BY <1>2, <1>4, MinExists
  <2>2. GroupLimit(e, g, fallback) = Min(limits)
    BY <1>4 DEF GroupLimit
  <2> HIDE DEF limits
  <2>3. GroupLimit(e, g, fallback) \in Nat \ {0}
    BY <1>2, <2>1, <2>2
  <2>4. (\E r \in Members(e, g) : Min(limits) = e[r].max)
        /\ (\A r \in Members(e, g) : Min(limits) <= e[r].max)
    BY <2>1 DEF limits
  <2>5. QED
    BY <2>2, <2>3, <2>4
<1>5. QED
  BY <1>3, <1>4

-----------------------------------------------------------------------------
(* Type correctness                                                        *)

\* The types alone are not inductive: a refreshed limit is a number because
\* the request being released or granted has parameters, which is what
\* QueueHoldsWaiters says.
Typed == TypeOK /\ QueueHoldsWaiters

\* The scheduler starts with an empty queue and no request.
LEMMA TypedInit == Init => Typed
<1> SUFFICES ASSUME Init
             PROVE  Typed
  OBVIOUS
<1>1. queue \in Seq(Requests) /\ holding \subseteq LeaseIds /\ draining \in BOOLEAN
      /\ Len(queue) = 0
  BY EmptySeq DEF Init
<1>2. /\ entry \in [Requests -> Parameters \cup {None}]
      /\ lease \in [Requests -> LeaseIds \cup {None}]
      /\ issued \in [LeaseIds -> Requests \cup {None}]
  BY DEF Init
<1>3. /\ groupActive \in [Groups -> Nat]
      /\ groupMax \in [Groups -> Nat]
      /\ resCount \in [Resources -> Nat]
  BY DEF Init
<1>4. Active = {} /\ Waiting = {}
  BY DEF Init, Active, Waiting
<1>5. QueueHoldsWaiters
  BY <1>1, <1>4 DEF QueueHoldsWaiters
<1>6. QED
  BY <1>1, <1>2, <1>3, <1>5 DEF Typed, TypeOK

\* What the head of an action knows about the request at a queue position.
LEMMA QueuedRequest ==
  ASSUME Typed, NEW i \in 1..Len(queue)
  PROVE  /\ queue[i] \in Requests
         /\ entry[queue[i]] \in Parameters
         /\ entry[queue[i]].group \in Groups
         /\ lease[queue[i]] = None
<1>1. queue[i] \in Waiting
  BY DEF Typed, QueueHoldsWaiters
<1>2. QED
  BY <1>1 DEF Waiting, Typed, TypeOK, Parameters

\* What a handler knows about a request that holds a lease.
LEMMA ActiveRequest ==
  ASSUME Typed, NEW r \in Active
  PROVE  /\ r \in Requests
         /\ entry[r] \in Parameters
         /\ entry[r].group \in Groups
         /\ lease[r] \in LeaseIds
  BY DEF Active, Typed, TypeOK, QueueHoldsWaiters, Parameters

\* Every handler and every grant keeps the types and the queue right.
LEMMA TypedStep == Typed /\ [Next]_vars => Typed'
<1> SUFFICES ASSUME Typed, [Next]_vars
             PROVE  Typed'
  OBVIOUS
<1>t. /\ queue \in Seq(Requests)
      /\ entry \in [Requests -> Parameters \cup {None}]
      /\ lease \in [Requests -> LeaseIds \cup {None}]
      /\ groupActive \in [Groups -> Nat]
      /\ groupMax \in [Groups -> Nat]
      /\ resCount \in [Resources -> Nat]
      /\ draining \in BOOLEAN
      /\ issued \in [LeaseIds -> Requests \cup {None}]
      /\ holding \subseteq LeaseIds
  BY DEF Typed, TypeOK
<1>n. None \notin Parameters /\ None \notin LeaseIds
  BY SchedulerAssumption
<1>q. /\ {queue[i] : i \in 1..Len(queue)} = Waiting
      /\ \A i, j \in 1..Len(queue) : queue[i] = queue[j] => i = j
      /\ \A r \in Active : entry[r] # None
  BY DEF Typed, QueueHoldsWaiters
<1>1. ASSUME NEW i \in 1..Len(queue), Grant(i)
      PROVE  Typed'
  <2>1. queue[i] \in Requests /\ entry[queue[i]] \in Parameters
        /\ entry[queue[i]].group \in Groups /\ lease[queue[i]] = None
    BY QueuedRequest
  <2>2. PICK l \in LeaseIds : /\ lease' = [lease EXCEPT ![queue[i]] = l]
                              /\ issued' = [issued EXCEPT ![l] = queue[i]]
                              /\ holding' = holding \cup {l}
    BY <1>1 DEF Grant
  <2>3. TypeOK'
    <3>1. queue' \in Seq(Requests)
      BY <1>1, <1>t, RemoveAtProperties DEF Grant
    <3>2. groupActive' \in [Groups -> Nat]
      BY <1>1, <1>t, <2>1 DEF Grant
    <3>3. resCount' \in [Resources -> Nat]
      BY <1>1, <1>t DEF Grant
    <3>4. QED
      BY <1>1, <1>t, <2>1, <2>2, <3>1, <3>2, <3>3 DEF Grant, TypeOK
  <2>4. Active' = Active \cup {queue[i]} /\ Waiting' = Waiting \ {queue[i]}
    BY <1>1, <1>t, <1>n, <2>1, <2>2 DEF Grant, Active, Waiting
  <2>5. QueueHoldsWaiters'
    <3>1. /\ {queue'[j] : j \in 1..Len(queue')} = Waiting \ {queue[i]}
          /\ \A j, k \in 1..Len(queue') : queue'[j] = queue'[k] => j = k
      <4> DEFINE els(q) == {q[j] : j \in 1..Len(q)}
                 distinct(q) == \A j, k \in 1..Len(q) : q[j] = q[k] => j = k
      <4>1. queue' = RemoveAt(queue, i)
        BY <1>1 DEF Grant
      <4>2. els(RemoveAt(queue, i)) = els(queue) \ {queue[i]} /\ distinct(RemoveAt(queue, i))
        BY <1>t, <1>q, RemoveAtOfDistinct
      <4>3. els(queue) = Waiting
        BY <1>q
      <4> HIDE DEF els, distinct
      <4>4. els(queue') = Waiting \ {queue[i]} /\ distinct(queue')
        BY <4>1, <4>2, <4>3
      <4>5. QED
        BY <4>4 DEF els, distinct
    <3>2. \A r \in Active' : entry'[r] # None
      BY <1>1, <1>n, <1>q, <2>1, <2>4 DEF Grant
    <3>3. QED
      BY <2>4, <3>1, <3>2 DEF QueueHoldsWaiters
  <2>6. QED
    BY <2>3, <2>5 DEF Typed
<1>2. CASE DrainEnds
  <2>1. UNCHANGED <<queue, entry, lease, groupActive, groupMax, resCount, issued, holding>>
        /\ draining' = FALSE
    BY <1>2 DEF DrainEnds, callerVars
  <2>2. TypeOK'
    BY <1>t, <2>1 DEF TypeOK
  <2>3. QueueHoldsWaiters'
    BY <1>q, <2>1 DEF QueueHoldsWaiters, Active, Waiting
  <2>4. QED
    BY <2>2, <2>3 DEF Typed
<1>3. ASSUME NEW r \in Requests, NEW p \in Offers[r], Request(r, p)
      PROVE  Typed'
  <2>1. p \in Parameters /\ p # None /\ p.max \in Nat \ {0}
    BY SchedulerAssumption DEF Parameters
  <2>2. r \notin Waiting /\ r \notin Active /\ lease[r] = None
    BY <1>3, <1>q DEF Request, Waiting, Active
  <2>3. entry' \in [Requests -> Parameters \cup {None}]
    BY <1>3, <1>t, <2>1 DEF Request
  <2>4. /\ queue' \in Seq(Requests)
        /\ {queue'[j] : j \in 1..Len(queue')} = Waiting \cup {r}
        /\ \A j, k \in 1..Len(queue') : queue'[j] = queue'[k] => j = k
    <3> DEFINE els(q) == {q[j] : j \in 1..Len(q)}
               distinct(q) == \A j, k \in 1..Len(q) : q[j] = q[k] => j = k
    <3>1. queue' = Append(queue, r)
      BY <1>3 DEF Request
    <3>2. /\ r \notin {queue[j] : j \in 1..Len(queue)}
          /\ \A j, k \in 1..Len(queue) : queue[j] = queue[k] => j = k
      BY <1>q, <2>2
    <3>3. /\ Append(queue, r) \in Seq(Requests)
          /\ els(Append(queue, r)) = els(queue) \cup {r} /\ distinct(Append(queue, r))
      BY <1>t, <3>2, AppendOfDistinct
    <3>4. els(queue) = Waiting
      BY <1>q
    <3> HIDE DEF els, distinct
    <3>5. queue' \in Seq(Requests) /\ els(queue') = Waiting \cup {r} /\ distinct(queue')
      BY <3>1, <3>3, <3>4
    <3>6. QED
      BY <3>5 DEF els, distinct
  <2>5. groupMax' \in [Groups -> Nat]
    <3>1. GroupLimit(entry', p.group, p.max) \in Nat
      BY <2>1, <2>3, GroupLimitPositive
    <3>2. QED
      BY <1>3, <1>t, <3>1 DEF Request, RefreshGroupLimit
  <2>6. Active' = Active /\ Waiting' = Waiting \cup {r}
    BY <1>3, <1>t, <2>1, <2>2 DEF Request, Active, Waiting
  <2>7. TypeOK'
    BY <1>3, <1>t, <2>3, <2>4, <2>5 DEF Request, callerVars, TypeOK
  <2>8. QueueHoldsWaiters'
    <3>1. \A s \in Active' : entry'[s] # None
      BY <1>3, <1>t, <1>q, <2>1, <2>6 DEF Request, Active
    <3>2. QED
      BY <2>4, <2>6, <3>1 DEF QueueHoldsWaiters
  <2>9. QED
    BY <2>7, <2>8 DEF Typed
<1>4. ASSUME NEW l \in LeaseIds, Release(l)
      PROVE  Typed'
  <2> DEFINE r == ReleaseTarget(l)
  <2>1. CASE r = None
    BY <1>4, <2>1 DEF Release, schedulerVars, Typed, TypeOK, QueueHoldsWaiters, Active, Waiting
  <2>2. CASE r # None
    <3>1. r \in Active
      BY <2>2 DEF ReleaseTarget
    <3>2. r \in Requests /\ entry[r] \in Parameters /\ entry[r].group \in Groups
      BY <3>1, ActiveRequest
    <3> HIDE DEF r
    <3>3. /\ lease' = [lease EXCEPT ![r] = None]
          /\ entry' = [entry EXCEPT ![r] = None]
          /\ groupActive' = [groupActive EXCEPT ![entry[r].group] = IF @ > 0 THEN @ - 1 ELSE 0]
          /\ resCount' = [x \in Resources |->
                            IF x \in entry[r].res /\ resCount[x] > 0
                            THEN resCount[x] - 1 ELSE resCount[x]]
          /\ RefreshGroupLimit(entry[r].group, entry[r].max)
          /\ draining' = TRUE
          /\ queue' = queue /\ issued' = issued /\ holding' = holding \ {l}
      BY <1>4, <2>2 DEF Release, r
    <3>4. entry' \in [Requests -> Parameters \cup {None}]
          /\ lease' \in [Requests -> LeaseIds \cup {None}]
      BY <1>t, <3>3
    <3>5. groupMax' \in [Groups -> Nat]
      <4>1. GroupLimit(entry', entry[r].group, entry[r].max) \in Nat
        BY <3>2, <3>4, GroupLimitPositive DEF Parameters
      <4>2. QED
        BY <1>t, <3>3, <4>1 DEF RefreshGroupLimit
    <3>6. groupActive' \in [Groups -> Nat]
      BY <1>t, <3>2, <3>3
    <3>7. resCount' \in [Resources -> Nat]
      BY <1>t, <3>3
    <3>8. TypeOK'
      BY <1>t, <3>3, <3>4, <3>5, <3>6, <3>7 DEF TypeOK
    <3>9. Active' = Active \ {r} /\ Waiting' = Waiting
      BY <1>t, <3>1, <3>2, <3>3 DEF Active, Waiting
    <3>10. \A s \in Active' : entry'[s] # None
      BY <1>t, <1>q, <3>2, <3>3, <3>9 DEF Active
    <3>11. QueueHoldsWaiters'
      BY <1>q, <3>3, <3>9, <3>10 DEF QueueHoldsWaiters
    <3>12. QED
      BY <3>8, <3>11 DEF Typed
  <2>3. QED
    BY <2>1, <2>2
<1>5. ASSUME NEW r \in Requests, Cancel(r)
      PROVE  Typed'
  <2>1. PICK i \in 1..Len(queue) : queue[i] = r /\ queue' = RemoveAt(queue, i)
    BY <1>5 DEF Cancel
  <2>2. entry[r] \in Parameters /\ lease[r] = None
    BY <2>1, QueuedRequest
  <2>3. entry' \in [Requests -> Parameters \cup {None}]
    BY <1>5, <1>t DEF Cancel
  <2>4. /\ queue' \in Seq(Requests)
        /\ {queue'[j] : j \in 1..Len(queue')} = Waiting \ {r}
        /\ \A j, k \in 1..Len(queue') : queue'[j] = queue'[k] => j = k
    <3>1. RemoveAt(queue, i) \in Seq(Requests)
      BY <1>t, RemoveAtProperties
    <3>2. /\ {RemoveAt(queue, i)[j] : j \in 1..Len(RemoveAt(queue, i))}
               = {queue[j] : j \in 1..Len(queue)} \ {queue[i]}
          /\ \A j, k \in 1..Len(RemoveAt(queue, i)) :
               RemoveAt(queue, i)[j] = RemoveAt(queue, i)[k] => j = k
      BY <1>t, <1>q, RemoveAtOfDistinct
    <3>3. queue' = RemoveAt(queue, i) /\ queue[i] = r /\ {queue[j] : j \in 1..Len(queue)} = Waiting
      BY <1>q, <2>1
    <3>4. QED
      BY ONLY <3>1, <3>2, <3>3
  <2>5. groupMax' \in [Groups -> Nat]
    <3>1. GroupLimit(entry', entry[r].group, entry[r].max) \in Nat
      BY <2>2, <2>3, GroupLimitPositive DEF Parameters
    <3>2. QED
      BY <1>5, <1>t, <3>1 DEF Cancel, RefreshGroupLimit
  <2>6. Active' = Active /\ Waiting' = Waiting \ {r}
    BY <1>5, <1>t, <2>2 DEF Cancel, Active, Waiting
  <2>7. TypeOK'
    BY <1>5, <1>t, <2>3, <2>4, <2>5 DEF Cancel, callerVars, TypeOK
  <2>8. QueueHoldsWaiters'
    <3>1. \A s \in Active' : entry'[s] # None
      BY <1>5, <1>t, <1>q, <2>2, <2>6 DEF Cancel, Active
    <3>2. QED
      BY <2>4, <2>6, <3>1 DEF QueueHoldsWaiters
  <2>9. QED
    BY <2>7, <2>8 DEF Typed
<1>6. ASSUME NEW g \in Groups, NEW m \in Limits, SetConcurrencyLimit(g, m)
      PROVE  Typed'
  <2>1. m \in Nat \ {0}
    BY SchedulerAssumption
  <2>2. ASSUME NEW r \in Requests
        PROVE  /\ entry'[r] \in Parameters \cup {None}
               /\ entry'[r] = None <=> entry[r] = None
    <3>1. CASE r \in Members(entry, g) /\ ~entry[r].fixed
      <4>1. entry[r] \in Parameters
        BY <1>t, <3>1 DEF Members
      <4>2. entry'[r] = [entry[r] EXCEPT !.max = m]
        BY <1>6, <3>1 DEF SetConcurrencyLimit
      <4>3. entry'[r] \in Parameters
        BY <2>1, <4>1, <4>2 DEF Parameters
      <4>4. QED
        BY <1>n, <4>1, <4>3
    <3>2. CASE ~(r \in Members(entry, g) /\ ~entry[r].fixed)
      BY <1>6, <1>t, <3>2 DEF SetConcurrencyLimit
    <3>3. QED
      BY <3>1, <3>2
  <2>3. entry' \in [Requests -> Parameters \cup {None}]
    BY <1>6, <2>2 DEF SetConcurrencyLimit
  <2>4. groupMax' \in [Groups -> Nat]
    <3>1. GroupLimit(entry', g, m) \in Nat
      BY <2>1, <2>3, GroupLimitPositive
    <3>2. QED
      BY <1>6, <1>t, <3>1 DEF SetConcurrencyLimit, RefreshGroupLimit
  <2>5. Active' = Active /\ Waiting' = Waiting
    BY <1>6, <2>2 DEF SetConcurrencyLimit, Active, Waiting
  <2>6. TypeOK'
    BY <1>6, <1>t, <2>3, <2>4 DEF SetConcurrencyLimit, callerVars, TypeOK
  <2>7. QueueHoldsWaiters'
    <3>1. \A s \in Active' : entry'[s] # None
      BY <1>q, <2>2, <2>5 DEF Active
    <3>2. QED
      BY <1>6, <1>q, <2>5, <3>1 DEF SetConcurrencyLimit, QueueHoldsWaiters
  <2>8. QED
    BY <2>6, <2>7 DEF Typed
<1>7. CASE Wake
  BY <1>7 DEF Wake, callerVars, Typed, TypeOK, QueueHoldsWaiters, Active, Waiting
<1>8. ASSUME NEW l \in LeaseIds, Forget(l)
      PROVE  Typed'
  BY <1>8 DEF Forget, schedulerVars, Typed, TypeOK, QueueHoldsWaiters, Active, Waiting
<1>9. CASE UNCHANGED vars
  BY <1>9 DEF vars, schedulerVars, callerVars, Typed, TypeOK, QueueHoldsWaiters, Active, Waiting
<1>10. QED
  BY <1>1, <1>2, <1>3, <1>4, <1>5, <1>6, <1>7, <1>8, <1>9 DEF Next

\* The first two steps of the induction together.
LEMMA AlwaysTyped == Spec => []Typed
  BY TypedInit, TypedStep, PTL DEF Spec

\* The maps and counters of the scheduler keep their types in every run.
THEOREM TypeCorrect == Spec => []TypeOK
<1>1. Typed => TypeOK
  BY DEF Typed
<1>2. QED
  BY AlwaysTyped, <1>1, PTL

\* The queue holds exactly the waiting requests, once each, in every run.
THEOREM QueueCorrect == Spec => []QueueHoldsWaiters
<1>1. Typed => QueueHoldsWaiters
  BY DEF Typed
<1>2. QED
  BY AlwaysTyped, <1>1, PTL

-----------------------------------------------------------------------------
(* Counters and exclusiveness.                                             *)

InGroup(g) == {r \in Active : entry[r].group = g}
Users(x) == {r \in Active : x \in entry[r].res}

\* How each step changes the set of active requests: a grant adds one request
\* and counts it, a release removes one and uncounts it, and nothing else
\* touches a group or a resource list of an active request.
LEMMA ActiveChange ==
  ASSUME Typed, [Next]_vars
  PROVE  \/ \E q \in Requests :
              /\ q \notin Active
              /\ CanStart(q)
              /\ entry[q] \in Parameters
              /\ Active' = Active \cup {q}
              /\ entry' = entry
              /\ groupMax' = groupMax
              /\ groupActive' = [groupActive EXCEPT ![entry[q].group] = @ + 1]
              /\ resCount' = [x \in Resources |->
                                IF x \in entry[q].res THEN resCount[x] + 1 ELSE resCount[x]]
         \/ \E q \in Active :
              /\ Active' = Active \ {q}
              /\ \A r \in Active' : entry'[r] = entry[r]
              /\ groupActive' = [groupActive EXCEPT ![entry[q].group] = IF @ > 0 THEN @ - 1 ELSE 0]
              /\ resCount' = [x \in Resources |->
                                IF x \in entry[q].res /\ resCount[x] > 0
                                THEN resCount[x] - 1 ELSE resCount[x]]
         \/ /\ Active' = Active
            /\ \A r \in Active : entry'[r].group = entry[r].group /\ entry'[r].res = entry[r].res
            /\ UNCHANGED <<groupActive, resCount>>
<1>t. /\ entry \in [Requests -> Parameters \cup {None}]
      /\ lease \in [Requests -> LeaseIds \cup {None}]
      /\ None \notin LeaseIds
  BY SchedulerAssumption DEF Typed, TypeOK
<1>1. ASSUME NEW i \in 1..Len(queue), Grant(i)
      PROVE  \E q \in Requests :
               /\ q \notin Active
               /\ CanStart(q)
               /\ entry[q] \in Parameters
               /\ Active' = Active \cup {q}
               /\ entry' = entry
               /\ groupMax' = groupMax
               /\ groupActive' = [groupActive EXCEPT ![entry[q].group] = @ + 1]
               /\ resCount' = [x \in Resources |->
                                 IF x \in entry[q].res THEN resCount[x] + 1 ELSE resCount[x]]
  <2>1. queue[i] \in Requests /\ entry[queue[i]] \in Parameters /\ lease[queue[i]] = None
    BY QueuedRequest
  <2>2. PICK l \in LeaseIds : lease' = [lease EXCEPT ![queue[i]] = l]
    BY <1>1 DEF Grant
  <2>3. queue[i] \notin Active /\ Active' = Active \cup {queue[i]}
    BY <1>t, <2>1, <2>2 DEF Active
  <2>4. CanStart(queue[i])
    BY <1>1 DEF Grant, Startable
  <2>5. QED
    BY <1>1, <2>1, <2>3, <2>4 DEF Grant
<1>2. ASSUME NEW l \in LeaseIds, Release(l), ReleaseTarget(l) # None
      PROVE  \E q \in Active :
               /\ Active' = Active \ {q}
               /\ \A r \in Active' : entry'[r] = entry[r]
               /\ groupActive' = [groupActive EXCEPT ![entry[q].group] = IF @ > 0 THEN @ - 1 ELSE 0]
               /\ resCount' = [x \in Resources |->
                                 IF x \in entry[q].res /\ resCount[x] > 0
                                 THEN resCount[x] - 1 ELSE resCount[x]]
  <2> DEFINE q == ReleaseTarget(l)
  <2>1. q \in Active /\ q \in Requests
    BY <1>2 DEF ReleaseTarget, Active
  <2> HIDE DEF q
  <2>2. /\ lease' = [lease EXCEPT ![q] = None]
        /\ entry' = [entry EXCEPT ![q] = None]
        /\ groupActive' = [groupActive EXCEPT ![entry[q].group] = IF @ > 0 THEN @ - 1 ELSE 0]
        /\ resCount' = [x \in Resources |->
                          IF x \in entry[q].res /\ resCount[x] > 0
                          THEN resCount[x] - 1 ELSE resCount[x]]
    BY <1>2 DEF Release, q
  <2>3. Active' = Active \ {q}
    BY <1>t, <2>1, <2>2 DEF Active
  <2>4. \A r \in Active' : entry'[r] = entry[r]
    BY <1>t, <2>2, <2>3 DEF Active
  <2>5. QED
    BY <2>1, <2>2, <2>3, <2>4
<1> DEFINE Same == /\ Active' = Active
                   /\ \A r \in Active : entry'[r].group = entry[r].group
                                       /\ entry'[r].res = entry[r].res
                   /\ UNCHANGED <<groupActive, resCount>>
<1>3. ASSUME NEW l \in LeaseIds, Release(l), ReleaseTarget(l) = None
      PROVE  Same
  BY <1>3 DEF Release, schedulerVars, Active
<1>4. DrainEnds \/ Wake \/ UNCHANGED vars => Same
  BY DEF DrainEnds, Wake, vars, schedulerVars, callerVars, Active
<1>5. ASSUME NEW r \in Requests, NEW p \in Offers[r], Request(r, p)
      PROVE  Same
  <2>1. r \notin Active
    BY <1>5 DEF Request, Typed, QueueHoldsWaiters
  <2>2. \A s \in Active : entry'[s] = entry[s]
    BY <1>5, <1>t, <2>1 DEF Request, Active
  <2>3. QED
    BY <1>5, <2>2 DEF Request, Active
<1>6. ASSUME NEW r \in Requests, Cancel(r)
      PROVE  Same
  <2>1. r \notin Active
    BY <1>6 DEF Cancel, Waiting, Active
  <2>2. \A s \in Active : entry'[s] = entry[s]
    BY <1>6, <1>t, <2>1 DEF Cancel, Active
  <2>3. QED
    BY <1>6, <2>2 DEF Cancel, Active
<1>7. ASSUME NEW g \in Groups, NEW m \in Limits, SetConcurrencyLimit(g, m)
      PROVE  Same
  <2>1. ASSUME NEW r \in Active
        PROVE  entry'[r].group = entry[r].group /\ entry'[r].res = entry[r].res
    <3>1. r \in Requests /\ entry[r] \in Parameters
      BY ActiveRequest
    <3>2. entry'[r] = entry[r] \/ entry'[r] = [entry[r] EXCEPT !.max = m]
      BY <1>7, <3>1 DEF SetConcurrencyLimit
    <3>3. QED
      BY <3>1, <3>2 DEF Parameters
  <2>2. QED
    BY <1>7, <2>1 DEF SetConcurrencyLimit, Active
<1>8. ASSUME NEW l \in LeaseIds, Forget(l)
      PROVE  Same
  BY <1>8 DEF Forget, schedulerVars, Active
<1> HIDE DEF Same
<1>9. CASE [Next]_vars
  BY <1>1, <1>2, <1>3, <1>4, <1>5, <1>6, <1>7, <1>8, <1>9 DEF Next, Same
<1>10. QED
  BY <1>9

Counted == Typed /\ CountersMatchLeases /\ ResourceExclusive

\* Every set of active requests is finite, so its size is a number that grows
\* and shrinks by one with each grant and release.
LEMMA ActiveFinite ==
  ASSUME NEW T, T \subseteq Requests
  PROVE  IsFiniteSet(T) /\ Cardinality(T) \in Nat
  BY SchedulerAssumption, FS_Subset, FS_CardinalityType

\* No lease, no count.
LEMMA CountedInit == Init => Counted
<1> SUFFICES ASSUME Init
             PROVE  Counted
  OBVIOUS
<1>1. Active = {}
  BY DEF Init, Active
<1>2. \A g \in Groups : {r \in Active : entry[r].group = g} = {}
  BY <1>1
<1>3. \A x \in Resources : {r \in Active : x \in entry[r].res} = {}
  BY <1>1
<1>4. CountersMatchLeases
  BY <1>2, <1>3, FS_EmptySet DEF Init, CountersMatchLeases
<1>5. QED
  BY <1>1, <1>4, TypedInit DEF Counted, ResourceExclusive

\* Every step keeps the counters equal to the leases they count.
LEMMA CountedStep == Counted /\ [Next]_vars => Counted'
<1> SUFFICES ASSUME Counted, [Next]_vars
             PROVE  Counted'
  OBVIOUS
<1>0. Typed /\ Typed'
  BY TypedStep DEF Counted
<1>t. /\ groupActive \in [Groups -> Nat]
      /\ resCount \in [Resources -> Nat]
  BY <1>0 DEF Typed, TypeOK
<1>c. /\ \A g \in Groups : groupActive[g] = Cardinality(InGroup(g))
      /\ \A x \in Resources : resCount[x] = Cardinality(Users(x))
  BY DEF Counted, CountersMatchLeases, InGroup, Users
<1>f. /\ \A g : IsFiniteSet(InGroup(g)) /\ Cardinality(InGroup(g)) \in Nat
      /\ \A x : IsFiniteSet(Users(x)) /\ Cardinality(Users(x)) \in Nat
  BY ActiveFinite DEF InGroup, Users, Active
<1>1. ASSUME NEW q \in Requests,
             q \notin Active,
             CanStart(q),
             entry[q] \in Parameters,
             Active' = Active \cup {q},
             entry' = entry,
             groupActive' = [groupActive EXCEPT ![entry[q].group] = @ + 1],
             resCount' = [x \in Resources |->
                            IF x \in entry[q].res THEN resCount[x] + 1 ELSE resCount[x]]
      PROVE  CountersMatchLeases' /\ ResourceExclusive'
  <2>1. ASSUME NEW g \in Groups
        PROVE  groupActive'[g] = Cardinality(InGroup(g)')
    <3>1. CASE g = entry[q].group
      <4>1. InGroup(g)' = InGroup(g) \cup {q} /\ q \notin InGroup(g)
        BY <1>1, <3>1 DEF InGroup
      <4>2. Cardinality(InGroup(g) \cup {q}) = Cardinality(InGroup(g)) + 1
        BY <1>f, <4>1, FS_AddElement
      <4>3. QED
        BY <1>1, <1>t, <1>c, <3>1, <4>1, <4>2
    <3>2. CASE g # entry[q].group
      <4>1. InGroup(g)' = InGroup(g)
        BY <1>1, <3>2 DEF InGroup
      <4>2. QED
        BY <1>1, <1>t, <1>c, <3>2, <4>1
    <3>3. QED
      BY <3>1, <3>2
  <2>2. ASSUME NEW x \in Resources
        PROVE  resCount'[x] = Cardinality(Users(x)')
    <3>1. CASE x \in entry[q].res
      <4>1. Users(x)' = Users(x) \cup {q} /\ q \notin Users(x)
        BY <1>1, <3>1 DEF Users
      <4>2. Cardinality(Users(x) \cup {q}) = Cardinality(Users(x)) + 1
        BY <1>f, <4>1, FS_AddElement
      <4>3. QED
        BY <1>1, <1>c, <3>1, <4>1, <4>2
    <3>2. CASE x \notin entry[q].res
      <4>1. Users(x)' = Users(x)
        BY <1>1, <3>2 DEF Users
      <4>2. QED
        BY <1>1, <1>c, <3>2, <4>1
    <3>3. QED
      BY <3>1, <3>2
  <2>3. \A x \in entry[q].res : Users(x) = {}
    <3>1. ASSUME NEW x \in entry[q].res
          PROVE  Users(x) = {}
      <4>1. x \in Resources /\ resCount[x] = 0
        BY <1>1 DEF CanStart, Parameters
      <4>2. QED
        BY <1>c, <1>f, <4>1, FS_EmptySet
    <3>2. QED
      BY <3>1
  <2>4. \A r \in Active : entry[r].res \cap entry[q].res = {}
    BY <2>3 DEF Users
  <2>5. ResourceExclusive'
    BY <1>1, <2>4 DEF ResourceExclusive, Counted
  <2>6. QED
    BY <2>1, <2>2, <2>5 DEF CountersMatchLeases, InGroup, Users
<1>2. ASSUME NEW q \in Active,
             Active' = Active \ {q},
             \A r \in Active' : entry'[r] = entry[r],
             groupActive' = [groupActive EXCEPT ![entry[q].group] = IF @ > 0 THEN @ - 1 ELSE 0],
             resCount' = [x \in Resources |->
                            IF x \in entry[q].res /\ resCount[x] > 0
                            THEN resCount[x] - 1 ELSE resCount[x]]
      PROVE  CountersMatchLeases' /\ ResourceExclusive'
  <2>1. ASSUME NEW g \in Groups
        PROVE  groupActive'[g] = Cardinality(InGroup(g)')
    <3>1. CASE g = entry[q].group
      <4>1. InGroup(g)' = InGroup(g) \ {q} /\ q \in InGroup(g)
        BY <1>2, <3>1 DEF InGroup
      <4>2. Cardinality(InGroup(g) \ {q}) = Cardinality(InGroup(g)) - 1
        BY <1>f, <4>1, FS_RemoveElement
      <4>3. Cardinality(InGroup(g)) # 0
        BY <1>f, <4>1, FS_EmptySet
      <4>4. groupActive[g] > 0 /\ groupActive'[g] = groupActive[g] - 1
        BY <1>2, <1>t, <1>c, <1>f, <3>1, <4>3
      <4>5. QED
        BY <1>c, <4>1, <4>2, <4>4
    <3>2. CASE g # entry[q].group
      <4>1. InGroup(g)' = InGroup(g)
        BY <1>2, <3>2 DEF InGroup
      <4>2. QED
        BY <1>2, <1>t, <1>c, <3>2, <4>1
    <3>3. QED
      BY <3>1, <3>2
  <2>2. ASSUME NEW x \in Resources
        PROVE  resCount'[x] = Cardinality(Users(x)')
    <3>1. CASE x \in entry[q].res
      <4>1. Users(x)' = Users(x) \ {q} /\ q \in Users(x)
        BY <1>2, <3>1 DEF Users
      <4>2. Cardinality(Users(x) \ {q}) = Cardinality(Users(x)) - 1
        BY <1>f, <4>1, FS_RemoveElement
      <4>3. Cardinality(Users(x)) # 0
        BY <1>f, <4>1, FS_EmptySet
      <4>4. resCount[x] > 0 /\ resCount'[x] = resCount[x] - 1
        BY <1>2, <1>t, <1>c, <1>f, <3>1, <4>3
      <4>5. QED
        BY <1>c, <4>1, <4>2, <4>4
    <3>2. CASE x \notin entry[q].res
      <4>1. Users(x)' = Users(x)
        BY <1>2, <3>2 DEF Users
      <4>2. QED
        BY <1>2, <1>c, <3>2, <4>1
    <3>3. QED
      BY <3>1, <3>2
  <2>3. ResourceExclusive'
    BY <1>2 DEF ResourceExclusive, Counted
  <2>4. QED
    BY <2>1, <2>2, <2>3 DEF CountersMatchLeases, InGroup, Users
<1>3. ASSUME Active' = Active,
             \A r \in Active : entry'[r].group = entry[r].group /\ entry'[r].res = entry[r].res,
             UNCHANGED <<groupActive, resCount>>
      PROVE  CountersMatchLeases' /\ ResourceExclusive'
  <2>1. \A g \in Groups : InGroup(g)' = InGroup(g)
    BY <1>3 DEF InGroup
  <2>2. \A x \in Resources : Users(x)' = Users(x)
    BY <1>3 DEF Users
  <2>3. CountersMatchLeases'
    BY <1>3, <1>c, <2>1, <2>2 DEF CountersMatchLeases, InGroup, Users
  <2>4. QED
    BY <1>3, <2>3 DEF ResourceExclusive, Counted
<1>4. CountersMatchLeases' /\ ResourceExclusive'
  BY <1>0, <1>1, <1>2, <1>3, ActiveChange
<1>5. QED
  BY <1>0, <1>4 DEF Counted

\* The counters and the exclusive resources, in every run.
LEMMA AlwaysCounted == Spec => []Counted
  BY CountedInit, CountedStep, PTL DEF Spec

\* The counters canStart() reads are always the numbers of active leases of
\* each group and resource.
THEOREM CountersCorrect == Spec => []CountersMatchLeases
<1>1. Counted => CountersMatchLeases
  BY DEF Counted
<1>2. QED
  BY AlwaysCounted, <1>1, PTL

\* Two running requests never hold the same resource group.
THEOREM Exclusive == Spec => []ResourceExclusive
<1>1. Counted => ResourceExclusive
  BY DEF Counted
<1>2. QED
  BY AlwaysCounted, <1>1, PTL

-----------------------------------------------------------------------------
(* Limits.                                                                 *)

\* A refresh of group g makes its cached limit the minimum again, and a step
\* that changes no entry of another group leaves that group's limit right.
LEMMA RefreshKeepsMinimum ==
  ASSUME Typed, Typed', GroupLimitIsMinimum,
         NEW g \in Groups, NEW fallback \in Nat \ {0},
         RefreshGroupLimit(g, fallback),
         \A r \in Requests :
           entry'[r] = entry[r]
           \/ (/\ entry[r] # None => entry[r].group = g
               /\ entry'[r] # None => entry'[r].group = g)
  PROVE  GroupLimitIsMinimum'
<1>1. groupMax \in [Groups -> Nat] /\ entry' \in [Requests -> Parameters \cup {None}]
  BY DEF Typed, TypeOK
<1>2. ASSUME NEW h \in Groups, Members(entry', h) # {}
      PROVE  /\ \E r \in Members(entry', h) : groupMax'[h] = entry'[r].max
             /\ \A r \in Members(entry', h) : groupMax'[h] <= entry'[r].max
  <2>1. CASE h = g
    <3>1. groupMax'[g] = GroupLimit(entry', g, fallback)
      BY <1>1 DEF RefreshGroupLimit
    <3>2. QED
      BY <1>1, <1>2, <2>1, <3>1, GroupLimitPositive
  <2>2. CASE h # g
    <3>1. Members(entry', h) = Members(entry, h)
      BY <2>2 DEF Members
    <3>2. \A r \in Members(entry, h) : entry'[r] = entry[r]
      BY <2>2, <3>1 DEF Members
    <3>3. groupMax'[h] = groupMax[h]
      BY <1>1, <2>2 DEF RefreshGroupLimit
    <3>4. QED
      BY <1>2, <3>1, <3>2, <3>3 DEF GroupLimitIsMinimum
  <2>3. QED
    BY <2>1, <2>2
<1>3. QED
  BY <1>2 DEF GroupLimitIsMinimum, Members

\* Every handler that changes an entry refreshes the limit of its group.
LEMMA LimitStep ==
  Typed /\ GroupLimitIsMinimum /\ [Next]_vars => GroupLimitIsMinimum'
<1> SUFFICES ASSUME Typed, GroupLimitIsMinimum, [Next]_vars
             PROVE  GroupLimitIsMinimum'
  OBVIOUS
<1>0. Typed'
  BY TypedStep
<1>t. entry \in [Requests -> Parameters \cup {None}]
  BY DEF Typed, TypeOK
<1>p. \A p \in Parameters : p.group \in Groups /\ p.max \in Nat \ {0}
  BY DEF Parameters
<1>s. entry' = entry /\ groupMax' = groupMax => GroupLimitIsMinimum'
  BY DEF GroupLimitIsMinimum, Members
<1>1. ASSUME NEW i \in 1..Len(queue), Grant(i)
      PROVE  GroupLimitIsMinimum'
  BY <1>1, <1>s DEF Grant
<1>2. CASE DrainEnds \/ Wake \/ UNCHANGED vars
  BY <1>2, <1>s DEF DrainEnds, Wake, vars, schedulerVars
<1>3. ASSUME NEW r \in Requests, NEW p \in Offers[r], Request(r, p)
      PROVE  GroupLimitIsMinimum'
  <2>1. p \in Parameters
    BY SchedulerAssumption
  <2>2. entry[r] = None /\ entry' = [entry EXCEPT ![r] = p] /\ RefreshGroupLimit(p.group, p.max)
    BY <1>3 DEF Request
  <2>3. \A s \in Requests :
          entry'[s] = entry[s]
          \/ (/\ entry[s] # None => entry[s].group = p.group
              /\ entry'[s] # None => entry'[s].group = p.group)
    BY <1>t, <2>2
  <2>4. QED
    BY <1>0, <1>p, <2>1, <2>2, <2>3, RefreshKeepsMinimum
<1>4. ASSUME NEW l \in LeaseIds, Release(l)
      PROVE  GroupLimitIsMinimum'
  <2> DEFINE r == ReleaseTarget(l)
  <2>1. CASE r = None
    BY <1>4, <1>s, <2>1 DEF Release, schedulerVars
  <2>2. CASE r # None
    <3>1. r \in Active
      BY <2>2 DEF ReleaseTarget
    <3>2. r \in Requests /\ entry[r] \in Parameters
      BY <3>1, ActiveRequest
    <3>3. entry' = [entry EXCEPT ![r] = None] /\ RefreshGroupLimit(entry[r].group, entry[r].max)
      BY <1>4, <2>2 DEF Release
    <3> HIDE DEF r
    <3>4. \A s \in Requests :
            entry'[s] = entry[s]
            \/ (/\ entry[s] # None => entry[s].group = entry[r].group
                /\ entry'[s] # None => entry'[s].group = entry[r].group)
      BY <1>t, <3>3
    <3>5. QED
      BY <1>0, <1>p, <3>2, <3>3, <3>4, RefreshKeepsMinimum
  <2>3. QED
    BY <2>1, <2>2
<1>5. ASSUME NEW r \in Requests, Cancel(r)
      PROVE  GroupLimitIsMinimum'
  <2>1. entry[r] \in Parameters
    BY <1>5, <1>t DEF Cancel, Waiting
  <2>2. entry' = [entry EXCEPT ![r] = None] /\ RefreshGroupLimit(entry[r].group, entry[r].max)
    BY <1>5 DEF Cancel
  <2>3. \A s \in Requests :
          entry'[s] = entry[s]
          \/ (/\ entry[s] # None => entry[s].group = entry[r].group
              /\ entry'[s] # None => entry'[s].group = entry[r].group)
    BY <1>t, <2>2
  <2>4. QED
    BY <1>0, <1>p, <2>1, <2>2, <2>3, RefreshKeepsMinimum
<1>6. ASSUME NEW g \in Groups, NEW m \in Limits, SetConcurrencyLimit(g, m)
      PROVE  GroupLimitIsMinimum'
  <2>1. ASSUME NEW s \in Requests, entry'[s] # entry[s]
        PROVE  entry[s].group = g /\ entry'[s].group = g
    <3>1. s \in Members(entry, g) /\ entry'[s] = [entry[s] EXCEPT !.max = m]
      BY <1>6, <2>1 DEF SetConcurrencyLimit
    <3>2. entry[s] \in Parameters /\ entry[s].group = g
      BY <1>t, <3>1 DEF Members
    <3>3. QED
      BY <3>1, <3>2 DEF Parameters
  <2>2. m \in Nat \ {0} /\ RefreshGroupLimit(g, m)
    BY <1>6, SchedulerAssumption DEF SetConcurrencyLimit
  <2>3. QED
    BY <1>0, <2>1, <2>2, RefreshKeepsMinimum
<1>7. ASSUME NEW l \in LeaseIds, Forget(l)
      PROVE  GroupLimitIsMinimum'
  BY <1>7, <1>s DEF Forget, schedulerVars
<1>8. QED
  BY <1>1, <1>2, <1>3, <1>4, <1>5, <1>6, <1>7 DEF Next

\* The cached limit of a group in use is always the smallest limit among the
\* requests that hold it or wait for it.
THEOREM LimitCorrect == Spec => []GroupLimitIsMinimum
<1>1. Init => GroupLimitIsMinimum
  BY DEF Init, GroupLimitIsMinimum, Members
<1>2. QED
  BY <1>1, LimitStep, AlwaysTyped, PTL DEF Spec

\* Queue, counters and cached limits agree with each other in every run.
THEOREM BooksCorrect == Spec => []BooksAgree
<1>1. TypeOK /\ QueueHoldsWaiters /\ CountersMatchLeases /\ GroupLimitIsMinimum => BooksAgree
  BY DEF BooksAgree
<1>2. QED
  BY TypeCorrect, QueueCorrect, CountersCorrect, LimitCorrect, <1>1, PTL

\* No grant takes a group above the limit of any request in it.
THEOREM GrantsWithinLimits == Spec => GrantWithinEveryLimit
<1>1. Typed /\ GroupLimitIsMinimum /\ [Next]_vars =>
        [\A g \in Groups : groupActive'[g] > groupActive[g] =>
           \A r \in Members(entry, g) : groupActive'[g] <= entry[r].max]_vars
  <2> SUFFICES ASSUME Typed, GroupLimitIsMinimum, [Next]_vars,
                      NEW g \in Groups, groupActive'[g] > groupActive[g],
                      NEW r \in Members(entry, g)
               PROVE  groupActive'[g] <= entry[r].max
    OBVIOUS
  <2>1. groupActive \in [Groups -> Nat] /\ groupMax \in [Groups -> Nat]
        /\ entry \in [Requests -> Parameters \cup {None}]
    BY DEF Typed, TypeOK
  <2>2. groupMax[g] <= entry[r].max
    BY DEF GroupLimitIsMinimum
  <2>3. PICK q \in Requests : /\ CanStart(q)
                              /\ groupActive' = [groupActive EXCEPT ![entry[q].group] = @ + 1]
    <3>1. ASSUME NEW q \in Active,
                 groupActive' = [groupActive EXCEPT ![entry[q].group] = IF @ > 0 THEN @ - 1 ELSE 0]
          PROVE  FALSE
      <4>1. groupActive'[g] <= groupActive[g]
        BY <2>1, <3>1
      <4>2. QED
        BY <2>1, <3>1, <4>1
    <3>2. groupActive' = groupActive => FALSE
      BY <2>1
    <3>3. QED
      BY <3>1, <3>2, ActiveChange
  <2>4. g = entry[q].group /\ groupActive'[g] = groupActive[g] + 1
    BY <2>1, <2>3
  <2>5. groupActive[g] < groupMax[g]
    BY <2>3, <2>4 DEF CanStart
  <2>6. entry[r].max \in Nat
    BY <2>1 DEF Members, Parameters
  <2>7. QED
    BY <2>1, <2>2, <2>4, <2>5, <2>6
<1>2. QED
  BY <1>1, AlwaysTyped, LimitCorrect, PTL DEF Spec, GrantWithinEveryLimit

-----------------------------------------------------------------------------
(* Ownership of leases.                                                    *)

\* The converse of HolderKeepsLease, which makes it inductive: an active
\* request's lease is one its caller still holds.
Owned ==
  /\ HolderKeepsLease
  /\ \A r \in Active : issued[lease[r]] = r /\ lease[r] \in holding

\* A lease object leaves `holding' before another request can own its id.
LEMMA OwnedStep == Typed /\ Owned /\ [Next]_vars => Owned'
<1> SUFFICES ASSUME Typed, Owned, [Next]_vars
             PROVE  Owned'
  OBVIOUS
<1>t. /\ lease \in [Requests -> LeaseIds \cup {None}]
      /\ issued \in [LeaseIds -> Requests \cup {None}]
      /\ holding \subseteq LeaseIds
      /\ None \notin LeaseIds /\ None \notin Requests
  BY SchedulerAssumption DEF Typed, TypeOK
<1>o. /\ \A l \in holding : issued[l] \in Requests /\ lease[issued[l]] = l
      /\ \A r \in Active : issued[lease[r]] = r /\ lease[r] \in holding
  BY DEF Owned, HolderKeepsLease
<1>s. UNCHANGED <<lease, issued, holding>> => Owned'
  BY <1>o DEF Owned, HolderKeepsLease, Active
<1>1. ASSUME NEW i \in 1..Len(queue), Grant(i)
      PROVE  Owned'
  <2>1. queue[i] \in Requests /\ lease[queue[i]] = None
    BY QueuedRequest
  <2>2. PICK l \in LeaseIds : /\ issued[l] = None
                              /\ lease' = [lease EXCEPT ![queue[i]] = l]
                              /\ issued' = [issued EXCEPT ![l] = queue[i]]
                              /\ holding' = holding \cup {l}
    BY <1>1 DEF Grant
  <2>3. l \notin holding
    BY <1>t, <1>o, <2>2
  <2>4. Active' = Active \cup {queue[i]}
    BY <1>t, <2>1, <2>2 DEF Active
  <2>5. \A m \in holding' : issued'[m] \in Requests /\ lease'[issued'[m]] = m
    BY <1>t, <1>o, <2>1, <2>2, <2>3
  <2>6. \A r \in Active' : issued'[lease'[r]] = r /\ lease'[r] \in holding'
    BY <1>t, <1>o, <2>1, <2>2, <2>3, <2>4 DEF Active
  <2>7. QED
    BY <2>5, <2>6 DEF Owned, HolderKeepsLease
<1>2. CASE DrainEnds \/ Wake \/ UNCHANGED vars
  BY <1>2, <1>s DEF DrainEnds, Wake, vars, schedulerVars, callerVars
<1>3. ASSUME NEW r \in Requests, NEW p \in Offers[r], Request(r, p)
      PROVE  Owned'
  BY <1>3, <1>s DEF Request, callerVars
<1>4. ASSUME NEW l \in LeaseIds, Release(l)
      PROVE  Owned'
  <2>1. issued' = issued /\ holding' = holding \ {l} /\ issued[l] # None
    BY <1>4 DEF Release
  <2>2. CASE ReleaseTarget(l) = None
    <3>1. l \notin holding
      BY <1>t, <1>o, <2>1, <2>2 DEF ReleaseTarget, Active
    <3>2. QED
      BY <1>4, <1>s, <2>1, <2>2, <3>1 DEF Release, schedulerVars
  <2>3. CASE ReleaseTarget(l) # None
    <3>1. issued[l] \in Active /\ lease[issued[l]] = l /\ ReleaseTarget(l) = issued[l]
      BY <2>3 DEF ReleaseTarget
    <3>2. lease' = [lease EXCEPT ![issued[l]] = None]
      BY <1>4, <2>3, <3>1 DEF Release
    <3>3. Active' = Active \ {issued[l]}
      BY <1>t, <3>1, <3>2 DEF Active
    <3>4. \A m \in holding' : issued'[m] \in Requests /\ lease'[issued'[m]] = m
      BY <1>t, <1>o, <2>1, <3>1, <3>2
    <3>5. \A r \in Active' : issued'[lease'[r]] = r /\ lease'[r] \in holding'
      BY <1>t, <1>o, <2>1, <3>1, <3>2, <3>3 DEF Active
    <3>6. QED
      BY <3>4, <3>5 DEF Owned, HolderKeepsLease
  <2>4. QED
    BY <2>2, <2>3
<1>5. ASSUME NEW r \in Requests, Cancel(r)
      PROVE  Owned'
  BY <1>5, <1>s DEF Cancel, callerVars
<1>6. ASSUME NEW g \in Groups, NEW m \in Limits, SetConcurrencyLimit(g, m)
      PROVE  Owned'
  BY <1>6, <1>s DEF SetConcurrencyLimit, callerVars
<1>7. ASSUME NEW l \in LeaseIds, Forget(l)
      PROVE  Owned'
  <2>1. /\ l \notin holding
        /\ issued' = [issued EXCEPT ![l] = None]
        /\ lease' = lease /\ holding' = holding
    BY <1>7 DEF Forget, schedulerVars
  <2>2. QED
    BY <1>t, <1>o, <2>1 DEF Owned, HolderKeepsLease, Active
<1>8. QED
  BY <1>1, <1>2, <1>3, <1>4, <1>5, <1>6, <1>7 DEF Next

\* No release() of an older lease object, repeated or late, takes a lease away
\* from a caller that has not released it.
THEOREM HoldersKeepLeases == Spec => []HolderKeepsLease
<1>1. Init => Owned
  BY DEF Init, Owned, HolderKeepsLease, Active
<1>2. Owned => HolderKeepsLease
  BY DEF Owned
<1>3. QED
  BY <1>1, <1>2, OwnedStep, AlwaysTyped, PTL DEF Spec

\* No wake-up is lost: a handler that frees a slot or a resource, raises a limit
\* or removes a blocking entry never returns with a startable request waiting.
THEOREM NoWakeUpLost == Spec => []NoStartableWaiter
<1>1. Init => NoStartableWaiter
  BY DEF Init, NoStartableWaiter
<1>2. NoStartableWaiter /\ [Next]_vars => NoStartableWaiter'
  <2> SUFFICES ASSUME NoStartableWaiter, [Next]_vars
               PROVE  NoStartableWaiter'
    OBVIOUS
  <2> USE DEF NoStartableWaiter
  <2>1. ASSUME UNCHANGED schedulerVars
        PROVE  NoStartableWaiter'
    BY <2>1 DEF schedulerVars, Startable, CanStart, MayPassEarlier
  <2>2. ASSUME draining'
        PROVE  NoStartableWaiter'
    BY <2>2
  <2>3. CASE DrainEnds
    BY <2>3 DEF DrainEnds, Startable, CanStart, MayPassEarlier
  <2>4. CASE \E i \in 1..Len(queue) : Grant(i)
    BY <2>2, <2>4 DEF Grant
  <2>5. ASSUME NEW l \in LeaseIds, Release(l)
        PROVE  NoStartableWaiter'
    BY <2>1, <2>2, <2>5 DEF Release
  <2>6. CASE \E l \in LeaseIds : Forget(l)
    BY <2>1, <2>6 DEF Forget
  <2>7. CASE UNCHANGED vars
    BY <2>1, <2>7 DEF vars
  <2>8. QED
    BY <2>2, <2>3, <2>4, <2>5, <2>6, <2>7 DEF Next, Request, Cancel, SetConcurrencyLimit, Wake
<1>3. QED
  BY <1>1, <1>2, PTL DEF Spec

-----------------------------------------------------------------------------
(* Refinement of AdmissionSlots.                                           *)

Safe == Counted /\ GroupLimitIsMinimum

\* The running requests of AdmissionSlots are the active ones.
LEMMA SameRunning == Slots!Running = Active
  BY DEF Slots!Running, Active

\* The size of a set, as the instance of AdmissionSlots counts it.
LEMMA SameCardinality == \A S : Slots!Cardinality(S) = Cardinality(S)
  BY DEF Slots!Cardinality, Cardinality

\* A request the counters let start is admissible by the demands themselves.
LEMMA CanStartIsAdmissible ==
  ASSUME Safe, NEW r \in Requests, entry[r] \in Parameters, CanStart(r)
  PROVE  Slots!Admissible(r)
<1>a. Slots!Running = Active
  BY SameRunning
<1>1. /\ entry \in [Requests -> Parameters \cup {None}]
      /\ groupActive \in [Groups -> Nat] /\ groupMax \in [Groups -> Nat]
      /\ entry[r].group \in Groups /\ entry[r].res \subseteq Resources
      /\ None \notin Parameters
      /\ Active \subseteq Requests
  BY SchedulerAssumption DEF Safe, Counted, Typed, TypeOK, Parameters, Active
<1>2. ASSUME NEW s \in Slots!Present, Slots!SameGroup(r, s)
      PROVE  Slots!Cardinality({t \in Active : Slots!SameGroup(r, t)}) < entry[s].max
  <2>1. s \in Members(entry, entry[r].group) /\ entry[s].max \in Nat
    BY <1>1, <1>2 DEF Slots!Present, Slots!SameGroup, Members, Parameters
  <2>2. groupMax[entry[r].group] <= entry[s].max
    BY <1>1, <2>1 DEF Safe, GroupLimitIsMinimum
  <2>3. {t \in Active : Slots!SameGroup(r, t)} = {t \in Active : entry[t].group = entry[r].group}
    BY DEF Slots!SameGroup
  <2>4. groupActive[entry[r].group] = Cardinality({t \in Active : entry[t].group = entry[r].group})
    BY <1>1 DEF Safe, Counted, CountersMatchLeases
  <2>5. groupActive[entry[r].group] < groupMax[entry[r].group]
    BY DEF CanStart
  <2>6. Slots!Cardinality({t \in Active : Slots!SameGroup(r, t)}) = groupActive[entry[r].group]
    BY <2>3, <2>4, SameCardinality
  <2> DEFINE active == groupActive[entry[r].group]
             limit == groupMax[entry[r].group]
  <2>7. active \in Nat /\ limit \in Nat
    BY <1>1
  <2>8. active < entry[s].max
    <3> HIDE DEF active, limit
    <3> QED
      BY <2>1, <2>2, <2>5, <2>7 DEF active, limit
  <2>9. QED
    BY <2>6, <2>8
<1>3. ASSUME NEW t \in Active, NEW x \in entry[r].res, x \in entry[t].res
      PROVE  FALSE
  <2>1. x \in Resources /\ resCount[x] = 0
    BY <1>1, <1>3 DEF CanStart
  <2>2. Cardinality({q \in Active : x \in entry[q].res}) = 0
    BY <2>1 DEF Safe, Counted, CountersMatchLeases
  <2>3. IsFiniteSet({q \in Active : x \in entry[q].res})
    BY <1>1, ActiveFinite
  <2>4. {q \in Active : x \in entry[q].res} = {}
    BY <2>2, <2>3, FS_EmptySet
  <2>5. QED
    BY <1>3, <2>4
<1>4. QED
  BY <1>a, <1>2, <1>3 DEF Slots!Admissible

\* Every handler is a step of AdmissionSlots or leaves demands and leases alone.
LEMMA SlotsStep == Safe /\ Owned /\ [Next]_vars => [Slots!Next]_Slots!vars
<1> SUFFICES ASSUME Safe, Owned, [Next]_vars
             PROVE  [Slots!Next]_Slots!vars
  OBVIOUS
<1>t. /\ Typed
      /\ entry \in [Requests -> Parameters \cup {None}]
      /\ lease \in [Requests -> LeaseIds \cup {None}]
      /\ None \notin LeaseIds /\ None \notin Requests
      /\ Active \subseteq Slots!Present
  BY SchedulerAssumption DEF Safe, Counted, Typed, TypeOK, QueueHoldsWaiters, Active, Slots!Present
<1>a. Slots!Running = Active
  BY SameRunning
<1>o. \A l \in holding : issued[l] \in Requests /\ lease[issued[l]] = l
  BY DEF Owned, HolderKeepsLease
<1>s. ASSUME entry' = entry, lease' = lease, holding' = holding
      PROVE  UNCHANGED Slots!vars
  BY <1>s DEF Slots!vars
<1>1. ASSUME NEW i \in 1..Len(queue), Grant(i)
      PROVE  Slots!Next
  <2> DEFINE r == queue[i]
  <2>1. r \in Requests /\ entry[r] \in Parameters /\ lease[r] = None
    BY <1>t, QueuedRequest
  <2>2. CanStart(r)
    BY <1>1 DEF Grant, Startable
  <2>3. PICK l \in LeaseIds : /\ issued[l] = None
                              /\ lease' = [lease EXCEPT ![r] = l]
                              /\ holding' = holding \cup {l}
    BY <1>1 DEF Grant
  <2>4. l \in LeaseIds \ holding
    BY <1>t, <1>o, <2>3
  <2>5. r \in Slots!Present \ Slots!Running
    BY <1>a, <2>1, SchedulerAssumption DEF Slots!Present, Active
  <2>6. Slots!Admissible(r)
    BY <2>1, <2>2, CanStartIsAdmissible
  <2>7. entry' = entry
    BY <1>1 DEF Grant
  <2>8. Slots!Start(r)
    BY <2>3, <2>4, <2>5, <2>6, <2>7 DEF Slots!Start
  <2>9. QED
    BY <2>1, <2>8 DEF Slots!Next
<1>2. CASE DrainEnds \/ Wake \/ UNCHANGED vars
  BY <1>2, <1>s DEF DrainEnds, Wake, vars, schedulerVars, callerVars
<1>3. ASSUME NEW r \in Requests, NEW p \in Offers[r], Request(r, p)
      PROVE  Slots!Next
  <2>1. Slots!Ask(r)
    BY <1>3 DEF Request, Slots!Ask, Slots!Present, callerVars
  <2>2. QED
    BY <2>1 DEF Slots!Next
<1>4. ASSUME NEW l \in LeaseIds, Release(l)
      PROVE  [Slots!Next]_Slots!vars
  <2> DEFINE r == ReleaseTarget(l)
  <2>1. CASE r = None
    <3>1. l \notin holding
      BY <1>t, <1>o, <2>1 DEF ReleaseTarget, Active
    <3>2. holding' = holding
      BY <1>4, <3>1 DEF Release
    <3>3. QED
      BY <1>4, <1>s, <2>1, <3>2 DEF Release, schedulerVars
  <2>2. CASE r # None
    <3>1. r \in Active /\ lease[r] = l
      BY <1>t, <2>2 DEF ReleaseTarget
    <3>2. /\ lease' = [lease EXCEPT ![r] = None]
          /\ entry' = [entry EXCEPT ![r] = None]
          /\ holding' = holding \ {l}
      BY <1>4, <2>2 DEF Release
    <3>3. l \in holding
      BY <3>1 DEF Owned
    <3>4. Slots!GiveBack(l)
      BY <1>a, <3>1, <3>2, <3>3 DEF Slots!GiveBack
    <3>5. QED
      BY <3>4 DEF Slots!Next
  <2>3. QED
    BY <2>1, <2>2
<1>5. ASSUME NEW r \in Requests, Cancel(r)
      PROVE  Slots!Next
  <2>1. r \in Slots!Present \ Slots!Running
    BY <1>5, <1>a DEF Cancel, Waiting, Slots!Present, Active
  <2>2. entry' = [entry EXCEPT ![r] = None] /\ lease' = lease /\ holding' = holding
    BY <1>5 DEF Cancel, callerVars
  <2>3. Slots!Withdraw(r)
    BY <2>1, <2>2 DEF Slots!Withdraw
  <2>4. QED
    BY <2>3 DEF Slots!Next
<1>6. ASSUME NEW g \in Groups, NEW m \in Limits, SetConcurrencyLimit(g, m)
      PROVE  [Slots!Next]_Slots!vars
  <2>1. entry' = [r \in Requests |->
                    IF r \in Members(entry, g) /\ ~entry[r].fixed
                    THEN [entry[r] EXCEPT !.max = m] ELSE entry[r]]
        /\ lease' = lease /\ holding' = holding
    BY <1>6 DEF SetConcurrencyLimit, callerVars
  <2>2. CASE Members(entry, g) = {}
    <3>1. entry' = entry
      BY <1>t, <2>1, <2>2
    <3>2. QED
      BY <1>s, <2>1, <3>1
  <2>3. CASE Members(entry, g) # {}
    <3>1. PICK q \in Slots!Present : entry[q].group = g
      BY <2>3 DEF Members, Slots!Present
    <3>2. \A r \in Requests : r \in Members(entry, g) <=>
                                r \in Slots!Present /\ entry[r].group = g
      BY DEF Members, Slots!Present
    <3>3. Slots!ChangeLimit(entry[q].group, m)
      BY <2>1, <3>1, <3>2 DEF Slots!ChangeLimit
    <3>4. QED
      BY <3>1, <3>3 DEF Slots!Next
  <2>4. QED
    BY <2>2, <2>3
<1>7. ASSUME NEW l \in LeaseIds, Forget(l)
      PROVE  UNCHANGED Slots!vars
  BY <1>7, <1>s DEF Forget, schedulerVars
<1>8. QED
  BY <1>1, <1>2, <1>3, <1>4, <1>5, <1>6, <1>7 DEF Next

\* The queue, the counters, the cached limits and the drain loop let in exactly
\* what the demands of the present requests allow, and a run ends only by the
\* caller that holds its lease: no late or repeated release is a step of it.
THEOREM SlotsImplemented == Spec => ImplementsSlots
<1>1. Init => Slots!Init
  BY DEF Init, Slots!Init
<1>2. Init => Owned
  BY DEF Init, Owned, HolderKeepsLease, Active
<1>3. Spec => []Owned
  BY <1>2, OwnedStep, AlwaysTyped, PTL DEF Spec
<1>4. QED
  BY <1>1, <1>3, SlotsStep, AlwaysCounted, LimitCorrect, PTL
  DEF Spec, Safe, ImplementsSlots, Slots!Spec
=============================================================================
