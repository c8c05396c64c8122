--------------------------- MODULE AdmissionSlots ---------------------------
(***************************************************************************)
(* What the scheduler promises its callers, without its queue, counters,   *)
(* cached limits and drain loop: requests come with a demand and run when  *)
(* every demand around them allows it.  Who is let in is given a lease;    *)
(* only the caller that holds the lease ends the run, by giving it back.   *)
(* ResourceScheduler implements this module.                               *)
(***************************************************************************)
EXTENDS Naturals, FiniteSets

CONSTANTS
  Requests,  \* request ids
  Offers,    \* Offers[r]: the demands request r may come with
  Limits,    \* limits a group may be given later
  Leases,
  None

VARIABLES
  demand,    \* what each present request asks for, None for an absent one
  owner,     \* the lease each running request was let in with, or None
  held       \* the leases that callers have and have not given back

vars == <<demand, owner, held>>

Present == {r \in Requests : demand[r] # None}
Running == {r \in Requests : owner[r] # None}
SameGroup(r, s) == demand[r].group = demand[s].group

Init ==
  /\ demand = [r \in Requests |-> None]
  /\ owner = [r \in Requests |-> None]
  /\ held = {}

Ask(r) ==
  /\ r \notin Present
  /\ \E p \in Offers[r] : demand' = [demand EXCEPT ![r] = p]
  /\ UNCHANGED <<owner, held>>

\* One more run of the group is within the limit of every present request of
\* that group, and no running request holds a resource r needs.
Admissible(r) ==
  /\ \A s \in Present : SameGroup(r, s) =>
       Cardinality({t \in Running : SameGroup(r, t)}) < demand[s].max
  /\ \A t \in Running : demand[r].res \cap demand[t].res = {}

Start(r) ==
  /\ r \in Present \ Running
  /\ Admissible(r)
  /\ \E l \in Leases \ held :
       /\ owner' = [owner EXCEPT ![r] = l]
       /\ held' = held \cup {l}
  /\ UNCHANGED demand

\* A request that has not been let in is withdrawn.
Withdraw(r) ==
  /\ r \in Present \ Running
  /\ demand' = [demand EXCEPT ![r] = None]
  /\ UNCHANGED <<owner, held>>

\* The caller that holds lease l gives it back, which ends the run that owns it:
\* there is no other way for a run to end, and no run that outlives its lease.
GiveBack(l) ==
  /\ l \in held
  /\ \E r \in Running :
       /\ owner[r] = l
       /\ demand' = [demand EXCEPT ![r] = None]
       /\ owner' = [owner EXCEPT ![r] = None]
  /\ held' = held \ {l}

\* The demands of a group that are not fixed get a new limit.
ChangeLimit(g, m) ==
  /\ demand' = [r \in Requests |->
                  IF r \in Present /\ demand[r].group = g /\ ~demand[r].fixed
                  THEN [demand[r] EXCEPT !.max = m] ELSE demand[r]]
  /\ UNCHANGED <<owner, held>>

Next ==
  \/ \E r \in Requests : Ask(r) \/ Start(r) \/ Withdraw(r)
  \/ \E l \in Leases : GiveBack(l)
  \/ \E r \in Present, m \in Limits : ChangeLimit(demand[r].group, m)

Spec == Init /\ [][Next]_vars
=============================================================================
