------------------------ MODULE MCExecutionCoordinator ------------------------
(***************************************************************************)
(* Instances of ExecutionCoordinator and of its inductive invariant for    *)
(* TLC.                                                                    *)
(***************************************************************************)
EXTENDS CoordinatorInv

CONSTANTS t1, t2

TwoIds == 1..2
ThreeIds == 1..3
SixIds == 1..6

\* The two tasks are interchangeable when both are automatic.
TaskSymmetry == Permutations(Tasks)

\* Scenarios for liveness: one task at most is archived, a user retries only a
\* task that is not automatic, while the other one has no reservation, and no step
\* closes the coordinator, after which ReservationsSettle says nothing.
LiveBound ==
  /\ ~closed'
  /\ \A t, u \in Tasks : archived'[t] /\ archived'[u] => t = u
  /\ \A t, u \in Tasks : row[t] = Nil /\ row'[t] # Nil /\ row'[t].trigger = "retry" /\ t # u
                          => t \notin Automatic /\ row[u] = Nil

LiveSpec ==
  CoordinatorInit /\ [][CoordinatorNext /\ LiveBound]_coordinatorVars /\ CoordinatorFairness
=============================================================================
