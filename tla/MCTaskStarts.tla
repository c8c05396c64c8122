---------------------------- MODULE MCTaskStarts ----------------------------
(* One task.  Users and crashes interfere up to three times with its first *)
(* start, and once when there is a second: twice if only users do, and the *)
(* second is a local one.                                                  *)
EXTENDS TaskStarts

Bounded ==
  started' = MaxStarts =>
    edits' + restarts' <= (IF MaxStarts \in local' /\ restarts' = 0 THEN 2 ELSE 1)

MCSpec == Init /\ [][Next /\ Bounded]_vars /\ Fairness
=============================================================================
