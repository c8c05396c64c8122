----------------------------- MODULE MCChatRuns -----------------------------
(***************************************************************************)
(* Small instances of ChatRuns and ChatView: every behaviour follows one   *)
(* scenario, two turns of one thread on the server, or a panel that shows  *)
(* one of two threads while a third may be created, in which a loss counts *)
(* as one of the things the user does.                                     *)
(***************************************************************************)
EXTENDS ChatRuns, ChatView

CONSTANTS t1, t2, ta, tb, tc

VARIABLE scenario

MCInit ==
  /\ Init /\ ViewInit
  /\ \/ scenario = "runs" /\ selected = ta
     \/ scenario = "view" /\ kind = [t \in Turns |-> "process"]

MCNext ==
  /\ UNCHANGED scenario
  /\ \/ scenario = "runs" /\ Next /\ UNCHANGED viewVars
     \/ scenario = "view" /\ ViewNext /\ acts' + losses' <= MaxActs /\ UNCHANGED vars

MCSpec == MCInit /\ [][MCNext]_<<vars, viewVars, scenario>> /\ Fairness
=============================================================================
