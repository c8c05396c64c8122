---------------------------- MODULE MCCloudBoard ----------------------------
(***************************************************************************)
(* Small instances of CloudBoard and of the automations that work on a     *)
(* board, AutomationPolicy and RemoteRuns.  Every behaviour follows one of *)
(* four scenarios: tasks are created, related and moved between projects;  *)
(* labels and rows change while tasks are archived, restored and deleted;  *)
(* the policy of a project is saved and checked; runs of the injector work *)
(* on a task of a remote project.                                          *)
(***************************************************************************)
EXTENDS CloudBoard, AutomationPolicy, RemoteRuns

CONSTANTS p1, p2, l1, r1, r2

VARIABLE scenario

ThreeTasks == 1..3
Symmetry == Permutations({r1, r2})

\* Three writes to the tasks.
Writes(t) == IF t \in Present' THEN task'[t].version - 1 ELSE 0
ThreeWrites == Writes(1) + Writes(2) + Writes(3) <= 3

Started(r) == request[r] = None /\ request'[r] # None

SomeRelation(e) ==
  IF e.type = "parent" THEN e.origin = "manual" ELSE e.source = 1 /\ e.target = 2

\* Ties of other requests are left to the rows.
TiesOfRelations ==
  /\ Cardinality(tied') <= 1
  /\ tied' # tied => \E r \in Requests : /\ request[r] # request'[r]
                                        /\ request[r].op \in {"addRelation", "removeRelation"}

Structure ==
  /\ TiesOfRelations
  /\ \A p \in Projects : project'[p] # None => ~project'[p].archived
                                            /\ project'[p].labels = project[p].labels
  /\ \A r \in Requests : Started(r) =>
       \/ request'[r].op \in {"deleteProject", "removeRelation"}
       \/ request'[r].op = "addRelation" /\ SomeRelation(request'[r].relation)
       \/ request'[r].op = "create" /\ request'[r].labels = {}
       \/ request'[r].op = "update" /\ request'[r].moves /\ request'[r].labels = {}

Rows ==
  /\ relations' = {}
  /\ project'[p2] # None /\ ~project'[p2].archived
  /\ task'[2] = task[2]
  /\ \A r \in Requests : Started(r) =>
       /\ request'[r].op = "create" => request'[r].project = p1
       /\ request'[r].op \in {"update", "move"} => request'[r].logged
       /\ request'[r].op # "deleteProject"
       /\ request'[r].op # "create" => request'[r].task = 1

\* Saves, the board's checks, Codex and troubles take each other's place.
MaxEvents == 4
PolicyEvents == Len(rec') + checks' + changes' + troubles' <= MaxEvents

MCInit ==
  /\ Init /\ PolicyInit /\ RemoteInit
  /\ scenario \in {"structure", "rows", "policy", "remote"}
  /\ scenario # "rows" => task[1].labels = {}
  /\ item \in IF scenario = "policy" THEN {"none", "PAUSED"} ELSE {"none"}

MCNext ==
  /\ UNCHANGED scenario
  /\ \/ scenario = "structure" /\ Next /\ Structure /\ ThreeWrites /\ UNCHANGED <<policyVars, remoteVars>>
     \/ scenario = "rows" /\ Next /\ Rows /\ ThreeWrites /\ UNCHANGED <<policyVars, remoteVars>>
     \/ scenario = "policy" /\ PolicyNext /\ PolicyEvents /\ UNCHANGED <<vars, remoteVars>>
     \/ scenario = "remote" /\ RemoteNext /\ UNCHANGED <<vars, policyVars>>

MCSpec == MCInit /\ [][MCNext]_<<vars, policyVars, remoteVars, scenario>>
=============================================================================
