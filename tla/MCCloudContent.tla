--------------------------- MODULE MCCloudContent ---------------------------
(***************************************************************************)
(* Small instances of CloudContent, RevisionFeed, WorkflowFlow,            *)
(* WorkflowMigration and WorkflowSync.  Every behaviour follows one        *)
(* scenario, in which the other modules stand still.  Of the cloud:        *)
(* comments change and are read, attachments come and go, or the workflow  *)
(* is saved while the project is archived.  Of a client: connections and   *)
(* broadcasts fail while others write, or the client moves the task itself *)
(* and only its loads and moves fail.  Of the workflow board: the flow is  *)
(* edited, an old workflow is migrated, or the workspace is kept saved.    *)
(***************************************************************************)
EXTENDS CloudContent, RevisionFeed, WorkflowMigration, WorkflowSync

CONSTANTS c1, c2, a1, a2, r1, r2, t1, t2, k1, k2, s1, s2, p1, i1, b0, b1

VARIABLE scenario

Started(r) == request[r] = None /\ request'[r] # None

Operations == [comments |-> {"updateComment", "deleteComment"},
               blobs    |-> {"deleteComment", "upload", "deleteAttachment", "deleteTask"},
               workflow |-> {"workflow"}]

ContentStep ==
  /\ Next
  /\ \A r \in Requests : Started(r) => request'[r].op \in Operations[scenario]
  /\ scenario # "comments" => reader' = reader
  /\ scenario = "blobs" => comment'[c2] = None
  /\ scenario = "workflow" => \A c \in Comments : comment'[c] = None
  /\ scenario # "workflow" => archived' = archived

FeedStep ==
  /\ FeedNext
  /\ scenario = "connections" => moves' = 0
  /\ scenario = "moves" => /\ lost' = 0
                           /\ socket' = socket \/ socket' \notin {"closed", "poll"}
                           /\ moves' > moves => shown.version < MaxCommits

\* The variables of the modules that a scenario is not about.
OthersStandStill ==
  /\ scenario \notin DOMAIN Operations => UNCHANGED vars
  /\ scenario \notin {"connections", "moves"} => UNCHANGED feedVars
  /\ scenario # "flow" => UNCHANGED flowVars
  /\ scenario # "migration" => UNCHANGED migrationVars
  /\ scenario # "sync" => UNCHANGED syncVars

MCInit ==
  /\ scenario \in DOMAIN Operations \cup {"connections", "moves", "flow", "migration", "sync"}
  /\ Init /\ FeedInit /\ FlowInit /\ SyncInit
  /\ scenario # "connections" => socket = "closed"
  /\ scenario # "sync" => saved = <<>> /\ ~legacy
  /\ IF scenario = "migration" THEN MigrationInit
     ELSE snapshot = NotYet /\ migrated = NotYet

MCNext ==
  /\ UNCHANGED scenario /\ OthersStandStill
  /\ \/ scenario \in DOMAIN Operations /\ ContentStep
     \/ scenario \in {"connections", "moves"} /\ FeedStep
     \/ scenario = "flow" /\ FlowNext
     \/ scenario = "migration" /\ MigrateWorkflowSnapshotV1
     \/ scenario = "sync" /\ SyncNext

MCSpec ==
  MCInit /\ [][MCNext]_<<vars, feedVars, flowVars, migrationVars, syncVars, scenario>> /\ FeedFairness
=============================================================================
