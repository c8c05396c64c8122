----------------------------- MODULE CloudBoard -----------------------------
(***************************************************************************)
(* Projects, tasks and relations of the cloud deployment                   *)
(* (cloud/src/index.mjs).  A handler reads rows, checks its request, and   *)
(* writes with one batch of D1 statements.  Handlers of other requests run *)
(* between the reads and the batch; a batch is atomic, so whatever must    *)
(* not go stale is tested once more by the WHERE clauses of the batch, by  *)
(* triggers or by foreign keys.                                            *)
(***************************************************************************)
EXTENDS Integers, SequencesExt, FiniteSetsExt

CONSTANTS
  Projects,     \* project ids, each its own identifier prefix
  Temporary,    \* the projects with a `temp-' id, which can be deleted
  Tasks,        \* task ids: numbers, in the order of creation
  Labels,
  Requests,     \* requests under way at a time
  MaxVersion,   \* bound on the version of a task
  None,
  Deleted

RelationTypes == {"parent", "related"}
Project == [archived: BOOLEAN, labels: SUBSET Labels, next: Nat]
Row == [project: Projects, labels: SUBSET Labels, archived: BOOLEAN,
        version: 1..MaxVersion, identifier: Projects \X Nat]
Relation == [type: RelationTypes, origin: {"manual", "mention"},
             source: Tasks, target: Tasks]

\* What requests have read; those about a task know it as it was before its last version.
Request ==
  LET Seen == 1..(MaxVersion - 1)
  IN  [op: {"deleteProject"}, project: Projects]
      \cup [op: {"create"}, project: Projects, labels: SUBSET Labels, prefix: Projects]
      \cup [op: {"update"}, task: Tasks, seen: Seen, project: Projects, labels: SUBSET Labels,
            relabels: BOOLEAN, moves: BOOLEAN, logged: BOOLEAN]
      \cup [op: {"move", "archive", "restore", "delete"}, task: Tasks, seen: Seen, logged: BOOLEAN]
      \cup [op: {"addRelation"}, task: Tasks, seen: Seen, relation: Relation, logged: {TRUE},
            replaces: BOOLEAN]
      \cup [op: {"removeRelation"}, task: Tasks, seen: Seen, relation: Relation, logged: {TRUE},
            mention: BOOLEAN]

ASSUME BoardAssumption ==
  /\ Temporary \subseteq Projects /\ Tasks \subseteq Nat \ {0} /\ IsFiniteSet(Tasks)
  /\ MaxVersion \in Nat \ {0}
  /\ None # Deleted /\ None \notin Row /\ Deleted \notin Row
  /\ None \notin Project /\ None \notin Request

VARIABLES
  project,    \* archived, labels, next (task number), None when deleted
  task,       \* project, labels, archived, version and identifier; None
             \* before it is created and Deleted afterwards
  relations,  \* rows of task_relations
  activity,   \* of each task: the versions its activity rows speak of
  tied,       \* history: <<task, version>> when a request that wanted to write the
             \* version found it written by another in the same millisecond
  request     \* what each request has read, None when the slot is free

vars == <<project, task, relations, activity, tied, request>>

Present == {t \in Tasks : task[t] \notin {None, Deleted}}
TasksOf(p) == {t \in Present : task[t].project = p}

\* Two tasks of the first project, which knows every label.
Init ==
  \E first \in Projects \ Temporary, used \in SUBSET Labels :
    /\ project = [p \in Projects |->
                    [archived |-> FALSE, labels |-> IF p = first THEN Labels ELSE {},
                     next |-> IF p = first THEN 3 ELSE 1]]
    /\ task = [t \in Tasks |->
                 IF t > 2 THEN None
                 ELSE [project |-> first, labels |-> IF t = 1 THEN used ELSE {},
                       archived |-> FALSE, version |-> 1, identifier |-> <<first, t>>]]
    /\ relations = {}
    /\ activity = [t \in Tasks |-> <<>>]
    /\ tied = {}
    /\ request = [r \in Requests |-> None]

-----------------------------------------------------------------------------
(* What the handlers share.                                                *)

\* The reads are done: the handler goes on with the batch.
Enter(r, values) ==
  /\ request[r] = None
  /\ request' = [request EXCEPT ![r] = values]
  /\ UNCHANGED <<project, task, relations, activity, tied>>

Leave(r) == request' = [request EXCEPT ![r] = None]
At(r, op) == request[r] # None /\ request[r].op = op

\* requireTaskRow and assertTaskVersion against the version of the client,
\* which is the current one whenever the request is not refused.
Reading(t) == t \in Present /\ task[t].version < MaxVersion

\* UPDATE tasks SET ... WHERE id = ? AND version = ?
Unchanged(r) ==
  /\ request[r].task \in Present
  /\ task[request[r].task].version = request[r].seen

\* Another request has written the version this one wanted to write.
WrittenByAnother(r) ==
  /\ request[r].task \in Present
  /\ task[request[r].task].version = request[r].seen + 1

\* Faulty: the statements look for the next version only.
TiesOnVersion(r, same) == WrittenByAnother(r)

\* ... WHERE EXISTS (SELECT 1 FROM tasks WHERE id = ? AND version = ? AND updated_at = ?)
\* after a refused UPDATE: have both requests read the same millisecond?
Ties(r, same) == WrittenByAnother(r) /\ same

\* taskActivityStatement: one row if the task now has the next version and the
\* timestamp of this request.
Log(r) ==
  activity' = IF request[r].logged
                THEN [activity EXCEPT ![request[r].task] = Append(@, request[r].seen + 1)]
                ELSE activity

Remember(r, same) ==
  tied' = IF same /\ WrittenByAnother(r) THEN tied \cup {<<request[r].task, request[r].seen + 1>>}
          ELSE tied

\* The row is not changed, 409; the statements that look for the new version
\* and the timestamp take effect all the same after a tie.
Conflict(r) ==
  /\ \E same \in BOOLEAN : /\ Remember(r, same)
                           /\ IF Ties(r, same) THEN Log(r) ELSE UNCHANGED activity
  /\ UNCHANGED <<project, task, relations>>

\* The row gets its next version.
Updated(r, row) == [task EXCEPT ![request[r].task] = [row EXCEPT !.version = @ + 1]]

-----------------------------------------------------------------------------
(* Projects and labels.                                                    *)

SetProjectArchived(p, archived) ==
  /\ project[p] # None
  /\ project' = [project EXCEPT ![p].archived = archived]
  /\ UNCHANGED <<task, relations, activity, tied, request>>

AddProjectLabel(p, l) ==
  /\ project[p] # None
  /\ project' = [project EXCEPT ![p].labels = @ \cup {l}]
  /\ UNCHANGED <<task, relations, activity, tied, request>>

\* Faulty: the tasks keep their version.
DeleteLabelQuietly(p, l) ==
  /\ project[p] # None
  /\ project' = [project EXCEPT ![p].labels = @ \ {l}]
  /\ task' = [t \in Tasks |-> IF t \in TasksOf(p)
                                THEN [task[t] EXCEPT !.labels = @ \ {l}] ELSE task[t]]
  /\ UNCHANGED <<relations, activity, tied, request>>

\* The label leaves the project and its tasks, which get a new version.
DeleteProjectLabel(p, l) ==
  LET labelled == {t \in TasksOf(p) : l \in task[t].labels}
  IN  /\ project[p] # None
      /\ \A t \in labelled : task[t].version < MaxVersion
      /\ project' = [project EXCEPT ![p].labels = @ \ {l}]
      /\ task' = [t \in Tasks |->
                    IF t \in labelled
                      THEN [task[t] EXCEPT !.labels = @ \ {l}, !.version = @ + 1]
                      ELSE task[t]]
      /\ UNCHANGED <<relations, activity, tied, request>>

\* deleteProject counts what belongs to the project ...
DeleteProjectReads(r, p) ==
  /\ p \in Temporary /\ project[p] # None /\ TasksOf(p) = {}
  /\ Enter(r, [op |-> "deleteProject", project |-> p])

\* ... and deletes it WHERE NOT EXISTS a task.
DeleteProject(r) ==
  /\ At(r, "deleteProject")
  /\ LET p == request[r].project
     IN  project' = IF TasksOf(p) = {} THEN [project EXCEPT ![p] = None] ELSE project
  /\ Leave(r)
  /\ UNCHANGED <<task, relations, activity, tied>>

-----------------------------------------------------------------------------
(* Tasks.                                                                  *)

\* projectPrefix: the prefix of the oldest task of the project, if any.
Prefix(p) == IF TasksOf(p) = {} THEN p ELSE task[Min(TasksOf(p))].identifier[1]

CreateTaskReads(r, p, labels) ==
  /\ project[p] # None /\ ~project[p].archived
  /\ Enter(r, [op |-> "create", project |-> p, labels |-> labels, prefix |-> Prefix(p)])

\* Faulty: only the counter of the project is consulted.
NextNumberOfProject(p, prefix) == project[p].next

\* MAX(next_task_number, the highest number with this prefix + 1)
NextNumber(p, prefix) ==
  Max({project[p].next} \cup
      {task[t].identifier[2] + 1 : t \in {u \in Present : task[u].identifier[1] = prefix}})

\* INSERT ... SELECT FROM projects WHERE archived_at IS NULL, and the project
\* counts the task and learns its labels.
CreateTask(r, t) ==
  /\ At(r, "create")
  /\ LET p == request[r].project
         number == NextNumber(p, request[r].prefix)
     IN  IF project[p] # None /\ ~project[p].archived
         THEN /\ task' = [task EXCEPT ![t] =
                   [project |-> p, labels |-> request[r].labels, archived |-> FALSE,
                    version |-> 1, identifier |-> <<request[r].prefix, number>>]]
              /\ project' = [project EXCEPT ![p].next = number + 1,
                                            ![p].labels = @ \cup request[r].labels]
         ELSE UNCHANGED <<task, project>>
  /\ Leave(r)
  /\ UNCHANGED <<relations, activity, tied>>

Related(t) == {e \in relations : t \in {e.source, e.target}}

\* A change of the labels, of the project, or of other fields.
UpdateTaskReads(r, t, to, labels, fields) ==
  /\ Reading(t)
  /\ project[to] # None
  /\ to # task[t].project => Related(t) = {}
  /\ Enter(r, [op |-> "update", task |-> t, seen |-> task[t].version, project |-> to,
               labels |-> labels, relabels |-> labels # task[t].labels,
               moves |-> to # task[t].project,
               logged |-> fields \/ to # task[t].project \/ labels # task[t].labels])

\* The labels the destination learns with the task.
LabelsLearned(p, r) == IF p = request[r].project THEN request[r].labels ELSE {}

\* WHERE id = ? AND version = ? [AND NOT EXISTS a relation]
UpdateAllowed(r) ==
  /\ Unchanged(r)
  /\ request[r].moves => Related(request[r].task) = {}

\* A project that is gone fails the foreign key and with it the batch.
UpdateTask(r) ==
  /\ At(r, "update")
  /\ LET t == request[r].task
         to == request[r].project
         Learns == project' = [p \in Projects |->
                    IF project[p] = None THEN None
                    ELSE [project[p] EXCEPT !.labels = @ \cup LabelsLearned(p, r)]]
     IN  IF UpdateAllowed(r) /\ project[to] # None
         THEN /\ task' = Updated(r, [task[t] EXCEPT !.project = to,
                     !.labels = IF request[r].relabels THEN request[r].labels ELSE @])
              /\ Learns /\ Log(r) /\ UNCHANGED tied
         ELSE /\ \E same \in BOOLEAN : /\ Remember(r, same)
                                       /\ IF Ties(r, same) THEN Learns /\ Log(r)
                                          ELSE UNCHANGED <<project, activity>>
              /\ UNCHANGED task
  /\ Leave(r)
  /\ UNCHANGED relations

\* The operations that only touch the row of the task.
TaskReads(r, op, t, logged) ==
  /\ Reading(t)
  /\ op = "move" => ~task[t].archived
  /\ op \in {"restore", "delete"} => task[t].archived
  /\ Enter(r, [op |-> op, task |-> t, seen |-> task[t].version, logged |-> logged])

UpdateRow(r, op, row) ==
  /\ At(r, op)
  /\ IF Unchanged(r) THEN task' = Updated(r, row) /\ Log(r) /\ UNCHANGED <<project, relations, tied>>
     ELSE Conflict(r)
  /\ Leave(r)

MoveTask(r) == UpdateRow(r, "move", task[request[r].task])
ArchiveTask(r) == UpdateRow(r, "archive", [task[request[r].task] EXCEPT !.archived = TRUE])
RestoreTask(r) == UpdateRow(r, "restore", [task[request[r].task] EXCEPT !.archived = FALSE])

\* Relations and activity go with the task.
DeleteArchivedTask(r) ==
  /\ At(r, "delete")
  /\ LET t == request[r].task
     IN  IF Unchanged(r) /\ task[t].archived
         THEN /\ task' = [task EXCEPT ![t] = Deleted]
              /\ relations' = relations \ Related(t)
              /\ activity' = [activity EXCEPT ![t] = <<>>]
         ELSE UNCHANGED <<task, relations, activity, tied>>
  /\ Leave(r)
  /\ UNCHANGED <<project, tied>>

-----------------------------------------------------------------------------
(* Relations.                                                              *)

\* WITH RECURSIVE ancestors: the least set with the parents of t and of its members.
Ancestors(t, rels) ==
  LET Parents(S) == {e.source : e \in {x \in rels : x.type = "parent" /\ x.target \in S}}
  IN  {a \in Tasks : \A S \in SUBSET Tasks : Parents({t} \cup S) \subseteq S => a \in S}

\* relationEndpoints: `related' pairs are sorted.
Endpoints(type, t, other, origin) ==
  [type |-> type, origin |-> origin,
   source |-> IF type = "parent" THEN other ELSE Min({t, other}),
   target |-> IF type = "parent" THEN t ELSE Max({t, other})]

SameEnds(e) == {x \in relations : /\ x.type = e.type
                                  /\ x.source = e.source /\ x.target = e.target}

ParentOf(t) == {x \in relations : x.type = "parent" /\ x.target = t}

\* assertRelationTasks
RelationTasks(t, other) ==
  /\ Reading(t) /\ other \in Present
  /\ t # other
  /\ task[t].project = task[other].project

\* A parent replaces the one that was read.
AddRelationReads(r, type, t, other, origin) ==
  /\ RelationTasks(t, other)
  /\ type = "parent" => t \notin Ancestors(other, relations)
  /\ SameEnds(Endpoints(type, t, other, origin)) = {}
  /\ Enter(r, [op |-> "addRelation", task |-> t, seen |-> task[t].version,
               relation |-> Endpoints(type, t, other, origin), logged |-> TRUE,
               replaces |-> type = "parent" /\ ParentOf(t) # {}])

\* Faulty: the cycle that was looked for is not looked for again.
InsertAllowedAsRead(e, kept) ==
  /\ e.source \in Present
  /\ task[e.source].project = task[e.target].project
  /\ ~ \E x \in kept : x.target = e.target /\ x.type = e.type /\
         (e.type = "parent" \/ x.source = e.source)

\* The foreign keys, checks, unique keys of task_relations and the triggers of
\* migrations 0001 and 0005: a row they refuse fails the whole batch.
InsertAllowed(e, kept) ==
  /\ e.source \in Present /\ e.target \in Present /\ e.source # e.target
  /\ task[e.source].project = task[e.target].project
  /\ e.type = "parent" => e.target \notin Ancestors(e.source, kept)
  /\ ~ \E x \in kept : /\ x.type = e.type /\ x.target = e.target
                       /\ e.type = "parent" \/ x.source = e.source

AddRelation(r) ==
  /\ At(r, "addRelation")
  /\ LET t == request[r].task
         e == request[r].relation
         kept == relations \ (IF request[r].replaces THEN ParentOf(t) ELSE {})
     IN  IF ~Unchanged(r) THEN Conflict(r)
         ELSE IF InsertAllowed(e, kept)
         THEN /\ relations' = kept \cup {e}
              /\ task' = Updated(r, task[t]) /\ Log(r)
              /\ UNCHANGED <<project, tied>>
         ELSE UNCHANGED <<project, task, relations, activity, tied>>
  /\ Leave(r)

\* A client that no longer sees a mention removes the relation it stands for.
RemoveRelationReads(r, type, t, other, mention) ==
  /\ RelationTasks(t, other)
  /\ \E e \in SameEnds(Endpoints(type, t, other, "manual")) :
       /\ mention => e.origin = "mention"
       /\ Enter(r, [op |-> "removeRelation", task |-> t, seen |-> task[t].version,
                    relation |-> e, logged |-> TRUE, mention |-> mention])

\* The mention may still be in the text of a task or a comment; then nothing
\* changes.  Other requests are carried out even if the relation is gone.
RemoveRelation(r) ==
  /\ At(r, "removeRelation")
  /\ \E cited \in IF request[r].mention THEN BOOLEAN ELSE {FALSE} :
       LET t == request[r].task
           gone == IF ~Unchanged(r) \/ cited THEN {}
                   ELSE {e \in SameEnds(request[r].relation) :
                           request[r].mention => e.origin = "mention"}
       IN  IF Unchanged(r) /\ (request[r].mention => gone # {})
           THEN /\ relations' = relations \ gone
                /\ task' = Updated(r, task[t]) /\ Log(r)
                /\ UNCHANGED <<project, tied>>
           ELSE Conflict(r)
  /\ Leave(r)

-----------------------------------------------------------------------------
ProjectNext ==
  \E p \in Projects :
    \/ \E archived \in BOOLEAN : SetProjectArchived(p, archived)
    \/ \E l \in Labels : AddProjectLabel(p, l) \/ DeleteProjectLabel(p, l)
    \/ \E r \in Requests : \/ DeleteProjectReads(r, p)
                           \/ \E labels \in SUBSET Labels : CreateTaskReads(r, p, labels)

\* The next task id that was never used.
Fresh == {t \in Tasks : task[t] = None /\ \A u \in Tasks : u < t => task[u] # None}

\* A request begins with the row of its task.
ReadNext ==
  \E r \in {q \in Requests : request[q] = None}, t \in Present :
    \/ \E p \in Projects, labels \in SUBSET Labels, fields \in BOOLEAN :
         UpdateTaskReads(r, t, p, labels, fields)
    \/ \E op \in {"archive", "restore", "delete"} : TaskReads(r, op, t, TRUE)
    \/ \E restaged \in BOOLEAN : TaskReads(r, "move", t, restaged)
    \/ \E type \in RelationTypes, other \in Tasks :
         \/ \E origin \in {"manual", "mention"} : AddRelationReads(r, type, t, other, origin)
         \/ \E mention \in BOOLEAN : RemoveRelationReads(r, type, t, other, mention)

WriteNext ==
  \E r \in Requests :
    \/ \E t \in Fresh : CreateTask(r, t)
    \/ DeleteProject(r)
    \/ UpdateTask(r)
    \/ MoveTask(r)
    \/ ArchiveTask(r)
    \/ RestoreTask(r)
    \/ DeleteArchivedTask(r)
    \/ AddRelation(r)
    \/ RemoveRelation(r)

Next == ProjectNext \/ ReadNext \/ WriteNext
Spec == Init /\ [][Next]_vars

-----------------------------------------------------------------------------
(* Properties.                                                             *)

\* Every row has its type and its foreign keys name rows that exist.
TypeOK ==
  /\ project \in [Projects -> Project \cup {None}]
  /\ task \in [Tasks -> Row \cup {None, Deleted}]
  /\ relations \subseteq Relation
  /\ \A t \in Present : project[task[t].project] # None
  /\ activity \in [Tasks -> Seq(1..MaxVersion)]
  /\ tied \subseteq Tasks \X (1..MaxVersion)
  /\ request \in [Requests -> Request \cup {None}]

\* No two tasks ever have one identifier, whatever prefix a project takes over
\* from a task that was moved to it and whichever request is written first.
IdentifiersUnique ==
  \A t, u \in Present : task[t].identifier = task[u].identifier => t = u

\* Relations stay within one project, although tasks change projects.
RelationsWithinProject ==
  \A e \in relations : /\ {e.source, e.target} \subseteq Present
                       /\ task[e.source].project = task[e.target].project

\* Parents form a forest, although two requests may each add one half of a
\* cycle after both have found none.
ParentsFormForest ==
  /\ \A t \in Tasks : Cardinality(ParentOf(t)) <= 1
  /\ \A t \in Tasks : t \notin Ancestors(t, relations)

\* What addRelation checks before its batch still holds after it, whatever other
\* requests have written in between.
RelationsSound == RelationsWithinProject /\ ParentsFormForest

\* A project knows every label its tasks carry.
LabelsKnown == \A t \in Present : task[t].labels \subseteq project[task[t].project].labels

\* An activity row speaks of a change that happened, and two rows speak of one
\* version only if two requests wanted to write it in the same millisecond.
OneActivityPerVersion ==
  \A t \in Present : \A i \in DOMAIN activity[t] :
    /\ activity[t][i] <= task[t].version
    /\ \A j \in DOMAIN activity[t] :
         activity[t][i] = activity[t][j] => i = j \/ <<t, activity[t][i]>> \in tied

\* Does not hold: no refused request leaves a row of activity.
ActivityNeverDoubled == \A t \in Present : IsInjective(activity[t])

\* The rows of the board agree with each other, although every batch is written
\* long after the reads it was computed from.
BoardConsistent == TypeOK /\ IdentifiersUnique /\ LabelsKnown /\ OneActivityPerVersion

\* Request r wants to change a task, whose next version another one has written
\* in the same millisecond, and takes that for its own.
TakesForItsOwn(r) ==
  /\ At(r, "update") /\ request'[r] = None
  /\ <<request[r].task, request[r].seen + 1>> \in tied'

\* A label comes (back) to a project only by AddProjectLabel or with a task
\* that carries it: no request that read an older row revives a deleted label.
\* The one that does takes the row of another request for its own.
LabelsComeWithTasks ==
  [][\A p \in Projects : project[p] # None /\ project'[p] # None /\ request' # request =>
       \A l \in project'[p].labels \ project[p].labels :
         \/ \E t \in Present' : task'[t].project = p /\ l \in task'[t].labels
         \/ \E r \in Requests : /\ TakesForItsOwn(r)
                               /\ p = request[r].project /\ l \in request[r].labels]_vars

\* Does not hold: without that exception.
LabelsNeverRevived ==
  [][\A p \in Projects : project[p] # None /\ project'[p] # None /\ request' # request =>
       \A l \in project'[p].labels \ project[p].labels :
         \E t \in Present' : task'[t].project = p /\ l \in task'[t].labels]_vars

\* A task starts its life in a project that is not archived at that moment.
CreatedInActiveProject ==
  [][\A t \in Tasks : task[t] = None /\ t \in Present' =>
       project[task'[t].project] # None /\ ~project[task'[t].project].archived]_vars

\* A project that was archived, or a label that was deleted, between the reads of a
\* request and its batch is not written to.
ProjectsGuarded == LabelsComeWithTasks /\ CreatedInActiveProject
=============================================================================
