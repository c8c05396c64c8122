---------------------------- MODULE CloudContent ----------------------------
(***************************************************************************)
(* What hangs on one task of the cloud deployment (cloud/src/index.mjs):   *)
(* its comments, the attachments of the task and of its comments with      *)
(* their blobs in R2, the workflow of its project, and the incremental     *)
(* lists of comments a client reads with a cursor.  Rows live in D1, blobs *)
(* in R2: no transaction spans the two, and other handlers run at every    *)
(* await between them.                                                     *)
(***************************************************************************)
EXTENDS Integers, FiniteSets, SequencesExt

CONSTANTS
  Comments,     \* comment ids
  Attachments,  \* attachment ids
  Requests,     \* requests under way at a time
  MaxVersion,   \* bound on the version of a comment and of the workflow
  MaxRevision,  \* bound on the global revision
  MaxFaults,    \* bound on failing accesses of R2
  MaxArchives,  \* bound on changes of the project's archive flag
  None,
  Deleted,
  Task          \* the owner of attachments that belong to no comment

VARIABLES
  revision,    \* global_revision, increased by the triggers
  comment,     \* version and change_revision; None, later Deleted
  attachment,  \* the owner while there is a row; None, later Deleted
  removedBy,   \* of each attachment: the operation that has deleted its row
  unanswered,  \* attachments whose row D1 has stored without an answer
  blobs,       \* keys of R2
  taskExists,
  reader,      \* a client: its cursor and the comment versions it knows
  archived,    \* of the project: its archive flag and how often it changed
  workflow,    \* the version of the workflow, 0 without a row
  acked,       \* the versions over which a client was told its workflow is saved
  request,
  faults

contentVars == <<revision, comment, attachment, removedBy, unanswered, blobs, taskExists>>
workflowVars == <<archived, workflow, acked>>
vars == <<contentVars, reader, workflowVars, request, faults>>

IsRow(x) == x \notin {None, Deleted}
Rows(of) == {x \in DOMAIN of : IsRow(of[x])}
AttachmentsOf(o) == {a \in Rows(attachment) : attachment[a] = o}

Init ==
  /\ revision = 0
  /\ comment = [c \in Comments |-> None]
  /\ attachment = [a \in Attachments |-> None]
  /\ removedBy = attachment /\ unanswered = {}
  /\ blobs = {}
  /\ taskExists = TRUE
  /\ reader = [cursor |-> 0, known |-> [c \in Comments |-> 0]]
  /\ archived = [flag |-> FALSE, changes |-> 0]
  /\ workflow = 0 /\ acked = <<>>
  /\ request = [r \in Requests |-> None]
  /\ faults = 0

At(r, op, pc) == request[r] # None /\ request[r].op = op /\ request[r].pc = pc
Enter(r, values) == request[r] = None /\ request' = [request EXCEPT ![r] = values]
Goto(r, pc) == request' = [request EXCEPT ![r].pc = pc]
Leave(r) == request' = [request EXCEPT ![r] = None]

\* The triggers count every row that is inserted, updated or deleted.
Count(rows) == revision + rows <= MaxRevision /\ revision' = revision + rows

\* Faulty: the revision before the change.
RevisionRead == revision

\* (SELECT revision + 1 FROM global_revision)
ChangeRevision == revision + 1

-----------------------------------------------------------------------------
(* Comments and their feed.                                                *)

CreateComment(c) ==
  /\ taskExists /\ comment[c] = None
  /\ comment' = [comment EXCEPT ![c] = [version |-> 1, changed |-> ChangeRevision]]
  /\ Count(1)
  /\ UNCHANGED <<attachment, removedBy, unanswered, blobs, taskExists, reader, workflowVars, request, faults>>

\* updateComment and deleteComment read the row and check its version.
CommentReads(r, op, c) ==
  /\ c \in Rows(comment)
  /\ comment[c].version < MaxVersion
  /\ Enter(r, [op |-> op, pc |-> "write", comment |-> c, seen |-> comment[c].version,
               listed |-> IF op = "deleteComment" THEN AttachmentsOf(c) ELSE {}])
  /\ UNCHANGED <<contentVars, reader, workflowVars, faults>>

RemoveAttachments(set, op) ==
  /\ attachment' = [a \in Attachments |-> IF a \in set THEN Deleted ELSE attachment[a]]
  /\ removedBy' = [a \in Attachments |-> IF a \in set THEN op ELSE removedBy[a]]
  /\ UNCHANGED unanswered

CommentUnchanged(r) ==
  LET c == request[r].comment IN IsRow(comment[c]) /\ comment[c].version = request[r].seen

UpdateComment(r) ==
  /\ At(r, "updateComment", "write")
  /\ IF CommentUnchanged(r)
       THEN /\ comment' = [comment EXCEPT ![request[r].comment] =
                             [version |-> @.version + 1, changed |-> ChangeRevision]]
            /\ Count(1)
       ELSE UNCHANGED <<comment, revision>>
  /\ Leave(r)
  /\ UNCHANGED <<attachment, removedBy, unanswered, blobs, taskExists, reader, workflowVars, faults>>

\* The rows of its attachments go with the comment; the blobs of those that
\* were listed follow.
DeleteComment(r) ==
  /\ At(r, "deleteComment", "write")
  /\ LET c == request[r].comment
     IN  IF CommentUnchanged(r)
         THEN /\ comment' = [comment EXCEPT ![c] = Deleted]
              /\ RemoveAttachments(AttachmentsOf(c), "deleteComment")
              /\ Count(1 + Cardinality(AttachmentsOf(c)))
              /\ Goto(r, "blobs")
         ELSE Leave(r) /\ UNCHANGED <<comment, attachment, removedBy, unanswered, revision>>
  /\ UNCHANGED <<blobs, taskExists, reader, workflowVars, faults>>

\* listComments without a cursor, listCommentsAfter with one: the client keeps
\* what it knows and adds the rows of the answer.
ReadComments ==
  LET rows == {c \in Rows(comment) : comment[c].changed > reader.cursor}
  IN  /\ taskExists
      /\ reader' = [cursor |-> IF rows = {} THEN reader.cursor
                               ELSE CHOOSE n \in {comment[c].changed : c \in rows} :
                                      \A c \in rows : comment[c].changed <= n,
                    known |-> [c \in Comments |-> IF c \in rows THEN comment[c].version
                                                  ELSE reader.known[c]]]
      /\ reader' # reader
      /\ UNCHANGED <<contentVars, workflowVars, request, faults>>

-----------------------------------------------------------------------------
(* Attachments and blobs.                                                  *)

Uploading == {request[r].id : r \in {s \in Requests : request[s] # None /\ request[s].op = "upload"}}

\* uploadAttachment has checked that its owner exists.
UploadReads(r, a, o) ==
  /\ attachment[a] = None /\ a \notin blobs \cup Uploading
  /\ IF o = Task THEN taskExists ELSE o \in Rows(comment)
  /\ Enter(r, [op |-> "upload", pc |-> "put", id |-> a, owner |-> o])
  /\ UNCHANGED <<contentVars, reader, workflowVars, faults>>

\* Faulty: the row is inserted while the blob is still on its way.
PutLater(r) ==
  /\ At(r, "upload", "put")
  /\ Goto(r, "insert")
  /\ UNCHANGED <<contentVars, reader, workflowVars, faults>>

Put(r) ==
  /\ At(r, "upload", "put")
  /\ blobs' = blobs \cup {request[r].id}
  /\ Goto(r, "insert")
  /\ UNCHANGED <<revision, comment, attachment, removedBy, unanswered, taskExists, reader, workflowVars, faults>>

HasOwner(o) == taskExists /\ (o # Task => o \in Rows(comment))

InsertRow(r) ==
  attachment' = [attachment EXCEPT ![request[r].id] = request[r].owner] /\ Count(1)

\* The foreign keys fail if the task or the comment is gone by now; the blob is
\* then taken back.
Insert(r) ==
  /\ At(r, "upload", "insert")
  /\ IF HasOwner(request[r].owner) THEN InsertRow(r) /\ Leave(r)
     ELSE Goto(r, "undo") /\ UNCHANGED <<attachment, revision>>
  /\ UNCHANGED <<comment, removedBy, unanswered, blobs, taskExists, reader, workflowVars, faults>>

\* D1 fails, before it has stored the row or after: the handler cannot tell, and takes
\* the blob back.
InsertFails(r) ==
  /\ At(r, "upload", "insert")
  /\ faults < MaxFaults /\ faults' = faults + 1
  /\ \/ /\ HasOwner(request[r].owner) /\ InsertRow(r)
        /\ unanswered' = unanswered \cup {request[r].id}
     \/ UNCHANGED <<attachment, revision, unanswered>>
  /\ Goto(r, "undo")
  /\ UNCHANGED <<comment, removedBy, blobs, taskExists, reader, workflowVars>>

UndoPut(r) ==
  /\ At(r, "upload", "undo")
  /\ blobs' = blobs \ {request[r].id}
  /\ Leave(r)
  /\ UNCHANGED <<revision, comment, attachment, removedBy, unanswered, taskExists, reader, workflowVars, faults>>

\* deleteAttachment: first the row, then the blob.
DeleteAttachment(r, a) ==
  /\ a \in Rows(attachment)
  /\ RemoveAttachments({a}, "deleteAttachment")
  /\ Count(1)
  /\ Enter(r, [op |-> "deleteAttachment", pc |-> "blobs", listed |-> {a}])
  /\ UNCHANGED <<comment, blobs, taskExists, reader, workflowVars, faults>>

TaskRows == 1 + Cardinality(Rows(comment)) + Cardinality(Rows(attachment))

\* SELECT id FROM attachments WHERE task_id = ?
ListedWithTask == Rows(attachment)

\* deleteArchivedTask lists the attachments in the batch that deletes the task;
\* comments and attachments go with it.
DeleteTask(r) ==
  /\ taskExists /\ taskExists' = FALSE
  /\ comment' = [c \in Comments |-> IF IsRow(comment[c]) THEN Deleted ELSE comment[c]]
  /\ RemoveAttachments(Rows(attachment), "deleteTask")
  /\ Count(TaskRows)
  /\ Enter(r, [op |-> "deleteTask", pc |-> "blobs", listed |-> ListedWithTask])
  /\ UNCHANGED <<blobs, reader, workflowVars, faults>>

DeleteBlobs(r) ==
  /\ request[r] # None /\ request[r].pc = "blobs"
  /\ blobs' = blobs \ request[r].listed
  /\ Leave(r)
  /\ UNCHANGED <<revision, comment, attachment, removedBy, unanswered, taskExists, reader, workflowVars, faults>>

\* R2 fails, the Worker is stopped, or D1's answer to a deletion is lost: the rest of
\* the handler is lost.
BlobFails(r) ==
  /\ request[r] # None /\ request[r].pc \in {"put", "insert", "undo", "blobs"}
  /\ faults < MaxFaults /\ faults' = faults + 1
  /\ Leave(r)
  /\ UNCHANGED <<contentVars, reader, workflowVars>>

-----------------------------------------------------------------------------
(* The workflow of the project.                                            *)

SetArchived ==
  /\ archived.changes < MaxArchives
  /\ archived' = [flag |-> ~archived.flag, changes |-> archived.changes + 1]
  /\ Count(1)
  /\ UNCHANGED <<comment, attachment, removedBy, unanswered, blobs, taskExists, reader, workflow, acked, request, faults>>

\* saveWorkflow has found an active project and the version of the client.
WorkflowReads(r) ==
  /\ ~archived.flag /\ workflow < MaxVersion
  /\ Enter(r, [op |-> "workflow", pc |-> "write", seen |-> workflow])
  /\ UNCHANGED <<contentVars, reader, workflowVars, faults>>

\* Faulty: ON CONFLICT DO UPDATE, as saveProjectReadme stores its row.
StoredUpsert(r) == ~archived.flag

\* UPDATE ... WHERE version = ?, or INSERT, which the primary key refuses if
\* another request has inserted the row.
Stored(r) == ~archived.flag /\ workflow = request[r].seen

Ack(r) == acked' = Append(acked, request[r].seen)

\* Afterwards a request whose statement has changed nothing fails, unless it
\* was an INSERT and the project is active again.
SaveWorkflow(r) ==
  /\ At(r, "workflow", "write")
  /\ IF Stored(r) THEN workflow' = workflow + 1 /\ Ack(r) /\ Count(1) /\ Leave(r)
     ELSE /\ IF archived.flag /\ request[r].seen = 0 THEN Goto(r, "recheck") ELSE Leave(r)
          /\ UNCHANGED <<workflow, acked, revision>>
  /\ UNCHANGED <<comment, attachment, removedBy, unanswered, blobs, taskExists, reader, archived, faults>>

\* requireActiveProject after the INSERT.
RecheckProject(r) ==
  /\ At(r, "workflow", "recheck")
  /\ IF archived.flag THEN UNCHANGED acked ELSE Ack(r)
  /\ Leave(r)
  /\ UNCHANGED <<contentVars, reader, archived, workflow, faults>>

-----------------------------------------------------------------------------
Next ==
  \/ \E c \in Comments : CreateComment(c)
  \/ ReadComments
  \/ SetArchived
  \/ \E r \in Requests :
       \/ \E c \in Comments, op \in {"updateComment", "deleteComment"} : CommentReads(r, op, c)
       \/ UpdateComment(r)
       \/ DeleteComment(r)
       \/ \E a \in Attachments : \/ \E o \in Comments \cup {Task} : UploadReads(r, a, o)
                                 \/ DeleteAttachment(r, a)
       \/ Put(r)
       \/ Insert(r)
       \/ InsertFails(r)
       \/ UndoPut(r)
       \/ DeleteTask(r)
       \/ DeleteBlobs(r)
       \/ BlobFails(r)
       \/ WorkflowReads(r)
       \/ SaveWorkflow(r)
       \/ RecheckProject(r)

Spec == Init /\ [][Next]_vars

-----------------------------------------------------------------------------
(* Properties.                                                             *)

\* What a request remembers between its steps: an edit of a comment, an upload, a
\* deletion whose blobs are still there, a save of the workflow.
Edits == [op : {"updateComment", "deleteComment"}, pc : {"write", "blobs"}, comment : Comments,
          seen : 0..(MaxVersion - 1), listed : SUBSET Attachments]
Uploads == [op : {"upload"}, pc : {"put", "insert", "undo"}, id : Attachments, owner : Comments \cup {Task}]
Deletions == [op : {"deleteAttachment", "deleteTask"}, pc : {"blobs"}, listed : SUBSET Attachments]
Saves == [op : {"workflow"}, pc : {"write", "recheck"}, seen : 0..(MaxVersion - 1)]
CommentRows == [version : 1..MaxVersion, changed : 1..MaxRevision]

ASSUME ContentAssumption ==
  /\ IsFiniteSet(Comments) /\ IsFiniteSet(Attachments)
  /\ MaxVersion \in Nat \ {0} /\ {MaxRevision, MaxFaults, MaxArchives} \subseteq Nat
  /\ None # Deleted /\ {None, Deleted} \cap (Comments \cup {Task}) = {}
  /\ \A x \in {None, Deleted} : x \notin CommentRows
  /\ None \notin Edits /\ None \notin Uploads /\ None \notin Deletions /\ None \notin Saves

\* Rows have their types; an attachment row belongs to a row that exists.
TypeOK ==
  /\ revision \in 0..MaxRevision
  /\ request \in [Requests -> {None} \cup Edits \cup Uploads \cup Deletions \cup Saves]
  /\ \A c \in Rows(comment) : /\ comment[c].version \in 1..MaxVersion
                              /\ comment[c].changed \in 1..revision
  /\ \A a \in Rows(attachment) :
       taskExists /\ attachment[a] \in {Task} \cup Rows(comment)
  /\ blobs \subseteq Attachments
  /\ workflow \in 0..MaxVersion /\ faults \in 0..MaxFaults

\* An attachment that is listed can be downloaded: its blob is stored before the row and
\* removed after it, whatever fails in between.  The exception is a row that D1 has
\* stored without an answer: the upload has failed, and has taken the blob back
\* (index.mjs:3183).
RowHasBlob == Rows(attachment) \ unanswered \subseteq blobs

\* Blobs without a row that no request under way will insert or delete.
Lost ==
  {b \in blobs : /\ ~IsRow(attachment[b])
                 /\ \A r \in Requests : request[r] # None =>
                      /\ request[r].op = "upload" => request[r].id # b
                      /\ request[r].pc = "blobs" => b \notin request[r].listed}

\* Without a failure every blob whose row is gone is deleted, but for those that
\* are uploaded to a comment between its list of attachments and its deletion.
NoBlobLost == faults = 0 => \A b \in Lost : removedBy[b] = "deleteComment"

\* The rows of D1 and the blobs of R2 agree, though no transaction spans the two and
\* each of the steps between them may fail, but for a row whose INSERT got no answer.
BlobsMatchRows == TypeOK /\ RowHasBlob /\ NoBlobLost

\* Does not hold: every attachment that is listed can be downloaded, the one whose
\* INSERT D1 has not answered included.
EveryRowHasBlob == Rows(attachment) \subseteq blobs

\* A client that always continues from its last cursor knows the newest version
\* of every comment up to there: no change hides behind the cursor.
FeedComplete ==
  \A c \in Rows(comment) :
    comment[c].changed <= reader.cursor => reader.known[c] = comment[c].version

\* Of the clients that save a workflow over one version a single one is told that
\* it is stored, unless the project was archived and activated meanwhile: then an
\* INSERT of no row passes for a save.
OneSaveOverAVersion == archived.changes < 2 => IsInjective(acked)

\* What a client has been told stays true when requests overlap.
AnswersHold == FeedComplete /\ OneSaveOverAVersion
=============================================================================
