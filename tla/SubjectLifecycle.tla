-------------------------- MODULE SubjectLifecycle --------------------------
(***************************************************************************)
(* The subjects of one Feishu Base (server/feishu-workflow-store.mjs), the *)
(* registry file of Auto-Cut packages (server/feishu-package-config.mjs)   *)
(* and the Bridge, which keeps its own copy of every subject it accepted.  *)
(*                                                                         *)
(* All handlers share one synchronous SQLite connection.  Enabling,        *)
(* disabling and removing a subject open a transaction on it and await the *)
(* Bridge with the transaction open: until the answer arrives, BEGIN of    *)
(* every other handler throws, and a statement another handler runs        *)
(* without a transaction of its own joins the open one.                    *)
(***************************************************************************)
EXTENDS Naturals, SequencesExt, FiniteSetsExt

CONSTANTS
  Subjects,     \* subject keys of the Base: numbers, in the order of ORDER BY
  Packages,     \* package aliases
  Calls,        \* requests that enable, disable or remove, at a time
  MaxVersion,   \* bound on config_version
  MaxRevision,  \* bound on a package's revision
  MaxQueue,     \* bound on queued registry mutations
  MaxFaults,    \* bound on crashes and on answers of the Bridge that get lost
  MaxNotes,     \* bound on statements without a transaction
  None

Lifecycles == {"draft", "enabled", "disabled"}

\* Rows of feishu_subjects with their versions, and the tables they are in.
Row == [lifecycle: Lifecycles, history: Seq(Lifecycles), alias: Packages,
        removed: BOOLEAN, archived: BOOLEAN, view: {"all", "own"},
        frozen: {"all", "own", None}, readOnly: BOOLEAN]
Tables == [rows: [Subjects -> Row], baseRemoved: BOOLEAN, notes: Nat]

\* Requests at an await, and what the Bridge keeps of a subject.
Call == [op: {"transition", "removeSubject", "removeBase"}, subject: Subjects,
         lifecycle: Lifecycles, version: Nat, alias: Packages,
         pc: {"alias", "begin", "sync", "accepted"},
         todo: SUBSET Subjects, told: SUBSET Subjects]
Snapshot == [lifecycle: Lifecycles, version: Nat]

\* Records of the package file, the file itself, and queued mutations of it.
Record == [state: Lifecycles, revision: 1..MaxRevision]
Catalog == [Packages -> Record \cup {None}]
Mutation == [op: {"create", "save", "rename", "enable", "disable", "remove"},
             package: Packages, to: Packages, revision: Nat]

\* The keys are ordered, the bounds are numbers, and None is none of the values.
ASSUME SubjectAssumption ==
  /\ Subjects \subseteq Nat
  /\ {MaxVersion, MaxRevision} \subseteq Nat \ {0}
  /\ {MaxQueue, MaxFaults, MaxNotes} \subseteq Nat
  /\ None \notin Tables /\ None \notin Call /\ None \notin Snapshot
  /\ None \notin Record /\ None \notin Catalog /\ None # "own"

VARIABLES
  db,        \* the tables as the connection sees them
  saved,     \* the committed tables while a transaction is open, else None
  call,      \* the requests under way, None when a slot is free
  bridge,    \* the last snapshot of each subject the Bridge has accepted
  registry,  \* the package file: state and revision, None without a record
  mutations, \* queued registry mutations; the head is running
  catalog,   \* the catalog the head has read, None before
  edits,     \* acknowledged edits of a record since it was created
  notes,     \* acknowledged statements without a transaction
  acked,     \* the highest version of each subject a client was told
  unsettled, \* subjects with an accepted snapshot that was not committed
  faults

registryVars == <<registry, mutations, catalog, edits>>
vars == <<db, saved, call, bridge, registryVars, notes, acked, unsettled,
          faults>>

\* A draft of a first preview, config_version 1; its user works in a view of
\* his own.
FirstDraft(p) ==
  [lifecycle |-> "draft", history |-> <<"draft">>, alias |-> p,
   removed |-> FALSE, archived |-> FALSE,
   view |-> "own", frozen |-> None, readOnly |-> FALSE]

Version(row) == Len(row.history)

Init ==
  /\ \E p \in Packages :
       db = [rows |-> [s \in Subjects |-> FirstDraft(p)],
             baseRemoved |-> FALSE, notes |-> 0]
  /\ saved = None
  /\ call = [c \in Calls |-> None]
  /\ bridge = [s \in Subjects |-> None]
  /\ registry = [p \in Packages |-> [state |-> "enabled", revision |-> 1]]
  /\ mutations = <<>> /\ catalog = None
  /\ edits = [p \in Packages |-> 0]
  /\ notes = 0
  /\ acked = [s \in Subjects |-> 1]
  /\ unsettled = {}
  /\ faults = 0

-----------------------------------------------------------------------------
(* The rows of feishu_subjects.                                            *)

\* UPDATE feishu_subjects and saveVersion: one more version in the history.
Bump(row, lifecycle) ==
  [row EXCEPT !.lifecycle = lifecycle, !.history = Append(@, lifecycle)]

\* freezeSourceWorkflowState
Freeze(row) ==
  [row EXCEPT !.frozen = IF row.readOnly THEN @ ELSE row.view,
              !.view = "all", !.readOnly = TRUE]

\* restoreSourceWorkflowState
Restore(row) ==
  IF row.readOnly
    THEN [row EXCEPT !.view = IF row.frozen = None THEN "all" ELSE row.frozen,
                     !.frozen = None, !.readOnly = FALSE]
    ELSE row

\* A preview or an import brings a subject (back) into the catalog.
Present(row) == Restore([row EXCEPT !.removed = FALSE, !.archived = FALSE])

\* Faulty: a draft is taken for a subject the Bridge does not know.
RequiresWhenEnabled(row) == row.lifecycle = "enabled"

\* The last version of a subject that was sent to the Bridge enabled it.
LastSyncedEnabled(row) ==
  \E i \in DOMAIN row.history :
    /\ row.history[i] \notin {"draft", "disabled"}
    /\ \A j \in (i + 1)..Version(row) : row.history[j] = "draft"

\* requiresBridgeDisableBeforeRemoval
RequiresBridgeDisable(row) ==
  \/ row.lifecycle = "enabled"
  \/ row.lifecycle = "draft" /\ LastSyncedEnabled(row)

\* One subject of removeSubjectRows, once the Bridge has been told.
RemoveRow(row) ==
  LET disabled == IF row.lifecycle = "disabled" THEN row
                  ELSE Bump(row, "disabled")
  IN  Freeze([disabled EXCEPT !.removed = TRUE, !.archived = TRUE])

\* The subjects removeSubjectRows can remove before it must await the Bridge.
Untold(rows, todo) ==
  {s \in todo : \A r \in todo : r <= s => ~RequiresBridgeDisable(rows[r])}

RemoveUntold(rows, todo) ==
  [s \in Subjects |-> IF s \in Untold(rows, todo) THEN RemoveRow(rows[s])
                      ELSE rows[s]]

-----------------------------------------------------------------------------
(* Requests that only touch the database: one transaction without an       *)
(* await.  While another one is open their BEGIN throws and nothing        *)
(* happens.                                                                *)

\* Faulty: the statements of the request join the open transaction.
WriteJoins(rows, baseRemoved) ==
  /\ \A s \in Subjects : Version(rows[s]) <= MaxVersion
  /\ db' = [db EXCEPT !.rows = rows, !.baseRemoved = baseRemoved]
  /\ acked' = [s \in Subjects |-> Version(rows[s])]
  /\ UNCHANGED <<saved, call, bridge, registryVars, notes, unsettled, faults>>

\* A committed synchronous change of the rows, answered to its client.
Write(rows, baseRemoved) ==
  /\ saved = None
  /\ \A s \in Subjects : Version(rows[s]) <= MaxVersion
  /\ db' = [db EXCEPT !.rows = rows, !.baseRemoved = baseRemoved]
  /\ acked' = [s \in Subjects |-> Version(rows[s])]
  /\ UNCHANGED <<saved, call, bridge, registryVars, notes, unsettled, faults>>

\* A draft is saved, with a package of the operator's choice.
SaveSubjectDraft(s, p) ==
  /\ ~db.rows[s].removed
  /\ Write([db.rows EXCEPT ![s] = [Bump(@, "draft") EXCEPT !.alias = p]],
           db.baseRemoved)

\* A preview of the Base lists these subjects, some with changed metadata.
UpsertBasePreview(listed, changed) ==
  LET Refreshed(row) ==
        Bump(row, IF row.lifecycle = "enabled" THEN "draft" ELSE row.lifecycle)
  IN  Write([s \in Subjects |->
               IF s \notin listed THEN db.rows[s]
               ELSE Present(IF s \in changed THEN Refreshed(db.rows[s])
                            ELSE db.rows[s])], FALSE)

\* A shared configuration with these subjects is imported: all become drafts.
ImportShareable(listed, p) ==
  Write([s \in Subjects |->
           IF s \in listed
             THEN Present([Bump(db.rows[s], "draft") EXCEPT !.alias = p])
             ELSE db.rows[s]], FALSE)

\* A handler without a transaction of its own, such as updateAiChatThread.
PlainStatement ==
  /\ notes < MaxNotes
  /\ notes' = notes + 1
  /\ db' = [db EXCEPT !.notes = @ + 1]
  /\ UNCHANGED <<saved, call, bridge, registryVars, acked, unsettled, faults>>

-----------------------------------------------------------------------------
(* Enabling and disabling a subject (transition).                          *)

At(c, pc) == call[c] # None /\ call[c].pc = pc
Goto(c, pc) == call' = [call EXCEPT ![c].pc = pc]
Return(c) == call' = [call EXCEPT ![c] = None]

\* A request with the version its client has seen.  Enabling first awaits the
\* enabled aliases of the registry.
Transition(c, s, lifecycle) ==
  /\ call[c] = None
  /\ ~db.rows[s].removed
  /\ call' = [call EXCEPT ![c] =
                [op |-> "transition", subject |-> s, lifecycle |-> lifecycle,
                 version |-> Version(db.rows[s]), alias |-> db.rows[s].alias,
                 pc |-> IF lifecycle = "enabled" THEN "alias" ELSE "begin",
                 todo |-> {s}, told |-> {}]]
  /\ UNCHANGED <<db, saved, bridge, registryVars, notes, acked, unsettled,
                 faults>>

\* packageAliases reads the registry file; an unknown alias ends the request.
ReadAliases(c) ==
  /\ At(c, "alias")
  /\ LET record == registry[call[c].alias]
     IN  IF record # None /\ record.state = "enabled" THEN Goto(c, "begin")
         ELSE Return(c)
  /\ UNCHANGED <<db, saved, bridge, registryVars, notes, acked, unsettled,
                 faults>>

\* Faulty: a nested BEGIN is accepted.
BeginNested(c) ==
  /\ At(c, "begin")
  /\ LET row == db.rows[call[c].subject]
     IN  IF /\ ~row.removed
            /\ Version(row) = call[c].version
            /\ Version(row) < MaxVersion
         THEN Goto(c, "sync") /\ saved' = IF saved = None THEN db ELSE saved
         ELSE Return(c) /\ UNCHANGED saved
  /\ UNCHANGED <<db, bridge, registryVars, notes, acked, unsettled, faults>>

\* BEGIN throws inside an open transaction.  Otherwise the row is read again,
\* and the request either ends or is sent to the Bridge.
BeginTransition(c) ==
  /\ At(c, "begin")
  /\ LET row == db.rows[call[c].subject]
         goesOn == /\ saved = None
                   /\ ~row.removed
                   /\ Version(row) = call[c].version
                   /\ Version(row) < MaxVersion
     IN  IF goesOn THEN Goto(c, "sync") /\ saved' = db
         ELSE Return(c) /\ UNCHANGED saved
  /\ UNCHANGED <<db, bridge, registryVars, notes, acked, unsettled, faults>>

\* The Bridge stores the snapshot, which carries the next version.
BridgeAccepts(c) ==
  /\ At(c, "sync")
  /\ LET s == call[c].subject
     IN  /\ bridge' = [bridge EXCEPT ![s] =
                         [lifecycle |-> call[c].lifecycle,
                          version |-> call[c].version + 1]]
         /\ call' = [call EXCEPT ![c].pc = "accepted", ![c].told = @ \cup {s}]
  /\ UNCHANGED <<db, saved, registryVars, notes, acked, unsettled, faults>>

\* The promise of syncSubject is rejected: ROLLBACK.
Rollback(c) ==
  /\ db' = saved /\ saved' = None
  /\ unsettled' = unsettled \cup call[c].told
  /\ Return(c)

\* Faulty: the error is returned without a ROLLBACK.
BridgeRefusesQuietly(c) ==
  /\ At(c, "sync")
  /\ Return(c)
  /\ UNCHANGED <<db, saved, bridge, registryVars, notes, acked, unsettled, faults>>

\* The Bridge refuses the snapshot or cannot be reached.
BridgeRefuses(c) ==
  /\ At(c, "sync")
  /\ Rollback(c)
  /\ UNCHANGED <<bridge, registryVars, notes, acked, faults>>

\* The connection breaks after the Bridge has stored the snapshot.
AnswerLost(c) ==
  /\ At(c, "accepted") /\ faults < MaxFaults
  /\ faults' = faults + 1
  /\ Rollback(c)
  /\ UNCHANGED <<bridge, registryVars, notes, acked>>

Commit(c, rows, baseRemoved, told) ==
  /\ db' = [db EXCEPT !.rows = rows, !.baseRemoved = baseRemoved]
  /\ saved' = None
  /\ acked' = [s \in Subjects |-> Version(rows[s])]
  /\ unsettled' = unsettled \ told
  /\ Return(c)

CommitTransition(c) ==
  /\ At(c, "accepted") /\ call[c].op = "transition"
  /\ LET s == call[c].subject
     IN  /\ Version(db.rows[s]) = call[c].version
         /\ Commit(c, [db.rows EXCEPT ![s] = Bump(@, call[c].lifecycle)],
                   db.baseRemoved, call[c].told)
  /\ UNCHANGED <<bridge, registryVars, notes, faults>>

-----------------------------------------------------------------------------
(* Removing a subject or the whole Base (removeSubjectRows).               *)

\* Between two awaits: remove what the Bridge need not hear about, then ask it
\* to disable the next subject, or commit.
RemoveUntilBridge(c, op, before, todo, told) ==
  LET rows == RemoveUntold(before, todo)
      rest == todo \ Untold(before, todo)
      next == Min(rest)
  IN  \/ /\ rest = {}
         /\ Commit(c, rows, db.baseRemoved \/ op = "removeBase", told)
      \/ /\ rest # {}
         /\ db' = [db EXCEPT !.rows = rows]
         /\ saved' = IF saved = None THEN db ELSE saved
         /\ call' = [call EXCEPT ![c] =
              [op |-> op, subject |-> next, lifecycle |-> "disabled",
               version |-> Version(rows[next]), alias |-> rows[next].alias,
               pc |-> "sync", todo |-> rest, told |-> told]]
         /\ UNCHANGED <<acked, unsettled>>

\* The versions of the removed subjects stay within MaxVersion.
CanRemove(todo) ==
  \A s \in todo : db.rows[s].lifecycle = "disabled" \/ Version(db.rows[s]) < MaxVersion

RemoveSubject(c, s) ==
  /\ call[c] = None /\ saved = None
  /\ ~db.rows[s].removed /\ CanRemove({s})
  /\ RemoveUntilBridge(c, "removeSubject", db.rows, {s}, {})
  /\ UNCHANGED <<bridge, registryVars, notes, faults>>

RemoveBase(c) ==
  /\ call[c] = None /\ saved = None
  /\ ~db.baseRemoved
  /\ LET todo == {s \in Subjects : ~db.rows[s].removed}
     IN  CanRemove(todo) /\ RemoveUntilBridge(c, "removeBase", db.rows, todo, {})
  /\ UNCHANGED <<bridge, registryVars, notes, faults>>

\* The Bridge has disabled the subject: remove it and go on with the others.
ContinueRemoval(c) ==
  /\ At(c, "accepted") /\ call[c].op # "transition"
  /\ RemoveUntilBridge(c, call[c].op,
                       [db.rows EXCEPT ![call[c].subject] = RemoveRow(@)],
                       call[c].todo \ {call[c].subject}, call[c].told)
  /\ UNCHANGED <<bridge, registryVars, notes, faults>>

-----------------------------------------------------------------------------
(* The package registry: mutations of the file run one after another, each *)
(* from its own read of the catalog to the rename of the new file.         *)

\* The revisions of a record its clients have seen.
Revisions(p) == IF registry[p] = None THEN {} ELSE 1..registry[p].revision

\* A mutation with the revision its client has seen (0 for a new record).
Enqueue(op, p, to, revision) ==
  /\ Len(mutations) < MaxQueue
  /\ mutations' = Append(mutations, [op |-> op, package |-> p, to |-> to,
                                     revision |-> revision])
  /\ UNCHANGED <<db, saved, call, bridge, registry, catalog, edits, notes, acked,
                 unsettled, faults>>

\* listPackageReferences: the subjects that are enabled with this package.
References(p) ==
  {s \in Subjects : /\ db.rows[s].lifecycle = "enabled"
                    /\ ~db.rows[s].removed /\ ~db.baseRemoved
                    /\ db.rows[s].alias = p}

\* What saveDraft, enable, disable and remove refuse.
Refused(m, packages) ==
  LET record == packages[m.package]
  IN  \/ m.op = "create" /\ record # None
      \/ /\ m.op # "create"
         /\ \/ record = None
            \/ record.revision # m.revision
            \/ record.revision = MaxRevision
            \/ /\ m.op = "rename"
               /\ \/ record.state # "draft"
                  \/ packages[m.to] # None
            \/ m.op = "remove" /\ References(m.package) # {}

\* The catalog that is written back as a whole.
Mutated(m, packages) ==
  LET record == packages[m.package]
      bumped == [record EXCEPT !.revision = @ + 1]
  IN  CASE m.op = "create" ->
             [packages EXCEPT ![m.package] = [state |-> "draft", revision |-> 1]]
        [] m.op = "save"    -> [packages EXCEPT ![m.package] = bumped]
        [] m.op = "rename"  ->
             [packages EXCEPT ![m.package] = None, ![m.to] = bumped]
        [] m.op = "enable"  ->
             [packages EXCEPT ![m.package] = [bumped EXCEPT !.state = "enabled"]]
        [] m.op = "disable" ->
             [packages EXCEPT ![m.package] = [bumped EXCEPT !.state = "disabled"]]
        [] m.op = "remove"  -> [packages EXCEPT ![m.package] = None]

\* The head of the queue reads the catalog and checks its request.
ReadCatalog ==
  /\ mutations # <<>> /\ catalog = None
  /\ IF Refused(Head(mutations), registry)
       THEN mutations' = Tail(mutations) /\ UNCHANGED catalog
       ELSE catalog' = registry /\ UNCHANGED mutations
  /\ UNCHANGED <<db, saved, call, bridge, registry, edits, notes, acked,
                 unsettled, faults>>

\* Its checks of directories or of the model catalog fail, or the disk does.
MutationFails ==
  /\ catalog # None
  /\ mutations' = Tail(mutations) /\ catalog' = None
  /\ UNCHANGED <<db, saved, call, bridge, registry, edits, notes, acked,
                 unsettled, faults>>

\* Faulty: the next mutation reuses the catalog this one has read.
PersistStaleCatalog ==
  /\ catalog # None
  /\ LET m == Head(mutations)
     IN  /\ registry' = Mutated(m, catalog)
         /\ edits' = IF m.op \in {"create", "remove", "rename"} THEN edits
                     ELSE [edits EXCEPT ![m.package] = @ + 1]
  /\ mutations' = Tail(mutations)
  /\ catalog' = IF Len(mutations) > 1 THEN catalog ELSE None
  /\ UNCHANGED <<db, saved, call, bridge, notes, acked, unsettled, faults>>

\* The temporary file is renamed to the registry and the client is answered.
PersistCatalog ==
  /\ catalog # None
  /\ LET m == Head(mutations)
     IN  /\ registry' = Mutated(m, catalog)
         /\ edits' = CASE m.op \in {"create", "remove"} -> [edits EXCEPT ![m.package] = 0]
                       [] m.op = "rename" -> [edits EXCEPT ![m.package] = 0,
                                                           ![m.to] = edits[m.package] + 1]
                       [] OTHER -> [edits EXCEPT ![m.package] = @ + 1]
  /\ mutations' = Tail(mutations) /\ catalog' = None
  /\ UNCHANGED <<db, saved, call, bridge, notes, acked, unsettled, faults>>

-----------------------------------------------------------------------------
\* The server dies: SQLite rolls the open transaction back, the Bridge and the
\* registry file keep what they have.
Crash ==
  /\ faults < MaxFaults
  /\ faults' = faults + 1
  /\ db' = IF saved = None THEN db ELSE saved
  /\ saved' = None
  /\ unsettled' = unsettled \cup UNION {call[c].told : c \in {d \in Calls : call[d] # None}}
  /\ call' = [c \in Calls |-> None]
  /\ mutations' = <<>> /\ catalog' = None
  /\ UNCHANGED <<bridge, registry, edits, notes, acked>>

SubjectWrite ==
  \/ \E s \in Subjects, p \in Packages : SaveSubjectDraft(s, p)
  \/ \E listed \in SUBSET Subjects : \E changed \in SUBSET listed :
       listed # {} /\ UpsertBasePreview(listed, changed)
  \/ \E listed \in SUBSET Subjects \ {{}}, p \in Packages : ImportShareable(listed, p)

CallStep(c) ==
  \/ ReadAliases(c)
  \/ BeginTransition(c)
  \/ BridgeAccepts(c)
  \/ BridgeRefuses(c)
  \/ CommitTransition(c)
  \/ ContinueRemoval(c)

RegistryStep ==
  \/ ReadCatalog
  \/ MutationFails
  \/ PersistCatalog

Next ==
  \/ SubjectWrite
  \/ PlainStatement
  \/ \E c \in Calls : \/ \E s \in Subjects, l \in {"enabled", "disabled"} :
                           Transition(c, s, l)
                      \/ CallStep(c)
                      \/ AnswerLost(c)
                      \/ \E s \in Subjects : RemoveSubject(c, s)
                      \/ RemoveBase(c)
  \/ \E p \in Packages : \E r \in Revisions(p) :
       \/ \E op \in {"save", "enable", "disable", "remove"} : Enqueue(op, p, p, r)
       \/ \E q \in Packages \ {p} : Enqueue("rename", p, q, r)
  \/ \E p \in Packages : Enqueue("create", p, p, 0)
  \/ RegistryStep
  \/ Crash

Spec == Init /\ [][Next]_vars

\* Every await ends: the Bridge answers or the request to it fails, and file
\* operations finish.
Fairness == (\A c \in Calls : WF_vars(CallStep(c))) /\ WF_vars(RegistryStep)
FairSpec == Spec /\ Fairness

-----------------------------------------------------------------------------
(* Properties.                                                             *)

\* What a crash would leave.
Committed == IF saved = None THEN db ELSE saved

\* Every variable keeps its type, and the lifecycle column of every subject is
\* that of the newest version saveVersion has stored.
TypeOK ==
  /\ db \in Tables /\ saved \in Tables \cup {None}
  /\ \A s \in Subjects : Last(db.rows[s].history) = db.rows[s].lifecycle
  /\ call \in [Calls -> Call \cup {None}]
  /\ bridge \in [Subjects -> Snapshot \cup {None}]
  /\ registry \in Catalog /\ catalog \in Catalog \cup {None}
  /\ mutations \in Seq(Mutation) /\ Len(mutations) <= MaxQueue
  /\ edits \in [Packages -> Nat]
  /\ notes \in 0..MaxNotes /\ acked \in [Subjects -> 1..MaxVersion]
  /\ unsettled \subseteq Subjects
  /\ faults \in 0..MaxFaults

\* The open transaction belongs to exactly one request, the one that awaits the
\* Bridge: no other request can commit it or roll it back.
TransactionHasOwner ==
  LET waiting == {c \in Calls : At(c, "sync") \/ At(c, "accepted")}
  IN  IF saved = None THEN waiting = {} ELSE Cardinality(waiting) = 1

\* Between any two awaits the tables are as saveVersion leaves them and the
\* transaction that stays open is owned.
TransactionsNest == TypeOK /\ TransactionHasOwner

\* A version a client was told about is never lost, whatever other requests
\* fail, roll back or crash.
AckedVersionsPersist ==
  \A s \in Subjects : Version(Committed.rows[s]) >= acked[s]

EnabledAtBridge(s) == bridge[s] # None /\ bridge[s].lifecycle = "enabled"

\* Subjects without a snapshot whose acceptance is not (yet) committed.
Settled ==
  Subjects \ (unsettled \cup UNION {call[c].told : c \in {d \in Calls : call[d] # None}})

\* An enabled subject runs at the Bridge with the very version that is enabled
\* here, and a subject that is disabled or removed here does not run there,
\* unless what the Bridge accepted was not committed.
SettledMatchesBridge ==
  \A s \in Settled :
    LET row == Committed.rows[s]
    IN  /\ row.lifecycle = "enabled" =>
             EnabledAtBridge(s) /\ bridge[s].version = Version(row)
        /\ row.lifecycle = "disabled" \/ row.removed => ~EnabledAtBridge(s)

\* Removal is all or nothing: a removed Base has no subject left, and a removed
\* subject is disabled, its project archived and its views frozen until it
\* comes back with the view its user had chosen.
RemovedTogether ==
  /\ Committed.baseRemoved => \A s \in Subjects : Committed.rows[s].removed
  /\ \A s \in Subjects :
       LET row == Committed.rows[s]
       IN  /\ row.removed => row.lifecycle = "disabled"
           /\ row.removed = row.archived /\ row.removed = row.readOnly
           /\ row.view = (IF row.removed THEN "all" ELSE "own")

\* A failure of the Bridge or of a later subject leaves neither the two systems
\* nor the subjects of a Base in different states.
BridgeAgrees == SettledMatchesBridge /\ RemovedTogether

\* No acknowledged edit of a package is lost: the revision counts the edits
\* since the record was created.
RegistryKeepsEdits ==
  \A p \in Packages :
    IF registry[p] = None THEN edits[p] = 0
    ELSE registry[p].revision = edits[p] + 1

\* What was acknowledged, in the database or in the registry file, is kept.
AckedEditsPersist == AckedVersionsPersist /\ RegistryKeepsEdits

\* No transaction stays open: the other handlers can write again.
TransactionCloses == saved # None ~> saved = None

\* Does not hold: server/feishu-workflow-store.mjs:1031 says that a failed synchronisation
\* rolls back the local lifecycle transition.  It also rolls back every
\* acknowledged statement other handlers have run in the meantime.
RollbackUndoesOwnWrites == saved = None => db.notes = notes

\* Does not hold: server/feishu-workflow-store.mjs:631, only a complete draft-only history
\* proves that the Bridge never received this subject.
DraftOnlyNeverSent ==
  \A s \in Subjects :
    (\A i \in DOMAIN Committed.rows[s].history :
       Committed.rows[s].history[i] = "draft") /\ s \notin UNION
         {call[c].told : c \in {d \in Calls : call[d] # None}}
      => bridge[s] = None

\* Does not hold: test/feishu-package-api.test.mjs:144, deletion is blocked for enabled
\* subjects.
EnabledSubjectHasPackage ==
  \A s \in Subjects :
    LET row == Committed.rows[s]
    IN  row.lifecycle = "enabled" /\ ~row.removed => registry[row.alias] # None
=============================================================================
