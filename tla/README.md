# Formal model of the Feishu Auto-Cut taskboard

This directory holds TLA+ specifications of the parts of the taskboard whose
correctness depends on the order in which things happen, the TLC
configurations that check them on small instances, and TLAPS proofs of most of
their safety properties for every instance.

## 1. The system

The taskboard is a local Node service (`server/`) with a SQLite database behind
one synchronous connection, a React interface (`web/`), a desktop shell with an
injector into the Codex app (`src-tauri/`, `inject/`, `scripts/`), a CLI
(`cli/`), and a cloud deployment of the board (`cloud/`) on Workers, D1 and R2.
A Feishu Bridge creates tasks over a loopback route.  For each task the service
reserves an execution, waits for the package's turn, claims the task, starts an
AI chat or Auto-Cut run, records the ZIP it produces, moves the task through
review, and copies the ZIP to its destination.  Browsers follow a board, chat
with Codex in threads and draw workflows; the injector lets Codex work on the
tasks of a project by itself.

| Part | State it keeps | Operations | Interacts with |
| --- | --- | --- | --- |
| Resource scheduler (`server/resource-scheduler.mjs`) | queue, active leases, group and resource counters, in memory | `request`, `release`, `cancel`, `setConcurrencyLimit`, `wake` | called by the coordinator and the run reconciliation |
| Execution coordinator (`server/feishu-execution-coordinator.mjs`) | an entry with timer and flags per task, in memory; an execution row per task | `schedule`, `cancel`, `recover`, `wake`, `close`, inside `pump` and `launch` | registry (await), scheduler (promise), claim code (await) |
| Claims and runs (`server/app.mjs`, `server/database.mjs`) | task status and version, start claims, chat runs, Auto-Cut attempts | start, prepare, bind, report, settle, release, retry, reconcile after a restart | AI chat, local runner, artifact reports, the coordinator's leases |
| Upload queue and worker (`server/upload-worker.mjs`, `artifact_uploads`) | rows with claim token and lease, the drain loop, copies, destination files | enqueue, retry, claim, renew, recover, settle, clean up, close, start | task status, the destination's file system |
| Subjects (`server/feishu-workflow-store.mjs`) | subjects, versions, drafts, views | draft, import, enable, disable, remove | the Bridge over HTTP, inside an open transaction |
| Package registry (`server/feishu-package-config.mjs`) | a file with revisions | queued put, remove, validate | subjects, the coordinator's `wake` |
| AI chat (`server/ai-chat.mjs`, `ai-chat-process.mjs`, `codex-app-server.mjs`) | threads, run rows, active turns | start, interrupt, settings, delete, restart | Codex processes, the app-server |
| Chat panel (`web/src/components/AiChat.tsx`) | selected thread, snapshot, event stream, refresh queue | select, create, delete, send | the server's lists, snapshots and hints |
| Cloud worker (`cloud/src/index.mjs`) | projects, tasks, relations, activity, comments, workflows in D1; blobs in R2; a revision | one handler per route | D1 batches, R2, the realtime hub |
| Board (`web/src/App.tsx`, `revisionPolling.mjs`) | known revision, task list, own move | follow, load, move | socket or polling, the cloud worker |
| Workflow board (`web/src/components/WorkflowBoard.tsx`, `shared/workflow-*.mjs`) | workspace on screen, save queue, known version | edit, save, hydrate, refresh, migrate | the workspace row, other clients |
| Project automations (`scripts/codex-injector.mjs`, `shared/taskboard-automation.mjs`) | policy records, file, timers, a queue of mutations; runs on remote tasks | save, check, restore; read, decide, claim, follow, report | the board, Codex automations, turns of the app-server |
| Supervisor, artifact ingestion, Jira client, CLI, presentation | see section 6 | | |

What makes the system hard is that its handlers interleave at every `await`
while they share in-memory maps, one database connection and a file system;
that the process may stop between any two of those steps; that work which waits
is only taken up again if somebody remembers to wake it; and that a client
shows and saves state which other clients change.

What must hold, part by part:

* scheduler: no group above its limit, no resource held twice, no lease taken
  from a holder, no startable request left waiting;
* coordinator: at most one launch per reservation, no lease without an owner,
  every reservation launched or given up, also across a restart;
* claims and runs: one run of a task, finished only with the ZIP its last run
  has proven, a user's moves kept, every claim and slot given back;
* uploads: only the claim that owns a row settles it, an uploaded row's file is
  there, nothing is overwritten, every queued row is settled;
* subjects and registry: what the Bridge accepted is what the database says, no
  acknowledged edit is lost, no transaction stays open;
* chat: one running row per thread, which somebody ends, an outcome stands; the
  panel shows the selected thread and all of its events;
* cloud: what a handler checked before its batch still holds in it; rows and
  blobs agree; a client learns the last revision and shows it;
* workflows: edits and migration keep a flow valid, what is drawn is saved;
* automations: the policy in force is the one saved last; runs work on a task
  one at a time and never over what a user has done to it.

## 2. The modules

| Module | Models | Used by |
| --- | --- | --- |
| `AdmissionSlots` | what the scheduler promises, without its queue and counters: who is let in beside whom, and that a run ends only by its own lease | `ResourceScheduler`, which implements it |
| `ResourceScheduler` | the scheduler, any number of groups and resources | `ResourceScheduler_proofs`, `MCResourceScheduler` |
| `ArtifactUpload` | the upload queue, its worker and the destination files | `ArtifactUpload_proofs`, `MCArtifactUpload` |
| `ExecutionCoordinator` | the coordinator with the task rows, claims, one group of the scheduler, runs | `CoordinatorInv` |
| `CoordinatorInv` | its inductive invariant, and what the parts of a step do to it | `AgentRuns_proofs`, `MCExecutionCoordinator` |
| `TaskStarts` | the starts of one task from the claim to the settlement | `TaskStarts_proofs`, `MCTaskStarts` |
| `SubjectLifecycle` | the subjects of a Base, the registry file and the Bridge's copy | `SubjectLifecycle_proofs`, `MCSubjectLifecycle` |
| `ChatRuns`, `ChatView` | the turns of a thread on the server; the panel that shows threads | `ChatInvariants`, `MCChatRuns` |
| `ChatInvariants` | the inductive invariants of the two | `AgentRuns_proofs` |
| `CloudBoard` | projects, tasks and relations in D1 | `CloudBoard_proofs`, `MCCloudBoard` |
| `AutomationPolicy`, `RemoteRuns` | the automation of a local project; the injector's runs on a remote task | `CloudBoard_proofs`, `MCCloudBoard` |
| `CloudContent` | comments, attachments, blobs, the saved workflow, the comment feed | `CloudContent_proofs`, `MCCloudContent` |
| `RevisionFeed` | how a browser follows the board's revision and moves tasks | `CloudContent_proofs`, `MCCloudContent` |
| `WorkflowFlow`, `WorkflowMigration`, `WorkflowSync` | the control flow under edits; its migration; loading and saving the workspace | `CloudContent_proofs` (`WorkflowSync`), `MCCloudContent` |
| `DataFacts` | lemmas about `Min`, `Max`, `RemoveAt`, `Append`, small sets | the proof modules |

Two kinds of definitions stand outside the specifications.  A comment that
starts with "Faulty" marks code that does *not* exist: a plausible bug (a dropped
guard, an off-by-one, a lost wake-up) that a property is known to catch.  A
comment that starts with "Does not hold" marks a formula one would expect of the
code and TLC refutes; section 4 lists them.

### ResourceScheduler

`request()`, `release()`, `cancel()`, `setConcurrencyLimit()` and `wake()` run
without an `await` and end in `drain()`.  The handlers are the actions
`Request`, `Release`, `Cancel`, `SetConcurrencyLimit` and `Wake`; the loop of
`drain()` is unrolled into `Grant` and `DrainEnds`, with `draining` keeping other
handlers out, so that every turn of the loop can be observed.

| Variable | Code |
| --- | --- |
| `queue` | `queue` and the keys of `pendingByRequest` |
| `entry` | the normalised request of each queue entry and active lease |
| `lease` | `activeByRequest` |
| `groupActive`, `groupMax` | `concurrencyGroups.get(g).active` and `.maxConcurrent` |
| `resCount` | `resourceGroups` |
| `issued`, `holding` | the callers' side: who still refers to a lease object, and who has not released it |

A caller may call `release()` with an old lease object any number of times until
it forgets it; identities are reused only then.  `ImplementsSlots` maps the
variables to `AdmissionSlots`: `demand` is `entry`, `owner` is `lease`, and `held` is
`holding`.  Queue order, counters, the loop, and calls of `release()` with a lease
object that is no longer its request's are stuttering: the abstract `GiveBack(l)`
ends the run that owns `l` and no other.

### ArtifactUpload

| Variable | Code |
| --- | --- |
| `created`, `status`, `token`, `leaseLive` | rows of `artifact_uploads`: order, `status`, `claim_token`, and whether `lease_until` lies ahead |
| `eligible` | what `validateTaskForCompletion` answers for the row's task |
| `job` | the promise of `processUpload` of each claim: the await it is at, and the file identity it remembers |
| `file` | the destination: content and identity (device and inode) of each final name |
| `worker`, `loop`, `wakeRequested` | `closed`, `draining`/`drainPromise` and `wakeRequested` |

Each `await` of `copyArtifact`, `promoteTemporaryFile` and `removePublishedFile`
ends an action (`Check`, `Copy`, `Link`, `Compare`, `Rename`, `Identify`, `Mark`,
`Revoke`, `Verify`, `Unlink`, `Fail`).  Database handlers are one action each,
because the connection is synchronous.  Time is the event that a lease lapses;
lapses of rows whose job still runs are bounded by `MaxExpiries`.  Temporary
files have unique names and are left out.

### ExecutionCoordinator

| Variable | Code |
| --- | --- |
| `status`, `archived`, `hasThread` | the task row |
| `claim` | `task_ai_starts`, and whether an activity recorded a status change since |
| `row` | `feishu_task_executions`: `state`, whether `ready_at` has passed, `trigger` |
| `entries`, `object` | the map, and the entry objects which timers and calls keep alive after the map has dropped them |
| `call` | asynchronous calls in flight, at the await `pc`, with the values they have read |
| `queue`, `lease` | the scheduler's queue and leases of the package's group |
| `recovery`, `toWake`, `waking` | the loops of `recover()` and `wake()`, which await |

The awaits in the order a start meets them: `package`, `lease`, `check`, `read`,
then claim and bind in one step, `thread`, `turn`, `prepare`, `run`. `pump`,
`launch`, `cancel`, `schedule` and the scheduler's handlers are operators on a
record of all variables, so that a step runs several of them to their next await
as the code does; `Become` makes the record the next state and drops the entry
objects nobody refers to any more. Abstractions: one package with one group of a
fixed limit; several timers of one entry count as one; one `wake()` at a time; a
run ends with one of three results; settling a task and clearing its reservation
are one step though the code commits them separately; the registry is always
readable.

Two constants bound where interleavings may happen.  Without `WakeMidway` the
package is edited, and `wake()` visits and pumps an entry, only while no start is
under way, and nothing comes between a visit and its pump; without `ArchiveMidway`
tasks are archived only then.  Waiting for a lease does not count as a start.

### TaskStarts

| Variable | Code |
| --- | --- |
| `task` | the row of `tasks` with its claim (`task_ai_starts`: token, `run_id`, version) and completion artifact |
| `pc`, `local` | where `startTaskWithAi` or `startClaimedTaskWithLocalAutoCut` waits |
| `kept`, `chat` | rows of `ai_chat_threads` and the status of `ai_chat_runs` |
| `auto` | `feishu_autocut_runs.state` |
| `working`, `receipt` | the process and its `result.json` |
| `artifact`, `report` | the registered ZIP; an artifact report between its checks and its insert |
| `reconcile` | `reconcileFeishuTaskAfterRun` at its await, with what it has read |
| `subscribed`, `leases` | who hears of the run's end; who holds a slot |

A start, its token, thread, run and attempt have one identity.  `todo` stands for
`queued` too, `finished` for `done` and `in_review` (the execution mode decides).
A user may delete the registered ZIP at any moment (`UserDeletesArtifact`); `withdrawn`
remembers, for the properties, that it was the one that finished the task.
A restart interrupts the rows of running runs, then reconciles claims; processes
may outlive it.

### SubjectLifecycle

| Variable | Code |
| --- | --- |
| `db`, `saved` | the tables as the connection sees them; the committed ones while a transaction is open |
| `call` | requests that enable, disable or remove, at their await |
| `bridge` | the snapshots the Bridge accepted |
| `registry`, `mutations`, `catalog` | the registry file, the queue of its mutations, what the first one has read |
| `edits`, `notes`, `acked`, `unsettled` | what was acknowledged to clients, and what the Bridge accepted but nobody committed |

### ChatRuns and ChatView

| Variable | Code |
| --- | --- |
| `thread`, `run` | the rows of the thread and its runs |
| `pc`, `seen` | where `startTurn` awaits, with the thread as it was read |
| `active`, `interrupted`, `turnId` | the map of active turns, their flags and turn ids |
| `work`, `files` | the process or turn itself; temporary attachment directories |
| `selected`, `shown`, `threads` | `selectedThreadId`, `snapshot` and the list of the panel |
| `effect`, `effectDue`, `stream`, `hints` | the selection's effect, its event source, events under way |
| `loads`, `refreshing` | calls of `loadSnapshot`; the refresh queue |

React effects are steps of their own after the change that triggers them.

### CloudBoard and CloudContent

A handler reads, checks, and writes one batch; another handler's batch may run
in between.  `request` holds what each request under way has read.  A batch is
one action, with the WHERE clauses, triggers and foreign keys that test again.

| Variable | Code |
| --- | --- |
| `project`, `task`, `relations`, `activity` | the tables of `0001_initial.sql` |
| `tied` | for the properties only: versions that a refused request has found written by another in its own millisecond |
| `comment`, `attachment`, `blobs` | rows in D1 and keys in R2 |
| `revision`, `reader` | `global_revision`; a client with a cursor |
| `archived`, `workflow`, `acked` | the project's archive flag, the workflow's version, what clients were told of their saves |
| `unanswered` | for the properties only: attachments that D1 has stored without answering |

The statements after a refused `UPDATE` recognise their own row by its version and
`updated_at`, which is in milliseconds.  `Ties` is the case in which another request
has written that version in the same millisecond; it may happen to any two
requests.  `InsertFails` is an error of D1 on the `INSERT` of an attachment, before
or after the row was stored.

### RevisionFeed

| Variable | Code |
| --- | --- |
| `version`, `handlers`, `broadcasts` | the task in D1, handlers between write and broadcast, broadcasts under way |
| `known`, `socket`, `check` | the state of `createRevisionWebSocketClient` and `createRevisionPoller` |
| `loads`, `latest`, `shown`, `failedLoad` | `refreshTasks`: requests, `tasksRequestRef`, tasks, error |
| `move` | `moveTask` of `App.tsx`, optimistic until it is answered |

### WorkflowFlow, WorkflowMigration and WorkflowSync

| Variable | Code |
| --- | --- |
| `flow` | `WorkflowFlow`: a sequence per owner (root, or a branch of a condition), and the parents of plan items |
| `used`, `picker` | ids given to nodes; the target of the step picker |
| `snapshot`, `migrated` | a workflow of version 1 and what `migrateWorkflowSnapshotV1` makes of it |
| `saved` | the workspace row, version by version |
| `screen`, `due`, `timer`, `queue`, `save` | the workspace on screen, the autosave effect, its timer, `saveQueueRef`, the save under way |
| `remoteVersion`, `lastRemote` | the refs of the same names |
| `hydration`, `refresh`, `legacy` | loading, taking over others' changes, the local copy of an older version |

The tree operations and the migration are operators over whole flows;
`ValidFlow` is `assertWorkflowFlow`.  The migration is evaluated on every small
graph: any edges in any order, outside branches or of the branches of any
condition, whether that is still a node or not; `Thrown` stands for the exception
of `assertWorkflowFlow`.  `WorkflowSync` begins as the component does, with the copy
of an older version on screen if there is one, else with an empty workspace.

### AutomationPolicy and RemoteRuns

| Variable | Code |
| --- | --- |
| `queued`, `asking` | `queuedAutomationSavesRef` and the request in flight of `App.tsx` |
| `rec`, `current` | policy objects in the order they were made; the one in `quotaPolicyRecords` |
| `updates` | calls of `updateAndApplyQuotaPolicy`, with their `previous` |
| `jobs`, `work` | the chain of `quotaPolicyQueues` and where its first mutation awaits |
| `writes`, `stored` | the chain of `quotaPoliciesWritePromise`, the file |
| `timer`, `restoring` | `quotaPolicyTimers`, `restoreQuotaPolicies` |
| `item`, `byCodex` | the automation in Codex, and whether Codex's user changed it since |
| `board` | the task a remote run works on |
| `at`, `seen`, `owned`, `thread` | where a run awaits, the task it read, the version of its claim, its thread |
| `turn` | the run's turn in Codex |

`rec` keeps the objects because a mutation changes the object it began with
even when the map has another by then.  `wanted`, `broken`, `owner`, `cut` and
`reopened` remember what the properties speak of; no action reads them.

## 3. The runs

| Run | Instance | Shows |
| --- | --- | --- |
| `scheduler` | 3 requests, 2 groups, 2 resources, limits 1 and 2, per-group and fifo | `BooksAgree`: the counters are the leases, the cached limit is the minimum, the queue holds the waiting; `NoStartableWaiter`; `HolderKeepsLease`; `ImplementsSlots`; `EveryWaiterServed`: who waits is served, unless it may be passed for ever (section 4) |
| `upload_races` | 3 rows of one subject with limits 1, 2, 2, two ZIPs for one name, hard links, one lapse, one task leaving and re-entering `done` | `Fenced`, `SettledByOwner`: claims are fenced and only their owner settles; `NoOverwrite`; `SubjectConcurrency`; `CleanupRemovesOwnFile` |
| `upload_delivery` | 2 rows of equal content and destination, no hard links, a lapse, and a crash or an orderly close | `UploadedIsDelivered`, `QueuedIsSettled` |
| `coord_serial` | 2 automatic tasks that users also start and move, one retry, failures, edits, close, one restart | `SerializedPerPackage`: one start at a time; `StartsAreHeld`: leases are held by somebody, runs and running rows agree, no reservation is stranded |
| `coord_liveness` | an automatic task with delay and one retry of its launch, one that users start, retry and archive, one slot, failures, disable and enable | `ReservationsSettle` |
| `task_starts` | one task, 2 starts by Codex or the local runner, with and without a stage, 2 user actions (moves, retries, interrupts, deletions of a thread or the ZIP), a restart | `RunsExclusive`; `FinishedByProof`; `DecisionsStand`: moves of users and outcomes of attempts stand; `NothingHeldForEver`: claims settle, slots come back |
| `subjects` | 2 subjects, 2 requests, 1 fault; or 1 subject and a registry under mutations | `TransactionsNest`, `TransactionCloses`, `AckedEditsPersist`, `BridgeAgrees` |
| `chat_runs` | 2 turns of one thread, 1 change of settings, 1 exit or restart; or a panel with 3 threads, 3 actions and losses together | `RowsAgree`, `NothingLeftBehind`, `FinishedOnce`, `InterruptSettles`; `ViewFollows` |
| `cloud_board` | 3 tasks, 2 projects, 2 requests, 3 writes; or one policy under 4 events; or 2 remote runs, 2 user actions, 1 fault | `BoardConsistent`, `RelationsSound`, `ProjectsGuarded`; `PolicyInForce`; `RemoteClaimsHold`, `UserChangesStand` |
| `cloud_content` | 2 comments, 2 attachments, 2 requests, 1 fault of R2 or D1; a client with 3 versions, 1 move, 1 loss; flows of up to 5 nodes; graphs of 4 nodes and 2 edges; a workspace with 2 edits, 2 other saves, with and without an older version's copy | `BlobsMatchRows`, `AnswersHold`; `BoardKeepsUp`, `BoardFollows`; `FlowsStayWhole`; `SavesKeepUp` |
| `upload_overwrite` | 2 rows with different ZIPs for one name, no hard links | violates `NoOverwrite`, see section 4 |
| `coord_wake` | 2 tasks, edits of the package at any time | violates `SerializedPerPackage`, see section 4 |

Many of these properties are conjunctions; their parts are named definitions of
the same module (`BooksAgree`, `RowsAgree`, `BoardConsistent` and so on), so that a
failing run can be narrowed by checking a part alone.

### Bounds

A run with several scenarios (`MCSubjectLifecycle`, `MCChatRuns`, `MCCloudBoard`,
`MCCloudContent`) picks one in its initial state; the variables of the other
modules stand still.  The scenarios share no variables of the code, so nothing
is lost by keeping them apart, except where the first two of `MCCloudBoard` and
the first three of `MCCloudContent` split the operations of one module: a
structural change (moving a task between projects, relating it) does not meet a
change of labels there.

* Scheduler: three requests are the smallest number with a holder, a waiter and
  a waiter that passes it; two limits are enough for every comparison
  `canStart()` and `refreshGroupLimit()` make.  One request may need both
  resources, so that the other two can take one each in turns and pass it.  Reuse of leases after
  `Forget` produces stale objects.
* Uploads: two rows race for a name; a third on another name shows that the
  limit of the subject is not that of the name.  One lapse gives two jobs of one
  row; a second would give a third job in the same situation.  `ThreeStory`
  keeps the third row and the revoked completion from occurring together.
* Coordinator: `Calls`, `Entries` and `LeaseIds` bound what is in flight at once,
  not how often things happen.  Two calls are the overlap the launch and claim
  races need; two entries give one task an old one and a new one.  A lease object
  is always new in the code, so there are more `LeaseIds` than tasks and calls
  together can refer to (`CoordinatorAssumption`).  In `coord_serial` and
  `coord_liveness` edits and archiving happen between starts (`WakeMidway`,
  `ArchiveMidway`): section 4 says what happens otherwise.  `LiveBound` keeps
  `coord_liveness` small: one of the tasks at most is archived, a user retries the
  task that is not automatic while the other has no reservation, and the
  coordinator stays open.  The two tasks are
  interchangeable in `coord_serial`, so symmetry is sound.
* Starts: two starts are one to be overtaken and one to overtake it.  `Bounded`
  lets users act twice beside a first start with a restart, and once or twice
  when there are two starts.  Deleting a ZIP is one of these acts.
* Subjects: four versions of a subject are draft, enabled, disabled and removed
  or enabled again; one fault is a lost answer or a crash.
* Chat: two calls of `startTurn` race for the thread; a third thread is needed
  for a list that changes during a deletion.
* Cloud: two requests are one that has read and one that writes meanwhile; three
  tasks make a parent cycle of length two and three; three writes let a row
  change twice under a reader.  Any request may tie with another where rows and
  labels change; where tasks are related and moved one tie happens at most, of a
  request about a relation (`TiesOfRelations`).  The two requests of `cloud_board` are
  interchangeable; its properties are invariants and action properties.
* Workflows: five nodes nest a condition in a branch of another with something
  behind both.  Four nodes and two edges give the migration two branches of one
  node each, branches that meet, one that hangs on nothing, loops, and conditions
  whose node is gone; three nodes with three edges were checked as well.  Two own edits and two saves of others
  let an answer be overtaken twice.
* Automations: a policy, the one before it and the one a restart or a moved
  project makes, plus one check of the board, one action in Codex and one
  failure, four of these in all.  Two remote runs overlap; two actions of users
  are one before and one after the claim.

`CHECK_DEADLOCK FALSE` stands where the bounds end the behaviour (a server that
was closed, a task whose starts are used up, users who may act no more).

### Fairness

Nothing makes users, other clients, Codex or the Bridge act, and nothing makes
a failure happen.  What the code has begun goes on:

* scheduler: the loop of `drain()` is synchronous and runs on; a holder releases
  its lease, because a run ends by itself, by its timeout or by reconciliation.
  That fairness is strong only because `draining` interrupts it;
* uploads: promises settle, the lease timer fires, time passes, and a server
  that has stopped is started again.  `QueuedIsSettled` assumes that users stop
  retrying: rows are claimed oldest first, and an old row retried for ever would
  keep a younger one waiting;
* coordinator: promises settle, timers fire, the loops of `wake()` and
  `recover()` go on, runs end; strong where the bound on calls may disable a step
  the code would take.  `ReservationsSettle` assumes that the server stays open
  and the package is enabled in the end;
* starts: what the server awaits is answered or fails, and a process ends;
* subjects: the Bridge's answer or its timeout comes, the registry's queue runs;
* chat: the grace period of an interrupt ends (a timer), and a process that was
  killed ends.  Without an interrupt a turn may last for ever;
* board: requests are answered or fail, sockets reconnect, polls fire.

`AutomationPolicy`, `RemoteRuns`, `ChatView` and `WorkflowSync` have no fairness:
their properties about the end of an exchange (`PolicyInForce`,
`ClaimsAreHeld`, `ShowsAllEvents`, `DrawnIsSaved`) are invariants that speak of the
states in which nothing is under way.

## 4. What does not hold

Two runs expect a violation of something the repository says:

* `upload_overwrite`: without hard links `rename()` publishes over a ZIP that
  another row put there after the first check (`upload-worker.mjs:116`), and both
  rows end as uploaded.  `CleanupRemovesOwnFile` fails there for the same reason:
  the identity check and the unlink are separated by awaits.
* `coord_wake`: `wake()` skips an entry that waits for a lease but not one that
  is being launched (`feishu-execution-coordinator.mjs:328`); the second pump is
  given the same lease, its claim fails, its catch block returns the lease of
  the start that is under way, and the next task starts beside it.  The edit may
  as well come first: `wake()` collects its entries one `await` after the other and
  pumps them later, by which time one of them may have been launched.

The definitions marked "Does not hold" are refuted by TLC when they take the place
of the properties in the configuration named here, with its constants:

| Definition | Configuration | What happens |
| --- | --- | --- |
| `ResourceScheduler.NobodyWaitsForEver` | `MCScheduler` | a request that needs two resources is looked at one release at a time, while requests of other groups take one of them each: it waits as long as they come, and its own group behind it (`resource-scheduler.mjs:158`) |
| `ResourceScheduler.FifoWhereShared` | `MCScheduler` | `drain()` compares the groups of a request and the entries before it (line 163), not their resources, although the comment at line 155 says "Preserve FIFO for requests that share a package/resource group" |
| `ExecutionCoordinator.PendingRowsHaveEntries` | `MCCoordSerial` | `recover()` awaits each `pump()`; the first that rejects ends the loop (line 312), and the other rows get no entry until the next restart |
| `TaskStarts.ThreadsExist` | `MCTaskStarts` | a start that fails while its task was moved leaves the id of the thread it deletes |
| `TaskStarts.FinishedTasksHaveTheirZip` | `MCTaskStarts` | a user deletes the ZIP of a finished task, which stays finished (`app.mjs:6440`, `database.mjs:6205`) |
| `TaskStarts.DeletedZipsSettle` | `MCTaskStarts` | the ZIP is deleted while the receipt of its run is read: `settleTaskAiStart` refuses the artifact (`database.mjs:5351`), and nobody reconciles the run again before a restart |
| `TaskStarts.OneProcessPerTask` | `MCTaskStarts` | a run interrupted while its inputs are prepared gets its process all the same |
| `SubjectLifecycle.RollbackUndoesOwnWrites` | `MCSubjects` | the rollback after a refusal undoes statements of other handlers that joined the open transaction |
| `SubjectLifecycle.DraftOnlyNeverSent` | `MCSubjects` | a transition whose answer was lost leaves a draft-only history of a subject the Bridge has |
| `SubjectLifecycle.EnabledSubjectHasPackage` | `MCSubjects` | a package is removed while a request that enables its subject awaits the Bridge (`database.mjs:4913`) |
| `ChatRuns.EveryRowIsEnded` | `MCChatRuns` | the app-server exits during a turn: only its pending requests are rejected (`codex-app-server.mjs:117`), the turn stays in the map and its row running until an interrupt or a restart; or a turn ends while the entry of its run holds another turn's id |
| `ChatRuns.TurnsLocked` | `MCChatRuns` | an interrupted run is settled after its grace period while its process or turn goes on (compare `test/ai-chat-runner.test.mjs:1038`) |
| `ChatRuns.RunUsesSettings` | `MCChatRuns` | settings are read before the awaits of `startTurn` (`ai-chat.mjs:952`) |
| `ChatRuns.SameConversation`, `EndedByOwnTurn` | `MCChatRuns` | overlapping turns store another Codex thread, and the end of an old turn ends the new run |
| `ChatView.OnlyFailuresMiss` | `MCChatRuns` | one request counter serves all threads: a refresh of the thread selected before overtakes that of the selected one |
| `ChatView.ListComplete` | `MCChatRuns` | `deleteThread` writes back the list it read before its request (`AiChat.tsx:2155`) |
| `CloudBoard.ActivityNeverDoubled`, `LabelsNeverRevived` | `MCCloudBoard` | version and millisecond identify the request: one that is refused because another has written that version in the same millisecond takes the row for its own, adds its row of activity, and brings a deleted label back (`cloud/src/index.mjs:1012`) |
| `CloudContent.EveryRowHasBlob` | `MCCloudContent` | D1 stores the row of an attachment and does not answer: the handler deletes the blob (`cloud/src/index.mjs:3183`) |
| `WorkflowMigration.EveryWorkflowMigrates` | `MCCloudContent` | both branches of a condition lead to one node, which then has two places (`workflow-control-flow.mjs:192`), or the condition of a branch is no node any more and the nodes of the branch get none (line 238): the workflow cannot be opened |
| `WorkflowFlow.FlowIsValid` | `MCCloudContent` | the picker's target is kept while another client's workspace replaces the flow (`WorkflowBoard.tsx:1097`): a second trigger, or an item of a plan that is gone, and `serializeWorkflowWorkspace` throws |
| `WorkflowSync.ScreenIsCurrent` | `MCCloudContent` | an undo during a save, or a refresh during the reload after a conflict, leaves an older workspace on screen |
| `WorkflowSync.KnownVersionGrows` | `MCCloudContent` | the answer to a save or reload comes after that to a newer refresh |
| `WorkflowSync.LegacyIsImported` | `MCCloudContent` | loading fails, the first autosave removes the local copy; after a conflict the import is merged on screen only |
| `AutomationPolicy.EnabledIsChecked` | `MCCloudBoard` | a failing update restores the record before it, whose timer has fired meanwhile or was never set: an enabled policy without a timer, until the page lists again or the injector restarts |
| `AutomationPolicy.PausedIsPaused` | `MCCloudBoard` | the injector stops between the write of a pause and the request to Codex, and `restoreQuotaPolicies` takes up enabled policies only (line 2059); or a start whose answer is lost stays active under a disabled policy |
| `RemoteRuns.ClaimIsWanted` | `MCCloudBoard` | the policy is looked at before the decision, which takes up to half an hour, and comments and dependencies do not change a task's version, so that a comment between the last read and the claim is not in the prompt |
| `RemoteRuns.NothingLeftClaimed` | `MCCloudBoard` | a claim whose answer is lost, an apology that cannot be posted, or a stop leaves the task in progress; nobody looks for it |

Others need another constant:

* `LeasesHeld` with `ArchiveMidway = TRUE` in `MCCoordSerial`: a task archived
  during the await of the registry makes `updateTaskStatus` throw after
  `request()`; the lease it is granted later has no owner.
* `UploadedIsDelivered` with two rows of equal content and `Revocable` not empty:
  a revoked completion deletes a file another row had found and accepted as its
  own ZIP (the comment at `upload-worker.mjs:205` wants to avoid this).

Exceptions that the properties themselves state, each for something the code does:

* `EveryWaiterServed`: a request that needs two resources, and what its group has
  queued behind it.
* `OneActivityPerVersion`, `LabelsComeWithTasks`: the versions and labels of a request
  that has met a tie (`tied`).
* `RowHasBlob`: the attachment whose `INSERT` was not answered (`unanswered`).
* `MigrationKeepsNodes`: branches that meet, or that have lost their condition.
* `FinishedWithItsZip`: the ZIP a user has deleted since (`withdrawn`).
* `RunningIsDriven`: turns that went with the app-server or ended under the id of
  another one (`IsLeftAlone`).
* `NoBlobLost`: an attachment uploaded to a comment between the list of its
  attachments and its deletion is never deleted (`cloud/src/index.mjs:3094`); a
  failing R2 delete answers 500 after the rows are gone.
* `OneSaveOverAVersion`: a project archived and reactivated during a save gets an
  `INSERT` of no row acknowledged (lines 2870 to 2876).
* `ClientLearnsRevision`, `BoardSettles`: the last broadcast of all, lost while the
  socket lives, is not made up for; a failed load is not retried; the answer to
  an own move that comes after a newer list replaces the newer task until the
  next load (`App.tsx:3515`).
* `FinishedOnce`: a run interrupted before its process was spawned ends with the
  outcome of the process.
* `ClaimsSettle`, `SlotsComeBack`: a claim whose thread a user has rebound
  (`app.mjs:3862`) or deleted, or whose ZIP a user has deleted while its receipt was
  read (`Bereft`), stays, and a local run that was interrupted and
  deleted keeps its slot (`app.mjs:4533`), until a restart or for good.
* `OneTurn`: a user who reopens a task under a running turn gets a second one.
* `PolicyInForce`: after a failure it speaks of the policy again once it has been
  checked.

Met while modelling, without a definition:

* `schedule()` upgrades the trigger of a waiting reservation in its entry
  (`feishu-execution-coordinator.mjs:247`) and not in its row, so that after the
  launch a repeat of the same start is compared with the old trigger and
  refused, against the comment at line 258.
* `pump()` looks at the task before it awaits the registry (lines 157 and 173)
  and moves it to `queued` afterwards, whatever a user has made of it.
* A failing launch puts its entry back although a second pump has cancelled the
  reservation (line 143); `cancel()` of a task without an entry throws (line 292).
* A crash between `settleTaskAiStart` and `clearFeishuExecutionAfterRun`
  (`app.mjs:4096`) leaves a running reservation without a claim.
* `updateTask` of the cloud worker does not ask whether the target project is
  archived; `saveProjectReadme` uses an undeclared name and always answers 500.
* A local start of an untrusted task leaves its run running until a restart.
* A write of the policy file that is cut off may truncate it, and the rejected
  load promise is kept (`codex-injector.mjs:1827`); an `automation-create` that is
  answered after its timeout can make a second automation.
* In local mode `workflow.updated` does not change `workflowRevision`
  (`App.tsx:764`): edits of other clients are found by a conflict only.  Leaving the
  workflow board within 180 ms, or with queued saves, drops edits; a conflict
  replaces the own edit by the other one.

## 5. The proofs

The theorems hold for every number of requests, groups, rows, claims, files,
starts, turns, subjects, policies, comments and edits, under the assumptions on the
constants (`SchedulerAssumption`, `UploadAssumption`, `TaskAssumption`,
`CoordinatorAssumption`, `ChatAssumption`, `ViewAssumption`, `SubjectAssumption`,
`BoardAssumption`, `RemoteAssumption`, `PolicyAssumption`, `ContentAssumption`,
`FeedAssumption`, `SyncAssumption`).  They say that sets are finite where the code's
are, that limits and bounds are natural numbers, and that the values which stand
for "nothing" and "deleted" are no rows, ids or requests.

Nearly all invariants speak of what a handler has read before an `await` and uses
after it; the inductive invariant says which part of that is still true.

**Scheduler** (`ResourceScheduler_proofs`).

1. `Typed` is `TypeOK` and `QueueHoldsWaiters` (`TypeCorrect`, `QueueCorrect`).
   Types alone are not inductive: `Grant` reads the parameters of a queued
   request, which exist only because the queue holds waiting requests, and
   counters stay natural numbers because decrements are guarded.
2. `Counted` adds `CountersMatchLeases` and `ResourceExclusive` (`CountersCorrect`,
   `Exclusive`).  The two need each other: the count 0 that `canStart()` reads
   means "nobody holds it" only while counts are cardinalities.  `ActiveChange`
   says how the set of active requests moves in a grant or a release.
3. `LimitCorrect` follows from `RefreshKeepsMinimum`: every handler that changes
   the parameters of a group calls `refreshGroupLimit` for that group.
   `GrantsWithinLimits` combines it with the comparison in `canStart()`;
   `BooksCorrect` collects the three.
4. `Owned` says that a lease in `holding` is its request's lease and, conversely,
   that an active lease names its request; only then does the identity check of
   `release()` protect a holder from a stale object (`HoldersKeepLeases`).
5. `NoWakeUpLost`: `NoStartableWaiter` is inductive as it stands, because every
   action that changes what `canStart()` reads leaves `draining` set.
6. `SlotsImplemented`: initial states map to initial states, and every step maps
   to a step of `AdmissionSlots` or a stutter.  A grant is the abstract admission
   because 2 and 3 turn the counters it compares into the set of requests that
   run.  A release that frees something is `GiveBack` of a lease that is held and
   owned, because 4 says that the lease of an active request is held by its caller;
   every other release changes neither `lease` nor `holding` and is a stutter.

**Uploads** (`ArtifactUpload_proofs`).

1. `Fenced` is `TypeOK` and `ClaimTokensAreUnique` (`AlwaysFenced`,
   `UploadTypeCorrect`, `TokensFence`): a claim takes a token no row, job or file
   bears.  `OwnersSettle` is the action property that follows.
2. `Graded` strengthens `SubjectConcurrency` (`ConcurrencyBound`): *every* non-empty
   set of uploading rows of a subject contains a row whose limit covers it.
   Without it the bound is lost when the row with the largest limit settles.
3. `NoRename`: where `link()` works no job reaches the rename.  With it
   `NeverOverwritten` and `Delivered` are proved under the assumption `HardLinks`,
   and `Delivered` for tasks that stay `done` as well; section 4 shows that
   neither assumption can be dropped.

**Starts of a task** (`TaskStarts_proofs`).  `TaskInv` (`TaskInvariant`) is the
types, `ClaimOK`, `FinishedWithItsZip` and, for each start, `StartOK`: which run,
attempt, artifact and subscription a start can have at each await (`StepOK`,
`RunOK`), what `reconcileFeishuTaskAfterRun` and an artifact report have read and
may still use (`ReadingOK`), and that an attempt is completed only after its
claim is gone (`ProofOK`).  A start at one step constrains only itself and the
row, so most steps follow from `StartsStayOK`: other starts are untouched, and
the row changes only as `ReleasedIs`, `SettledIs`, `ClaimedIs` say.  From it follow
`RunsAreExclusive`, `FinishedOnlyByProof`, and `DecisionsAreKept`: releasing,
settling and reconciling compare version and token before they write.

**Coordinator** (`AgentRuns_proofs`). `CoordinatorHolds` (`CoordinatorInvariant`,
stated in `CoordinatorInv`; TLC finds no counterexample to it either when it is
added to `MCCoordSerial`) is a predicate `IndInv` on the record a step of the
model works on, so that each operator has a lemma: what it takes and what it
leaves, with up to four exceptions for what the step is in the middle of (`x` a
call that has given its lease back, `z` a task whose request is being made, `y` an
entry that is being pumped, `w` a call that is ending). The lemma of an action
puts those of its operators together, and `CollectKeeps` says that collecting
objects changes nothing. Its parts are

* `Scheduled`: a task has one lease and a lease one task, no more leases than the
  limit; a waiting request is of a task without a lease, once, and has its entry
  in the map; a call past the scheduler holds its task's lease (`LeasesMatch`), and
  before the shutdown every lease is held and every request awaited by a call
  (`LeasesOwned`).  Lemmas say what `drain()`, a release, a request and a
  cancellation do to it;
* `Placed`: one call at a time works on a task (`OneCall`), and while a launch does,
  its entry is the one in the map, no timer runs for the task and `leasePending`
  is set until the lease is there (`LaunchesPlaced`, `LaunchesMapped`, `TimersIdle`):
  this is what keeps a second pump away.  `RunsPlaced`, `RunsClaimed` and
  `RunningRows` tie a run to its row and claim, `RecoveryLeft` says that the rows
  `recover()` has yet to visit are as the restart left them, and `Alive` that a
  pending reservation of the map has somebody to wake it;
* `WakingQuiet`: while `wake()` pumps an entry, no start is under way.

`SerializedAlways` follows from `WithinLimit` and `LeasesMatch`: distinct tasks being
started or run hold distinct leases.  It assumes `~WakeMidway`, for the reason
section 4 gives: `OneCall` is what an edit at the wrong moment breaks.  It assumes
nothing of archiving.  `StartsAreHeldAlways` needs `~ArchiveMidway` as well: with a
task archived during the await of the registry, `LeasesOwned`, `FreshUnarchived`,
`PendingHeld` and `Alive` fail, and the rest of the invariant does not depend on them.

**Chat turns** (`AgentRuns_proofs`).  `RowsAgree` is not inductive: a turn can
create its row only if no other is running, and a row ends while its process
goes on.  `ChatInv` (`ChatInvariant`) adds `InOrder`: the rows, files, processes and
marks a turn has at each await.  `RowsOfThreadAgree` follows from it, `OutcomesStay`
from the guard of `UpdateRun` that it keeps meaningful.  `TurnsCleanUp` needs
`EntriesLive` as well: the entry of a turn in the map has a process or a turn that
works, one that was lost, or one that has ended while another turn of the same
Codex thread had been asked for, which is how the entry can hold another id.

**Chat panel** (`AgentRuns_proofs`).  `ViewFollows` speaks of moments at which
nothing is under way; `ViewInv` (`ViewInvariant`) says of every moment what is
(`CatchesUp`): unless the snapshot is current, the stream is about to begin with a
hint, a hint is on its way, a refresh follows the first load or the refresh that
runs, or the latest load will bring the events there are.  It needs

* `LoadsInv`: the queue has one load for each of its threads, and one load is the
  latest, so that a flag or a number that was set is looked at by somebody;
* `ReadsForward`: the latest load shows nothing older than what is shown;
* `EffectServes`: the stream, the hints and the first load are those of the
  selected thread once its effect has run;
* `CreatedIsNew`: nobody knows a thread before the answer to its creation.

An event at the server finds the stream open, and makes a hint, or not yet open,
and the stream begins with one (`HappensKeeps`): this is why none gets lost.
`PanelFollows` is what remains of it when nothing is under way.

**Subjects and registry** (`SubjectLifecycle_proofs`).  The connection is shared,
so that an open transaction holds what other handlers write while its owner
awaits the Bridge.  `SubjectInv` says whose it is (`Owned`), what the owner's call
still relies on, and what the Bridge can know:

* a transition holds the version it began with (`TransitionHeld`); a subject of a
  removal is still due, spared or removed (`Removing`, `RemovalHeld`), in the
  tables and in the list of what the Bridge was told;
* `AckedExact`: what clients were told is exactly the committed version, which is
  stronger than the property, for otherwise a rollback could not be shown to
  return to it;
* `BridgeKnown`: a subject nobody is telling the Bridge about agrees with it
  (`Agrees`), and one enabled at the Bridge is one `RequiresBridgeDisable` finds.

`FileInv` treats the registry: what the first mutation of the queue has read is
still the file.  `SubjectInvariant`, `TransactionsStayOwned`, `AckedEditsStay` and
`BridgeStaysInStep` follow.

**Board** (`CloudBoard_proofs`).  `BoardInv` (`BoardInvariant`) says of each request
`RequestFits`: as long as the task has the version the request read, it has the
labels and the project the request compared its own with; that is why one test of
the version in the batch stands for all the checks before it.

* Identifiers are unique because `NextNumber` is above every number given out with
  the prefix (`NextNumberIs`), whatever the counter of the project says.
* `Ancestors` is the least set closed under parents, which is what the recursive
  query of the trigger computes, and which can be reasoned about (`AncestorsAre`).  A new parent that is no descendant of its child closes no
  cycle (`NewParentKeepsForest`), and a relation between two tasks of one project
  stays within it because the batch that moves a task tests that it has none.
* Nothing is assumed of the clock.  A refused request whose version another one has
  written in the same millisecond adds a row of activity for a version that
  exists, and remembers it in `tied`; every other row is the first of its version
  (`RowAdded`).  Such a request may also add its labels to its project, which
  `LabelsKnown` allows and `LabelsComeWithTasks` excepts; it changes no row of a task
  and no relation, so that `RelationsStaySound` needs no exception.

**Remote runs** (`CloudBoard_proofs`).  `RemoteInv` (`RemoteInvariant`) adds to
the claims that a version identifies the state of the row it was read with
(`VersionsIdentify`) and that one run at a time is past its claim (`OneIsBusy`);
`RemoteClaims` and `UserChangesAreKept` follow.

**Policy of an automation** (`CloudBoard_proofs`).  `PolicyInForce` speaks of
moments at which nothing is under way and the policy has met no failure; `PolicyInv`
(`PolicyInvariant`) says of every moment how it will come about.

* `WantedIsKept`: unless a save waits, the record in memory is what was asked for.
  `updateAndApplyQuotaPolicy` undoes a record only while it is the current one, and a
  record replaces its own `enabled` only to pause.
* `FileFollows`: after the writes that wait, the file says what is in memory.  A
  mutation that ends after a newer record was made writes the newer one, so that
  its write may fail without harm only if the file says so before it; an update
  that fails while only such writes follow it is the current one, and is undone.
* `PolicyIsChecked`: the current record is being checked, or its check is in the
  queue or follows its write (`CheckComes`), or it is `Settled`, with its timer and
  with an automation it lets run.  If another record is being checked, the
  check of the current one comes: the older one may end by starting or pausing
  the automation, and would otherwise have the last word.
* `WorkIsApplied`: what a mutation leaves in its record lets run what it started.

`PolicyHolds` is what remains of it when nothing is under way.

**Content and clients of the cloud** (`CloudContent_proofs`).

* `ContentInv` (`ContentInvariant`): `RequestFine` says of each request what its
  list of keys still means after other requests have written, `UploadsDiffer`
  that no two uploads have one key; a row without a blob is one D1 has not answered
  (`unanswered`).  `BlobsKeepUp` and `AnswersStayTrue` follow;
  the latter needs `SavesAreStored`, that a save which was acknowledged is the
  stored version it names.
* `FeedInv` strengthens `BoardKeepsUp` (`FeedKeepsUp`): the load that will be shown
  is in progress unless it failed (`LatestIsComing`), and it has read the
  revision the client knows (`LatestIsNew`); the answer to an own move brings
  what the client shows (`AnswerBrings`).
* `SyncInv` strengthens `SavesKeepUp` (`SavesAreKept`): every workspace a load,
  save or refresh carries is the one the server has saved under the version it
  carries (`LoadFine`, `SaveFine`, `RefreshFine`), and the screen is saved, waits
  for the timer, or is in the queue (`ScreenSafe`).

**Only model-checked:** liveness under fairness, which the prover does not treat;
`CleanupRemovesOwnFile` and delivery by rename.  `WorkflowFlow` and
`WorkflowMigration` are built on recursive operators, which the prover does not
read, and stay with TLC.

## 6. What is not modelled, and what comes next

Planned: the coordinator and `TaskStarts` composed, with the separate commits of
settlement and reservation and the crash between them.

Left out of the modelled parts: `recover()` of the scheduler, which nothing in
`server/` calls, and `snapshot()`, which reads; the messages of a chat turn; the
chat panel's refresh of other running threads, its unread marks, composer and
confirmations; `moveWorkflowNode`, which only tests call, and the layout of the
workflow board; remounting it; the item a remote policy shows for itself and its
next run time; events of a foreign run that a subscription hears
(`app.mjs:4199`).

Not modelled: artifact ingestion (ZIP parsing and streaming, one rename at the
end); the supervisor, whose start is one promise shared by its callers; the
other HTTP routes and local task CRUD, validation around single SQLite
transactions; authentication, sessions and project READMEs of the cloud worker;
the cloud proxy and the Jira client (request forwarding and field mapping); the
injection into the Codex window, the desktop shell, the CLI and the rest of the
interface (process glue, request building, presentation).
