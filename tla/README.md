# TLA+ verification of the automation and message core

This directory holds TLA+ models of the parts of the API server that run on
their own: tasks, plans, triggers, messages that leave the system, the desired
state of the network agent, and the transactions that move media files. They are
checked by TLC on small instances, and their central properties are proved with
TLAPS for every value of the constants. Paths below are relative to `src/src/`
of the repository; `PROJECT.json` maps each definition to the lines it models.

- [1. The system](#1-the-system)
- [2. The modules](#2-the-modules)
- [3. The runs](#3-the-runs)
- [4. Fairness](#4-fairness)
- [5. What is proved](#5-what-is-proved)
- [6. Disagreements found](#6-disagreements-found)
- [7. What is not modelled](#7-what-is-not-modelled)
- [8. Plan](#8-plan)
- [9. Running it](#9-running-it)

## 1. The system

A NestJS application. Several processes may run the same code on one MySQL
database, so every "background worker" is in fact one worker per process; they
meet in the database only.

```
 page / API ──enable, disable, fire──► plan ──prepare, activate, close──► trigger engine
                                        ▲ │                                 │
        events of the modules ──publish─┼─┼─────────────────────────────────┤ occurrences
                                        │ └──pending, acknowledge───────────┘
                                        └───start(run of an occurrence)──► workflow engine
                                                                            │ pump every 500 ms
                                                task execution ◄─process()──┘
                                                     │ handler (e.g. message.delivery.scan, every 5 s)
 network agent ──stage(event)──► message_event ──fan-out──► bot_message_delivery ──send──► platform
                    └──requestDrain()──► drain coordinator ──runOnce()──┘
```

### Components with logic of their own

**Task execution** (`modules/task-execution`).
*State*: rows of `automation_task_run` (status, attempt count, cancellation and
review flags), `automation_task_attempt`, `automation_task_review`; the named
lock `kt:task:<taskId>`; inside `process()`, an abort signal and the last control
failure. *Operations*: `start`, `cancel`, `cancelParent`, `review`, `process`.
*Hard*: `process()` is called at least once and by several workers; the named
lock is lost with its session while the worker goes on; the outcome is written by
row id alone; a periodic check runs beside the handler and beside the final
transaction; the side effects of a handler cannot be undone. *Correct when*: side
effects happen at most once unless the handler is idempotent; a cancelled waiting
run is not executed; outcomes are final; an unknown outcome blocks its task until
somebody reviews it; attempts and run agree; every run ends.

**Schedule plans** (`modules/task-scheduling`) and **trigger engine**
(`modules/trigger-engine`).
*State*: `ScheduleState` (revision, active binding), `ScheduleRegistration`
(binding of an activation), `ScheduleDispatch` (inbox and launch of an
occurrence); `TriggerRegistration`, `TriggerOccurrence`, `TriggerEventReceipt`;
the named lock `kt:schedule:<id>`. *Operations*: `enable`, `disable`, `fire`,
`reconcile`, `process`; `prepare`, `activate`, `close`, `publish`, the recording
of due times, `pending`, `acknowledge`. *Hard*: the plan and the trigger engine
commit separately, so that `enable` is a saga that may stop anywhere; events
arrive at any step; a plan may be switched while occurrences of its last
activation are under way; the answer of the workflow engine may be lost; the
lock may be lost while a call to another engine is under way. *Correct when*: an
occurrence is launched once, under the activation it belongs to, and not beside
another with `overlap = skip`; it is stored before it is acknowledged; no
occurrence is left in a retired binding; an event is not recorded for two
activations; each recorded occurrence gets a final dispatch; the registration of
the activation in force becomes active and every other one is closed.

**Message fan-out and deliveries** (`modules/message-management`,
`modules/bot-adapter/message-management`).
*State*: `message_event` and `bot_message_delivery` rows, both with status,
attempt count, next time and lease; subscriptions, bindings, targets and
accounts. *Operations*: `stage`, `notifyDependencyChanged`, the two `runOnce()`
(claim, read, one transaction per subscription, finish; claim, prepare, send,
result), configuration changes. *Hard*: leases that pass under a slow owner; the
events of a resource are handled in any order; configuration changes between the
read and the transaction; transactions fail one by one; a send is accepted but
its answer is lost. *Correct when*: an obsolete event leaves no fresh message; a
disabled subscription has none; final rows stay final; duplicates come from
faults only; an event that is completed has reached everybody; every row ends.

**Drain coordinator** (`message-management/application/system-message-delivery-coordinator.service.ts`).
*State*: a promise, a request flag, the error of the running loop, a destroyed
flag. *Operations*: `requestDrain`, `drain`, `onModuleDestroy`, the loop. *Hard*:
requests between two awaits, in particular between the end of the loop and its
`finally`; batches that are exactly full; shutdown half-way. *Correct when*: no
wake-up is lost; no scan runs after shutdown; `drain()` does not hide a failure;
the loop ends.

**Database lock** (`common/locks/database-lock.ts`). `GET_LOCK` on a dedicated
session; the callback may use the session's manager, so that its writes end with
the lock, or other connections, so that they do not. Both kinds occur in the code
and both are modelled with their users.

**Workflow engine** (`modules/workflow-engine`).
*State*: the row of `workflow_run` (status, cancellation, error, deadline), its
BPMN state (checkpoint of the interpreter and inbox of messages), one row per
visit of an activity; the named lock of the run. *Operations*: `start`, `cancel`,
`process` (the pump), `processAction`, `accept` of a message, `submit` of a human
decision, pause, compensation. *Hard*: an action commits apart from the
checkpoint of the interpreter; the worker writes the book of the run from memory;
an event may cancel an action that is being carried out; a cancellation, taken
without the lock, arrives at any await. *Correct when*: one run per execution
key; an action begins only in an open run, and once unless it can be repeated;
when the run has ended nothing it started goes on; what was acknowledged is kept
and consumed; a run that is cancelled or late ends.

**Network agent** (`modules/admin/platform-config/network-management`).
*State*: the revisions of the desired, the published and the applied state with
the schema of each (`network_agent_state`); the rows of groups and channels; in
the process, the MQTT connection, the promise of the publish drain and its two
flags; at the broker, a retained message per schema. *Operations*: create, update
and remove a group, change a channel, publish, connect and recover, take reports
and status, activate schema 2. *Hard*: edits, publications and reports meet in
one row; a packet without its PUBACK may have arrived; a report is older than the
rows, comes twice, or was sent before the agent had finished; the broker may
forget. *Correct when*: the agent never finds two desired states; the latest one
is retained in the end; no channel is deleted while it is open, and a removal is
completed. The service also stages the events of the message queue. **DDNS**
beside it wakes the deferred ones.

**Plugin platform** (`modules/plugin-platform`). *State*: installed versions on
disk and in tables, worker threads, pending host calls. *Hard*: a worker that
dies with calls under way; an upgrade beside a running version.

**Local media plans** (`scripts/media-governance/runtime` beside `src/`): the
executor `media-manifest-executor.mjs` and `media-local-batch-transaction.py`,
which runs it for several plans.
*State*: the files and the hard link of a replaced video; per plan a journal of
lines and a lock file; the application `trim.media`, running or stopped; in the
batch, the plans committed, undone and in error. *Operations*: execute a plan
forward or inverse, undo it when a step fails; stop the application, execute,
inspect, roll back, start, report. *Hard*: every call of the file system may fail
with or without its effect; the executor is killed at the end of its time or with
its batch; a process reads the journal before it has the lock; a video stands in
the way of another. *Correct when*: the last line of the journal is what the disk
shows; a direction is committed once; nobody touches a plan whose executor died;
the application is stopped for every move and started again; the report is true.

**Media governance** (`modules/admin/media-governance`). *State*: a catalogue and
the tasks and runs that lead to such plans. **NapCat login**, **Tencent bot transport**,
**bot conversation tasks**: sessions with remote systems. **Redis lock**, **rate
limits**: counters and leases in a store.

### The rest

Rule evaluation, form and automation definitions, the monitor, administration,
blog, assets, plugins with single features and migration commands are CRUD
in one transaction, pure computation or pure I/O. Every component is listed in
`PROJECT.json` with its files and the reason when it is left out.

## 2. The modules

| Module | What it is |
| --- | --- |
| `TaskLife` | Abstract: what the workflow engine may rely on when it hands actions to the task service |
| `TaskExecution` | The life of task runs, one action per statement or transaction; implements `TaskLife` |
| `TaskExecutionProofs` | The theorems that need no lock, then those the lock adds: ledger of attempts, final outcomes, blocked tasks, the refinement; how `process()` comes to its end |
| `DispatchGate` | Abstract: what a plan promises about its occurrences and runs |
| `DispatchGateProofs` | At most one open run with `overlap = skip` |
| `SchedulePlan` | A plan and its trigger, one action per statement or call; implements `DispatchGate` |
| `SchedulePlanProofs` | Its invariants, step by step, the refinement, and how a call comes to its end |
| `LeasedWork` | Abstract: rows that are worked on in numbered attempts, of which only the latest counts |
| `MessageDelivery` | Events, deliveries, leases, supersession, sends; implements `LeasedWork` |
| `MessageDeliveryProofs` | Its five invariants, theorems and the refinement, and how a claim comes to its end |
| `DrainLoop` | The loop that decides when the two scans of `MessageDelivery` run |
| `DrainLoopProofs` | Its inductive invariant, theorems, and the measure by which the loop ends |
| `WorkScope` | Abstract: what a run promises about the work it starts |
| `WorkflowRun` | One run: pump, interpreter, requests and actions; implements `WorkScope`, uses `TaskLife` for its actions |
| `WorkflowRunProofs` | Its inductive invariant, theorems and the refinement, and how `process()` comes to its end |
| `DesiredState` | Abstract: versions that are sent, followed, and buried when nothing can open them again |
| `NetworkAgent` | Edits, publication and reports of the agent's desired state; implements `DesiredState` |
| `NetworkAgentProofs` | Its inductive invariant, theorems and the refinement |
| `SealedPlan` | Abstract: a media plan is a transaction between two sides |
| `ManifestExecution` | Executors of sealed local plans: lock, journal, moves, undoing; implements `SealedPlan` |
| `LocalBatch` | Composes them: several plans in one stop of the application |
| `LocalBatchProofs` | The inductive invariants of both, the theorems and the refinement |
| `MC*` | Constant definitions and symmetry for TLC |

Common conventions. A worker is a call of the operation; its program counter
names the await it is at, and an action is one database statement or transaction
with the synchronous code up to the next await. Time is the fact that an instant
has come (`due`, `expired`, `lapsed`). Faults are bounded by `MaxFaults` and lost
lock sessions by `MaxLosses`; both are counters in the guards and nothing else
reads them, except that `DuplicatesPaid` relates duplicates to faults.
Definitions commented `Mutation:` change one definition the way a plausible
bug would; no specification uses them. They document which bug each property
would catch.

### TaskExecution

Rows are functions of the run (`status`, `attemptCount`, `attempt`) and sets of
runs (`cancelRequested`, `requiresReview`, `reviewed`, `due`, `expired`).
`owner` is the named lock as the server sees it; a worker believes it holds it
when its `pc` is in `Inside`. `Dequeue` to `Begin` are the steps of `process()`
up to the attempt transaction, `ProbeLock` and `ReadFlag` the two halves of a
control check, `Invoke`, `Notice` and `Conclude` the places at which one may
settle, `HandlerReturn`, `Commit` and `Release` the rest of `executeAttempt()`.
The status that is written is computed
in `Conclude` and the review flag is read in `Commit`, as in the code. Writes are
by row id and ask for no status and no lock. `invoked` and `withdrawn` are
history variables: calls of the handler, and runs cancelled while they waited.
Abstracted: outputs and errors, the exact time of retries, the JSON contract.

`linked` are the runs that an activity names as its `taskRunId`. `start()` makes the
row, `Link` is the later save in `advanceAction()`, and the worker of the workflow may
die between the two. `Dequeue` asks for the link, because `processAction()` returns for
a run that no activity names: "independent tasks have no recovery entrance", as the
comment on `pendingActionIds()` says. A run that is never linked stays pending for ever
in the model as in the code, and `EventuallySettled` speaks of linked runs only.

`TaskLife` is the border between the task service and the workflow engine. It keeps
the row of a run: its status, the cancellation flag, and the permission a worker has
from `canExecute` and not used yet. `TaskExecution` implements it as long as no lock
is lost (`ImplementsLife`; `Permitted` are the runs whose worker stands between
`canExecute` and the attempt transaction), and `WorkflowRun` takes its steps for the
task runs of its actions, so that the two models meet in one text. Each assumes of
the other what the other shows. `TaskExecution` lets an allowed run be revoked and
never allowed again, and takes it that the queue lists a linked run until it has ended:
`PermissionFadesAlways` and `ListedUntilOver` are these facts, about `WorkflowRun`.

### SchedulePlan and DispatchGate

One plan. An activation is the revision at which it was enabled and names both
the binding row and the trigger registration; an occurrence is a pair
<<activation, identity>>, as the unique keys of the tables have it. `OnLock` is
the guard of the steps that write on the lock session: they are possible only
while the session owns the lock, and `FailLost` ends a worker at such a step when
it does not. Steps that call the trigger or the workflow engine use `At`: they
happen with or without the lock. `Launched`, `Dispatchable` and `Final` are the
status groups of `run-status.ts`. `work`, `todo` and `resume` are the lists that
`process()` and `reconcile()` read first and walk afterwards; `seen` and
`expected` are values read earlier, which may be stale when used.

`DispatchGate` says what matters to the owner of a plan: an occurrence is
`waiting`, `open`, `closed`; it is opened at most once, only while its activation
is in force and, with `overlap = skip`, while nothing else is open; its run
is created only while it is open; it closes when the run ended or cannot come to
exist. The refinement mapping is `active` for `current`, `GatePhase` (dispatch
status and the recorded occurrences) for `phase`, and `run` for itself.

### MessageDelivery

The events of one resource, all subscriptions and all processes. Events and
deliveries share one status function because they share one life cycle, claim
and lease: <<e, Self>> is the event, <<e, s>> its delivery to s. A claim is
identified by its attempt number (`token`); each write asks for `processing` and
that number. `Visit` opens the transaction of a subscription (locks the event,
reads the newer events and the subscription again), `Commit` writes delivery and
supersession, `FailVisit` is a failed transaction, deadlock victims included.
`Send` has the four outcomes of a strict send, accepted with the answer lost
among them. `Stage`, `Disable`, `Enable`, `Retarget`, `Unbind`, `Rebind`
and `WakeDeferred` come from elsewhere. Abstracted: rendering,
templates, the numeric backoff, the 24-hour window (as `MaxTries` tries). A subscription
always has an enabled template: one that has lost them all is left before the look at
newer events (`system-message-fanout.service.ts:305`), so that its waiting deliveries are
not superseded. A lease may lapse at any time, as a fault, hence it does not matter that the code
counts it from the start of the batch and not from the claim.

`LeasedWork` has neither processes nor leases. The attempts of a row are numbered,
any number of them may go on at once, only the latest writes the outcome, and only
of a row nobody has withdrawn. The mapping reads `tries` for the number of attempts,
the pairs of row and token in the processes for the attempts that go on, those at
the await before the second look at the claim (`prepare`) for the ones that may still
be admitted to the platform, those at `send` for the ones that are, and `sends` for
the calls that were accepted. Waiting, deferred and retried rows are one stage.

### DrainLoop

One process. `pc` tells at which await the loop is, `"none"` that there is no
promise, `"done"` that the loop has returned and its `finally` has not run yet:
JavaScript runs it in a later microtask, so other calls may come in between.
Rows are only counted. There is one subscriber in the code; other processes that
take rows would only shorten the queue.

### WorkflowRun and WorkScope

One run, and one worker in `process()` at a time: the named lock allows no more,
and whatever a worker does on the session of the lock fails once it has lost it.
`Throw` is therefore the end of a worker for any reason. Only the calls of the
task service use other connections; those of a worker that has lost its session
while it was making one are kept in `stray` and happen later, or never.
`book` is what the tables hold of the BPMN state and of the activity rows, `copy`
what the worker holds in memory; `SaveAct` and `Stop` write back from memory, as
the code does. `phase` tells the three loops over the activities apart: the one of
`stopRun()`, the sweep of withdrawn activities, and the main loop.

The interpreter is a choice among the moves a diagram allows: `Moves` consumes
all results and pending messages, cancels any live tokens, and reaches nodes one
of whose predecessors (`After`) has been passed. The diagram of the run is a
constant: an action with an interrupting message beside it and a human decision
behind. `child` is the task run of an action, and its steps are those of `TaskLife`:
`Authorise` is `canExecute`, `Begin` may follow it at any distance, and a run whose
handler is idempotent may wait again.

`WorkScope` is the promise to whoever starts or cancels a run: each action begins
only while the run is open, and once unless its handler is idempotent, an outcome is
final, and no run succeeds after its cancellation was accepted. The mapping reads
the run's status for `phase`, `cancelRequested` for `revoked`, and `child` for the effects.

Abstracted: the times of waking, except that an open run is queued again; inputs
and outputs. Left out: rules, scripts, business steps and compensation; pause.
`cancelParent()` of task execution, written for the window between
`tasks.start()` and the save of its id, has no caller in the repository, hence a
row that was never linked may be left pending: `EndedQuiet` allows it, and no liveness
property of either model promises anything of it.

### NetworkAgent

One agent, one group, one server process with its drain. `desired`, `published`
and `applied` are the revisions of the agent's row, `channel` folds presence,
synchronisation and deletion of a channel's row into one value. `pc` is the await
of the drain: reading, clearing the old topic, sending, marking. `Ask` is
`requestDesiredPublish()`, which every commit of a new revision calls after its
transaction. In the model an edit and its call are one step; a process that dies
between the two is `Crash` right after it, which forgets the request.

A PUBACK and the storing of its packet are one step; what may happen otherwise is
in `MayBeStored`: when the connection, the client or the process fails, a packet
in flight was stored or was not. `Deliver` is the transaction of a report and its
PUBACK, `DeliverAndDie` the process that ends between the two, after which the
broker delivers the report again. The agent is assumed to follow the newest
retained message it finds, never to go back, and to report what it finds at that
moment. `Rename({})` is an edit that gives a new revision though no channel
changes.

Columns that follow from others are left out (the schema of the applied state,
the capability flags, which the activation writes just before it reads them).
Left out with a loss: endpoints, their leases and their history; keeper and NATMap
states; reports of failures and conflicts; a protocol of the group that is added
again after it was deleted; the release policy. The items of a report that is older than
one already applied of the same revision are skipped by the code
(`network-agent-mqtt.service.ts:786`) and may be applied in the model, which therefore
has more behaviours than the code.

`DesiredState` is the same without connections, topics, schemas and reports: a
version has the channels that are wanted and those that are dropped; versions are
sent and lost; the agent follows ever newer ones and opens or closes one channel at
a time. A dropped channel is buried when it is closed and no version the agent
follows or may come to follow has it as wanted. The mapping takes the channels by
their rows (`Present`, `Absent`, `Deleted`), what the drain and the broker hold for
the versions on their way (`Sent`), and reports for nothing: that they prove what
`Bury` demands is what the refinement shows.

### ManifestExecution and LocalBatch

`place` says at which of its two paths a file is, or that another hand has taken
it; `oldShown` is the directory entry of a replaced video at the path of the new
one, whose content a hard link keeps. `last`, `way` and `spent` are the journal: its
last line and the directions that have a line `committed`, which is all that
`hasCommitted()` reads. `locked` are the lock files. An executor is a process with a
program counter; it stands between the calls of `executeLocalManifest()` that write,
and `Move` and `Undo` are one file each. `Append` has the three outcomes of a line:
written, written with an error, not written.

`LocalBatch` extends it with `execute_batch()`; `Child` is the executor it waits for,
any other one is started by hand (`ByHand`). `Interrupt` is the end of an executor's
time or a signal to the batch: `subprocess.run()` kills the executor and the batch
goes on. `Crash` kills the batch, whose executor lives. `Verdict` is the state it
writes, with its order of precedence.

Files of a plan may be moved in any order, and the plans of a batch executed in any
order; the code has one order each, so the model has more behaviours.

`SealedPlan` has no processes, lock files or failing calls. A plan stands at a side,
is going, returning, broken, or `doubtful`, which is a commit whose line was written
with an error: its executor undoes it, unless it dies first (`Doubtful`). The mapping
reads the last line of the journal for this, the lines `committed` for the directions
that are spent, and files and directory entries for themselves.

Left out:
contents changed in place, which the scans would find; a line cut off by a full
disk; directory entries lost with the power, which nothing synchronises; two
batches at once (see section 7). A rename within a local filesystem takes effect or
throws: one that takes effect and throws all the same, as on a network mount, would leave
a file at its target that no undoing knows of. Of the signals, SIGTERM is an error the
batch handles (`Interrupt`) and SIGKILL is `Crash`; SIGINT raises KeyboardInterrupt, which
passes by `except Exception`: the executor is killed, nothing is undone, the application
is started and no report is written. `Honest` holds then as after `Interrupt`, since the
journals are the executors'; of the report there is nothing to say.

## 3. The runs

| Run | Instance | What it shows |
| --- | --- | --- |
| `task_execution` | 2 runs of 1 task, 2 workers, 1 crash | `ImplementsLife`, `BlockedWhileUnknown` |
| `task_retry` | 1 run of an idempotent or another task, 2 attempts, 2 workers, 1 crash or lost session, fairness | `TypeOK`, `AttemptLedger`, `AtMostOnceEffect`, `WithdrawnNeverExecutes`, `EventuallySettled` |
| `task_review_stuck` | 1 run, no fault | finding 1 (section 6) |
| `task_stale_write` | 1 run, 1 lost session | finding 2 (section 6) |
| `plan_safety` | 2 event activations, 2 events, 2 workers, 1 crash, lost answer or lost session, skip | `NothingStranded`, `InboxBeforeAck`, `EventOnce`, `StartsInForce` |
| `plan_liveness` | a manual, then a timed activation, 2 workers, 2 faults, lock kept, skip, fairness | `ImplementsGate`, `EventuallyDispatched`, `EventuallyArmed` |
| `message_supersede` | 2 events, 1 subscription that may wait, 2 processes, 2 tries, 1 fault, 2 changes | `NoFreshObsolete`, `NoFreshDisabled`, `DuplicatesPaid`, `ImplementsLeases` |
| `message_liveness` | 1 event, 2 subscriptions, 2 processes, 1 fault, fairness | `CompletedReached`, `EventuallyFannedOut`, `EventuallySettled` |
| `drain_loop` | 4 rows, batches of 2, 2 callers, 1 request, 1 rejecting scan, fairness | all of `DrainLoop` |
| `workflow_run` | an action, an interrupting message, a human decision, 1 fault, fairness | all of `WorkflowRun`, `WorkScope` among it |
| `network_agent` | a group created with tcp and changed to udp, edits up to revision 2, 1 report under way, 2 faults, fairness | `OneOwner`, `ImplementsVersions`, `DesiredRetained`, `DeletionCompletes` |
| `local_batch` | plans of two files, of one with a cache, of one that replaces a video; 2 executors, 1 by hand, 2 faults, fairness | `Honest`, `ImplementsSealed`, `OrphansRest`, `StoppedForChanges`, `Reported`, `BatchEnds` |

Why the bounds are enough to be of interest. Two workers or processes are what
a lock or lease arbitrates between; a third would repeat the part of one of them.
Two runs of one task are needed for one to block the other; two attempts are a
retry and its limit. Two activations are an old and a new binding, which is
where events can fall between; two events are one that is open and one that must
wait or be skipped. Two events of a resource are an earlier and a later one. One
fault is taken at every step; the second of `plan_liveness` lets a crash meet a
lost answer, that of `network_agent` a lost connection meet the crash of the
process that comes back. `MaxRevision = 2` bounds the edits, not the revisions: the deletion of
a channel is a revision beyond. Two edits are a creation and whatever comes
after it, a removal included. `MaxReports = 1` keeps one report under way for as
long as it likes, so that it is late for anything; two reports of a revision
cannot overtake each other, which the code excludes by their time. A group that is
created with both channels adds states and no case; the theorems are about any
number. Two faults of `local_batch` are a failure and one while it is undone, or a
kill and an error of the rollback; a plan of two files can be moved in part, and the
executor by hand meets the batch's on a plan. The type invariants are checked where
they say more than types (`task_retry`) and proved for all modules. The diagram of
`workflow_run` is the smallest in which an event cancels an action under way.
Four rows over batches of two are a full batch, an exactly full last
batch and a partial one. The bound `MaxLosses = 1` gives two workers that both
believe they hold the lock; the theorems on `TaskExecution` drop all bounds.
`KindOf`, `After`, `Readiness` and `Idempotent` are chosen so that the cases they guard
occur, and the passing runs together take every action.

Symmetry is used in safety runs only. Deadlock is not checked: requests are
finite in every instance, so that the system may come to rest.

Four properties are defined, and proved, that no run lists, because a refinement
that is checked contains them: `TerminalIsFinal` (`ImplementsLife`), `FinalStays`
(`ImplementsLeases`), `DeletedIsClosed` (`ImplementsVersions`) and `Once`
(`ImplementsSealed`).

Properties checked only while the lock is kept: `ImplementsLife`,
`BlockedWhileUnknown` and `ImplementsGate` (`MaxLosses = 0` in their runs),
`NothingStranded` and the second part of `AttemptLedger` (as long as `losses = 0`).
The code does not promise them otherwise: a worker that lost its session may
still write by id (finding 2), close a registration, or start a run. The other
properties of these runs hold with a lost session too.

What the message properties do not say, because the code does not do it: a
delivery that is *being sent* when a later event arrives, or when its
subscription is disabled, is not withdrawn. Should the send fail, it is retried
and may arrive after the newer text. `NoFreshObsolete` and `NoFreshDisabled`
therefore speak of deliveries that were never tried.

## 4. Fairness

- *TaskExecution*: weak fairness of `Dequeue` per run, which a linked run alone enables.
  `pendingActionIds()` lists each 500 ms the runs that a waiting, undelivered activity of
  an open workflow run names. That a linked run stays in this list until it has ended is
  not assumed but proved, of `WorkflowRun` (`ListedUntilOver`); that it comes into it is
  the save that follows, which another advance repeats when the first breaks off. What is
  assumed: that the first 100 rows by `runId`, which is all that a round takes, come to
  include it. Weak fairness also of the steps of a worker (awaited queries return or
  fail; handlers return, on their own or on the abort signal) and of `BecomeDue`
  (time passes). A periodic check need not be noticed except at the end, which
  awaits it. `Link`, expiry, crashes and requests are never forced.
- *SchedulePlan*: strong fairness of `Reconcile` and `Process`, because the poll
  of every second skips a plan whose lock is busy: it finds the lock free again
  and again, not from some time on. Weak fairness of the steps, of the end of
  workflow runs and of `nextAttemptAt`.
- *MessageDelivery*: weak fairness of the steps of each process (the task
  `message.delivery.scan` drains every five seconds; `DrainLoop` shows that a
  drain gets to its end), of the clock and of leases.
- *WorkflowRun*: weak fairness of `Enter` (an open run is queued again after 30 s
  at the latest), of the steps of its worker, of the actions that the queue lists
  (each 500 ms) and of their end. No request is forced, nor the human decision.
- *NetworkAgent*: weak fairness of the drain and the timer, of `Connect`
  (`reconnectPeriod`), of the delivery of reports, and of the agent, which reads,
  acts and reports. `DesiredRetained` needs nothing of the agent.
- *LocalBatch*: weak fairness of the batch and of its executor: each command has a
  time limit, calls of the file system return, and reading the files is bounded by
  their size. Nothing else is forced, neither kills nor executors by hand.
- *DrainLoop*: weak fairness of the loop: queries and sends return or reject.

## 5. What is proved

The proofs assume only what the `ASSUME ConstantsAssumption` of each module says:
bounds are natural numbers and the null values are no members of the sets.

**TaskExecution** (`TaskExecutionProofs`): `TypeCorrect`, `EffectAtMostOnce` and
`WithdrawnNotExecuted`, for any number of runs, tasks, workers, attempts, crashes
and lost sessions. The property itself is not inductive: nothing in it says
why a second worker with the same run does not call the handler. The lock is not
the reason, as it can be lost. The inductive invariant is built on the unique
index of the attempts: a worker at the first control check has inserted its
attempt row, no two workers own the same attempt number, a number without a row
was never invoked, and a run of a task that is not idempotent that has an
attempt is not pending any more. The last part needs that whatever is written
over it, by a stale worker included, is never `pending` unless the handler is
idempotent (`MayRetry`). The cancellation theorem adds that a run withdrawn while
it waited has its flag set for ever, so that every later check sees it.

**DrainLoop** (`DrainLoopProofs`): `TypeCorrect`, `RowsRemembered`,
`QuietWhenClosed`, `FailuresReported` and `LoopWindsDown`, for any batch size, queue
and callers. The strengthening is `Remembered`: for each position of the loop, who
still knows of the rows it has passed by. After the events it is a request or the
full flag, after the deliveries the request flag, without a loop only a
`requestDrain()` that is still to come. `CallInv` says that a waiting call holds
the outcome of the loop that runs now. `LoopWindsDown` is the half of `DrainReturns`
that fairness does not give: every step of the loop, a rejected scan included, spends
of an effort to which only new rows and new requests add.

**What the lock adds** (`TaskExecutionProofs`): `AttemptLedger`, and for `MaxLosses = 0`
`TerminalIsFinal` and `BlockedWhileUnknown`. As long as no session was lost, a
worker inside `process()` owns the lock of its task (`Held`), what it has read
under the lock is still so (`Snapshot`), and the attempt rows of a run tell what
its own row tells (`Told`). That is why writes by row id are enough; finding 2
shows that they are not once the lock can be lost. `TaskImplementsLife` adds, for
`MaxLosses = 0`, that the rows live as `TaskLife` says. What is new in it is `Cause`:
a worker that says "cancelled", or is about to, has read a reason for it, in the flag
or in a refused permission, and neither is taken back.

**DispatchGate** (`DispatchGateProofs`): `OneRunAtATime`. The gate counts open
occurrences, the policy speaks of open runs: the invariant is that a run is open
only while its occurrence is.

**SchedulePlan** (`SchedulePlanProofs`): `TypeCorrect`, `InboxBeforeAckAlways`,
`EventOnceAlways` and `StartsInForceAlways` whatever sessions are lost,
`NothingStrandedAlways` until one is lost, and `PlanImplementsGate` for `MaxLosses = 0`, by
which `OneRunAtATime` holds of the tables of a plan. The invariant is built in layers: what the owner of the lock
has read as the activation in force is in force (`Locked`); a registration is
active only when every earlier binding is closed, and closed is for good
(`Ordered`), which is why one event is never recorded twice; the rows a worker
goes through are as it read them while it owns the lock (`Selected`); what has
been retired holds nothing (`Kept`). The refinement maps each step to one of the
gate or a stutter; it needs the lock only where `start()` is called.

**MessageDelivery** (`MessageDeliveryProofs`): `TypeCorrect`, `NoFreshObsoleteAlways`,
`NoFreshDisabledAlways`, `CompletedReachedAlways`, `DuplicatesPaidAlways`,
`FinalStaysAlways`, `ClaimsAreLeases`. Each action is first reduced to its effect on
one row and one process (`NextCases`). Five invariants follow. An attempt has one holder, and
attempts beyond those the deadline leaves were paid for when their holder lost
them (types). The row locks keep the transactions of a subscription apart, and
what one has read still holds when it commits (no fresh obsolete or disabled
delivery). A fan-out that may still complete has left no waiting subscription
behind (completed events). Sends made, holders that may still send, and the next
claim are together at most one more than the faults, by a counting argument over
the processes (duplicates). An attempt that is going to write "success" has sent its
message (`LInv`); with the five, every step is one of `LeasedWork` or a stutter,
expired leases and deadlock victims included.

**WorkflowRun** (`WorkflowRunProofs`), for any diagram: `TypeCorrect`,
`EndedQuietAlways`, `AcceptedKeptAlways`, `RunImplementsScope`,
`PermissionFadesAlways`, `ListedUntilOver`. The invariant relates the
memory of the worker to the tables: they differ only in what it is about to
write (`CopyInv`); no task run is open whose activity is settled (`BookOK`); what
the loop has not come to is in its list (`LoopInv`). When it reaches the end no
task run that an activity names is open (`Quiet`). `ListedUntilOver` says that a task run
the queue lists is listed until it has ended, whatever is cancelled, expires or crashes,
and that the name of a task run is never taken out of its activity. For it the worker
must not write of an activity it has dealt with that it was never begun (`SaveInv`).

**NetworkAgent** (`NetworkAgentProofs`), for any number of channels, edits, reports
and faults: `TypeCorrect`, `OneOwnerAlways`, `DeletedIsClosedAlways` and
`RowsAreVersions`. `Known` is the set of
desired states under way: in the drain, at the broker, at the agent, in reports.
Each was desired once (`KnownInv`), and a channel absent from one is in no later
one (`OrderInv`). The agent never goes back (`NewestInv`), so what a report found
closed stays closed (`ReportInv`, `GoneInv`), however late the report comes. The
refinement needs nothing beyond: an accepted report names a set of dropped channels
that are closed (`Buries`), and since it is not newer than what the agent follows,
no version that may still be followed wants them (`ConfirmedIsUnwanted`).

**ManifestExecution and LocalBatch** (`LocalBatchProofs`), for any plans, files,
executors, failing calls, killed processes and files taken away: `HonestAlways`,
`TypeCorrect`, `OneExecutorPerPlan`, `OneVideoPerPathAlways`, `OnceAlways`,
`OrphansRestAlways`, `PlansAreTransactions`, `StoppedForChangesAlways`,
`ReportedAlways`, `NothingIsRepeated`. Two executors past the lock are never on the same plan (`Alone`), so
that what one has seen of it stays so. Its files are where its set of moved files
says (`Placed`), it moves them only under a line that promises nothing (`Line`), and
it comes to an undoing, or fails in one, for a reason that stays (`Reason`). Hence
each line it appends is true (`Truthful`). The batch keeps the application stopped
while its executor lives (`Attended`), and as long as nobody executes by hand the
journals say what it has in memory (`Ledger`), from which its verdict follows. For the
refinement of `SealedPlan` the executor inside must also be on the course its journal
shows (`Course`). `NothingIsRepeated` is the half of `BatchEnds` that fairness does
not give: each step of the batch and of its executor goes on to a later part of the
code, or deals with one more plan or file of the part it is in.

**How the calls come to their end.** Four more theorems are the halves of liveness
properties that fairness does not give: `WorkersWindDown` (TaskExecution),
`CallsWindDown` (SchedulePlan), `ClaimsWindDown` (MessageDelivery) and
`AdvanceWindsDown` (WorkflowRun), beside `LoopWindsDown` and `NothingIsRepeated`
above. Each says of every step of a call, of its failures and crashes too, that it
goes on to a later await, or deals with one more of the finitely many things the call has
listed, and that what others do meanwhile neither sends it back nor adds to its list.
A retry is bounded where the code bounds it: a claim uses up an attempt of its row, and
an attempt of a task a number that was not used before, for which the ledger of the
attempts is needed. The control checks of a task are the exception, as they come and go
as long as the handler runs; where the code waits for one, its answer is the end of it.
No theorem says that a step is taken, that a lock is found free, or that few steps
fail: that is left to the fairness of the runs.

*Model-checked only*: the liveness properties (`EventuallySettled`,
`EventuallyDispatched`, `EventuallyArmed`, `EventuallyFannedOut`, `StopEnds`, `ResultsConsumed`,
`DesiredRetained`, `DeletionCompletes`, `DrainReturns`, `BatchEnds`), since TLAPS supports neither
fairness of this kind nor ENABLED. No module uses a RECURSIVE operator and no
theorem needs an induction over data.

## 6. Disagreements found

1. `task_review_stuck`. The final transaction of `executeAttempt()` takes the
   review flag from `controlFailure` at the time it runs, the status was decided
   before. A periodic check that fails in between leaves a run that succeeded, or
   was cancelled, *and* requires a review. All runs of the task are then
   refused until the review, which `review()` allows for failed runs only.
2. `task_stale_write`. `failInterrupted()` is documented to end an interrupted run
   as an unknown failure. A worker that has lost its lock after its last probe
   still writes its own outcome by id over it.

A third one the model has without a run of its own, since no comment contradicts
it: the undoing of a plan that was executed with a verification cache
(`media-manifest-executor.mjs`, line 1232) refers to `evidenceById`, a constant of the
`try` block (line 1159), from the `catch` block. It throws after the first file has
been moved back: the journal ends with `rollback-failed`, the other files stay at
their targets, and a replaced video is not linked again. The batch passes a cache
whenever it is given one, so that a single failing move is enough. `Honest` states
when an undoing may break, this case and one more included: when the line
`committed` of an inverse fails, the older video is already back and stands in the
way of the undoing.

## 7. What is not modelled

- Of the workflow engine: rule, script and business steps, compensation, pause and
  the interpreter itself, whose moves are a choice (section 2).
- Of the network agent: endpoints and their history, mechanisms, conflicts.
- Calendar and interval arithmetic of triggers: a due instant is an input; the
  cursor is the fact that each instant is recorded once.
- Versions of definitions: read once and immutable, hence constants.
- Rate slots, command replies and logs of the send service.
- The reentrance of the named lock by AsyncLocalStorage: no modelled operation
  takes a lock twice. Waiting inside MySQL: a deadlock is a failed transaction.
- Of the media plans: the cloud manifests, whose remote answers may be ambiguous;
  legacy plans; the files of the verification cache. Nothing keeps two batches apart:
  the first that ends starts the application while the other moves files. No property
  says otherwise, and `StoppedForChanges` is about one batch.
- That a round of the pump takes at most 100 rows, in the order of their ids: with more
  than 100 waiting runs or actions the later ones depend on the end of the earlier ones.
- Plugin platform, the rest of media governance, login dialogues, gateways,
  CRUD: for the reasons given per component in `PROJECT.json`.

## 8. Plan

In this order, the most important behaviour first.

1. *(done)* `TaskExecution` and its proofs: effects that cannot be undone.
2. *(done)* `DispatchGate`, `SchedulePlan`: the saga between plan, trigger and
   workflow; the abstract gate and its theorem.
3. *(done)* `MessageDelivery`, `DrainLoop`: the queue and its driver.
4. *(done)* `WorkScope`, `WorkflowRun`: the pump, `processAction`, cancel, messages
   and decisions. It gives `authorised` of `TaskExecution` its owner.
5. *(done)* `NetworkAgent`: the desired state of the agent and its removal.
6. *(done)* A proof module for each of them.
7. *(done)* `ManifestExecution`, `LocalBatch`: files that are moved, and moved back.
8. *(done)* An abstract specification for each of them but the drain loop, with the
   refinement proved: `TaskLife`, `LeasedWork`, `DesiredState`, `SealedPlan`.

Proofs that remain: that what `SchedulePlan` takes for the end of a run is what
`WorkScope` promises; and the measure by which an edit of the desired state comes to
its confirmation, which crosses the broker and the agent in `NetworkAgent`.

Models that remain, in this order: the executor of cloud manifests, with answers that do
not tell whether a file was moved; the run protocol of media governance
(reservation, events of the executor, stop); endpoints and conflicts of the network
agent; the worker threads of the plugin platform; the tasks of a conversation;
pause, resume and compensation of workflows.

## 9. Running it

    tlc -workers 2 -config MCTaskExecution.cfg MCTaskExecution
    tlapm TaskExecutionProofs.tla

The violation runs (`MCTaskExecutionReview.cfg`, `MCTaskExecutionStale.cfg`)
end with the counterexample of section 6.
