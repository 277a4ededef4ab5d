# A TLA+ model of the n8n execution backend

This directory models the parts of the n8n server that decide which workflow executions run, where
they run and how they end: the concurrency limiter and the execution lifecycle of a single main, the
job queue of a main with workers, leader election between several mains and the services that
depend on it, the planning of partial executions, and the way of Code-node tasks to task runners and
back. The modules are checked with TLC on small instances; safety of the limiter, of the execution
lifecycle, of the election, of the job queue, of the publication outbox, of the task broker with its
runners and of the planning of partial executions is also proved with TLAPS for instances of any size.
All source paths below are relative to `src/packages/`.

## 1. Inventory

| Component | State | Operations | Interacts with | What is hard | What makes it correct |
|---|---|---|---|---|---|
| Concurrency limiter (`cli/src/concurrency/`) | enabled flag, two queues, a signed capacity counter each, one reservation per caller | throttle, release, remove, disable | active executions, test runner, stop, shutdown | a counter shared by callbacks; late creation of the evaluation queue; removal by id | no slot lost or invented, no lost wakeup, order, no starvation |
| Active executions (`cli/src/active-executions.ts`) | map from id to entry: promise, status, attached workflow | add, attach, stop, finalize, setStatus, shutdown | limiter, row, runner, engine | everything between two awaits; entries replaced by a resume | entries are live, slots come back, shutdown ends |
| Workflow runner (`cli/src/workflow-runner.ts`) | none of its own | run, runMainProcess, processError, failExecution | all of the above | start before attach; finalize before save and the reverse; timeouts | one run at a time, every execution ends |
| Wait tracker (`cli/src/wait-tracker.ts`) | timers | poll, startExecution, stopExecution, stopTracking | row, runner | timer against webhook against stop | resumed at most once |
| Stop (`cli/src/executions/execution.service.ts`) | none | stop | limiter, active executions, wait tracker, row | read, act and write are three turns | canceled stays canceled |
| Execution row (`@n8n/db/.../execution.repository.ts`, `cli/src/execution-lifecycle/`) | status column | setRunning, conditional updates, save hooks | everybody | unconditional and fire-and-forget writes | the status tells the truth |
| Task broker (`cli/src/task-runners/task-broker/`) | runners, offers, requests, pending acceptances, tasks, draining | register, deregister, offer, request, settle, accept, reject, done, error, cancel, timeouts, drain | requester (calls), runners (websocket) | lost and late messages, two timeouts, crashes | each request runs at most once and is answered |
| Task requester (`cli/src/task-runners/task-managers/`) | a promise per request and per task | startTask, cancelTasks, answers | broker, engine | expiry against acceptance | every call returns |
| Task runner (`@n8n/task-runner/src/task-runner.ts`) | open offers, running tasks, draining | offer, accept, settings, finish, cancel, time out, stop | broker | four task states under three timers | never over capacity, no slot lost |
| Leader election (`cli/src/scaling/multi-main-setup.ee.ts`, `leader-election-client.ts`) | a Redis key with a time to live, the role of each main | init, check (renew, reclaim, get, claim), step down, take over, shut down | wait tracker, publication, queue recovery | commands that fail, are lost or run late; lapsed leases; an unguarded DEL | one leader while leases last, one leader in the end |
| Publication outbox (`cli/src/workflows/publication/`, its repository in `@n8n/db`) | outbox rows, published version, registered triggers, a lock per workflow, polling flag | enqueue, claim, apply, report, take over, tear down, recover a trigger | election, triggers, database | leases, changes of leadership in the middle of a record, teardown against publication, partial failures | in order, drained, triggers only on the leader and only those asked for |
| Scaling mode (`cli/src/scaling/scaling.service.ts`, `job-processor.ts`) | Bull jobs, running jobs, entries of each main | add, process, stall, abort, stop, recover | row, active executions, election | crashes of both sides, stale reads in the recovery, stop against pickup | one engine per execution, everything settles |
| Partial executions (`core/src/execution-engine/partial-execution-utils/`) | a directed graph, run data, pinned data | find trigger, filter, subgraph, start nodes, cycles, clean, stack | engine | cycles, loops, disabled nodes, data that is half there | each search agrees with reachability; every start node of an acyclic plan runs |
| Crash recovery, circuit breaker, collaboration lock, pub/sub | see `PROJECT.json` | | | | not modelled |

The remaining parts of the repository (nodes, editor, AI builder, configuration, database schema,
tooling) hold no protocol state of their own; `PROJECT.json` lists them with the reason.

## 2. Modules

* `ConcurrencyControl` is the limiter by itself. A *caller* is one call of `throttle`; several
  callers may carry the same execution id. The variables are the fields of
  `ConcurrencyControlService` and `ConcurrencyQueue` (`isEnabled`, `evalQueueResolved`, `queues`,
  `capacity`, `queue`) plus `reservation`, the state of each caller's
  `ConcurrencyCapacityReservation`. JavaScript runs each of these functions without a break, and
  the continuation of a resolved promise runs before the next macrotask, so each operation,
  including the admission it causes, is one action. A caller that was removed from the queue
  (`abandoned`) waits for ever: `remove` drops its promise without settling it.
* `ExecutionLifecycle` extends it with the life of executions in a main of regular mode. A *run* is
  one call of `WorkflowRunner.run` and at the same time a caller of the limiter; the first run of
  an execution creates the row, the others resume it or pick it up at startup. `pc[r]` names the
  await a run is at, so everything else can happen between the code before and after it.
  `owner`/`entryStatus` are the map `activeExecutions`; `db` is the status column; `timers` the wait
  tracker; `stopping` the three turns of `ExecutionService.stop`; `phase` and `boot` shutdown and
  the next start. The promise of an entry is open as long as the reservation of its run is
  `acquired`, because the same `finally` handler settles one and releases the other.
* `TaskBroker` is independent of the others: the broker, its in-process requester and the runners.
  A handler of the broker and the requester code it wakes are one step (direct calls in one
  process); runners are reached through `toRunner` and `toBroker`, in order per connection.
  `attempts[t]` is the call of `acceptOffer` that drew task id `t`. The clock is abstracted: an armed
  timer may fire at any moment, and an offer may expire whenever the code looks at it.
* `TaskContract` says what `TaskRequester.startTask` promises the node that calls it, without
  broker, runners or messages: one answer, code that runs at most once, results only from code that
  ran, nothing run for a request that was reported as expired. `TaskBroker` implements it:
  `KeepsContract` is the instance with `status <- job` and, as the number of runs of a request, the
  executed tasks that were made for it.
* `LeaderElection` has one Redis key and, per main, the command its check awaits. Sending,
  execution in Redis and handling of the answer are three steps; a command that times out on the
  client may be lost or join `late`, the commands that Redis still executes afterwards, in order.
  `lapsed` remembers that the key was removed under a main that relied on it (a lease that ran out,
  or the DEL of another main's shutdown).
* `LeaderWaitTracking` extends it with the wait tracker of every main and the boot order of
  `start.ts`: each election step is joined with what the tracker does in the same turn.
* `PublicationOutbox` takes leadership as given (at most one leader, changing at any time) and
  models the tables, the drain of the consumer one database call or registration per step, the
  FIFO lifecycle lock, the teardown loops of stepdowns, of which two may run on one main and each of
  which ends at a trigger that does not close (`TeardownFails`), and the recovery of failed triggers.
  `amiss` records what went wrong and was not repaired yet (a failed
  activation, a teardown that timed out or that a trigger which did not close has ended, ...), so that the properties can name the exceptions
  exactly.
* `ScalingQueue` models executions in queue mode: `run[j]` is the call of `enqueueExecution` on a
  main, `queue[j]` the state of the job in Bull, `worker[j]` the call of `processJob`; `entry` is
  `ActiveExecutions` on each main, `request` a user's stop, `recovery` the steps of
  `recoverFromQueue`. The query of the recovery may leave out any executions beyond `BatchSize`; that it
  takes the latest is not modelled (with the one execution of the run nothing is ever left out).
  The end of a run and the save of its result are two steps, so that an abort may fall between them.
* `PartialExecution` translates `runPartialWorkflow2` up to the execution stack. `stage` says how far a
  request has come. The searches `findSubgraphRecursive` and `findStartNodesRecursive` take one step per
  call; `branches` and `visits` are the calls that are still to be made, with their arguments. Disabled
  nodes are taken out one per step. The rest is computed at once: `getChildren` as the least set that is
  closed under connections (`MCPartialExecution` compares it with the recursion of the code, for all its
  workflows), what `getParentConnections` passes as the same set against the connections, Tarjan's
  algorithm and the depth-first search as recursive functions. Graphs are sequences
  of nodes and connections, because the iteration order of the `Map`s matters to the search for cycles.
* `Positions` has the filters and insertion-ordered maps that `TaskBroker` and `PartialExecution` share.
* `MCConcurrencyControl`, `MCExecutionLifecycle`, `MCTaskBroker`, `MCLeaderWaitTracking`,
  `MCPublicationOutbox`, `MCScalingQueue` and `MCPartialExecution` give the constants values.
* `ConcurrencyControl_proofs`, `ExecutionLifecycle_proofs`, `LeaderElection_proofs` (election and wait
  trackers), `ScalingQueue_proofs`, `PublicationOutbox_proofs`, `TaskBroker_proofs` and
  `PartialExecution_proofs` hold the theorems; `SequenceLemmas` holds what they need of sequences
  (`RemoveAt`, `ToSet` under `Append`, `Tail` and `RemoveAt`, and the operators of `Positions`).

Definitions whose comment starts with "Mutant" are deliberately wrong variants of the definition
that follows. No specification uses them; each breaks one property, which shows that the property
depends on the code it is about.

`PROJECT.json` maps every definition to its source lines.

## 3. Runs

| Run | Instance | Result |
|---|---|---|
| `concurrency` | limit 2 for four production callers (two share an id), limit 1 for two evaluation cases, created late | holds: types, `SlotAccounting`, `NoIdleSlotWhileQueued`, `ParkedOnce`, `OverAdmissionBounded`, `AdmitsInOrder`, `QueuedIsServed` |
| `lifecycle_safety` | one slot; an execution that waits, two runs racing to resume it, a competing execution | holds: types, `OneRunInCharge`, `QuietRowIsQuiet`, `RunningEntryIsLive` |
| `lifecycle_live` | one slot; two executions that never wait, two runs for the restart, a timeout, a response promise | holds: `FinishedRunHoldsNoSlot`, `EveryExecutionEnds`, `ShutdownCompletes` |
| `task_broker` | one request, one internal runner with two places, two offers, two task ids | holds: types, `RunnerWithinCapacity`, `JobIsOwed`, `BrokerTaskIsBacked`, `SettingsExpected`, the refinement `KeepsContract`, `EveryJobSettles`, `RunnerSlotFreed` |
| `leader_election` | two mains, one waiting execution, two faults | holds: types, `SoleLeader`, `OneLeaderEventually`, `WaitsSurviveFailover` |
| `publication_outbox` | two mains, one workflow, two changes, two terms, one fault | holds: types, `DemotedIsQuiet`, `SettledIsPublished`, `PublishedInOrder`, `QueueDrains` |
| `scaling_queue` | two mains, one execution with two runs, one fault, one stop | holds: types, `OneEngine`, `OutcomeReachesRow`, `InProgressSettles`, `EntrySettles` |
| `partial_execution` | the 512 workflows over four nodes with some of nine connections, 14 earlier runs, 11 ways to mark nodes | holds: `SubgraphIsExact`, `StartNodesAreFrontier`, `AcyclicPlansRun`, `NodesArePartOfGraph` |
| `leader_regained` | as `leader_election` | `TakeoverStartsTracking` fails: entries of cleared timers make a main skip executions in its next term |
| `partial_disabled` | a loop of two disabled nodes | `NodesArePartOfGraph` fails: removing them leaves a connection to a removed node |
| `partial_nested` | cycles inside cycles, five nodes | `CyclesStartAtTheirEntry` fails: Tarjan's algorithm pops by low link and misses the outer component |
| `partial_subgraph` | a cycle before the destination | `SubgraphLeadsFromTrigger` fails: the cycle is kept in the subgraph although the trigger does not lead to it |

The findings in `PROJECT.json` quote the comment or assertion that each failing run contradicts.

**Observations.** The models also contain behaviour that a property of the passing runs has to allow
for, and that a maintainer should know of:

* `ConcurrencyQueue.remove` admits the next parked execution although no slot was freed. Each stop
  of a queued execution may put one more above the limit; `OverAdmissionBounded` says never more.
* `ActiveExecutions.stopExecution` takes the status `waiting` for a run that has ended. A stop or a
  timeout between the Wait node and the end of the run drops the entry without settling its promise,
  and its slot is never given back. `FinishedRunHoldsNoSlot` is therefore checked for workflows that
  never wait. The same holds for `ShutdownCompletes`: an execution that reaches its Wait node after
  the sweep of `shutdown` keeps its entry, and the loop goes on until the forced exit.
* `setRunning` looks at no status: an execution stopped just before it runs to its end. In queue
  mode, too, a stop on a main that does not watch the job never reaches the worker, whose save then
  replaces `canceled`; and an abort that arrives before `runningJobs` has the job is ignored.
* Executions queued at shutdown (`new`) are picked up at the next start but refused, because
  resuming requires the status `waiting`.
* A task request may expire while a runner is accepting it; the accepted task then waits for the
  runner's own timer. `RunnerSlotFreed` shows that this timer is enough.
* The recovery of a failed trigger takes no lifecycle lock and looks at no leadership, so it can
  register a trigger on a main that has stepped down: the exception `recovered` of `DemotedIsQuiet`.
  A stepdown that falls into the await of the takeover handler leaves a follower that polls
  (`FollowerPolls` in `QueueDrains`); the teardown of an earlier stepdown may remove triggers of a
  main that leads again (`regained` in `SettledIsPublished`).
* A `closeFunction` that throws anything but a `TriggerCloseError` makes `closeTrigger` rethrow a
  `WorkflowDeactivationError`, which leaves `remove`, the lock and the loop of
  `deactivateAllNonWebhookTriggers`: this trigger and those of all workflows after it stay registered on
  the demoted main (`aborted` in `DemotedIsQuiet`). Nothing handles the error: it leaves the event
  handler of `leader-stepdown` as a rejected promise, with which the process ends (`Crash`) or goes on
  (`TeardownFails`). If it goes on and leads again, activation finds something registered and adds
  nothing, so that the old version may stay (`SettledIsPublished` excepts it).
* The lease of an outbox row may run out under its holder; the late holder may then write last
  (`overrun` in `PublishedInOrder` and `SettledIsPublished`). The queue is drained all the same.
* A main that takes over between `WaitTracker.init` and `registerEventHandlers` has no listener and does
  not poll for waiting executions in that term: the exception of `WaitsSurviveFailover` and `LeadersPoll`.
* In queue mode, when `processError` returns early (the job was cancelled, or a stalled run was
  successful after all) nobody finalizes the entry of the main: the exceptions of `EntrySettles`.
  A run that times out on its worker ends this way.
* `recoverFromQueue` reads the rows, then the queue, then writes. It may mark an execution as crashed
  whose job was added between the reads, although its comment speaks of executions absent from the
  queue. A worker that reads the row afterwards refuses the job; one that runs it already goes on, and
  its result replaces the verdict: `OutcomeReachesRow`.
* `handleCycles` moves a start node to the first node of its cycle that a depth-first search meets, which
  may be a way into the cycle that the earlier run did not take. With the connections 4 -> 5, 1 -> 2,
  2.0 -> 3, 2.1 -> 5, 3 -> 4, 5 -> 4 and 5 -> 6, in this order, and data of 1 and of 2 on output 1 only, the
  start node 5 becomes 4, whose parents have no data: the stack is empty and nothing runs: given this workflow as
  `Workflows`, with destination 6, TLC finds `StartNodesRun` violated. So it is in the instance of
  `partial_nested`, where the start node stays inside a cycle that was missed. What is checked and
  proved is therefore `AcyclicPlansRun`: every start node runs if the subgraph has no cycle.
* `handleCycles` filters with `cycle.size >= 1`, which keeps single nodes.
* `SubgraphIsExact` states what `findSubgraph` really keeps, which includes cycles that the trigger does
  not reach; the documented promise is `SubgraphLeadsFromTrigger`, which `partial_subgraph` refutes. The
  assertion of `handleCycles` that rests on it does not fail, because start nodes are only found from
  the trigger on.

**Bounds.** Four production callers over two slots are the least with two running and two parked,
so that order, removal from the middle and over-admission all happen; two of them share an id so
that `findIndex` has a choice. Three runs of one execution are the first run and two rivals for its
resume. Two task ids and two places let one request be matched again on a second offer while the
first acceptance is still under way; that the late answer may come from another runner, and that a kill
may end several tasks, is left to the proofs, which cover any number of runners and both modes. `MaxTasks` bounds the ids the broker hands out: when it is
reached, requests simply stay unmatched, as if no offer fitted. `Offers` bounds the offer ids in
use at once; an id is reused only when nobody remembers it. `Restart` is bounded to one. Where the
bounds let everything come to an end, or the server may stand idle, deadlock is not checked.
No run uses symmetry. Two faults in the election are the least with which a main loses its lease and a command of
it fails or runs late, and with which a leader can be deposed and come back; two terms of the outbox
let a teardown of the first overlap the second; two changes let a newer row meet one in progress;
two runs of an execution in queue mode are a wait and its resume, while the first job is still being
closed; one execution is enough for the steps of the recovery, whose batch of one then leaves nothing
out. In the instance of `partial_execution` no cycle has another inside and at most one node is
disabled: what happens beyond is shown by `partial_nested` and `partial_disabled`, and a cycle that the trigger does not reach by
`partial_subgraph`. Wherever a counter of
faults, changes, terms, runs or stops is used up, the environment simply causes no more of them.

**Fairness.** In `concurrency`, admitted executions end (`WF` on `Release`). In the lifecycle, a run
that can take its next step does, a fired hook and an accepted stop finish, timers fire, polling
recurs, and a process whose shutdown loop may end exits: this is what Node's event loop, a database
that answers and workflows that terminate provide. Nobody has to start, resume by webhook, stop or
shut down. In the broker, armed timers fire, messages are handled, a broken connection is noticed
(the close event or the heartbeat), and the code of a task ends or reacts to being aborted. In
the election, intervals tick, Redis answers, keys nobody renews expire and boots go on; in the
outbox, the database answers, polls recur and retries end; in queue mode, mains and workers go on
with what they have begun, Bull looks for stalled jobs and some leader repeats the recovery. Nobody
has to become leader again, publish, stop or crash. Code
that blocks the event loop of its runner for ever is outside this last assumption; the broker's own
timeout still answers its caller.

## 4. Proofs

`ConcurrencyControl_proofs` proves, from `ConstantsAssumption` alone (a finite set of callers,
limits that are non-zero integers):

* `TypeCorrect`, `SlotsAccountedFor`, `NoLostWakeup`, `EachParkedOnce`, `OverAdmissionIsBounded`: the
  invariants of run `concurrency`, for every set of callers and all limits;
* `AdmissionInOrder`: the action property `AdmitsInOrder`.

None of the invariants is inductive alone. The slot count needs to know who is parked (removing or
admitting a caller must change exactly one of the three sets it counts), and that the evaluation
queue has no history before it exists. The inductive invariant `IInv` (`InvariantHolds`) is
therefore `TypeOK` with three parts: `ServiceInv` (a queue exists only with a positive limit; before
the evaluation queue is resolved no evaluation caller has ever acquired or waited), `QueueInv` (each
queue holds distinct waiting callers of its type, and every waiting caller is parked) and
`CountInv` (the capacity equation, full slots whenever somebody is parked, and the bound on
over-admission). Lemmas on the operators (`RemoveAtProperties` of `SequenceLemmas`, `ResolveNextStep`, `ResolveNextCounts`,
`EnqueueStep`, `DequeueStep`, `RemoveStep`) carry the argument; each action of `CCNext` is then one step.

`ExecutionLifecycle_proofs` proves, from the assumptions on the constants (`LifecycleAssumption` and
those of the limiter), for any number of executions, runs and slots:

* `AtMostOneRunInCharge`, `RowTellsTheTruth` and `NoZombieEntries`: `OneRunInCharge`,
  `QuietRowIsQuiet` and `RunningEntryIsLive`; and `LifecycleTypeCorrect`;
* `LimiterUsedAsSpecified`: every step of the lifecycle is for the limiter a step of `CCNext`, or the
  reset of a restart, so that `LimiterHoldsInLifecycle` and `LifecycleAdmitsInOrder` carry over what is
  proved of the limiter alone;
* `FinishedRunsHoldNoSlot`: `FinishedRunHoldsNoSlot` under the hypothesis that no workflow waits (with
  a Wait node it is false, see the observations).

The invariant `LInv` (`LifecycleInvariantHolds`) is that of the limiter, the types, `SlotInv` and
`EntryInv` (where a run stands when it has a slot, or owns an entry) and `ChargeInv`. The last one is
what `OneRunInCharge` lacks to be inductive: from the moment a run has taken charge until its outcome
is saved the row says running or canceled, so that the conditional update of a rival finds nothing
to resume; and the first run of an execution, which checks no status, is alone until it has begun.

`LeaderElection_proofs` proves, from `HostsAssumption` alone (a finite set of mains, `NoHost` not one
of them), for any number of mains and faults:

* `NoSplitBrain`: as long as no lease was lost under a main that relies on it, at most one main
  leads (`SoleLeader`);
* `ChecksMatchRoles`: the asserts in `checkAreWeStillLeader`, `checkCanBecomeLeader`,
  `takeOverAsLeader` and `stepDownToFollower` hold, because nothing but the check in progress changes
  the role; and `ElectionTypeCorrect`.

`SoleLeader` is not inductive: the step that makes a main leader handles an answer given earlier.
The invariant `LEInv` (`ElectionInvariant`) is the type invariant with `CheckMatchesRole`,
`LifeMatchesRole` (a process that is down or starting has no role) and `ClaimIsBacked`: every main
that leads, or has been told that it won, holds the key. A key is set only where there is none, and
removed from under such a main only by steps that set `lapsed`; so two claims name the same main.

Of the wait trackers, the module proves for any number of mains and waiting executions:

* `ElectionUndisturbed`: the mains with their trackers implement `LESpec`, so `SoleLeader` holds there too
  (`TrackersHaveOneLeader`);
* `LeadersPoll`: whoever leads polls, except after a takeover that fell between `WaitTracker.init` and
  `registerEventHandlers` (`LeaderPolls`, the safety part of `WaitsSurviveFailover`); and
  `TrackingTypeCorrect`.

The invariant `LWInv` adds `TrackerNeedsMain`: a tracker is initialised only while its main is up, so the
answer that ends a boot finds none yet. It needs `CheckMatchesRole` from the election: without it, a
check could change the role of a main that is still booting.

`ScalingQueue_proofs` proves, from `ScalingAssumption` alone, for any number of mains, executions,
runs, stop requests and faults:

* `OneEngineHolds`: no two workers run the same execution at the same time (`OneEngine`);
* `SettledRowsStay`: a row that waits or has succeeded is put back in progress, or marked as crashed, by
  nothing but the resume that takes up the next run (`SettledStaysSettled`, stated in the module). The
  updates of `setRunning` and of the recovery do not see to this by themselves: the former looks at no
  status, and both act on what was read earlier;
* `ScalingTypeCorrect`: main, queue and workers agree on every run (`ScalingTypeOK`).

`OneEngine` says nothing about a job on its way to a worker. The invariant `SQInv` (`SQInvariant`) adds
`LastRunPends`: a run that has an engine or may still get one is the last of its execution, and the
row says neither waiting nor success. A resume requires a waiting row, so it finds no such run (`TakeUpStep`); a run
that writes `waiting` or `success` was the only one and is no longer one (`SaveResultStep`, which needs
`JobsMatchRuns`: a job with a worker is neither unsent nor still queued). All other steps make no new
run pending (`QuietStep`). `SettledRowsStay` follows: whoever may still write `running` is pending.

`PublicationOutbox_proofs` proves, from `OutboxAssumption` alone, for any number of mains, workflows,
changes, terms and faults:

* `DemotedMainsAreQuiet`: a main that lost leadership has no trigger that its teardown will not
  remove, except for the three reasons that `DemotedIsQuiet` names: a teardown that timed out, one that
  a trigger which did not close has ended, and a recovered trigger;
* `PublicationIsOrdered`: the published version of a workflow never goes back (`PublishedInOrder`);
* `SettledWorkflowsArePublished`: when nothing is under way for a workflow, the triggers of the leader
  are those of the version that users asked for (`SettledIsPublished`);
* `OutboxTypeCorrect`, which includes the unique index of the outbox.

The invariant `PInv` (`OutboxInvariantHolds`) has eleven parts. A drain in its critical section heads the
queue of the lifecycle lock (`LockInv`), and a drain that lost leadership there has a teardown behind
it that will ask for that lock (`CriticalInv`): this is why a demoted main becomes quiet. While no
lease is overrun, one main at a time works on a workflow, its row is still in progress with the
version it read, and published version, row in progress and pending row are in order (`OrderInv`,
`RowInv`, `VersionInv`). `StageInv` follows a drain through its steps and says how far the tables are;
`LocalInv` does the same for the triggers of the leader, which are at each step those of the
published version or none; `HandoverInv` covers a former leader that still finishes a record: the
new leader has enqueued the workflow again, or nobody wants it any more. The proof takes one part at
a time, and under each part one case per action.

`TaskBroker_proofs` proves, from `BrokerAssumption` alone, for any number of requests, runners, task
types, offers and task ids, and for both runner modes:

* `CapacityRespected`: a runner is never over `maxConcurrency` (`RunnerWithinCapacity`);
* `JobsAreOwed`: the broker never loses what a caller of `startTask` waits for (`JobIsOwed`);
* `BrokerTasksAreBacked` and `SettingsAreExpected`: broker and runner agree on the tasks they share,
  although each hears of the other's timeouts and cancellations late (`BrokerTaskIsBacked`,
  `SettingsExpected`: the states of which `receivedSettings` says that they "should never happen"
  indeed do not); and `BrokerTypeCorrect`;
* `ContractKept`: broker, requester and runners implement `TaskContract` (`KeepsContract`).

None of these is inductive, because the messages under way decide what comes next. The invariant `BInv`
(`BrokerInvariant`) follows each task id through its stations: asked, replied, settings sent, executed,
ended. `OwnInv` says that only the runner that was asked ever hears or speaks of a task, `ChannelInv`
that a connection announces a station once and in order, `TaskOK` which stations exclude each other
and what both sides then know, `RequestOK` which task id a request was given, and `GivenInv` that
settings are sent, and code is run, for no other. Most steps only make a task forget stations
(`Fades`, lemma `FadingTask`); the others move one task on (`AcceptingTask`, `AcceptedTask`, `StartingTask`)
or hand out ids that nothing mentions yet (`SettleEffect`, `SettleKeeps`). For the refinement,
`RunsOnce` shows that the number of runs of a request is 1 if the task id it was given was executed and
0 otherwise; each action is then one step of the contract or unseen (`ContractStep`). `BInv` was
checked with TLC on small instances, of one and of two runners, before it was proved.

`PartialExecution_proofs` proves, from `WorkflowsAssumption` alone (connections join nodes of their
workflow, and the nodes that a request names are nodes of it), for every workflow, all run data and
any choice of disabled, dirty, pinned and failed nodes:

* `SubgraphExact`: `findSubgraph` keeps exactly the connections on the ways to the destination from the
  trigger or from any cycle (`SubgraphIsExact`);
* `StartNodesFrontier`: `findStartNodes` finds exactly the first nodes that have to run on the ways that
  the earlier run took (`StartNodesAreFrontier`);
* `NodesAreInGraph`: `NodesArePartOfGraph` where the disabled nodes form no cycle (`DisabledAreAcyclic`,
  which fails in the instance of `partial_disabled`);
* `StartNodesRunWithoutCycles`: `AcyclicPlansRun` where `handleCycles` returned the start nodes it was given,
  as it does where there is no cycle (see below).

The searches walk every branch, so what they find is determined by the calls that are still pending.
`PlanInv` says of these, first, that each brings along a way (`BranchOK`, and `Visited` is reachable):
nothing wrong is ever kept. Second, that there is a set E of nodes whose neighbours were all called, and
that whatever must still be kept behind E is on the branch of a pending call that will keep it
(`Explored`, `Searched`): when no call is pending, E is closed, and because reachability is the least
closed set, nothing is missing. No induction over paths is needed. A branch that comes back to a node
it has been at is the hard case: the call drops it, and what makes this complete is that its connections
already lead into E. For `NodesAreInGraph`, `WayInv` adds that removing a node which is not connected to
itself leaves connections between the other nodes only and cuts no way between them
(`RemoveNodeConnections`, `RemoveNodeKeepsWays`), and that disabled nodes without a cycle have none
after one of them was removed (`RemoveNodeAcyclic`), so that no node ever gets a connection to itself;
what is kept are then nodes of the graph (`WayKept`), and so is all that comes before them (`WayBack`).
For the last theorem, `StartedAgain` shows that a start node without input on the stack comes after
another start node; without cycles one of them comes first (`FirstNode`), and everything that comes after
it is reached. `CutInv`, `FindInv` and `WayInv` were checked with TLC before they were proved.

Only model-checked: that `handleCycles` leaves start nodes alone where there is no cycle (the assumption
`HandleCyclesKeepsNodes` of `MCPartialExecution`): it depends on what the recursive function of Tarjan's
algorithm computes, which takes an induction over the graph.
The same holds for all liveness properties (`EveryExecutionEnds`, `EveryJobSettles`,
`OneLeaderEventually`, ...): the prover handles neither fairness nor ENABLED.

## 5. Not modelled

The clock and therefore the length of timeouts; in regular mode a crash of the main (only a graceful
shutdown and a restart are modelled; in the other modules mains, workers and runners may crash at
any time); failures of the database except where the outbox handles them; the settings under which
an execution is deleted instead of saved; sub-workflows and the resuming of parents; what workflows
and tasks compute; data and RPC traffic of running tasks; the launcher of external runners (a task
that it defers is a rejected acceptance whose request keeps its re-armed timer). In the outbox: the
cleanup of terminal rows, webhooks, several triggers per workflow and the drain at shutdown. In queue
mode: pausing at shutdown, manual executions offloaded to workers, responses that travel as job
progress. In partial executions: sub-nodes and tools, nodes with several inputs, the choice between
several triggers by name. Crash recovery of run data, the circuit breaker, the collaboration lock
and pub/sub are not modelled, for the reasons in `PROJECT.json`. Most lines of the repository are nodes,
user interface, AI features and configuration, which keep no protocol state.

## 6. Plan

1. Sub-nodes and nodes with several inputs in `PartialExecution`, with the waiting stack that
   `recreateNodeExecutionStack` fills for them.
2. More about whole systems from the proved invariants: `QuietRowIsQuiet` across a restart of the main,
   and what a second leader may do to the outbox once a lease was overrun.
