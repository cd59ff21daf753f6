# Formal model of this n8n fork

TLA+ modules, TLC runs and TLAPS proofs kept beside the code of the workflow
automation server in this repository (n8n with an AI task orchestrator added).
Paths are relative to the repository root; `cli` stands for `packages/cli/src`,
`core` for `packages/core/src`.

## 1. Inventory

| Part | State it keeps | Operations | What is hard | What makes it correct |
|---|---|---|---|---|
| Concurrency control (`cli/concurrency`) | FIFO `queue`, `capacity`, one promise per call | `enqueue`, `dequeue`, `remove`, `has`, `disable` | removals between wake-ups, a slot lost or made up | slots accounted for, FIFO order, nobody waits beside a free slot |
| Regular-mode executions (`active-executions.ts`, `workflow-runner.ts`, `execution.service.ts`) | `activeExecutions` entries with their promises, execution rows, timers | `add`, `run`, `stopExecution`, `finalizeExecution`, `shutdown`, `stop` | every `await` is a window for a stop, a timeout or a shutdown | each run releases its slot and its entry once, in every outcome; what was canceled stays canceled |
| Wait tracker (`wait-tracker.ts`), waiting webhooks | `waitingExecutions` timers | poll, fire, stop, start/stop tracking on leadership | stale rows, two ways to resume | a wait is resumed, and once |
| Task broker and task requester (`cli/task-runners`) | offers, requests, tasks, accept/reject callbacks, timers | offer, request, accept, reject, defer, settings, done, error, cancel, timeouts, (de)registration | message races with timers and disconnects | a request is served once, a task ends once and its requester hears of it |
| Task runner (`packages/@n8n/task-runner`) | open offers, running tasks | offer, accept, run, cancel, abort, drain | offers that expire while being accepted | never more tasks than `maxConcurrency` |
| Multi-main setup (`cli/scaling/multi-main-setup.ee.ts`) | Redis leader key with a TTL, each instance's role | try to become leader, check, renew, step down | the check and the renewal are two commands | at most one leader while nobody stalls |
| Queue mode (`cli/scaling/scaling.service.ts`, `job-processor.ts`) | Bull jobs, rows, running jobs | enqueue, process, stop, recover, drain | crashes of workers, recovery on stale reads | each execution's row and its caller come to an end, through crashes and lost locks |
| Workflow engine (`core/execution-engine/workflow-execute.ts`) | node stack, waiting inputs, run data | run a node, wait for inputs, retry, cancel | merge nodes, loops, cancellation in mid-step | each node runs with the inputs its graph says |
| Partial execution (`partial-execution-utils`) | pure graph algorithms | subgraph, start nodes, cycles, stack | cycles, disabled nodes | agrees with a reference definition |
| Active workflows and webhooks (`active-workflow-manager.ts`, `webhooks`) | activation queue with retries, registered webhooks | add, remove, retry, leader change | activation racing removal | an inactive workflow has no webhook |
| Task chains (`cli/workflows/task-chain-execution.service.ts`) | chain state, generated workflows | run a chain, clean up | failing steps, clean-up after failure | outputs reach the next task; temporary workflows go |
| Push, collaboration, event bus, pruning, insights, cache, licences, source control, credentials, REST controllers, editor, nodes | various | mostly CRUD and I/O | little shared mutable state | not modelled |

How the parts interact: `WorkflowRunner.run` asks `ActiveExecutions.add` for an
entry; `add` creates the row and waits in the concurrency queue; the engine
reports its end through lifecycle hooks (which write the row) and through the
promise whose settlement releases the slot and removes the entry. The wait
tracker and the waiting webhooks call `WorkflowRunner.run` for an execution that
exists already. `ExecutionService.stop` reads the row, acts on the queue or the
entry and writes the row. A Code node asks the task requester for a task, which
asks the broker, which matches the request with an offer of a runner.

## 2. Plan

Written, in this order:

1. `Semaphore` (abstract), `ConcurrencyQueue` (detailed, refines it), proofs.
2. `RegularMode`, which composes the queue with the runner, the entries, the
   rows, the tracker, stop and shutdown.
3. `TaskRunner`, and `TaskBroker`, which composes the runners with the broker
   and the requester.
4. `MultiMainSetup`, with proofs.
5. `Dataflow` (abstract) and `WorkflowExecute` (detailed, refines it).
6. `PartialExecution`, which extends the engine with the choice of what to
   execute again.
7. `QueueMode`, with proofs.
8. `RegularModeProofs`.
9. `ListLemmas`, and with it `TaskProtocolProofs` and `WorkflowExecuteProofs`;
   `DataflowProofs` on top of the latter.

Still to write:

10. The services that follow the leadership (the wait tracker first), composed
    with `MultiMainSetup`: the startup race with `registerEventHandlers`, and
    timers that `stopTracking` leaves in its map; checks that overlap.
11. `ActiveWorkflows` (activation, retries, webhooks) and `TaskChain`.
12. Deferral by the launcher in `TaskBroker`.
13. Executions that wait in `QueueMode`, which composes it with the tracker.
14. `ToolsAnswer` with tools that wait; the searches of `PartialExecution` as
    recursive functions, so that `CleanRunData` and the stack it makes can be
    proved about.

## 3. Modules

### Semaphore, ConcurrencyQueue, ConcurrencyQueueProofs

`ConcurrencyQueue` has the source's two fields and, for each call of `enqueue`,
the state of the promise it returned. `Enqueue`, `Dequeue` and `RemoveFromQueue`
are the three synchronous methods. A removed call's promise never settles
("dropped"). A caller is told apart from the execution id it passes, because
one id can be queued more than once. `Dequeue(c)` names the caller that gives
its slot back; the code does not know it, but each caller does so once.

`Semaphore` is what the limit promises: at most `Permits` holders, and a line
served from its head. `ConcurrencyQueue` implements it under `holders` = the
resolved calls, `line` = the callers in the queue, until the first call is
removed. After that it does not: `remove` returns a slot that the removed
execution never held, and the limit is exceeded (section 6).

### RegularMode

One `Run` is a call of `WorkflowRunner.run`; a resumption is another run of the
same execution. An action is the code between two `await`s, and promise
callbacks separated from their cause by microtasks only belong to the action
that settles the promise (`Settle` is the `finally` of `postExecutePromise`).

| Variable | In the code |
|---|---|
| `queue`, `capacity`, `promise` | the production queue, by `INSTANCE ConcurrencyQueue` |
| `enabled`, `down` | `ConcurrencyControlService.isEnabled`; `ActiveExecutions.shutdown` was called |
| `db` | status, `waitTill`, `finished` of each execution's row |
| `active`, `entry` | `activeExecutions`: which run made the entry, and each run's entry object. The objects live on in closures after the map has dropped or replaced them |
| `run` | each run's place in `run`/`runMainProcess`, outcome, cancellation, timeout |
| `cancelSave` | runs whose cancellation handler still has to write the row |
| `stopper` | the `ExecutionService.stop` call of each execution: read, act, write |
| `tracked`, `polled` | `waitingExecutions`; a bound on the polls that find something |

Abstracted: the workflow is one step that ends with success, error or (once,
for executions in `Waiting`) a wait; times are not modelled, a timer that is set
may fire at any later moment; row contents other than the three fields; modes,
which only decide whether an execution is `Limited`.

### TaskRunner, TaskBroker

`TaskRunner` is one runner process per member of `Runner`; a process that
restarts has a new id, so it is another member, which starts when it likes.
`TaskBroker` adds the broker and the requester of the main process, which call
each other synchronously: from `runner:taskaccepted` to `broker:tasksettings`
only microtasks pass, so `HandleRunnerAccept` is one action. Between broker and
runner there is a FIFO queue of messages in each direction.

| Variable | In the code |
|---|---|
| `process` | the runner's process and WebSocket: not there yet, connected, its connection closed (the process and its tasks live on), gone |
| `openOffers`, `status`, `canSendOffers` | `openOffers`, the `TaskState`s of `runningTasks`, `canSendOffers` |
| `executes` | the request whose settings the task was given |
| `toRunner`, `toBroker` | the WebSocket's messages on their way |
| `knownRunners`, `pendingTaskOffers`, `pendingTaskRequests`, `acceptInProgress` | the broker's fields |
| `accepting` | the `acceptOffer` calls whose `acceptPromise` is pending |
| `tasks`, `requestTimer`, `taskTimer` | the broker's `tasks` and the `timeout`s of requests and tasks |
| `outcome`, `taskOf` | where `startTask` is: the entries of `requestAcceptRejects` and `taskAcceptRejects` |

A task is named by the offer it comes from, since one acceptance makes one task
id. The code's ids are never used again; the model uses an offer again once
nothing refers to it, which keeps the state finite. An entry of
`runnerAcceptRejects` whose acceptance has timed out stays in the code's map and
has no effect; the model leaves it out.

### MultiMainSetup, MultiMainSetupProofs

`key` and `ttl` are the leader key in Redis, `role` is `instanceRole`, `check`
says which command or answer the check of an instance has come to. A check is
three steps at most: the interval fires and the key is got (`CheckLeader`), a
second command takes effect (`Renew`, `Claim`) or the role changes (`Follow`),
and the answer of `setIfNotExists` arrives (`Claimed`). `Tick` is a second; it
waits for what is overdue, which is how the module says that intervals are at
most `Latency` late and that checks take no longer. `HostId` is the host name in
Docker and new with each start elsewhere.

`stopProcess` stops the triggers and the tracker before `shutdown` clears the
key, and does not reset the role; so an instance that is stopping does not count
as a leader.

### Dataflow, WorkflowExecute, WorkflowExecuteProofs, DataflowProofs

`WorkflowExecute` is the loop of `processRunExecutionData` in execution order
v1. A step of the model is one pass: take the head of the stack (`Shift`), then
run the node in one of the ways it can end. The workflow is a variable that is
chosen at the start, so that one run checks them all. Items are left out: an
input holds the packet of one run over one connection, or says that it holds
nothing, in one of three ways that the code tells apart (`Null` for `null`,
`Hole` for a missing element, `Empty` for `[]`).

| Variable | In the code |
|---|---|
| `wf` | the workflow, with what its nodes may do (outputs filled, failures, waits, tools called) |
| `stack` | `executionData.nodeExecutionStack` |
| `waiting` | `waitingExecution` (with `waitingExecutionSource`, which has the same shape), in the order of its keys |
| `runData` | `resultData.runData`; a run has its inputs, the outputs it filled and how it ended |
| `current`, `tries` | the `executionData` and `tryIndex` of the loop |
| `status`, `filter`, `destination` | the execution's status, `runNodeFilter`, `startData.destinationNode` |
| `restarts` | a bound on retries of failed executions |

`Dataflow` is what a workflow promises of its data: packets are produced by a
run, and consumed once by a run of the node at the end of their connection, one
for each input. `WorkflowExecute` implements it with `inFlight` = the packets in
the stack, in `waiting` and in the item that runs, and `runs` = how often each
node ran. A run that is to be done again (its node waits, or is retried) is not
counted; a tool's runs are part of its agent's.

### PartialExecution

The operators follow `partial-execution-utils`: `TriggersFor`, `FindSubgraph`,
`FilterDisabledNodes`, `FindStartNodes`, `HandleCycles`, `CleanRunData`,
`RecreateNodeExecutionStack`, over a graph whose nodes and connections keep the
order of the `Map`s in `DirectedGraph`. The search functions are RECURSIVE
operators, as they are recursive functions in the code. `phase`, `before`,
`ended`, `dirty` and `kept` hold what happened: the full execution (or what was
left of it when it was cancelled or failed), how it ended, the nodes that were
edited since, and the nodes whose run data the partial execution starts with. The
editor starts none while an execution runs or waits. What `recreateNodeExecutionStack` writes
beside the data of a packet, the label of the run it comes from, is left out: a
packet names the run itself. The engine of `WorkflowExecute`
executes both, so the properties compare what a node ran on before and now.

### QueueMode, QueueModeProofs

The processes meet in the row of the database, which each writes without
looking at what it says, and in Bull's queue. Each `await` ends an action.

| Variable | In the code |
|---|---|
| `row` | the execution's status in the database |
| `main`, `entry`, `result` | how far `WorkflowRunner.run`/`enqueueExecution` are, with `processError` and its saves; the entry in `activeExecutions`; the status that was read for `finalizeExecution` |
| `canceller`, `stopper` | the `onCancel` handler with `ScalingService.stopJob`, and `ExecutionService.stop`: read, act, write |
| `job`, `stalls`, `lock` | the job on Bull's queue (external): its state, how often it stalled, the worker that has its lock (or had it, once the job has ended) |
| `lost` | the executions whose lock a live worker has lost |
| `work` | for each worker, how far `JobProcessor.processJob` is |
| `cancelled`, `cancelSave` | workflows that an `abort-job` has cancelled, and their hook that still has to save the row |
| `aborts` | `abort-job` messages on their way |
| `recovery` | `recoverFromQueue`: the rows it has read, the executions it found dangling |
| `crashes` | bounds on the crashes of main and workers, and on the locks that live workers lose |

A worker that exits as it should waits for its jobs; if it runs out of time it
ends like a crash, so `WorkerCrash` covers both. A worker that is too busy
to renew its lock loses it while it lives (`LoseLock`): it works on and writes
the row, and Bull gives the job to another worker, or fails it, meanwhile
(`Stalled`). Only the worker that has the lock can end the job; a job without a
lock can be removed. A worker does not take a job again that it still works on. The recovery's batch is as large as it has to be. `finished()` of a job
that was removed never settles, and main's promise stays open until its entry
is cancelled.

## 4. Runs

| Run | Instance | Shows |
|---|---|---|
| `queue_stop` | 5 calls, 2 ids, limit 2, removals | accounting, order and progress of the queue with removals; until the first of them, the limit is respected and the queue implements `Semaphore` |
| `regular_base` | 2 executions, 3 runs, limit 1, 2 polls; one waits for the tracker or a webhook, one may time out | no stale entry, everything ends |
| `regular_stop` | 2 executions, limit 1, both may be stopped at any moment, one may time out, one has a response promise, a shutdown at any moment | no slot leaks; nothing but a user's stop takes the slot of a workflow under it; a stop in the queue is final; a cancelled workflow stays canceled; what is queued stays `new`; the shutdown ends |
| `regular_restart` | as `regular_base`, no webhook | violated: a queued resumption is resumed again and starts after it succeeded |
| `broker_offers` | one runner for one task, 2 offer ids, 2 requests, internal mode, fairness | offers fit the capacity, settings find their task waiting, requests settle, tasks end |
| `broker_runners` | 2 runners with one offer id each, 2 requests, external mode | one acceptance per request, broker and requester agree, running tasks are watched, no connected runner executes code that nobody waits for |
| `multimain_lease` | 2 hosts, 2 starts each, 10 s to live, 3 s interval, 2 s latency | at most one leader, it holds the key, and leadership is filled again |
| `engine` | about 2100 workflows of 5 nodes: merges, diamonds with one or two settings, a loop, an agent with tools | the engine implements `Dataflow`, merges run last, nothing is stranded, answers arrive, executions end |
| `partial` | 380 workflows: an execution that succeeds, fails or is cancelled, then a partial one to each node; merges, loops, cycles, agents, two triggers, dirty, pinned and failing nodes | only what leads to the destination is executed, nothing stale is kept, nothing kept runs again; unless a node that failed is kept, the destination runs on inputs it had |
| `partial_disabled` | a chain of 5 nodes, the third disabled | violated: the destination is not executed (section 6) |
| `queue_mode` | 1 execution, 2 workers, 2 crashes of workers, 1 of main, one stop | the caller hears of an end, every row settles, every entry goes |
| `queue_lock` | the same without stops, 1 crash of each, 2 locks lost by live workers | workers that work on without their lock: as many have the job as it has stalled and one more, every row settles |

Bounds. Five calls on two slots let two hold, two wait and one arrive or be
removed in between, under repeated ids. In `RegularMode` two executions on one
slot give every combination of holding, waiting in the queue and waiting for
the tracker; a third run resumes the one that waits. With limit 1 a resumption
queues behind the tail of the run that waited; with a larger limit (or none)
the two overlap, and the first run's `finalizeExecution`, which goes by
execution id, settles the second one's entry. So the invariant of
`regular_base` is a claim about limit 1 (section 6). `Polls` bounds how often the tracker
finds a row; two allow a second poll while the first resumption is on its way.
`CHECK_DEADLOCK FALSE` is set where the bounded number of calls is used up and
the system rests.

Fairness. `ConcurrencyQueue!FairSpec` assumes that each admitted execution ends
and calls `release`: the `finally` in `ActiveExecutions.add` runs in every
outcome. `RegularMode!FairSpec` assumes that a run's own steps, a stop once
begun, the tracker's poll and its timers happen: event-loop callbacks of a live
process. Creating, stopping, timing out, webhooks and shutdown are not fair.
`TaskBroker!FairSpec` assumes that messages arrive and are handled, that timers
fire and that the broker notices a lost connection. A task's code need not end,
not even when it is aborted; offers, requests, cancellations, stops and crashes
are not fair.

Bounds of the broker runs. Two ids for a runner of capacity one let an open
offer, a task and messages about old ones be about together; two runners let a
request that one of them accepts late, rejects or takes down with it go to the
other; two requests compete for one offer.

`MultiMainSetup!FairSpec` assumes that time passes and that intervals and Redis
work. `LeadershipIsFilled` asks for a leader only if some main stays up. The
defaults of the code are checked at the largest latency they bear: with 3
seconds of latency, or a key of 9 seconds, `LeaderHoldsKey` fails. `Starts`
lets a main crash and come back while its key lives.

`WorkflowExecute!FairSpec` assumes that the loop goes on and that an execution
that waits is resumed. Its first conjunct is the weak fairness of `Step`,
written with `Goes`, which holds where a `Step` is possible; TLC has then no
ENABLED to evaluate in each state. Nodes need not succeed, cancellation and the
retry of a failed execution are not fair.

Bounds of the engine's runs. Five nodes give a trigger, a branch, a node on one
side of it and two merges, one of which may lie before the other. Merges have
two inputs, `MaxTries` is 2 (a failed try and a last one), `MaxRestarts` bounds
how often a failed execution is tried again, `MaxCalls` the runs of a tool.
A partial execution has at most one dirty node: what is behind it is dropped,
so a second one matters only beside it.

`QueueMode!FairSpec` assumes that what a process has begun goes on, that waiting
jobs are picked up, that messages arrive, that Bull checks for stalled jobs and
that the leader's recovery recurs. Crashes, stops and losses of locks are not fair, and
crashes and losses are bounded: a queue whose workers all crash for ever settles
nothing. With
`MaxStalledCount` at 1, Bull's default, two crashes of workers make a job stall
once more than it may, and so do the two lost locks of `queue_lock`, with two
workers on the execution when Bull gives it up; one crash of main loses the callers, after which only
recovery settles the row. One execution is enough, since executions share
nothing but the batch that a recovery looks at.

## 5. Proofs

`ConcurrencyQueueProofs` proves, for any finite set of callers, any ids and any
positive limit: the type invariant, `SlotsAccounted`, `WorkConserving` and
`NoOvertaking`, which is about every call that is let through, those that never
wait included; and, until the first removal, `LimitRespected` and that the queue
implements `Semaphore` (`RemovedStays` is why the promises tell whether there
has been one). The assumption used is `QueueAssumption`.

The inductive invariant `IInv` is the conjunction of `TypeOK`,
`QueueMatchesPromises`, `SlotsAccounted` and `WorkConserving`: the accounting is
not inductive without knowing that the queue holds each pending call exactly
once (a `resolveNext` must move one call from the queue to the holders), and
`WorkConserving` needs the accounting. Each operation preserves it through one
lemma, and `ResolveNextRestores` says what `resolveNext` does for the two
operations that end with it.

`MultiMainSetupProofs` proves, for any hosts and times with
`Interval + 3 * Latency < Ttl`, that a leader holds the key and is alone, with
stable ids and without. The inductive invariant bounds the key's remaining time
from below by what is left until the next renewal, in each state of a check; it
needs the lease of an instance whose claim has been answered by Redis but not
yet been heard of (`check` = "set"), or the step to `leader` could not be
proved. `TickKeepsLease` is where time could run out, `OthersKeepLease` where
another instance could take the key, `OwnStepKeepsLease` the instance itself.

`RegularModeProofs` proves two groups of theorems about `RegularMode`. The queue
is not proved about again: `CQP == INSTANCE ConcurrencyQueueProofs` gives its
invariant under the names of this module, and `DequeueMoves`, `RemoveMoves` and
`InitEstablishes`, stated there, say what a step of the queue does to promises.

- For all constants: the type invariant, `StoppedInQueueNeverRuns` and
  `QueuedSurvivesShutdown`. `Typed` is the types, the queue's invariant and
  `RunsOrderly` (what a run has at each place, above all that a promise is
  pending or dropped only while its run is throttled). `RowsOrderly` then ties
  rows to runs: a row that no run has reached is untouched, the run that is
  first in the queue still has the row it came with, a run that is reading has
  resumed. Without it a row could be overwritten by a run the invariants say
  nothing of.
  `QueuedSurvivesShutdown` speaks of executions without a response promise:
  of the others the code promises the contrary (section 6).
- Where no execution waits (`Waiting = {}`): `NoLeakedSlot`, `NoStaleEntry` and
  `OnlyStopFreesSlot`, for any number of executions, runs, stops and timeouts
  and any limit. `SlotInv` says for each run who holds a slot (`SlotFine`: from
  the moment the queue lets it through until its entry goes), who is heard when
  it ends (`HeardFine`), and for each entry that its run is under way
  (`EntryFine`). With executions that wait the theorems would be false: a stop
  that meets an execution as it goes to wait leaks its slot (section 6).
  `OnlyStopFreesSlot` needs one more invariant, `LostInv`: a run on its way to
  its workflow, or in it, that has lost its entry without being cancelled has
  lost it to a user's stop. The timeout could take it too, so `LostInv` also says
  that the timer is armed only while the workflow can be cancelled.

Each action has a lemma, named after it with "Does", that says field by field
what the step changes; the invariants are preserved from those lemmas, so that
no leaf has to expand an action and an invariant together.

`QueueModeProofs` proves for any executions, workers, stall counts, crashes and
lost locks: types, `OneWorkerPerStall` and `ResultIsFinal`. The first follows from
`FewWorkers`, which counts the workers that have an execution in hand: at most
as many as its job has stalled, and one more unless the job waits to be picked
up. A worker can take a waiting job only, and a job comes to wait again by a
stall alone. `HolderHasJob` says that the lock's holder is at a job that is
active or was moved to failed by a stop. That main reads no status in progress
needs the longest part. `Held` ties a worker's place to the job's state and its
lock, for executions whose worker never lost it; `EndIsSaved` says that, as long as main lists such an execution, a
worker that is done with it and a job that has completed have left a final row;
`CancelledHasNoEntry` that nothing is listed once it is being cancelled.

The end of `TaskProtocolProofs` proves `OffersFitCapacity` for any number of runners, offers,
requests and any capacity. The hard step is the runner's refill: `FirstOnes`
counts the offers that `sendOffers` takes, through the rank that orders the free
ids, and `OfferSlotsFits` concludes that offers and running tasks together do
not exceed `MaxConcurrency`. All steps of the broker and the requester leave
offers and tasks of the runner alone (`NothingTaken`).

`TaskProtocolProofs` proves the rest of the protocol of broker, runners and
requesters, for any runners, requests and offer ids and in both modes:
`TypeOK`, `PendingIsRequested`, `OneAcceptance`, `RunningIsWatched`,
`SettingsFindTaskWaiting`, and in external mode `NoOrphanExecution`, which is about
runners that are connected (section 6). None of them
is inductive, and neither is their conjunction: whether the broker may accept an
offer depends on what its runner has become, and on every message about the
offer that is on its way. So `Inv` has, besides types and lists without
duplicates, for each offer its `Phase`: which messages about it can be in the
two queues, in which order, for each state of the runner's side and of the
broker's (`Phases`). `QueuesOrdered` keeps an offer's messages in the order they
were sent in, `Connected` says what remains of a runner that is gone, `Lists` and
`AcceptingFlagged` tie the broker's lists to its acceptances,
`RunningHasTask` ties the requester to the broker. There is one lemma per
action; those that send or receive use one lemma each about a queue that grows
at its end or loses its head, and `KeepFolds` with what follows from it says what
filtering a list (`Keep`) does.

`ListLemmas` has what both that module and the next need of sequences. Its
`UpTo` is the induction of the project: what holds at 0 and passes on holds up to
n. The provers cannot use the library's induction theorems, so it is proved from
the least counterexample (`LeastNatural`). `FoldDefined` follows: a fold over a
finite sequence of functions exists and satisfies its equations.
`Ranks` numbers a finite set in an order, from which follows that a list is
sorted as `ConnectionsToFollow` sorts.

`WorkflowExecuteProofs` is about the engine, for any workflow of any finite set
of nodes, any number of tries and retries:

- `TypeCorrect` (`TypeOK`), from `Typed`, in which what waits at a node is a
  finite, non-empty set of entries (`Waits`) that each have data and lack some; `AddNodeGrows` and
  `FinishDoes` say what `addNodeToBeExecuted` and the children of a node change.
- `MergesComeLast` (`MergesRunLast`). `Alone` is inductive where `MergesRunLast`
  is not: with an item that goes without data, everything else on the stack or
  executed is a tool that it waits for, and no node before it waits. It needs
  that tools lead to nothing, and `ParentsAreClosure`: `ParentNodes(n)` with `n`
  is closed under connections and the least such set, because a set that has
  grown as often as there are nodes cannot grow again.
- `ForwardStrandsNothing`: under `Forward`, `NothingStranded`. `Looked` says that
  once the stack is empty no waiting node is ready, so each of them requires its
  inputs or has one before it that waits too; in a graph without cycles the
  shallowest has none. Both hypotheses are needed. In a cycle two merges may
  wait for each other, and a node that returns null does not look at what waits
  (section 6).
- `ToolsAnswer`: under `ToolsReturn`, `AnswersAreThere`. `Answers` follows each
  call from the request to the agent: it has its place in the run data, and is
  answered unless the tool's item lies above the agent's or is executed. With a
  destination the property is false (section 6). Tools that put the execution to
  wait are left out of the theorem only: resumption takes the last run of the
  tool away, which may be the place of another call, and the proof would have to
  follow those too. `engine` has such tools.

`DataflowProofs` proves that the engine implements `Dataflow`
(`DataReachesItsRun`, for `ImplementsDataflow`): its data are produced by a run and
consumed once by a run of the node they are for. Two hypotheses say for which
workflows. `WellConnected`: no two connections are equal, no agent with tools has
two inputs, and the trigger is no tool. Along equal connections a packet is sent
twice, and an agent that resumes is given the packet of its first input alone
(`ItemOf`), so that what came to another would be lost. `[][NothingOverwritten]_vars`:
`addNodeToBeExecuted` never finds the key taken that it chooses for a new entry;
if it does, the entry's data are lost (section 6). `FlowInv` is the inductive
invariant. `Sound`: every packet in line or waiting is in one place, at the input
it was sent to. `History`: it was produced by a run that is counted, and not yet
consumed. `InTurn`, `Settled` and `Paused` say which runs count: the run data has
the run that is under way, or ends with one that is to be done again, when an
execution waits, failed or was asked for tools, and nowhere else. `Moved`, `PacketAdded`
and `ChildrenAdded` follow packets through a stack that changes, through
`addNodeToBeExecuted` and through all connections of a run. TLC checked `FlowInv`
on the workflows of `engine`, and on cycles and on three connections into an
input as long as nothing was overwritten, before it was proved.

The second hypothesis is about executions. It is not needed under `FeedForward`:
main connections go forwards (some depth grows along each) and no two lead to the
same input; 324 of the 2110 workflows of `engine` are of this kind. Then nothing is
overwritten (`FeedForwardOverwritesNothing`), the engine implements `Dataflow`
(`FeedForwardDataReachesItsRun`), and no node but a tool runs more than once
(`FeedForwardRunsOnce`: a node where branches meet is not executed for each of
them), whatever waits, fails, ends its branch, is executed with part of its inputs,
or is retried or resumed. The inductive invariant adds `Placed`: a node is in line
once, or waits under the key 0, or has run, and nothing before a node that is in
line or has run is in line or waits. A run is followed child by child
(`ChildrenPlaced`) with `Ahead`: the connections still to be followed lead to
nothing that has started, nor before it. A packet that completes its item
(`AllHaveRun`: then everything connected to the node has run) or waits for the rest
keeps both. The look at what waits does too, because `Ready` spares a node behind
one that waits: without that guard the invariant is lost. So is it with two connections
into one input, where a node may have two entries, and run twice. TLC checked `PlacedInv` on 3258 such workflows of five
nodes before it was proved.

Assumptions: each module's own, named in it (`QueueAssumption`,
`RegularModeAssumption`, `QueueModeAssumption`, `EngineAssumption`, and those of
the task runner and of the multi-main setup), and those the theorems state.
`EngineAssumption` says that nodes are finitely many, what a workflow is made of
(`IsWorkflow`; main connections do not touch tools), and that the markers of an
input without data differ from data and from each other.

Only model-checked: liveness, in every module; the slots of regular mode where
executions wait; partial execution, whose RECURSIVE operators are out of the
prover's reach; and the engine's refinement of `Dataflow` for workflows that the
hypotheses of `DataReachesItsRun` leave out (with loops or shared inputs, those in
which an entry is overwritten). The type invariants of the
queue, of regular mode, of queue mode and of the election, and
`QueueMatchesPromises`, are proved and need no run; those of the engine and of the
broker are checked by `engine` and `broker_runners` too.

## 6. Limits

Not modelled, and why:

- Regular mode: database failures after the throttle (they leak a slot: `add`
  has no `try` around them), sub-workflows that resume their parent, streaming
  responses, restarts of the process (`runEnqueuedExecutions`).
- Queue mode: executions that wait, timeouts inside a worker, hooks that fail
  (`workflow-runner.ts:398`), a worker that takes a job again which it still
  works on, several mains, and the recovery from the event log of regular mode.
- Task broker: the launcher's deferral (`task-broker.service.ts:561`; a deferred
  request is listed twice), several task types, the relays of data and RPC
  calls, heartbeats as such: one that fails is a connection that closes.
- Engine: execution order v0, error outputs, paired items, what nodes do with
  items. Partial execution: a tool as destination (`rewireGraph`), edits of the
  connections between the two executions.
- The parts listed as not modelled in the inventory. Active workflows, webhooks
  and task chains have state worth modelling and are planned; nodes, the editor
  and the REST controllers, by far the most of the repository, are I/O, user
  interface and validation with no protocol of their own.

Where the code does not do what the repository says: the runs `regular_restart`
and `partial_disabled` show it, and PROJECT.json quotes the line. More of the
kind is stated in the modules, and TLC violates each under a configuration of its
own, which is not among the runs:

| Configuration | Statement | What the repository says, and what the code does |
|---|---|---|
| `RegularMode_limit.cfg` (`MCRegularMode`) | `ExecutingWithinLimit` | "Max production executions allowed to run concurrently" (`executions.config.ts:19`); a stop between the registration and `attachWorkflowExecution` (`workflow-runner.ts:307`) frees the slot, and the workflow runs on beside the next one |
| `RegularMode_removeall.cfg` | `QueuedResponsesCanceled` | "Also cancel any enqueued executions that have response promises" (`concurrency-control.service.ts:140`); `shutdown` disables the service before `removeAll` (`active-executions.ts:269`), which then does nothing |
| `RegularMode_twice.cfg` | `ResumedOnce` | "is running already" (`waiting-webhooks.ts:149`); two calls of a waiting webhook pass that check before either sets the status, and the execution executes twice at a time |
| `PartialExecution_failed.cfg` (`MCPartialExecution`) | `DestinationExecuted` | a node is dirty if "it has an error (not implemented yet)" (`find-start-nodes.ts:10`); the run data of a node that failed count as a run, and the destination behind it is not executed |
| `QueueMode_stall.cfg` (`MCQueueMode`) | `SuccessNotOverwritten` | "a sanity run for the edge case that the execution was not marked as stalled by Bull even though it executed successfully" (`workflow-runner.ts:93`); a worker without its lock saves a success after main has looked, and main saves an error over it |

The runs check what holds beside this:

- `LimitRespected` and `ImplementsSemaphore` speak of the time before the first
  removal. `OnlyStopFreesSlot` says that nothing but a user's stop takes a slot
  from a workflow that is not cancelled.
- `QueuedSurvivesShutdown` leaves out executions with a response promise.
- `DestinationRunsAlike` leaves out partial executions that keep the run data of
  a node that failed (`KeptFailures`).
- `ResultIsFinal` leaves out executions whose worker lost its lock: that worker
  may set the row to running after another has saved its end, and main may read
  it then. It may also save an end over another's; which end stands is
  not what `EveryRowSettles` says. Stops and lost locks are in different runs, as
  liveness with both takes too long; `OneWorkerPerStall` and `ResultIsFinal` are
  proved with both.

Known from the models besides, and kept out of the passing runs by their
instances or by what the properties say:

- Queue: after a removal more calls than the limit are let through
  (`concurrency-queue.ts:53`).
- Regular mode: with a limit of two or more, the run that waited and its
  resumption may overlap, and `finalizeExecution`, which goes by execution id,
  settles the wrong entry (`active-executions.ts:185`). A stop between the
  throttle and the registration finds neither a queue item nor an entry, and the
  execution runs (`active-executions.ts:83`); `StoppedInQueueNeverRuns` is about
  what was taken from the queue, `CancelledStaysCanceled` about workflows that
  the stop reached.
- Regular mode: a stop that meets an execution as it goes to wait loses its slot
  (`active-executions.ts:177`), so `regular_stop` has no execution that waits. An
  execution that goes to wait once shutdown has begun keeps the loop of
  `ActiveExecutions.shutdown` polling (`active-executions.ts:280`), because
  waiting entries are removed only before the loop.
- Task runner: a runner whose connection closes stops its offers only
  (`task-runner.ts:132`); the broker fails its tasks and tells it nothing, so
  that its code runs on until its own timeout. `NoOrphanExecution` is about
  runners that are connected.
- Multi-main: where the host id outlives the process (Docker), a restarted main
  renews its old key as a follower and nobody leads
  (`multi-main-setup.ee.ts:75`; `StableIds` = TRUE breaks `LeadershipIsFilled`).
- Engine: with three connections into one input an entry that waits may be
  overwritten (`workflow-execute.ts:498`), so inputs have at most two. After a
  node that returns null, a filtered item or the destination the loop does not
  look at what waits, so merges may be stranded: `NothingStranded` is about
  executions of the whole workflow, and no instance has both a merge of two inputs
  and a node that returns null. An agent as
  destination does not get its tools (`workflow-execute.ts:139`, `1624`).
- Partial execution: besides `partial_disabled` and the failed node, incomplete inputs ignore pinned
  data (`recreate-node-execution-stack.ts:176`), a loop cancelled in an iteration
  may leave no node to start from, a pinned node on a back edge starts its loop
  twice, the components are not all found (`directed-graph.ts:392`), and only the
  first run with data counts. A group of sources counts as complete when its nodes
  have run, and one without data is passed over (`recreate-node-execution-stack.ts:146`),
  so a node whose input has two connections gets a shorter list when one of them
  comes from a node that failed. The instances leave these out (workflows with a
  failing node have one connection per input). `NothingStale` says
  nothing of packets that come out of the destination in a cycle.
- Queue mode: recovery marks queued or successful executions as crashed
  (`scaling.service.ts:486`, `493`), which is why the properties ask for an end
  and not for the true one; a success is executed again after a crash between
  its save and the job's end (`job-processor.ts:72`); an `abort-job` that comes
  before the workflow is registered is lost, and a stop before
  `attachWorkflowExecution` leaves the job running.
