# yaml-flow in TLA+

yaml-flow is a TypeScript library and runtime for event-driven task graphs: a
*continuous event graph* that re-runs tasks when their inputs change, a *board
of live cards* that persists such a graph, fetches the sources of its cards and
may be driven by several processes at once, a server that shows boards to pages,
work queues, and smaller engines (an event graph that its user drives, a batch
runner, two step machines). This directory holds models of the parts where order,
interleaving and failure decide what is right, the TLC runs that check them on
small instances, and theorems that TLAPS proves for every instance.

Paths are relative to the root of the repository (`src/` in `PROJECT.json`).

## 1. The system

| component | state it keeps | operations | talks to |
|---|---|---|---|
| reactive graph engine (`src/continuous-event-graph/reactive.ts`) | the live graph, two event queues, a re-entrancy flag, unanswered handlers | push, retrigger, addNode … removeProvides, resolveCallback, dispose; the drain | calls handlers of the user, which call it back, also from inside a drain |
| live graph core and scheduler (`core.ts`, `schedule.ts`, `src/event-graph/task-transitions.ts`) | none: pure functions of a graph | applyEvent, task transitions, schedule | called by the engine |
| board drain cycle (`src/cli/common/board-live-cards-public.ts`) | journal, snapshot (graph, card runtimes, cursor), outputs, fetched sources, wake-up queue, relay lock | upsertCard, removeCard, retrigger, taskFailed, sourceDataFetched, sourceDataFetchFailure, processAccumulatedEvents | owns a reactive graph per drain; sends fetches to workers, which answer through the journal |
| source fetch cycle of a card (`board-live-cards-lib.ts`) | four markers per source in the card's runtime | the card handler, once per run and once per answer | a handler of the board's reactive graph |
| queue lanes and leases (`src/cli/node/queue-runners.ts`, `storage-fs-adapters.ts`, the queues on Firestore and in memory) | message files, documents or entries: active, leased, done, dead, staged | enqueue, enqueueIfAbsent, lease, ack, nack, stage, commit, discard, revive | wakes the board; feeds chat agents |
| batch runner (`src/batch/runner.ts`) | slots, counters, results | batch, abort | calls a processor and callbacks of the user |
| step machine (`src/step-machine`), flow engine (`src/core/engine.ts`), command line of the former | run state in a store and a copy in the loop of each process; a pause marker | run, pause, resume, cancel | handlers, store |
| event graph (`src/event-graph`) and live graph inspection (`src/continuous-event-graph/inspect.ts`) | none: pure functions; the loop is the user's | next, apply, isExecutionComplete, detectStuckState, planExecution, validateGraph, getUnreachableNodes | used by applications that own their loop |
| SSE hub, runtime notifications, chat store (`src/server-runtime`, `src/board-storage`) | registered connections with their subscriptions; published outputs; chat records | connect, close, subscribe, append, clear, broadcast, publish a snapshot | the worker's notifications over a pipe, HTTP clients |
| stores of cards and artifacts; board container; cloud, browser and Firestore adapters; HTTP routes, MCP facades, command line; Python port | files, keys, documents | keyed reads and writes | the storage interfaces |

`PROJECT.json` lists every component with its status and the reason when it is
not modelled.

Hard behaviours, and what correctness means in each component:

- **Reactive graph.** A handler may answer, push or rewire the graph while the
  drain that dispatched it is still on the stack; an upstream may complete while
  its consumer runs on the older data; tasks may be removed, restarted or
  upserted under a run. Correct: no event stays queued, a task runs once at a
  time, at rest every result was computed from the present inputs, caps hold, a
  failure unblocks its fallback, the engine comes to rest, a disposed engine is
  silent.
- **Board.** Processes race for the relay lock and leave their work to its
  holder; events arrive while a drain is under way; effects are written after
  the commit, and a process may die in between; answers of fetches are late, out
  of order, failed or without data; a retrigger starts a new cycle over fetches
  in flight. Correct: each event is drained once and none waits for ever, a
  completed card has no source in flight and shows what its stored sources
  compute to, newer content is never replaced by older, what is published
  belongs to the completed cards.
- **Batch.** Items settle in any order, the caller aborts at any time, its
  callbacks throw. Correct: one resolution, a result per item, counters that
  tally, slots neither leaked nor overrun.
- **Queues.** Processes lease, revive and settle the same files, each operation
  several system calls; leases expire under their holders; processes die between
  two calls. Correct: no message is lost or both settled and pending, one holder
  at a time while leases are in time, attempts are counted, every message is
  settled in the end.
- **Step machines.** Runs are paused, aborted, resumed, killed, and their
  callbacks throw, while the loop holds the only copy of what was counted since
  the last save. Correct: no transition is lost or repeated, breakers hold over
  all drivers of a run, ended runs stay ended, every process ends.
- **Event graph.** Completion, stuck detection, the conflict strategies, the
  plan, the validation and the reachability analysis each decide by a rule of
  their own about the same graph. Correct: they agree with what can happen.
- **Feed.** A page is connected, told what changes, disconnected and connected
  again while worker, server and chat store write and notify; cloud stores make
  every read an await. Correct: at rest a page is registered as it is connected
  and shows what is persisted.

The list of hazards in `PROJECT.json` names the lines and the properties aimed
at each, also those that no property covers, with the reason.

## 2. Modules

| module | models | proofs |
|---|---|---|
| `LiveGraph` | the graph as a record; `ApplyEvent`, the task transitions, `Eligible` | `LiveGraphProofs` |
| `ReactiveGraph` | the engine: one action per step of a drain, per API call, per way a handler ends | `ReactiveGraphProofs` |
| `Dataflow` | what the engine promises: a spreadsheet | |
| `ReactiveDataflow` | the refinement mapping from the engine to `Dataflow` | `ReactiveGraphProofs` |
| `CardHandler` | the card handler as functions of a card's runtime | |
| `BoardDrain` | the board: lanes, lock, drain, commit, flush, dispatch, users, workers, crashes | `BoardProofs` |
| `Relay` | what a board promises to those who append to its journal | |
| `BatchRunner` | the batch runner, one action per callback | `BatchRunnerProofs` |
| `WorkQueue` | the queue on a file system, on Firestore and in memory, and the lanes that drain it | `WorkQueueProofs` |
| `StepMachine` | both step engines, the command line, the processes that drive runs | `StepMachineProofs` |
| `EventGraph` | `next()` and what it calls, the plan, the validation, the reachability analysis, a driver | `EventGraphProofs` |
| `SseFeed` | the event stream of the server: pages, connections, subscriptions, worker and chat store | `SseFeedProofs` |
| `MC...` | instances for TLC | |

`ReactiveGraph` and `CardHandler` extend `LiveGraph`, `BoardDrain` extends
`CardHandler`: the board runs the same transitions and the same scheduling rule
as the engine; `EventGraph` extends it too, since the event graph and the live
graph share `task-transitions.ts`. Operators named `Mut...` are faults: variants
of the definition that follows them, one for every checked property, under which
that property fails. No specification uses them.

### 2.1 LiveGraph and ReactiveGraph

`live` is the graph: the position of each task among the keys of
`config.tasks` (0 for none; the order matters, the scheduler compares with the
*first* provider of a token and the reader takes the *last*), the wiring, the
`GraphEngineStore` of each task, `availableOutputs`. A payload is a number that
stands for its content and for its hash; `NoData` is the empty payload, which
the code does not hash.

`input` and `internal` are the two queues, `drainQueued` and `disposed` the
flags of the code. A drain is one JavaScript stack; its steps are separate
actions because a handler's synchronous part runs in the middle of it. Event
application is one action per event, and no callback runs between two of them:
API calls and answers are enabled only in the phases `idle` and `dispatch`.
`flights[t]` holds the unanswered runs of `t` with what each has read, and
`basis[t]` what the run that published its data had read: neither is in the
code, they exist to state what results are computed from.

A handler ends by `resolveCallback` with data or an error, or by rejecting
(`Reject`, on an empty stack). `applyEvents` throws for a completion of a task
that an earlier event of the same batch removed: the batch is lost
(`DropEvents`).

### 2.2 CardHandler, BoardDrain, Relay

A request token is the time of the run that queued it, counted per card; the
content of a source is the token of the request it was fetched for, so that
"newer" can be told from "older". `journal` holds the events after the cursor.
Each process goes through `Lease`, `ClearWakeups`, `TryAcquire`; the holder of
the lock through `Load`, `ApplyOne`, `Schedule`, `RunCard`, `RouteProgress`,
`EndPass` (a pass of the reactive graph, again while completions are pushed),
then `CommitRuntime`, `CommitGraph` and `CommitCursor`, the three keys of the
snapshot in the order in which the store writes them (`KeyAfter`), then
`FlushOutputs`, `FlushSources`, `DispatchRequest`, `Release` and `Continue`, one action per effect that others can see or that a crash can
separate from the next. `job` is the memory of that drain: the overlays RX and
SX, the accumulators TX and DX, the pending requests.

From the load to the last pass a drain reads nothing that others write, apart
from staged blobs that never change: other actors wait meanwhile (`Draining`),
which loses no behaviour and keeps the state space small. The wake-up queue is
one bit, since its messages are alike and a lane drops all of them before it
drains. `applied` counts the events the stored graph has been through, again when
they are drained again, and is not in the code: it is what the cursor is compared
with. `torn` tells whether a process died between writing the two.

`Relay` says: events are appended; a drain takes all those up to some point; no
event is taken twice; none waits for ever.

### 2.3 BatchRunner

One action per callback (`.then`, `.catch`, `.finally`), per iteration of
`tryStartNext`, per processor that settles, and the abort. `Throwing` says which
functions of the caller may throw.

### 2.4 WorkQueue

`files` is the store: a file, a document or an entry of the Map is a record with
its place, its order, its attempts and the lease it bears. Init picks the
implementation. On the file system every operation of the file system is an
action (`FsRead`, `FsClaim`, `FsStamp`: read, rename, write; likewise `Revive...`,
`Nack...`, `Ack...`, `Commit...`, `Discard...`), and any other process may act in
between; a Firestore lease is a query and a transaction per document; the Map
changes in one turn of the process: a lease of up to `Batch` entries is written
message by message (`MemoryLease`, then `MemoryClaim`), and nothing else is done
on the Map until it is complete (`MapFree`). A lane is `BeginLease` or
`MemoryLease`, the claims, `HandleOk` or `HandleThrows` for each message held. `Lapse` lets a lease expire
under a live holder, `LapseAbandoned` one that nobody holds, `Crash` loses what a
process had in memory. Time appears only as the set `lapsed` of the leases that
have expired.

The code does lose its guarantees in two situations, which the history variables
name and the properties except, message by message: `stale`, a process writes,
renames or unlinks a file that has changed since it read it (two revivers of one
lease, mostly), and `torn`, a process dies between two file operations. That the
exceptions are no wider is what the mutants of `FsStamp`'s token, `NackWrite` and
`NackUnlink` show.

### 2.5 StepMachine

A process has a place in the code, the state of the run in memory and its abort
signal; `store` has what was saved last. `Save` overwrites the whole record, as
`store.set` does, and the loop never reads it back. One action per outcome of an
iteration (`Cancel`, `Timeout`, `Exhaust`, `Complete`, `Redirect`,
`CallHandler`), per outcome of a handler (`MachineReturn`, `EngineReturn`), and
for the `catch`; the command line adds `ClearMarker`, `ResolveRun`, `MarkPaused`,
`Unmark` and `RequestPause`. `pause()` of the library is two steps, a read and a
write. `did`, `starts`, `lost` and `meddled` are history: the transitions taken,
the calls made, the drivers that ended without a save, the runs that had two
writers at a time or were paused after their end.

### 2.6 EventGraph

Init chooses a graph among `Wirings` and a completion and a conflict strategy;
nothing changes them afterwards. `Schedule` is a call of `next()` together with
what its caller does with the answer: stop if complete or stuck, else start every
entry of the list. Answers come in any order (`Succeed`, `Fail`), tokens are
injected. `Listings` is the set of lists that `selectOptimalTasks` may return,
with multiplicities: the strategies list a task once per output it wins.
`UnreachableTokens` is stated as the smallest set closed under the rule that the
loop of `inspect.ts` iterates; `Planned` iterates the phases as `plan.ts` does.

### 2.7 SseFeed

Versions stand for the outputs and for the chat records. The worker writes
(`WriteOutputs`) and then announces (`Announce`) on `pipe`, which may lose a
message. The server serves requests: `task[t].at` is the place of a request
between two awaits, `running` the request that keeps the thread when stores
answer at once (`kind = "sync"`): then the request is one turn of the server
loop, though its steps remain separate actions, since the worker is another
process; a request to subscribe or unsubscribe is two, since its body is awaited
after its snapshots (`routes-watchers.ts:108`). With `kind = "async"` any other request goes on between two steps.
`hub` is `sseClients`; `closing` holds close events on their way. A frame reaches
a page only over the connection that is registered; a write to another may or
may not throw, which drops the registration (`Write`).

`stale` and `astray` are history again. `stale` gets `"data"` when the last
notification on its way is lost, and with async stores when an older version is
told with nothing newer on its way: then the pages do show old outputs, and
`Current` says nothing of them. It says it again from the moment something begins
that owes a repair: a version is written, or a request to connect, subscribe or
unsubscribe is received, of any page, whose two snapshots must then reach every
page. For chats `stale` is set by `ClearChat`, of which nobody is told, and when
async stores told what was read before a newer record; it ends when the chat
store emits the present records. `astray` has the pages whose registration was
overtaken by their own reconnection or close, with async stores.

## 3. Runs

| run | instance | shows |
|---|---|---|
| `reactive` | a, b, c with c fed directly and through b; three publications of two values, a failure, a retry | `RunsMatchStatus`, `Settles`, `ImplementsDataflow` with its liveness |
| `reactive_failure` | b with a retry and a circuit breaker, c its fallback, rewiring and upserts under runs | `RunsWithinCap`, `Consistent`, `FailureUnblocks` |
| `reactive_edits` | every API call, any four of them, tasks refreshing on epochs | `NothingLeftQueued`, `DisposedIsQuiet` |
| `board` | two processes, card a with two sources, card b that consumes a; a retrigger, a failed or missing answer | `CompletedIsSettled`, `CompletedIsCurrent`, `PublishedIsCurrent`, `NewerContentKept`, `ImplementsRelay` with its liveness |
| `board_crash` | two processes, one source, two crashes, a late rejection, a retrigger or a taskFailed | `NoLostWakeup`, `DrainedOnce` |
| `batch` | four items, two slots, every callback may throw | `ResolvedIsComplete`, `SlotsAccounted`, `ResultsFrozen`, `BatchResolves` |
| `queue` | two processes on each of the three stores (one message where every file operation is a step, two elsewhere), lanes that lease two at a time; a throw, a lapse, a crash | `Accounted`, `OneHolder`, `UniqueKey`, `SettledStays`, `Drained` |
| `steps` | two processes, two launches, either engine, program or command line; a pause or an abort; a death or a throw | `ProgressKept`, `BreakerHolds`, `EndedStays`, `Finishes` |
| `event_graph` | 96 graphs of three tasks, five completions, five conflict strategies, two failures, a retry, an injected token | `UnreachableStays`, `PlanFollowed`, `Concludes` |
| `feed` | a page with two connections, one publication, one chat record, two requests to subscribe, a lost notification, two requests served at a time, both kinds of stores | `Current`, `Registered` |

Bounds. `MaxCalls`, `MaxFailures`, `MaxRejects`, `MaxCrashes` bound what the
environment does, never what the code does: with them spent, everything already
begun runs to its end. Two processes are enough for one to find the lock taken
by the other, and to leave its event to it; two sources for answers to overtake
each other and for one request token to stand for two sources; one consumer for
a result to be published on; three publications for a change while the consumer
runs, with a return to an earlier value. Two processes and one lapse or crash
show every pair of file operations of the queue on one message; the two messages
of the other stores let a batch have a second one behind the first. The graphs of
`event_graph` have a cycle, a conflict, a fallback, a route and a task with two
outputs among them. One page suffices for `feed`: pages share nothing but
broadcasts, and the page's own requests make those too; two connections are a
reconnection, and two requests served at a time (`MaxServing`) any race of a
request with another. By hand `SseFeed` was also checked with two publications
(9,139,717 states, no error, too long for a run), and `WorkQueue` with `Batch = 1`
(153,281 states, no error). In each module the bounds limit what callers, failures and
clocks do, never what the code does about it. Deadlock is not checked: every one
of these systems rests when its callers are done.

Two runs look for a violation of something the documentation says, and find it:

| run | said | done |
|---|---|---|
| `board_retrigger` | the fetch in flight will decide whether to fetch again (`core-logic.md:22`) | drained in one batch with the retrigger, its answer is dropped and the card runs for ever |
| `event_graph_once` | a task of the strategy once never runs again (`README.md:432`) | listed once for each output it wins, it is started twice |

Fairness. In the engine, `WF(Drain)`: a drain is a loop on one stack; and for
each task, that some run of it is answered in the end: an obligation of the
handlers, without which nothing can be promised about rest. Failures are not
fair. On the board, `WF(Serve(p))` for each process: a lane polls its queue at
an interval, and a drain once begun runs on. Workers owe nothing there:
`ImplementsRelay` holds whether fetches are answered or not. In the batch, the
event loop runs queued callbacks, and processors settle: the batch has no
timeout. On the queue, `WF` for the steps of a lane and of a restart, and for
leases that nobody holds to expire, but `SF(Tick(p))`: the timer of a runner
fires at its interval however often its process serves requests in between, and
with them `Tick` is not continuously enabled. Handlers owe that they return.
Step machines: `WF(Work(p))`, a live process goes on and handlers return; nothing
about launches, pauses or deaths. Event graph: the user's loop goes round
(`WF(Schedule)`) and every execution is answered. The feed has safety properties
only: they speak of the states at rest.

## 4. Theorems

All are proved by TLAPS for every value of the constants that satisfies the
named assumptions (finite sets of tasks, naturals for bounds, types of the
wiring); TLC evaluates these assumptions in the runs.

- **Engine.** `TypeCorrect`. `DrainLeavesNothing` (`NothingLeftQueued`): by
  `QueueInv`, either a pass of the drain is still to come or both queues are
  empty; the property alone is not inductive, since it says nothing of the
  phases inside a drain, where the flag `drainQueued` has to stand for what was
  appended. `DisposedStaysQuiet` (`DisposedIsQuiet`): no action leaves `idle`
  once disposed. `RunsAreMatched` (`RunsMatchStatus`) and `CapsAreKept`
  (`RunsWithinCap`) rest on `RunsInv`: between the dispatch of a task and the end
  of its run, exactly one of these holds the run: the list of tasks to dispatch,
  a start still to be applied, an unanswered run, or an answer still to be
  applied. For the caps, `Tally` compares the calls of the handlers with what the
  transitions count: they are at most `executionCount` plus `retryCount`, and one
  more only while a run is dispatched, in flight or answered. Both hold under
  `NoInterference` (nobody restarts or removes a task or reports progress: a
  restart gives a task a second run, see section 5).
  `NoLostUpdate` (`Consistent`) adds that a run has read what its start hashes
  say, until it is answered: hashes and reads are of the same provider when a
  token has one. It holds under `Undisturbed`: besides, nobody rewires what tasks
  provide, a token has one provider, and what users publish has content, as in
  the run that checks it. `EngineImplementsDataflow` is the step simulation of
  `Dataflow` (its `Safe`, the part of `Flow!Spec` without fairness). The mapping
  reads off, for each task, what its unanswered runs have read: by `RunsInv`
  there is one at most, and `ReadsInv` says that the data differs whenever the
  scheduler finds changed hashes. `FlowInv` adds what neither says: queues hold
  only what such callers and runs put there, the tokens of a completed task are
  available, and a task without data has not completed and has given up at most
  once, so that one the scheduler starts is new to the spreadsheet or has other
  inputs. It holds under `Steady`, which the run `reactive` satisfies:
  `Undisturbed`; calls only complete, inject tokens and add tasks; tasks with
  handlers do not refresh by epochs; and a tripped breaker gives no token that a
  failure does not give.
- **Queues.** For all three stores. `TypeCorrect`, with what a process carries
  from step to step (`Sound`). `KeysAreUnique` (`UniqueKey`): of two pending
  entries with a key the later was created when the first was there.
  `HoldersAreSingle` (`OneHolder`), `MessagesAreAccounted` (`Accounted`) and
  `SettledMessagesStay` (`SettledStays`) rest on `QueueInv`. `Ledger`: tokens are
  given out once, and who decides on a staged message is its creator. `Fits`, for
  each message that no outdated read and no crash touched: the places of its
  copies are one, or the two that a process is moving between (`Shape`); its
  leases count its attempts (`Count`); a lease too many, or a leased file whose
  holder is gone, has expired (`Timely`); and a lease in time has its file
  (`Backed`). The properties alone are not inductive: they do not say what a
  process has read before the step in which it writes.
- **Board.** `BoardTypeCorrect`. `NoWakeupIsLost` (`NoLostWakeup`): a process
  leaves its place only to somebody who holds the lock, or after having looked
  at the journal; it needs no more than the type of `pc`.
  `EventsAreDrainedOnce` (`DrainedOnce`) and `BoardImplementsRelay` (the safety
  part of `Relay`) rest on `DrainInv`: one holder at most; no completion in the
  journal; for the holder, what the graph has been through plus what is left of
  the taken events is what was taken, or the batch holds only completions
  reported by the drain's own cards, which the journal does not count; and the
  stored graph is ahead of the stored cursor by what the holder has taken while
  it is about to write the cursor, and otherwise not at all, unless a commit was
  torn. `DrainedOnce` alone is not inductive: it says nothing of the holder's
  memory, from which the next commit is written.
  `OutputsAreCurrent` (`PublishedIsCurrent`) and `CompletionsAreSettled`
  (`CompletedIsSettled`) hold until a process dies, whatever the interleaving of
  calls, answers and drains. The first rests on `PublishInv`: a drain applies what
  its cards report one pass later, so until then the last report of a card says
  what the outputs will hold, and afterwards the graph does (`Told`); it assumes
  that results have content (`AlwaysContent`) and that a data object has one
  provider (`OneProvider`). The second rests on `SettleInv`, which says for each
  place of the drain how the runtime state of a card relates to its last run: the
  tokens of its sources are never later; a running card has queued one request for
  all of them; a completed or reported card is answered to the last one. It assumes
  that a failure answers a request of the last run (`FailuresAreTimely`); without
  that it is false, see section 5.
  `CompletionsAreCurrent` (`CompletedIsCurrent`) rests on both and on
  `CurrentInv`, which follows a value from the sources to the cards that read it.
  A card without requires computes from its sources only, and by `SettleInv` none
  of them changes after it has reported. A card with requires reports in the step
  in which it runs, from the very data whose hashes the scheduler takes down
  (`Reader`). While a card that it reads is retriggered, and has a hash but no
  data, it rests (`Awaits`). The first batch of a drain finds a graph in which
  nothing is left to be read (`Quiet`), and the later ones hold only completions;
  so a drain stops only where nothing is left to be read again (`Rests`), and what
  it commits is the next one's start. The property alone is not inductive: it says
  nothing while somebody drains. The theorem assumes, besides `AlwaysContent`,
  `OneProvider` and `FailuresAreTimely`, that a card either fetches or reads,
  and that a card reads nothing else besides a card that users retrigger and is
  not retriggered itself (`Layered`). The run `board` satisfies these; where
  `Layered` does not hold the property is false, see section 5.
  `NewerContentIsKept` (`NewerContentKept`) rests on `KeepInv`. The code keeps
  older content out by comparing tokens, yet a failure sets the completed token
  of its source to its own, older or not, so what is stored may be newer than the
  token that should guard it. `Kept` says how far: content of the last run of its
  card is guarded by a completed token that is at most one run older, and no
  answer that is still accepted passes it to something older; over content of an
  older run every recent answer is as new. Answers are routed at the clock at
  which they were appended, because a card that runs in a pass is not running in
  the graph of that pass and does not get its updates (`Arrivals`); the drain's own
  overlay never falls behind the store (`Grown`), which is what `FlushSources`
  then writes. The property alone is not inductive: it says nothing of the tokens.
  The theorem assumes that every answer is to the last run of its card or to the
  one before (`AnswersAreRecent`; failures, rejections and calls are otherwise
  free, and so are wiring and number of sources) and that no process dies. With
  one run more TLC finds it violated; every card of `board` that fetches runs at
  most twice. With one or two crashes TLC found no counterexample on small
  instances, but the invariant says nothing of a clock that is ahead of the
  runtimes.
- **Batch.** `TypeCorrect`; `BoundedInFlight` and `SlotsNeverLeak` by `SlotInv`
  (items from `nextIndex` on are unstarted, `active` is the number of slots
  held); `ResolvesComplete` and `ResultsStayFrozen` by `CountInv`, which holds
  until a callback throws (the counters are the cardinalities of the results,
  and a resolved batch has counted every item).
- **Step machines.** `TypeCorrect`, with what a process has in memory at each of
  its places (`PlaceInv`). `HistoriesAreKept` (`ProgressKept`), `BreakersHold`
  (`BreakerHolds`) and `EndsAreFinal` (`EndedStays`) rest on `RunsInv`, which
  speaks of every run that was not meddled with. It has one driver at most; the
  driver's memory accounts for the run: its history is the transitions taken,
  its retries and counts are within their limits, and the calls made are those
  it counts and those lost; what is saved is behind by the call in flight, for a
  FlowEngine by its retries too (`Ahead`), which is what a driver that dies takes
  with it (`Unsaved`). Without a driver the saved state itself accounts for the
  run, unless it is the one a StepMachine fails with. And whoever reads a run to
  pause it holds what is saved. The properties alone are not inductive: they say
  nothing of the memory, from which everything is saved.
- **Feed.** `TypeCorrect`. `StaysRegistered` (`Registered`): with sync stores a
  request between two of its steps has the thread (`TurnInv`), so what it copied
  of the hub still holds when it registers (`CopyInv`); connections the hub,
  a page and a close event speak of have asked for their stream, the hub's has
  been served (`LinkInv`); and a stream request whose page has left has its
  close event to come, as has a registration that is not the page's
  (`RegisteredInv`). At rest nothing is to come, and only the right registrations
  remain. `ShowsWhatIsPersisted` (`Current`) rests on `DataInv`: unless `stale`
  names the outputs, every page shows the newest version (`UpToDate`), or it is
  still to be told: by an announcement (`Coming`; `PipeInv`: the last message of
  the pipe is the newest version), or by a request that is yet to read it or holds
  it (`Repairs`), which is what repairs the pages after a loss. A subscribed page
  with an older chat has its hydration or the emission of the chat store to come
  (`ChatInv`). The property alone is not inductive: it speaks only of the states at
  rest. Of what `stale` names, both invariants say nothing.

- **Event graph.** `TypeCorrect`, which needs that only candidates are listed: a
  rotation finds the member it asks for, because the numbers of members before
  each are 0, 1, ... (`WinnerIsMember`). `ReportsAreFinal` (`UnreachableStays`): a
  step moves only tasks that had their tokens, so no set of missing tokens that
  waits for the dead can lose one; a set closed after the step is closed before it
  (`UnreachableKept`), and the least one grows. `StartsFollowThePlan`
  (`PlanFollowed`): by `SourcedInv` every token that is there was injected or has a
  producer that has ended or failed, and a task ever started has what it requires
  from somebody else; and in a graph without cycles a dependency is in an earlier
  phase (`PhaseOrder`), by least-number arguments about the recursion of
  `computePhases`. Both hold under `BreaksForeseen`: what `on_break` gives is also
  given by `on_failure` or a route. Without it the first is false, as TLC shows:
  the analysis calls a task unreachable whose token only `on_break` gives.

Only model-checked: liveness (`Settles`, `FailureUnblocks`, `BatchResolves`,
`Drained`, `Finishes`, `Concludes`, the fairness part of `ImplementsDataflow` and
`ImplementsRelay`), which TLAPS does not reach. Every invariant and every action
property of the runs is stated by a theorem of this section, under the
assumptions named there.

## 5. Observations that are not runs

Met with TLC on other instances, or while the models were written; none is
assumed away silently, each limits what a property above is stated for.

Engine and board:

- A task with `refreshStrategy: epoch-changed` and two upstreams misses the
  completion of the one that has run less often: one `lastEpoch` stands for all
  of them (`schedule.ts:103`). README.md:429 promises the re-run.
- A task restarted together with its consumer keeps `lastDataHash` while its
  data is gone: the consumer runs on nothing and is not run again when the same
  content returns (`task-transitions.ts:238`). `Consistent` is checked without
  restarts.
- After a restart the answer of the older run may be taken for that of the newer
  one; the nonce of the token is not looked at (`reactive.ts:520`, against
  `task-transitions.ts:86`).
- An answer queued behind the removal of its task makes the drain throw, and the
  events of other tasks are lost with the batch (`reactive.ts:216` says such
  answers are ignored). Both queues are empty afterwards, so `NothingLeftQueued`
  does not see it.
- An attempt that is retried is not counted as an execution
  (`task-transitions.ts:148-162`), so the handlers of a task with retries run more
  often than `maxExecutions` ("Cap how many times a task can execute",
  README.md:345) or its circuit breaker say: with one retry and a breaker of three,
  four times. `RunsWithinCap` has the retries in its bound.
- With two providers of a token the scheduler compares the hash of the first,
  the reader takes the data of the last (`schedule.ts:78`, `reactive.ts:397`):
  the instances have one provider per token.
- A commit writes the keys of the snapshot one by one, in the order of their
  names (`board-live-cards-public.ts:491`, `:500`): the runtimes, the graph, the
  cursor. The order of the names is what keeps events from being skipped when a
  process dies in between (`DrainedOnce`). If it dies before it has
  written the cursor, the events are drained again; before the graph, they are
  drained on a graph that is older than the runtimes, where a request counts as sent that no worker has:
  `CompletedIsSettled` fails there, and is checked without crashes.
- After a crash between the commit and the writes, outputs, sources and requests
  of that drain are lost: `CompletedIsCurrent` and `PublishedIsCurrent` are
  checked without crashes.
- A card failed by hand while its fetch is in flight and that fetch failing
  leave `CompletedIsSettled` violated: the two are checked in different runs.
  So does, with two sources, a late failure of an older request that a drain
  routes to its card in the pass after the one in which the card completed.
- `CompletedIsCurrent` fails without `Layered`, with retriggers alone: for a card
  with both sources and requires, whose inputs may change while its fetches are in
  flight; for a card that is retriggered together with the card that it reads; and
  for a card that reads two cards that are retriggered. The instance has none.
- A failure that comes late lowers the completed token of its source, and an
  older fetch may then replace newer content (`board-live-cards-lib.ts:1077`,
  against `core-logic.md:16` and `:28`). It takes three requests of a source; with
  two sources and three retriggers no failure is needed: a new execution count
  wipes the entries, and the answer to an older request of the same source counts.
  `board`, where `NewerContentKept` is checked, has the one retrigger that makes
  two; `NewerContentIsKept` (section 4) needs no other bound than that.
- A fetch that the executor rejects late is appended without a wake-up
  (`board-live-cards-public.ts:801`, against `core-logic.md:60`): `NoLostWakeup`
  excepts it.
- Request tokens are times in milliseconds (`board-live-cards-lib.ts:1004`), and
  the sources of a card share one (`:1182`). In the model the clock of a card
  grows with its runs. upsertCard and removeCard write journal and index in
  opposite orders (`board-live-cards-public.ts:988`).

Batch and queues:

- A processor that throws synchronously keeps its slot for ever
  (`SlotsAccounted` counts it). An `onItemComplete` that throws counts its item
  twice and the batch resolves with holes (`runner.ts:138`, against
  `types.ts:71`): `ResolvedIsComplete` is about batches whose callbacks did not.
- A message that is retried or revived on the file system loses its dedup key
  (`storage-fs-adapters.ts:434`, against `storage-interface.ts:228`); of two
  processes that enqueue one key on the file system or Firestore both may
  succeed: `UniqueKey` is about the Map.
- A process that dies between the rename that claims a message and the write of
  its expiry leaves a message no revival touches (`storage-fs-adapters.ts:402`);
  one that dies between the write of a copy and the unlink of the leased file
  leaves the message twice (`:447`). These are `torn`, which `Accounted`,
  `OneHolder`, `SettledStays` and `Drained` except.
- Two processes that revive one expired lease queue the message a second time
  while it is handled, or unlink the newer lease (`storage-fs-adapters.ts:349`):
  such a message is `stale`, which the same properties except.

Step machines:

- `pause(runId)` only writes the store, and the loop overwrites it
  (`StepMachine.ts:194`, README.md:1508); on a run that has ended it makes the
  run resumable. Two `--resume` drive one run. These runs are `meddled`.
- The `catch` of StepMachine saves the state the run began with; an `onComplete`
  that throws turns a completed run into a failed one. The command line deletes a
  pause marker that is meant for another run, and cannot resume runs that were
  cancelled or whose process died.

Event graph:

- `next()` lists a task once per output won: besides the double start, the
  failure of one execution undoes the completion of the other, and under
  all-tasks-done a once-only task then blocks the graph. Groups passed over
  because a running task produces the output are added again as
  non-conflicting (`scheduler.ts:284`).
- `only-resolved` may report completion while a fallback of `on_failure` is
  eligible; a completed task whose result was routed elsewhere counts as having
  produced its `provides` (`computeAvailableOutputs`).
- Cycles, losers of a conflict under all-tasks-done and once-only tasks whose
  outputs were injected are neither complete nor stuck: the loop of the README
  spins. The stuck detection looks at neither routes, nor `on_failure`, nor
  injected tokens. `Concludes` is about valid graphs without conflicts.
- `inspect()` calls a task unreachable although it is running, when its producer
  was refreshed and fails after a routed result: `Orderly` excepts it. Tokens of
  a circuit breaker (`on_break`) are producers for nobody; `getDownstream`
  ignores `on` and `on_failure`, `getUpstream` does not.

Feed:

- With stores that are awaited: a snapshot read before an await is told after
  newer outputs, and stays (`server-runtime/index.ts:635`); a connection that
  closes before it is registered is registered and stays (`routes-sse.ts:122`);
  the copy of the subscriptions may be outdated when it is registered (`:85`,
  `:116`); an older connection served late ends the newer one; a chat record
  appended between the read and the registration is missed. These set `stale` or
  `astray`.
- With any stores, pages show old outputs after a notification was lost
  (`process-runner.ts:290`), until a further version is announced or somebody's
  request publishes a snapshot; a cleared chat stays on the pages until a message
  is appended, since nobody is told to forget its messages. These set `stale` too
  (section 2.7).
- Notifications of different worker processes travel on different sockets, in no
  order (`process-runner.ts:256`): the model has one worker at a time. Two
  requests may both subscribe the consumer of notifications (`index.ts:555`).
  `mutateCard` reads and writes across awaits (`:850`). The client drops pending
  computed values between frames (`board-sse-state.ts:203`).

## 6. What is not modelled

Of the modelled components: disable/enable/resetNode, agent-action and
task-creation, snapshot/restore, the time-based strategy; on the board
`skip_when`, computed values, notifications and the status object, the system
card of the board state, cards missing from the store, upsertCard and removeCard
once the board is set up, direct output apart from a blob that is not there, an
append separated from its wake-up, a lock that
goes stale under a process that is alive; figures and durations of the batch; of
the queues the Azure adapter (its staged messages are a map in memory, and a
dead letter without a queue is dropped), the archive and the sweep of scratch
files; `--status` and the handler factory of the step machine's command line; of
the feed the watch parties' own channels and the merge of the fields of a card.

Of the others: card compute is mostly a vendored evaluator of JSONata and schema
checks, data that the models abstract to content identifiers; HTTP routes, MCP
facades, command line, templates, diagrams, loaders and vendor adapters convert
and delegate, and keep no protocol state of their own; the asynchronous board is
the awaited twin of the board with the same order of steps; card store, artifacts
and the board container are keyed reads and writes; the Python port is a second
implementation. These make up most of the lines of the repository.

## 7. Plan

Done: the reactive graph family; the batch runner; the board drain cycle; the
queues; the step machines; the event graph; the feed.

Left, in this order: `BoardDrain` with upsertCard and removeCard in two steps,
the card of the board state, and tokens that collide;
an abstract at-least-once queue that `WorkQueue` implements, and the lane of
`BoardDrain` over it; several worker processes in `SseFeed`, and `BoardDrain`
as its worker; the container's teardown against a drain. To prove next:
`CompletedIsSettled` with failures at any time, for boards whose cards have one
source; `NewerContentKept` across crashes, with the last run that was committed
in the place of the clock.

