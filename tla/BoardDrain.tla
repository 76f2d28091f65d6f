---------------------------- MODULE BoardDrain -----------------------------
(***************************************************************************)
(* A board of live cards (src/src/cli/common/board-live-cards-public.ts):  *)
(* calls and fetch answers append events to the journal and enqueue a      *)
(* wake-up; processes lease wake-ups and try the relay lock; its holder    *)
(* drains the journal through a reactive graph, commits the snapshot,      *)
(* writes the deferred outputs, dispatches the fetch requests, releases    *)
(* the lock and looks at the journal again.                                *)
(*                                                                         *)
(* From the load to the commit a drain works on its memory only, apart     *)
(* from staged blobs that nobody rewrites: other actors do not interleave  *)
(* with its inner steps.                                                   *)
(***************************************************************************)
EXTENDS CardHandler

CONSTANTS
  Procs,              \* processes that serve the wake-up queue
  Requires, Provides, \* wiring in the task config of each card
  Added,              \* the cards, in the order in which they were added
  Compute(_, _, _),   \* what a card publishes, of its sources and its inputs
  Calls, Targets,     \* calls made by users, and on which cards
  MaxCalls, MaxFailures, MaxRejects, MaxCrashes   \* bounds

ASSUME BoardAssumption ==
  /\ Requires \in [Tasks -> SUBSET Tokens] /\ Provides \in [Tasks -> SUBSET Tokens]
  /\ Added \in Seq(Tasks)
  /\ Calls \subseteq {"retrigger", "taskFailed"} /\ Targets \subseteq Tasks
  /\ MaxCalls \in Nat /\ MaxFailures \in Nat /\ MaxRejects \in Nat /\ MaxCrashes \in Nat

VARIABLES
  journal,    \* the events after the cursor of the snapshot; nobody reads those before it
  snap,       \* the committed snapshot
  content,    \* content[c][s] in the fetched-sources store
  published,  \* data objects in the outputs store
  wakeup,     \* whether the process-accumulated queue holds a message
  fetches,    \* fetches[c][s]: tokens of the unanswered fetches
  pc,         \* where each process is
  job,        \* memory of the drain of the lock holder
  clock,      \* clock[c]: time of the last run of c
  calls, failures, rejects, crashes,
  torn        \* whether a process died between the graph and the cursor of a commit

vars == <<journal, snap, content, published, wakeup, fetches, pc, job, clock,
          calls, failures, rejects, crashes, torn>>
bounds == <<calls, failures, rejects, crashes, torn>>

(* An event of the journal, with the update that a task-progress carries.  *)
JournalEntry == [event : Event, update : Update]
NoUpdate     == [source |-> 0, rqt |-> NoToken, answer |-> "failure"]
Plain(e)     == [event |-> e, update |-> NoUpdate]

Contents == [Tasks -> [Source -> Token]]
(* applied is not in the code: the number of journal events that the graph *)
(* has been through, an event counted again when it is drained again.      *)
Snapshot == [graph : Graph, runtime : [Tasks -> Runtime], cursor : Nat, applied : Nat]
Request  == [card : Tasks, rqt : Token]

(* The overlays and accumulators of drainCycle, with the batch, the        *)
(* eligible cards still to run, those that ran and the updates still to be *)
(* routed of the pass of the reactive graph under way.                     *)
Job == [graph : Graph, runtime : [Tasks -> Runtime], taken : Nat, applied : Nat, sources : Contents,
        tx : Seq(JournalEntry), outputs : Inputs, requests : Seq(Request),
        batch : Seq(JournalEntry), todo : SUBSET Tasks, ran : SUBSET Tasks,
        updates : Seq(JournalEntry)]

NoContents == [c \in Tasks |-> [s \in Source |-> NoToken]]
EmptyGraph == [rank |-> [c \in Tasks |-> 0], req |-> Requires, prov |-> Provides,
               st |-> [c \in Tasks |-> FreshStore], out |-> {}]
NoJob == [graph |-> EmptyGraph, runtime |-> [c \in Tasks |-> NoRuntime], taken |-> 0, applied |-> 0,
          sources |-> NoContents, tx |-> <<>>, outputs |-> NoInputs, requests |-> <<>>,
          batch |-> <<>>, todo |-> {}, ran |-> {}, updates |-> <<>>]

Inner   == {"apply", "run"}
Writing == {"runtime", "graph", "cursor"}   \* the keys of a snapshot
Holding == {"load", "outputs", "sources", "dispatch"} \cup Writing \cup Inner

(* Types of the state of a board.                                          *)
TypeOK ==
  /\ journal \in Seq(JournalEntry)
  /\ snap \in Snapshot
  /\ content \in Contents /\ published \in Inputs
  /\ wakeup \in BOOLEAN
  /\ fetches \in [Tasks -> [Source -> Seq(Token)]]
  /\ pc \in [Procs -> {"idle", "clear", "try", "continue"} \cup Holding]
  /\ job \in Job
  /\ clock \in [Tasks -> Token]
  /\ calls \in Nat /\ failures \in Nat /\ rejects \in Nat /\ crashes \in Nat /\ torn \in BOOLEAN

(* The board once its cards have been added: no drain has run yet.         *)
Init ==
  /\ journal = [i \in DOMAIN Added |-> Plain([Ev("upsert", Added[i]) EXCEPT !.tokens = Requires[Added[i]]])]
  /\ snap = [graph |-> EmptyGraph, runtime |-> NoJob.runtime, cursor |-> 0, applied |-> 0]
  /\ content = NoContents /\ published = NoInputs
  /\ wakeup = TRUE
  /\ fetches = [c \in Tasks |-> [s \in Source |-> <<>>]]
  /\ pc = [p \in Procs |-> "idle"] /\ job = NoJob
  /\ clock = [c \in Tasks |-> NoToken]
  /\ calls = 0 /\ failures = 0 /\ rejects = 0 /\ crashes = 0 /\ torn = FALSE

Goto(p, l) == pc' = [pc EXCEPT ![p] = l]
LockFree   == \A p \in Procs : pc[p] \notin Holding
Draining   == \E p \in Procs : pc[p] \in Inner

----------------------------------------------------------------------------
(* The wake-up lane and the relay lock.                                    *)

(* Messages are alike: leasing one may leave others in the queue.          *)
Lease(p) ==
  /\ pc[p] = "idle" /\ wakeup
  /\ wakeup' \in BOOLEAN
  /\ Goto(p, "clear")
  /\ UNCHANGED <<journal, snap, content, published, fetches, job, clock, bounds>>

(* A lane first drops the other messages.                                  *)
ClearWakeups(p) ==
  /\ pc[p] = "clear"
  /\ wakeup' = FALSE
  /\ Goto(p, "try")
  /\ UNCHANGED <<journal, snap, content, published, fetches, job, clock, bounds>>

(* A busy lock is left to its holder, and the message acknowledged.        *)
TryAcquire(p) ==
  /\ pc[p] = "try"
  /\ Goto(p, IF LockFree THEN "load" ELSE "idle")
  /\ UNCHANGED <<journal, snap, content, published, wakeup, fetches, job, clock, bounds>>

(* Fault: nobody looks at the journal after the release.                   *)
MutContinue(p) ==
  /\ pc[p] = "continue"
  /\ Goto(p, "idle")
  /\ UNCHANGED <<journal, snap, content, published, wakeup, fetches, job, clock, bounds>>

(* After the release: whatever was appended in the meantime is served by   *)
(* another drain.                                                          *)
Continue(p) ==
  /\ pc[p] = "continue"
  /\ wakeup' = (wakeup \/ journal # <<>>)
  /\ Goto(p, "idle")
  /\ UNCHANGED <<journal, snap, content, published, fetches, job, clock, bounds>>

----------------------------------------------------------------------------
(* drainCycle.                                                             *)

Load(p) ==
  /\ pc[p] = "load"
  /\ job' = [NoJob EXCEPT !.graph = snap.graph, !.runtime = snap.runtime,
                          !.taken = Len(journal), !.sources = content, !.batch = journal]
  /\ Goto(p, IF journal = <<>> THEN "runtime" ELSE "apply")
  /\ UNCHANGED <<journal, snap, content, published, wakeup, fetches, clock, bounds>>

ApplyOne(p) ==
  /\ pc[p] = "apply" /\ job.batch # <<>>
  /\ LET e == Head(job.batch) IN
     job' = [job EXCEPT !.graph = ApplyEvent(@, e.event), !.batch = Tail(@),
                        !.applied = IF e.event.type = "completed" THEN @ ELSE @ + 1,
                        !.updates = IF e.event.type = "progress" THEN Append(@, e) ELSE @]
  /\ UNCHANGED <<journal, snap, content, published, wakeup, fetches, pc, clock, bounds>>

Schedule(p) ==
  /\ pc[p] = "apply" /\ job.batch = <<>>
  /\ job' = [job EXCEPT !.todo = {c \in Tasks : Eligible(job.graph, c)}]
  /\ Goto(p, "run")
  /\ UNCHANGED <<journal, snap, content, published, wakeup, fetches, clock, bounds>>

(* What c publishes; a result without content is no data.                  *)
Result(j, c) ==
  LET d == Compute(c, j.sources[c], ReadInputs(j.graph, c)) IN IF d \in Data THEN d ELSE NoData

(* The handler of c from its runtime state r on: request what is due, or   *)
(* complete the card.                                                      *)
Requests(j, c, r, now) ==
  IF DueSources(r, c, now) = {} THEN j.requests
  ELSE Append(j.requests, [card |-> c, rqt |-> RequestToken(r, c, now)])

Handle(j, c, r, now) ==
  LET done == Completes(r, c, now)
  IN  [j EXCEPT
         !.runtime[c] = Requested(r, c, now),
         !.requests   = Requests(j, c, r, now),
         !.tx         = IF done THEN Append(@, Plain([Ev("completed", c) EXCEPT !.data = Result(j, c)])) ELSE @,
         !.outputs    = IF done THEN [k \in Tokens |-> IF k \in Provides[c] THEN Result(j, c) ELSE @[k]] ELSE @]

Execs(c) == job.graph.st[c].execs
IsNext(c) == c \in job.todo /\ \A d \in job.todo : job.graph.rank[c] <= job.graph.rank[d]

RunCard(p, c) ==
  /\ pc[p] = "run" /\ IsNext(c)
  /\ LET now == clock[c] + 1 IN
     /\ clock' = [clock EXCEPT ![c] = now]
     /\ job' = [Handle(job, c, Queued(Wiped(job.runtime[c], Execs(c)), c, now), now)
                  EXCEPT !.todo = @ \ {c}, !.ran = @ \cup {c}]
  /\ UNCHANGED <<journal, snap, content, published, wakeup, fetches, pc, bounds>>

(* Fault: the handler computes with the content of before the delivery.    *)
MutDeliver(j, c, u) ==
  LET r == Wiped(j.runtime[c], Execs(c))
  IN  [Handle(j, c, Answered(r, u), clock[c] + 1)
         EXCEPT !.sources[c][u.source] = IF Commits(r, u) THEN u.rqt ELSE @]

(* Progress is routed to the cards that are running in the graph as it was *)
(* applied; for the others it is lost.                                     *)
Deliver(j, c, u) ==
  LET r == Wiped(j.runtime[c], Execs(c))
  IN  Handle([j EXCEPT !.sources[c][u.source] = IF Commits(r, u) THEN u.rqt ELSE @],
             c, Answered(r, u), clock[c] + 1)

RouteProgress(p) ==
  /\ pc[p] = "run" /\ job.todo = {} /\ job.updates # <<>>
  /\ LET c == Head(job.updates).event.task
         u == Head(job.updates).update
         j == [job EXCEPT !.updates = Tail(@)]
     IN  job' = IF Has(job.graph, c) /\ job.graph.st[c].status = "running" THEN Deliver(j, c, u) ELSE j
  /\ UNCHANGED <<journal, snap, content, published, wakeup, fetches, pc, clock, bounds>>

(* The second pass of the reactive graph applies task-started; then the    *)
(* completions are pushed, until there are none.                           *)
Started(g, cs) ==
  [g EXCEPT !.st = [c \in Tasks |-> IF c \in cs THEN TaskStart(g, c).st[c] ELSE @[c]]]

EndPass(p) ==
  /\ pc[p] = "run" /\ job.todo = {} /\ job.updates = <<>>
  /\ job' = [job EXCEPT !.graph = Started(@, job.ran), !.ran = {}, !.batch = job.tx, !.tx = <<>>]
  /\ Goto(p, IF job.tx = <<>> THEN "runtime" ELSE "apply")
  /\ UNCHANGED <<journal, snap, content, published, wakeup, fetches, clock, bounds>>

(* Fault: the cursor is written before the graph.                          *)
MutKeyAfter == [runtime |-> "cursor", cursor |-> "graph", graph |-> "outputs"]

(* The commit rewrites the keys in the order in which it has listed them:  *)
(* "board", "board/graph", "board/lastJournalProcessedId".                 *)
KeyAfter == [runtime |-> "graph", graph |-> "cursor", cursor |-> "outputs"]

CommitRuntime(p) ==
  /\ pc[p] = "runtime" /\ Goto(p, KeyAfter["runtime"])
  /\ snap' = [snap EXCEPT !.runtime = job.runtime]
  /\ UNCHANGED <<journal, content, published, wakeup, fetches, job, clock, bounds>>

CommitGraph(p) ==
  /\ pc[p] = "graph" /\ Goto(p, KeyAfter["graph"])
  /\ snap' = [snap EXCEPT !.graph = job.graph, !.applied = @ + job.applied]
  /\ UNCHANGED <<journal, content, published, wakeup, fetches, job, clock, bounds>>

CommitCursor(p) ==
  /\ pc[p] = "cursor" /\ Goto(p, KeyAfter["cursor"])
  /\ snap' = [snap EXCEPT !.cursor = @ + job.taken]
  /\ journal' = SubSeq(journal, job.taken + 1, Len(journal))
  /\ UNCHANGED <<content, published, wakeup, fetches, job, clock, bounds>>

(* Fault: what has been published is not replaced.                         *)
MutFlushOutputs(p) ==
  /\ pc[p] = "outputs"
  /\ published' = [k \in Tokens |-> IF published[k] = NoData THEN job.outputs[k] ELSE published[k]]
  /\ Goto(p, "sources")
  /\ UNCHANGED <<journal, snap, content, wakeup, fetches, job, clock, bounds>>

FlushOutputs(p) ==
  /\ pc[p] = "outputs"
  /\ published' = [k \in Tokens |-> IF job.outputs[k] # NoData THEN job.outputs[k] ELSE published[k]]
  /\ Goto(p, "sources")
  /\ UNCHANGED <<journal, snap, content, wakeup, fetches, job, clock, bounds>>

FlushSources(p) ==
  /\ pc[p] = "sources"
  /\ content' = job.sources
  /\ Goto(p, "dispatch")
  /\ UNCHANGED <<journal, snap, published, wakeup, fetches, job, clock, bounds>>

(* Each request is sent for every source of its card.                      *)
DispatchRequest(p) ==
  /\ pc[p] = "dispatch" /\ job.requests # <<>>
  /\ LET q == Head(job.requests) IN
     fetches' = [fetches EXCEPT ![q.card] =
                   [s \in Source |-> IF s \in Sources(q.card) THEN Append(@[s], q.rqt) ELSE @[s]]]
  /\ job' = [job EXCEPT !.requests = Tail(@)]
  /\ UNCHANGED <<journal, snap, content, published, wakeup, pc, clock, bounds>>

Release(p) ==
  /\ pc[p] = "dispatch" /\ job.requests = <<>>
  /\ job' = NoJob
  /\ Goto(p, "continue")
  /\ UNCHANGED <<journal, snap, content, published, wakeup, fetches, clock, bounds>>

(* The process dies: its memory is gone, its lock goes stale and its lease *)
(* expires. Of a commit that it had begun, the keys written remain.        *)
Crash(p) ==
  /\ crashes < MaxCrashes /\ crashes' = crashes + 1
  /\ pc[p] # "idle" /\ ~Draining
  /\ job' = IF pc[p] \in Holding THEN NoJob ELSE job
  /\ wakeup' = TRUE
  /\ torn' = (torn \/ pc[p] = "cursor")
  /\ Goto(p, "idle")
  /\ UNCHANGED <<journal, snap, content, published, fetches, clock, calls, failures, rejects>>

----------------------------------------------------------------------------
(* Users and workers.                                                      *)

Notify(e) == journal' = Append(journal, e) /\ wakeup' = TRUE

Call(name, e) ==
  /\ ~Draining /\ name \in Calls /\ calls < MaxCalls /\ calls' = calls + 1
  /\ Notify(Plain(e))
  /\ UNCHANGED <<snap, content, published, fetches, pc, job, clock, failures, rejects, crashes, torn>>

Retrigger(c)  == Call("retrigger", Ev("restart", c))
TaskFailed(c) == Call("taskFailed", Ev("failed", c))

Without(q, i) == SubSeq(q, 1, i - 1) \o SubSeq(q, i + 1, Len(q))
Drop(c, s, i) == i \in DOMAIN fetches[c][s] /\ fetches' = [fetches EXCEPT ![c][s] = Without(@, i)]

Progress(c, s, i, answer) ==
  [event |-> Ev("progress", c), update |-> [source |-> s, rqt |-> fetches[c][s][i], answer |-> answer]]

Fetched(c, s, i) ==
  /\ ~Draining /\ Drop(c, s, i)
  /\ Notify(Progress(c, s, i, "data"))
  /\ UNCHANGED <<snap, content, published, pc, job, clock, bounds>>

(* A failure, or a blob that is announced and is not there.                *)
FetchFailed(c, s, i, answer) ==
  /\ ~Draining /\ failures < MaxFailures /\ failures' = failures + 1 /\ Drop(c, s, i)
  /\ Notify(Progress(c, s, i, answer))
  /\ UNCHANGED <<snap, content, published, pc, job, clock, calls, rejects, crashes, torn>>

(* The executor rejects a fetch later on: no wake-up is enqueued.          *)
DispatchRejected(c, s, i) ==
  /\ ~Draining /\ rejects < MaxRejects /\ rejects' = rejects + 1 /\ Drop(c, s, i)
  /\ journal' = Append(journal, Plain(Ev("failed", c)))
  /\ UNCHANGED <<snap, content, published, wakeup, pc, job, clock, calls, failures, crashes, torn>>

----------------------------------------------------------------------------
Drain(p) ==
  \/ Load(p) \/ ApplyOne(p) \/ Schedule(p) \/ (\E c \in Tasks : RunCard(p, c)) \/ RouteProgress(p)
  \/ EndPass(p) \/ CommitRuntime(p) \/ CommitGraph(p) \/ CommitCursor(p) \/ FlushOutputs(p) \/ FlushSources(p) \/ DispatchRequest(p) \/ Release(p)

Serve(p) == Lease(p) \/ ClearWakeups(p) \/ TryAcquire(p) \/ Drain(p) \/ Continue(p)

Workers ==
  \E c \in Tasks : \E s \in Sources(c) : \E i \in DOMAIN fetches[c][s] :
    \/ Fetched(c, s, i) \/ DispatchRejected(c, s, i)
    \/ \E a \in {"missing", "failure"} : FetchFailed(c, s, i, a)

Users == \E c \in Targets : Retrigger(c) \/ TaskFailed(c)

Next == Workers \/ Users \/ \E p \in Procs : Serve(p) \/ Crash(p)

(* Every process goes on serving its lane; workers need not answer.        *)
Fairness == \A p \in Procs : WF_vars(Serve(p))

Spec == Init /\ [][Next]_vars /\ Fairness

----------------------------------------------------------------------------
(* Properties.                                                             *)

Completed(c) == Has(snap.graph, c) /\ snap.graph.st[c].status = "completed"
Running(c)   == Has(snap.graph, c) /\ snap.graph.st[c].status = "running"

(* Nothing is left to be drained and nobody drains.                        *)
AtRest == LockFree /\ journal = <<>>

(* "A card must not enter task-completed while any required source is      *)
(* still in-flight, or while a newer queued request ... is waiting"        *)
(* (core-logic.md): the graph and the runtime of the snapshot that a drain  *)
(* finds agree.                                                            *)
CompletedIsSettled ==
  LockFree => \A c \in Tasks : Completed(c) => \A s \in Sources(c) :
    LET e == snap.runtime[c].src[s]
    IN  e.requested = e.queued /\ e.completed = e.requested /\ e.completed # NoToken

(* No lost update: at rest a completed card is what its stored sources and *)
(* the present data of the cards it requires compute to.                   *)
CompletedIsCurrent ==
  AtRest => \A c \in Tasks :
    Completed(c) /\ (\A k \in Requires[c] : \A d \in Providers(snap.graph, k) : Completed(d))
    => snap.graph.st[c].data = Result([sources |-> content, graph |-> snap.graph], c)

(* At rest the data objects published are those of the completed cards,    *)
(* whichever drain computed them.                                          *)
PublishedIsCurrent ==
  AtRest => \A c \in Tasks : Completed(c) =>
    \A k \in Provides[c] : published[k] = snap.graph.st[c].data

(* Whoever finds the lock taken may leave, and drops its message: while an *)
(* event waits, a message is queued or a process is on its way.            *)
Awake == journal # <<>> => wakeup \/ \E p \in Procs : pc[p] # "idle"

(* No wake-up is lost between a busy lock, a release and a crash, as long  *)
(* as no fetch is rejected late.                                           *)
NoLostWakeup == rejects = 0 => Awake

(* No event of the journal is skipped by the graph, and none goes through   *)
(* it twice unless a process died between writing the graph and the cursor  *)
(* that belongs to it; whatever was appended in the meantime and wherever  *)
(* else a process died.                                                    *)
DrainedOnce ==
  /\ snap.cursor <= snap.applied
  /\ LockFree /\ ~torn => snap.applied = snap.cursor

(* Drains are serialised, and take the events in the order of the journal. *)
R == INSTANCE Relay WITH appended <- snap.cursor + Len(journal), drained <- snap.cursor
RelaySafe == R!Safe

(* The whole promise of the journal: no event waits for ever either.       *)
ImplementsRelay == R!Spec

(* An older fetch never replaces what a newer one has stored.              *)
NewerContentKept == [][\A c \in Tasks : \A s \in Source : content'[c][s] >= content[c][s]]_vars

(* A retrigger while a fetch is in flight: "completion of the in-flight    *)
(* fetch will decide whether re-dispatch is needed" (core-logic.md): at    *)
(* rest a running card waits for an answer that can still come.            *)
RunningIsAwaited ==
  AtRest => \A c \in Tasks : Running(c) => \E s \in Sources(c) : fetches[c][s] # <<>>

============================================================================
