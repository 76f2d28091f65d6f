--------------------------- MODULE ReactiveGraph ---------------------------
(***************************************************************************)
(* createReactiveGraph of src/src/continuous-event-graph/reactive.ts: the  *)
(* engine that applies journalled events to a LiveGraph, schedules, and    *)
(* dispatches the handlers of eligible tasks, in a drain loop that guards  *)
(* itself against re-entry.                                                *)
(*                                                                         *)
(* A drain runs on one JavaScript stack.  Its steps are separate actions   *)
(* here because the synchronous part of a dispatched handler (and onDrain) *)
(* may call the API back in the middle of it: an API call is possible when *)
(* the engine is idle or dispatching, never while events are applied.      *)
(***************************************************************************)
EXTENDS LiveGraph

CONSTANTS
  Position,        \* of each task among the keys of the initial config.tasks, 0 for none
  Requires,        \* wiring of each task in the config
  Provides,
  Handled,         \* tasks with taskHandlers; the others are driven by push()
  Published,       \* payloads that runs and pushes publish
  Calls,           \* API calls the environment makes
  Targets,         \* tasks it makes them on
  Rewired,         \* tokens it adds to the wiring or takes from it
  MaxCalls,        \* bound on their number
  MaxFailures      \* bound on the handler runs that fail

CallNames == {"complete", "route", "inject", "restart", "requires-add",
              "requires-remove", "provides-add", "provides-remove", "upsert", "remove", "progress", "dispose"}

ASSUME EngineAssumption ==
  /\ Position \in Positions
  /\ Requires \in [Tasks -> SUBSET Tokens]
  /\ Provides \in [Tasks -> SUBSET Tokens]
  /\ Handled \subseteq Tasks /\ Targets \subseteq Tasks /\ Rewired \subseteq Tokens
  /\ Published \subseteq Payload
  /\ Calls \subseteq CallNames
  /\ MaxCalls \in Nat /\ MaxFailures \in Nat

VARIABLES
  live,         \* the LiveGraph; a drain applies its batch to it event by event
  input,        \* inputQueue
  internal,     \* internalJournal
  batch,        \* events of this drainOnce still to be applied
  todo,         \* eligible tasks this drainOnce still has to dispatch
  updates,      \* tasks whose progress it still has to route to their handlers
  phase,        \* where drain() is
  drainQueued,
  disposed,
  flights,      \* flights[t]: what each unanswered run of t has read
  basis,        \* basis[t]: what the run that published t's data had read
  launched,     \* history: how many runs of t's handlers have begun
  calls, failures

vars == <<live, input, internal, batch, todo, updates, phase, drainQueued, disposed,
          flights, basis, launched, calls, failures>>

TypeOK ==
  /\ live \in Graph
  /\ input \in Seq(Event) /\ internal \in Seq(Event) /\ batch \in Seq(Event)
  /\ todo \in SUBSET Tasks /\ updates \in Seq(Tasks)
  /\ phase \in {"idle", "drain", "apply", "dispatch"}
  /\ drainQueued \in BOOLEAN /\ disposed \in BOOLEAN
  /\ flights \in [Tasks -> Seq(Inputs)]
  /\ basis \in [Tasks -> Inputs]
  /\ launched \in [Tasks -> Nat]
  /\ calls \in Nat /\ failures \in Nat

Init ==
  /\ live = [rank |-> Position, req |-> Requires, prov |-> Provides,
             st |-> [t \in Tasks |-> FreshStore], out |-> {}]
  /\ input = <<>> /\ internal = <<>> /\ batch = <<>>
  /\ todo = {} /\ updates = <<>>
  /\ phase = "idle" /\ drainQueued = FALSE /\ disposed = FALSE
  /\ flights = [t \in Tasks |-> <<>>] /\ basis = [t \in Tasks |-> NoInputs]
  /\ launched = [t \in Tasks |-> 0]
  /\ calls = 0 /\ failures = 0

----------------------------------------------------------------------------
(* The drain loop.                                                         *)

(* Fault: a re-entrant call is ignored.                                    *)
MutCallDrain ==
  IF ~disposed /\ phase = "idle" THEN phase' = "drain" /\ UNCHANGED drainQueued
  ELSE UNCHANGED <<phase, drainQueued>>

(* A call of drain(): from inside a drain it only asks for another pass.   *)
CallDrain ==
  IF disposed THEN UNCHANGED <<phase, drainQueued>>
  ELSE IF phase = "idle" THEN phase' = "drain" /\ UNCHANGED drainQueued
  ELSE drainQueued' = TRUE /\ UNCHANGED phase

(* drainOnce takes both queues, internal events first.                     *)
Taken == internal \o input

(* Whether t is in the config when event i of the batch is applied.        *)
PresentAt(evs, i, t) ==
  LET Changes == {j \in 1..(i - 1) : evs[j].type \in {"upsert", "remove"} /\ evs[j].task = t}
  IN  IF Changes = {} THEN Has(live, t)
      ELSE \E j \in Changes : evs[j].type = "upsert" /\ \A k \in Changes : k <= j

(* A completion of a task that is not in the config makes applyEvents      *)
(* throw: nothing of the batch is kept, and drain() leaves its loop.       *)
Throws ==
  \E i \in DOMAIN Taken : Taken[i].type = "completed" /\ ~PresentAt(Taken, i, Taken[i].task)

(* Fault: drainQueued is not reset.                                        *)
MutTakeEvents ==
  /\ phase = "drain" /\ ~Throws
  /\ batch' = Taken
  /\ input' = <<>> /\ internal' = <<>>
  /\ phase' = "apply"
  /\ UNCHANGED <<live, todo, updates, drainQueued, disposed, flights, basis, launched, calls, failures>>

TakeEvents ==
  /\ phase = "drain" /\ ~Throws
  /\ batch' = Taken
  /\ input' = <<>> /\ internal' = <<>>
  /\ drainQueued' = FALSE
  /\ phase' = "apply"
  /\ UNCHANGED <<live, todo, updates, disposed, flights, basis, launched, calls, failures>>

DropEvents ==
  /\ phase = "drain" /\ Throws
  /\ input' = <<>> /\ internal' = <<>>
  /\ drainQueued' = FALSE
  /\ phase' = "idle"
  /\ UNCHANGED <<live, batch, todo, updates, disposed, flights, basis, launched, calls, failures>>

ApplyOne ==
  /\ phase = "apply" /\ batch # <<>>
  /\ LET e == Head(batch) IN
     /\ live' = ApplyEvent(live, e)
     /\ basis' = IF e.type = "completed" THEN [basis EXCEPT ![e.task] = e.read] ELSE basis
     /\ updates' = IF e.type = "progress" THEN Append(updates, e.task) ELSE updates
  /\ batch' = Tail(batch)
  /\ UNCHANGED <<input, internal, todo, phase, drainQueued, disposed, flights, launched, calls, failures>>

(* schedule(live), as far as drainOnce uses it.                            *)
Schedule ==
  /\ phase = "apply" /\ batch = <<>>
  /\ todo' = {t \in Handled : Eligible(live, t)}
  /\ phase' = "dispatch"
  /\ UNCHANGED <<live, input, internal, batch, updates, drainQueued, disposed, flights,
                 basis, launched, calls, failures>>

Launch(t) ==
  /\ flights' = [flights EXCEPT ![t] = Append(@, ReadInputs(live, t))]
  /\ launched' = [launched EXCEPT ![t] = @ + 1]

IsNext(t) == t \in todo /\ \A u \in todo : live.rank[t] <= live.rank[u]

(* Fault: task-started is journalled without a drain.                      *)
MutDispatch(t) ==
  /\ phase = "dispatch" /\ IsNext(t)
  /\ internal' = Append(internal, Ev("started", t))
  /\ Launch(t)
  /\ todo' = todo \ {t}
  /\ UNCHANGED <<live, input, batch, updates, phase, drainQueued, disposed, basis, calls, failures>>

(* dispatchTask: the handlers run on the state of this pass, before        *)
(* task-started is applied.                                                *)
Dispatch(t) ==
  /\ phase = "dispatch" /\ IsNext(t)
  /\ internal' = Append(internal, Ev("started", t)) /\ CallDrain
  /\ Launch(t)
  /\ todo' = todo \ {t}
  /\ UNCHANGED <<live, input, batch, updates, disposed, basis, calls, failures>>

(* Then the handlers of the running tasks that reported progress run again.*)
Reinvoke ==
  /\ phase = "dispatch" /\ todo = {} /\ updates # <<>>
  /\ LET t == Head(updates) IN
     IF Has(live, t) /\ t \in Handled /\ live.st[t].status = "running"
     THEN Launch(t) ELSE UNCHANGED <<flights, launched>>
  /\ updates' = Tail(updates)
  /\ UNCHANGED <<live, input, internal, batch, todo, phase, drainQueued, disposed, basis,
                 calls, failures>>

EndPass ==
  /\ phase = "dispatch" /\ todo = {} /\ updates = <<>>
  /\ phase' = IF drainQueued THEN "drain" ELSE "idle"
  /\ UNCHANGED <<live, input, internal, batch, todo, updates, drainQueued, disposed,
                 flights, basis, launched, calls, failures>>

----------------------------------------------------------------------------
(* The end of a run.                                                       *)

Without(s, i) == SubSeq(s, 1, i - 1) \o SubSeq(s, i + 1, Len(s))
Drop(t, i) == flights' = [flights EXCEPT ![t] = Without(@, i)]

(* Fault: resolveCallback does not look at disposed.                       *)
MutAnswer(t, e) ==
  /\ phase \in {"idle", "dispatch"}
  /\ IF ~Has(live, t)
     THEN UNCHANGED <<input, phase, drainQueued>>
     ELSE input' = Append(input, e) /\ CallDrain
  /\ UNCHANGED <<live, internal, batch, todo, updates, disposed, basis, launched, calls>>

(* resolveCallback: ignored for a task no longer in the config.            *)
Answer(t, e) ==
  /\ phase \in {"idle", "dispatch"}
  /\ IF disposed \/ ~Has(live, t)
     THEN UNCHANGED <<input, phase, drainQueued>>
     ELSE input' = Append(input, e) /\ CallDrain
  /\ UNCHANGED <<live, internal, batch, todo, updates, disposed, basis, launched, calls>>

Resolve(t, i, d) ==
  /\ i \in DOMAIN flights[t]
  /\ Drop(t, i)
  /\ Answer(t, [Ev("completed", t) EXCEPT !.data = d, !.read = flights[t][i]])
  /\ UNCHANGED failures

ResolveErrors(t, i) ==
  /\ i \in DOMAIN flights[t] /\ failures < MaxFailures
  /\ Drop(t, i)
  /\ Answer(t, [Ev("failed", t) EXCEPT !.read = flights[t][i]])
  /\ failures' = failures + 1

(* The .catch of a pipeline, on an empty stack.                            *)
Reject(t, i) ==
  /\ i \in DOMAIN flights[t] /\ failures < MaxFailures
  /\ phase = "idle"
  /\ Drop(t, i)
  /\ IF disposed THEN UNCHANGED internal
     ELSE internal' = Append(internal, [Ev("failed", t) EXCEPT !.read = flights[t][i]])
  /\ CallDrain
  /\ failures' = failures + 1
  /\ UNCHANGED <<live, input, batch, todo, updates, disposed, basis, launched, calls>>

----------------------------------------------------------------------------
(* Calls of the API: push, retrigger, addNode, removeNode, addRequires,    *)
(* removeRequires and dispose.                                             *)

CanCall(name) ==
  /\ name \in Calls /\ calls < MaxCalls /\ calls' = calls + 1
  /\ phase \in {"idle", "dispatch"} /\ ~disposed

Push(e) ==
  /\ input' = Append(input, e) /\ CallDrain
  /\ UNCHANGED <<live, internal, batch, todo, updates, disposed, flights, basis, launched, failures>>

PushCompleted(t, d) ==
  /\ CanCall("complete") /\ t \notin Handled /\ Has(live, t)
  /\ Push([Ev("completed", t) EXCEPT !.data = d])

PushRouted(t, d) ==
  /\ CanCall("route") /\ t \notin Handled /\ Has(live, t) /\ Routes[t] # {}
  /\ Push([Ev("completed", t) EXCEPT !.data = d, !.routed = TRUE])

(* inject-tokens names no task.                                            *)
AnyTask   == CHOOSE t \in Tasks : TRUE
Inject(k) == CanCall("inject") /\ Push([Ev("inject", AnyTask) EXCEPT !.tokens = {k}])

PushProgress(t)      == CanCall("progress") /\ Push(Ev("progress", t))
Retrigger(t)         == CanCall("restart") /\ Has(live, t) /\ Push(Ev("restart", t))
RemoveTask(t)        == CanCall("remove") /\ Push(Ev("remove", t))
UpsertTask(t)        == CanCall("upsert") /\ Push([Ev("upsert", t) EXCEPT !.tokens = Requires[t]])
AddRequires(t, k)    == CanCall("requires-add") /\ Push([Ev("requires-add", t) EXCEPT !.tokens = {k}])
RemoveRequires(t, k) == CanCall("requires-remove") /\ Push([Ev("requires-remove", t) EXCEPT !.tokens = {k}])
AddProvides(t, k)    == CanCall("provides-add") /\ Push([Ev("provides-add", t) EXCEPT !.tokens = {k}])
RemoveProvides(t, k) == CanCall("provides-remove") /\ Push([Ev("provides-remove", t) EXCEPT !.tokens = {k}])

Dispose ==
  /\ CanCall("dispose") /\ disposed' = TRUE
  /\ UNCHANGED <<live, input, internal, batch, todo, updates, phase, drainQueued, flights,
                 basis, launched, failures>>

----------------------------------------------------------------------------
Drain == TakeEvents \/ DropEvents \/ ApplyOne \/ Schedule
         \/ (\E t \in todo : Dispatch(t)) \/ Reinvoke \/ EndPass

Runs == \E t \in Tasks : \E i \in DOMAIN flights[t] :
          (\E d \in Published : Resolve(t, i, d)) \/ ResolveErrors(t, i) \/ Reject(t, i)

API == \/ \E t \in Targets : \/ \E d \in Published : PushCompleted(t, d) \/ PushRouted(t, d)
                             \/ PushProgress(t) \/ Retrigger(t) \/ RemoveTask(t) \/ UpsertTask(t)
                             \/ \E k \in Rewired : AddRequires(t, k) \/ RemoveRequires(t, k)
                                               \/ AddProvides(t, k) \/ RemoveProvides(t, k)
       \/ \E k \in Tokens : Inject(k)
       \/ Dispose

Next == Drain \/ Runs \/ API

(* A drain is a loop on one stack; a run is answered in the end.           *)
Fairness == /\ WF_vars(Drain)
            /\ \A t \in Tasks : WF_vars(\E i \in DOMAIN flights[t] : \E d \in Published : Resolve(t, i, d))

Spec == Init /\ [][Next]_vars /\ Fairness

----------------------------------------------------------------------------
(* Properties.                                                             *)

(* However callbacks nest, drain() never returns with an event left in a   *)
(* queue: a call made inside a drain is served by the same drain           *)
(* (drainQueued, reactive.ts:309-325).                                     *)
NothingLeftQueued ==
  phase = "idle" /\ ~disposed => input = <<>> /\ internal = <<>>

(* Between drains a task is running exactly when one run of it is          *)
(* unanswered: no task is dispatched twice, none is left running with      *)
(* nobody to answer for it.  (Without retrigger, progress and removal.)    *)
RunsMatchStatus ==
  phase = "idle" /\ ~disposed =>
    \A t \in Handled :
      Len(flights[t]) = IF Has(live, t) /\ live.st[t].status = "running" THEN 1 ELSE 0

(* t is done and nothing but a change of its inputs would run it again.    *)
Done(t) ==
  /\ phase = "idle" /\ ~disposed
  /\ Has(live, t) /\ t \in Handled /\ flights[t] = <<>>
  /\ live.st[t].status = "completed" /\ Strategy[t] = "data-changed" /\ ~Capped(live, t)
  /\ live.req[t] \subseteq Available(live)

WiredInputs(t) == {k \in live.req[t] : Providers(live, k) # {}}

(* No lost update: the data of a task that is done was computed from the   *)
(* data its upstream tasks hold now, even when they completed while it was *)
(* running (task-transitions.ts:83-88).                                    *)
Consistent ==
  \A t \in Tasks : Done(t) =>
    \A k \in WiredInputs(t) : basis[t][k] = ReadInputs(live, t)[k]

(* Once the callers are done the engine comes to rest with every run       *)
(* answered.                                                               *)
Settles == <>[](phase = "idle" /\ \A t \in Tasks : flights[t] = <<>>)

(* Once disposed and out of its last drain the graph never changes again,  *)
(* whatever runs still answer (reactive.ts:310, 515, 629-634).             *)
DisposedIsQuiet ==
  [][disposed /\ phase = "idle" => UNCHANGED <<live, input, internal, phase>>]_vars

Limits(t) == {Cap[t], Breaker[t]} \ {NoLimit}

(* When nobody restarts, removes or reports progress, the handlers of a    *)
(* task run at most as often as maxExecutions and its circuit breaker say, *)
(* and max_attempts times more.  An attempt that is retried is not counted *)
(* as an execution (task-transitions.ts:148-162), only one that ends for   *)
(* good is (task-transitions.ts:113, 173), so that schedule.ts:51-62       *)
(* bounds the runs only together with the retries.                         *)
RunsWithinCap == \A t \in Handled : \A n \in Limits(t) : launched[t] <= n + Retry[t]

(* When a task gives up, whoever waits for its on_failure tokens gets to   *)
(* run (task-transitions.ts:174-177).                                      *)
WaitsForFailureOf(u, t) == Requires[u] # {} /\ Requires[u] \subseteq OnFailure[t]

FailureUnblocks ==
  \A t, u \in Handled : WaitsForFailureOf(u, t) =>
    ((Has(live, t) /\ live.st[t].status = "failed") ~> live.st[u].execs > 0)

============================================================================
