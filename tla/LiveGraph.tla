----------------------------- MODULE LiveGraph -----------------------------
(***************************************************************************)
(* The pure part of the continuous event graph: the state of a LiveGraph   *)
(* (src/src/continuous-event-graph/core.ts), the transitions of a task     *)
(* (src/src/event-graph/task-transitions.ts) and the set of tasks that     *)
(* schedule() finds eligible (src/src/continuous-event-graph/schedule.ts). *)
(*                                                                         *)
(* The data a task publishes is a number standing for its content; its     *)
(* hash (computeDataHash, collision free) is that number too.  NoData is   *)
(* the absent or empty payload, whose hash the code leaves undefined.      *)
(***************************************************************************)
EXTENDS Integers, Sequences, FiniteSets

CONSTANTS
  Tasks,       \* names that may appear as nodes
  Tokens,      \* names that may be required or provided
  Data,        \* payloads with content
  Strategy,    \* refreshStrategy of a task
  Cap,         \* its maxExecutions, NoLimit when undefined
  Breaker,     \* its circuit_breaker.max_executions, NoLimit when undefined
  OnBreak,     \* its circuit_breaker.on_break
  Retry,       \* its retry.max_attempts, 0 when undefined
  OnFailure,   \* its on_failure
  Routes       \* the tokens of its on[result], {} when undefined

NoData  == 0
NoLimit == 0

ASSUME TasksAssumption == IsFiniteSet(Tasks) /\ Tasks # {}
ASSUME DataAssumption == Data \subseteq Nat \ {NoData}
ASSUME ConfigAssumption ==
  /\ Strategy \in [Tasks -> {"data-changed", "epoch-changed", "once", "manual"}]
  /\ Cap \in [Tasks -> Nat] /\ Breaker \in [Tasks -> Nat] /\ Retry \in [Tasks -> Nat]
  /\ OnBreak \in [Tasks -> SUBSET Tokens] /\ OnFailure \in [Tasks -> SUBSET Tokens]
  /\ Routes \in [Tasks -> SUBSET Tokens]

Payload == Data \cup {NoData}
Inputs  == [Tokens -> Payload]
NoInputs == [k \in Tokens |-> NoData]

----------------------------------------------------------------------------
(* GraphEngineStore, without its times, messages and progress.             *)
Store == [status   : {"not-started", "running", "completed", "failed"},
          execs    : Nat,      \* executionCount
          epoch    : Nat,      \* lastEpoch
          retry    : Nat,      \* retryCount
          hash     : Payload,  \* lastDataHash
          data     : Payload,
          hasStart : BOOLEAN,  \* startConsumedHashes is present
          started  : Inputs,   \* startConsumedHashes
          consumed : Inputs]   \* lastConsumedHashes

FreshStore == [status |-> "not-started", execs |-> 0, epoch |-> 0, retry |-> 0,
               hash |-> NoData, data |-> NoData,
               hasStart |-> FALSE, started |-> NoInputs, consumed |-> NoInputs]

(* A LiveGraph: the position of each task among the keys of config.tasks   *)
(* (0 when it is not one), its wiring, state.tasks and                     *)
(* state.availableOutputs.                                                 *)
Positions == [Tasks -> 0..Cardinality(Tasks)]

Graph == [rank  : Positions,
          req   : [Tasks -> SUBSET Tokens],
          prov  : [Tasks -> SUBSET Tokens],
          st    : [Tasks -> Store],
          out   : SUBSET Tokens]

Has(g, t)       == g.rank[t] # 0
Nodes(g)        == {t \in Tasks : Has(g, t)}
Providers(g, k) == {t \in Nodes(g) : k \in g.prov[t]}
FirstProvider(g, k) == CHOOSE t \in Providers(g, k) : \A u \in Providers(g, k) : g.rank[t] <= g.rank[u]
LastProvider(g, k)  == CHOOSE t \in Providers(g, k) : \A u \in Providers(g, k) : g.rank[t] >= g.rank[u]

----------------------------------------------------------------------------
(* schedule(): who may be dispatched.                                      *)

Available(g) ==
  g.out \cup UNION {g.prov[t] : t \in {u \in Nodes(g) : g.st[u].status = "completed"}}

Tripped(execs, t) == Breaker[t] # NoLimit /\ execs >= Breaker[t]

(* Fault: the caps are compared with > instead of >=.                      *)
MutCapped(g, t) ==
  \/ Cap[t] # NoLimit /\ g.st[t].execs > Cap[t]
  \/ Breaker[t] # NoLimit /\ g.st[t].execs > Breaker[t]

Capped(g, t) ==
  \/ Cap[t] # NoLimit /\ g.st[t].execs >= Cap[t]
  \/ Tripped(g.st[t].execs, t)

(* Fault: only the execution counts are compared.                          *)
MutDataChanged(g, t, k) ==
  Providers(g, k) # {} /\ g.st[FirstProvider(g, k)].execs > g.st[t].epoch

(* data-changed looks at the first provider of a token only; one without a *)
(* hash is judged by its execution count.                                  *)
DataChanged(g, t, k) ==
  /\ Providers(g, k) # {}
  /\ LET p == g.st[FirstProvider(g, k)]
     IN  IF p.hash = NoData THEN p.execs > g.st[t].epoch
                            ELSE p.hash # g.st[t].consumed[k]

EpochChanged(g, t, k) ==
  \E p \in Providers(g, k) : g.st[p].execs > g.st[t].epoch

MayRefresh(g, t) ==
  \E k \in g.req[t] :
    \/ Strategy[t] = "data-changed"  /\ DataChanged(g, t, k)
    \/ Strategy[t] = "epoch-changed" /\ EpochChanged(g, t, k)

Eligible(g, t) ==
  /\ Has(g, t)
  /\ g.st[t].status \in {"not-started", "completed"}
  /\ ~Capped(g, t)
  /\ g.st[t].status = "completed" => MayRefresh(g, t)
  /\ g.req[t] \subseteq Available(g)

(* resolveUpstreamState: the data of the last provider of each token.      *)
ReadInputs(g, t) ==
  [k \in Tokens |-> IF k \in g.req[t] /\ Providers(g, k) # {}
                    THEN g.st[LastProvider(g, k)].data ELSE NoData]

----------------------------------------------------------------------------
(* Task transitions.                                                       *)

(* The hash of the first provider of each required token.                  *)
StartHashes(g, t) ==
  [k \in Tokens |-> IF k \in g.req[t] /\ Providers(g, k) # {}
                    THEN g.st[FirstProvider(g, k)].hash ELSE NoData]

TaskStart(g, t) ==
  LET s == g.st[t]
  IN  [g EXCEPT !.st[t] = [s EXCEPT !.status = "running",
                                    !.hasStart = TRUE, !.started = StartHashes(g, t)]]

(* What a completion records as consumed: the hashes snapshotted at the    *)
(* start, or for a task that never started the present ones.               *)
ConsumedHashes(g, t) ==
  IF g.st[t].hasStart THEN g.st[t].started
  ELSE [k \in Tokens |-> IF StartHashes(g, t)[k] # NoData
                         THEN StartHashes(g, t)[k] ELSE g.st[t].consumed[k]]

(* A result with a route of its own replaces the tokens the task provides. *)
Produced(g, t, routed) == IF routed THEN Routes[t] ELSE g.prov[t]

TaskCompletion(g, t, d, routed) ==
  LET s == g.st[t]
  IN  [g EXCEPT !.st[t] = [s EXCEPT !.status = "completed",
                                    !.execs = s.execs + 1, !.epoch = s.execs + 1,
                                    !.hash = d, !.data = d, !.consumed = ConsumedHashes(g, t)],
                !.out = @ \cup Produced(g, t, routed)]

(* Fault: retryCount counts down.                                          *)
MutTaskRetry(g, t) ==
  LET s == g.st[t] IN [g EXCEPT !.st[t] = [s EXCEPT !.status = "not-started", !.retry = s.retry - 1]]

TaskRetry(g, t) ==
  LET s == g.st[t] IN [g EXCEPT !.st[t] = [s EXCEPT !.status = "not-started", !.retry = s.retry + 1]]

(* Fault: the on_failure tokens are only injected with the break tokens.   *)
MutTaskGivesUp(g, t) ==
  LET s == g.st[t]
  IN  [g EXCEPT !.st[t] = [s EXCEPT !.status = "failed", !.execs = s.execs + 1],
                !.out = @ \cup (IF Tripped(s.execs + 1, t) THEN OnFailure[t] \cup OnBreak[t] ELSE {})]

TaskGivesUp(g, t) ==
  LET s == g.st[t]
  IN  [g EXCEPT !.st[t] = [s EXCEPT !.status = "failed", !.execs = s.execs + 1],
                !.out = @ \cup OnFailure[t] \cup (IF Tripped(s.execs + 1, t) THEN OnBreak[t] ELSE {})]

TaskFailure(g, t) ==
  IF g.st[t].retry + 1 <= Retry[t] THEN TaskRetry(g, t) ELSE TaskGivesUp(g, t)

(* A restart clears the data but keeps its hash, the counters and the      *)
(* consumed hashes.                                                        *)
TaskRestart(g, t) ==
  LET s == g.st[t] IN [g EXCEPT !.st[t] = [s EXCEPT !.status = "not-started", !.data = NoData]]

----------------------------------------------------------------------------
(* Structural mutations.                                                   *)

(* Fault: an upsert gives an existing node a new state.                    *)
MutAddNode(g, t, req, prov) ==
  [g EXCEPT !.rank[t] = IF Has(g, t) THEN @ ELSE Cardinality(Nodes(g)) + 1,
            !.req[t] = req, !.prov[t] = prov, !.st[t] = FreshStore]

(* An upsert of a node that exists replaces its wiring and keeps its state.*)
AddNode(g, t, req, prov) ==
  [g EXCEPT !.rank[t] = IF Has(g, t) THEN @ ELSE Cardinality(Nodes(g)) + 1,
            !.req[t] = req, !.prov[t] = prov,
            !.st[t] = IF Has(g, t) THEN @ ELSE FreshStore]

RemoveNode(g, t) ==
  [g EXCEPT !.rank = [u \in Tasks |-> IF u = t THEN 0 ELSE IF @[u] > @[t] THEN @[u] - 1 ELSE @[u]],
            !.st[t] = FreshStore]

----------------------------------------------------------------------------
(* applyEvent.  The field read is not in the code: it carries the inputs   *)
(* that the run being answered has read.                                   *)
Event == [type : {"started", "completed", "failed", "restart", "inject", "progress",
                  "requires-add", "requires-remove", "provides-add", "provides-remove",
                  "upsert", "remove"},
          task : Tasks, data : Payload, routed : BOOLEAN,
          tokens : SUBSET Tokens, read : Inputs]

Ev(type, t) == [type |-> type, task |-> t, data |-> NoData, routed |-> FALSE,
                tokens |-> {}, read |-> NoInputs]

(* The task-upserts considered bring the requires in the tokens of the     *)
(* event and the provides that the task had.                               *)
ApplyEvent(g, e) ==
  CASE e.type = "inject" -> [g EXCEPT !.out = @ \cup e.tokens]
    [] e.type = "upsert" -> AddNode(g, e.task, e.tokens, g.prov[e.task])
    [] e.type = "started"         /\ Has(g, e.task) -> TaskStart(g, e.task)
    [] e.type = "completed"       /\ Has(g, e.task) -> TaskCompletion(g, e.task, e.data, e.routed)
    [] e.type = "failed"          /\ Has(g, e.task) -> TaskFailure(g, e.task)
    [] e.type = "restart"         /\ Has(g, e.task) -> TaskRestart(g, e.task)
    [] e.type = "remove"          /\ Has(g, e.task) -> RemoveNode(g, e.task)
    [] e.type = "requires-add"    /\ Has(g, e.task) -> [g EXCEPT !.req[e.task] = @ \cup e.tokens]
    [] e.type = "requires-remove" /\ Has(g, e.task) -> [g EXCEPT !.req[e.task] = @ \ e.tokens]
    [] e.type = "provides-add"    /\ Has(g, e.task) -> [g EXCEPT !.prov[e.task] = @ \cup e.tokens]
    [] e.type = "provides-remove" /\ Has(g, e.task) -> [g EXCEPT !.prov[e.task] = @ \ e.tokens]
    [] OTHER -> g

============================================================================
