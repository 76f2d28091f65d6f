---------------------------- MODULE EventGraph ----------------------------
(***************************************************************************)
(* The event graph of src/src/event-graph: next() of scheduler.ts with the *)
(* completion, the stuck detection and the conflict resolution it calls,   *)
(* the execution plan (plan.ts) and the validation of a configuration      *)
(* (validate.ts), the reachability analysis of the live graph              *)
(* (continuous-event-graph/inspect.ts), and a driver loop around them.     *)
(*                                                                         *)
(* The engine is pure: the loop is its user's.  The driver of this module  *)
(* calls next() whenever it likes, stops when next() says complete or      *)
(* stuck, starts an execution of every task listed, and feeds each result  *)
(* back when it arrives.  The loops of src/README.md (290-325, 833-845)    *)
(* are its behaviours that call next() with no execution in flight.        *)
(*                                                                         *)
(* The state of the tasks and their transitions are those of LiveGraph; a  *)
(* graph is chosen in Init among Wirings.                                  *)
(***************************************************************************)
EXTENDS LiveGraph, FiniteSetsExt

CONSTANTS
  Wirings,     \* the graphs considered: records of the requires and the provides
  Completions, \* settings.completion
  Conflicts,   \* settings.conflict_strategy; "all" runs every candidate
  Goal,        \* settings.goal, {} when empty or absent
  Preference,  \* the order of the tasks: in the configuration, and for a strategy
  Injectable,  \* tokens given by inject-tokens
  MaxFailures, \* bound on the executions that fail
  MaxInjected, \* bound on the injections
  MaxFlights   \* bound on the executions of a task in flight

CompletionNames == {"all-tasks-done", "all-outputs-done", "only-resolved", "goal-reached", "manual"}
ConflictNames   == {"all", "ordered", "round-robin", "random-select", "skip-conflicts"}

ASSUME EventGraphAssumption ==
  /\ \A w \in Wirings : w.req \in [Tasks -> SUBSET Tokens] /\ w.prov \in [Tasks -> SUBSET Tokens]
  /\ Completions \subseteq CompletionNames /\ Conflicts \subseteq ConflictNames
  /\ IsFiniteSet(Tokens) /\ Goal \subseteq Tokens /\ Injectable \subseteq Tokens
  /\ Preference \in Positions /\ IsInjective(Preference) /\ \A t \in Tasks : Preference[t] # 0
  /\ MaxFailures \in Nat /\ MaxInjected \in Nat /\ MaxFlights \in Nat \ {0}

VARIABLES
  live,       \* the configuration and the execution state
  settings,   \* its completion and conflict strategies; they never change
  flights,    \* executions of each task still to answer
  ended,      \* what made the driver leave its loop
  failures, injected

vars == <<live, settings, flights, ended, failures, injected>>

TypeOK ==
  /\ live \in Graph
  /\ settings \in [completion : Completions, conflict : Conflicts]
  /\ flights \in [Tasks -> 0..MaxFlights]
  /\ ended \in {"no", "complete", "stuck"}
  /\ failures \in 0..MaxFailures /\ injected \in 0..MaxInjected

(* createInitialExecutionState.                                            *)
Init ==
  /\ \E w \in Wirings : live = [rank |-> Preference, req |-> w.req, prov |-> w.prov,
                                st |-> [t \in Tasks |-> FreshStore], out |-> {}]
  /\ settings \in [completion : Completions, conflict : Conflicts]
  /\ flights = [t \in Tasks |-> 0]
  /\ ended = "no" /\ failures = 0 /\ injected = 0

----------------------------------------------------------------------------
(* The tasks that next() lists.                                            *)

(* computeAvailableOutputs: what the completed tasks provide, wherever     *)
(* their result was routed.                                                *)
Computed(g) == UNION {g.prov[t] : t \in {u \in Nodes(g) : g.st[u].status = "completed"}}

NonActive(g, t) == g.st[t].status = "failed"
Running(g)      == {t \in Nodes(g) : g.st[t].status = "running"}

(* A once-only task is left out when all it provides is there already.     *)
Redundant(g, t) == Strategy[t] = "once" /\ g.prov[t] # {} /\ g.prov[t] \subseteq Available(g)

Candidates(g) == {t \in Tasks : Eligible(g, t) /\ ~Redundant(g, t)}

(* groupTasksByProvides, hasOutputConflict.                                *)
Group(g, C, k)     == {t \in C : k \in g.prov[t]}
HasRival(g, C, t)  == \E u \in C \ {t} : g.prov[u] \cap g.prov[t] # {}

(* selectBestAlternative: the strategies that rank by an attribute and     *)
(* then by name are one order here; a rotation depends on the executions   *)
(* so far.                                                                 *)
Executions(g) == Cardinality(UNION {{t} \X (1..g.st[t].execs) : t \in Tasks})
Before(S, t)  == {u \in S : Preference[u] < Preference[t]}

Winner(g, conflict, S) ==
  LET turn == IF conflict = "round-robin" THEN Executions(g) % Cardinality(S) ELSE 0
  IN  CHOOSE t \in S : Cardinality(Before(S, t)) = turn

(* Groups of an output that a running task produces are passed over.       *)
Contested(g, C) ==
  {k \in Tokens : Group(g, C, k) # {}} \ UNION {g.prov[t] : t \in Running(g)}

(* How often each task is listed when picks says who wins which token: a   *)
(* task that wins two tokens is listed twice.  A task of which no token    *)
(* was looked at is listed too.                                            *)
Listing(g, C, picks) ==
  [t \in Tasks |-> LET wins == Cardinality({k \in DOMAIN picks : picks[k] = t})
                   IN  IF wins > 0 THEN wins
                       ELSE IF t \in C /\ g.prov[t] \cap DOMAIN picks = {} THEN 1 ELSE 0]

Once(S) == [t \in Tasks |-> IF t \in S THEN 1 ELSE 0]

(* selectOptimalTasks: the listings it may return.                         *)
Listings(g, conflict) ==
  LET C == Candidates(g)
      K == Contested(g, C)
      All == {k \in Tokens : Group(g, C, k) # {}}
  IN  CASE conflict = "all"            -> {Once(C)}
        [] conflict = "skip-conflicts" -> {Once({t \in C : ~HasRival(g, C, t)})}
        [] conflict = "random-select"  ->
             {Listing(g, C, p) : p \in {q \in [All -> C] : \A k \in All : q[k] \in Group(g, C, k)}}
        [] OTHER -> {Listing(g, C, [k \in K |-> Winner(g, conflict, Group(g, C, k))])}

Empty(listing) == \A t \in Tasks : listing[t] = 0

----------------------------------------------------------------------------
(* isExecutionComplete.                                                    *)

Ended(g, t)    == g.st[t].status = "completed" \/ NonActive(g, t)
AllOutputs(g)  == UNION {g.prov[t] : t \in Nodes(g)}
Required(g)    == UNION {g.req[t] : t \in Nodes(g)}

(* Fault: a task that failed is not done.                                  *)
MutAllTasksDone(g) == \A t \in Nodes(g) : g.st[t].status = "completed"

AllTasksDone(g)   == \A t \in Nodes(g) : Ended(g, t)
AllOutputsDone(g) == AllOutputs(g) \subseteq Computed(g)

(* Nothing missing has a producer whose requirements are met, nobody is    *)
(* eligible by a lighter test than the scheduler's, and some work was done.*)
OnlyResolved(g) ==
  /\ \A t \in Nodes(g) : g.prov[t] \subseteq Computed(g) \/ Ended(g, t) \/ ~(g.req[t] \subseteq Computed(g))
  /\ \A t \in Nodes(g) : \/ g.st[t].status # "not-started"
                         \/ ~(g.req[t] \subseteq Computed(g))
                         \/ g.prov[t] # {} /\ g.prov[t] \subseteq Computed(g)
  /\ \E t \in Nodes(g) : g.st[t].status = "completed"

GoalReached(g) == IF Goal = {} THEN AllOutputsDone(g) ELSE Goal \subseteq Computed(g)

Complete(g, completion) ==
  CASE completion = "all-tasks-done"   -> AllTasksDone(g)
    [] completion = "all-outputs-done" -> AllOutputsDone(g)
    [] completion = "only-resolved"    -> OnlyResolved(g)
    [] completion = "goal-reached"     -> GoalReached(g)
    [] completion = "manual"           -> FALSE

----------------------------------------------------------------------------
(* detectStuckState.                                                       *)

ExpectedOutputs(g, completion) ==
  CASE completion = "all-outputs-done" -> AllOutputs(g)
    [] completion = "goal-reached"     -> IF Goal = {} THEN AllOutputs(g) ELSE Goal
    [] OTHER                           -> {}

Unprovidable(g, completion) ==
  {k \in ExpectedOutputs(g, completion) \ Computed(g) : \A p \in Providers(g, k) : NonActive(g, p)}

(* Tasks that wait for a token no task can provide any more.               *)
Blocked(g) ==
  {t \in Nodes(g) : /\ g.st[t].status = "not-started"
                    /\ \E k \in g.req[t] \ Computed(g) : \A p \in Providers(g, k) : Ended(g, p)}

Stuck(g, completion, listing) ==
  /\ Empty(listing) /\ Running(g) = {}
  /\ \/ completion = "all-tasks-done" /\ \A t \in Nodes(g) : NonActive(g, t)
     \/ Unprovidable(g, completion) # {}
     \/ Blocked(g) # {}

----------------------------------------------------------------------------
(* Producers as the plan, the validation and the reachability analysis see *)
(* them: the routes and the on_failure tokens of a task count, the tokens  *)
(* of its circuit breaker do not.                                          *)

(* Fault: the on_failure tokens are forgotten.                             *)
MutProducers(g, k) == {t \in Nodes(g) : k \in g.prov[t] \cup Routes[t]}

Producers(g, k) == {t \in Nodes(g) : k \in g.prov[t] \cup Routes[t] \cup OnFailure[t]}

DependsOn(g, t) == (UNION {Producers(g, k) : k \in g.req[t]}) \ {t}

(* detectCycles finds one exactly when a set of tasks feeds itself.        *)
Cyclic(g) == \E S \in SUBSET Nodes(g) : S # {} /\ \A t \in S : DependsOn(g, t) \cap S # {}

(* validateGraph without an error.  (A goal is always given here.)         *)
Valid(g, completion) ==
  /\ \A t \in Nodes(g) : /\ \A k \in g.req[t] : Producers(g, k) # {}
                         /\ g.req[t] \cap g.prov[t] = {}
  /\ ~Cyclic(g)
  /\ completion = "goal-reached" => \A k \in Goal : Producers(g, k) # {}

(* Its warning PROVIDE_CONFLICT, and planExecution's conflicts.            *)
HasConflict(g) == \E k \in Tokens : Cardinality(Producers(g, k)) > 1

(* Fault: a task is ready when one of its dependencies is.                 *)
MutPlanned(g) ==
  LET upTo[n \in 0..Cardinality(Tasks)] ==
        IF n = 0 THEN {}
        ELSE upTo[n - 1] \cup {t \in Nodes(g) : DependsOn(g, t) = {} \/ DependsOn(g, t) \cap upTo[n - 1] # {}}
  IN  upTo

(* computePhases: Planned(g)[n] are the tasks of the first n phases.       *)
Planned(g) ==
  LET upTo[n \in 0..Cardinality(Tasks)] ==
        IF n = 0 THEN {}
        ELSE upTo[n - 1] \cup {t \in Nodes(g) : DependsOn(g, t) \subseteq upTo[n - 1]}
  IN  upTo

(* The phase of a task; those of a cycle, and behind it, come last.        *)
Phase(g, t) ==
  LET In == {n \in 1..Cardinality(Tasks) : t \in Planned(g)[n]}
  IN  IF In # {} THEN Min(In)
      ELSE 1 + Max({0} \cup {n \in 1..Cardinality(Tasks) : Planned(g)[n] # Planned(g)[n - 1]})

----------------------------------------------------------------------------
(* getUnreachableTokens, getUnreachableNodes.                              *)

(* A producer that cannot run when the tokens of S never come.             *)
Dead(g, p, S) == NonActive(g, p) \/ (g.st[p].status # "completed" /\ g.req[p] \cap S # {})

(* The loop of the code stops at the smallest set closed under its rule.   *)
Missing(g)   == Required(g) \ Available(g)
Closed(g, S) == \A k \in Missing(g) : (\A p \in Producers(g, k) : Dead(g, p, S)) => k \in S

UnreachableTokens(g) == {k \in Missing(g) : \A S \in SUBSET Missing(g) : Closed(g, S) => k \in S}

UnreachableNodes(g) ==
  {t \in Nodes(g) : /\ g.st[t].status # "completed"
                    /\ NonActive(g, t) \/ g.req[t] \cap UnreachableTokens(g) # {}}

----------------------------------------------------------------------------
(* The driver.                                                             *)

StartAll(g, listing) ==
  [g EXCEPT !.st = [t \in Tasks |-> IF listing[t] > 0 THEN TaskStart(g, t).st[t] ELSE @[t]]]

(* A call of next() that ends the loop, or starts what it lists.           *)
Schedule ==
  /\ ended = "no"
  /\ \E listing \in Listings(live, settings.conflict) :
       \/ /\ Complete(live, settings.completion)
          /\ ended' = "complete" /\ UNCHANGED <<live, flights>>
       \/ /\ ~Complete(live, settings.completion)
          /\ Stuck(live, settings.completion, listing)
          /\ ended' = "stuck" /\ UNCHANGED <<live, flights>>
       \/ /\ ~Complete(live, settings.completion)
          /\ ~Empty(listing)
          /\ \A t \in Tasks : flights[t] + listing[t] <= MaxFlights
          /\ live' = StartAll(live, listing)
          /\ flights' = [t \in Tasks |-> flights[t] + listing[t]]
          /\ UNCHANGED ended
  /\ UNCHANGED <<settings, failures, injected>>

Answered(t) ==
  /\ ended = "no" /\ flights[t] > 0
  /\ flights' = [flights EXCEPT ![t] = @ - 1]
  /\ UNCHANGED <<settings, ended, injected>>

Succeed(t) ==
  /\ Answered(t)
  /\ \E d \in Payload, routed \in BOOLEAN :
       /\ routed => Routes[t] # {}
       /\ live' = TaskCompletion(live, t, d, routed)
  /\ UNCHANGED failures

Fail(t) ==
  /\ Answered(t)
  /\ failures < MaxFailures
  /\ live' = TaskFailure(live, t)
  /\ failures' = failures + 1

InjectTokens(k) ==
  /\ ended = "no" /\ injected < MaxInjected
  /\ live' = [live EXCEPT !.out = @ \cup {k}]
  /\ injected' = injected + 1
  /\ UNCHANGED <<settings, flights, ended, failures>>

Next ==
  \/ Schedule
  \/ \E t \in Tasks : Succeed(t) \/ Fail(t)
  \/ \E k \in Injectable : InjectTokens(k)

(* The loop goes round and every execution is answered.                    *)
Spec == Init /\ [][Next]_vars /\ WF_vars(Schedule)
             /\ \A t \in Tasks : WF_vars(Succeed(t) \/ Fail(t))

----------------------------------------------------------------------------
(* Properties.                                                             *)

(* A graph that validateGraph accepts without a PROVIDE_CONFLICT.          *)
Clean == Valid(live, settings.completion) /\ ~HasConflict(live)

Starts(t) == live.st[t].status # "running" /\ live'.st[t].status = "running"

(* A running task has one execution in flight, another has none, and the   *)
(* tokens it was started for are still there.  next() may list a task      *)
(* twice, and a refresh that fails takes back the tokens that an earlier   *)
(* result routed elsewhere.                                                *)
Orderly ==
  /\ \A t \in Tasks : flights[t] = Cardinality({t} \cap Running(live))
  /\ \A t \in Running(live) : live.req[t] \subseteq Available(live)

(* "Nodes that can never become eligible": a task once reported as         *)
(* unreachable stays so, and is not started, as long as nobody injects a   *)
(* token.                                                                  *)
UnreachableStays ==
  [][Orderly /\ injected' = injected =>
       \A t \in UnreachableNodes(live) : t \in UnreachableNodes(live') /\ ~Starts(t)]_vars

(* A task of a valid graph starts in the order of the plan: each token it  *)
(* requires was injected, or comes from a task of an earlier phase that    *)
(* has ended or failed before.                                             *)
PlanFollowed ==
  [][Valid(live, settings.completion) =>
       \A t \in Tasks : Starts(t) =>
         \A k \in live.req[t] \ Injectable :
           \E p \in Producers(live, k) : Phase(live, p) < Phase(live, t) /\ live.st[p].execs > 0]_vars

(* The strategies that compare outputs list a task once for each that it   *)
(* wins.                                                                   *)
ListsOnce ==
  settings.conflict \in {"all", "skip-conflicts"} \/ \A t \in Tasks : Cardinality(live.prov[t]) <= 1

(* A valid graph without conflicts, whose tasks are listed once, is driven *)
(* to an end: to completion, or to a reported stuck state, unless its      *)
(* completion is manual.                                                   *)
Concludes ==
  (Clean /\ ListsOnce /\ settings.completion # "manual") ~> (ended # "no")

(* README.md:432, "once: Run once, never re-run".  next() lists a task     *)
(* once for each output it wins.                                           *)
OnceRunsOnce == \A t \in Tasks : Strategy[t] = "once" => live.st[t].execs <= 1

=============================================================================
