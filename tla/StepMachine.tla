----------------------------- MODULE StepMachine -----------------------------
(* The two step engines, StepMachine (src/step-machine) and its predecessor  *)
(* FlowEngine (src/core/engine.ts), with their store, and the command line   *)
(* that runs, pauses and resumes the runs of a StepMachine.                  *)
(*                                                                           *)
(* A process drives one run at a time: it holds the state of the run in      *)
(* memory, calls the handler of the current step, and saves the state whole. *)
(* Nothing keeps two processes off one run. The store is read when a process *)
(* starts and never again by the loop. Data of the runs is left out: the     *)
(* flow is steered by the results that the handlers return.                  *)
EXTENDS Integers, Sequences, FiniteSets

CONSTANTS
  Engines,             \* which engines an instance may be: "machine", "engine"
  Procs,               \* processes that drive runs, numbered
  MaxLaunches,         \* bound: how many times a process is started
  Steps, Terminals,    \* the flow: its steps, its terminal states,
  Start,               \*   where it begins,
  Results,             \*   what handlers return, "failure" included,
  Transitions, FailureTransitions,   \* [Steps -> [Results -> Places \cup {None}]]
  RetryLimit,          \*   retry.max_attempts of each step, 0 for none
  Breaker, OnOpen,     \*   circuit_breaker of each step, Unlimited for none
  MaxSteps,            \*   settings.max_total_steps
  Timed,               \*   whether settings.timeout_ms is set
  MaxPauses,           \* bound: requests for a pause
  MaxFaults,           \* bound: processes that die and callbacks that throw
  None, Unlimited

Places == Steps \cup Terminals
Runs == 1 .. MaxLaunches
Modes == {"run", "data", "resume", "library"}

ASSUME FlowAssumption ==
  /\ Start \in Places /\ Steps \cap Terminals = {}
  /\ "failure" \in Results
  /\ Transitions \in [Steps -> [Results -> Places \cup {None}]]
  /\ FailureTransitions \in [Steps -> [Results -> Places \cup {None}]]
  /\ RetryLimit \in [Steps -> Nat] /\ OnOpen \in [Steps -> Places]
  /\ Breaker \in [Steps -> Nat \cup {Unlimited}] /\ Unlimited \notin Nat
  /\ None \notin Places /\ None \notin Runs

ASSUME BoundAssumption ==
  /\ Engines \subseteq {"machine", "engine"} /\ Timed \in BOOLEAN
  /\ Procs \subseteq Nat /\ {MaxLaunches, MaxSteps, MaxPauses, MaxFaults} \subseteq Nat

VARIABLES
  engine,    \* the engine of this instance
  store,     \* [Runs -> a run's state or NoRun]
  marker,    \* the .pause file of the command line
  proc,      \* each process: Idle, or where it is and what it has in memory
  pausing,   \* what a call of pause() has read, NoPause for none
  launches, throws, pauses, crashes,   \* what the bounds count
  did,       \* of each run: the steps whose transitions were taken,
  starts,    \*   how often each handler was called,
  lost,      \*   how many drivers ended without a save,
  meddled    \*   whether two wrote it at a time, or it was paused when ended

ghosts == <<did, starts, lost, meddled>>
bounds == <<launches, throws, pauses, crashes>>
vars == <<engine, store, marker, proc, pausing, bounds, ghosts>>

State == [step : Places, status : {"running", "paused", "cancelled", "completed", "failed"},
          history : Seq(Steps), iters : [Steps -> Nat], retries : [Steps -> Nat]]
NoRun == [status |-> "none"]
NoPause == [run |-> None]

(* A process: where it is, how it was started, its run and the state it holds*)
(* of it, the iterations of its loop, its abort signal, and whether it is a  *)
(* pause of the command line that set it.                                    *)
Process == [at : {"idle", "clear", "resolve", "create", "load", "restore", "loop", "handler",
                  "catch", "mark", "unmark"},
            how : Modes, run : Runs \cup {None}, mem : State \cup {NoRun},
            loops : 0 .. MaxSteps, resumed : BOOLEAN, aborted : BOOLEAN, seen : BOOLEAN]
Idle == [at |-> "idle", how |-> "run", run |-> None, mem |-> NoRun, loops |-> 0,
         resumed |-> FALSE, aborted |-> FALSE, seen |-> FALSE]

(* createInitialState: a run that nothing has happened to.                   *)
Initial == [step |-> Start, status |-> "running", history |-> <<>>,
            iters |-> [s \in Steps |-> 0], retries |-> [s \in Steps |-> 0]]

Init ==
  /\ engine \in Engines
  /\ store = [r \in Runs |-> NoRun] /\ marker = FALSE
  /\ proc = [p \in Procs |-> Idle] /\ pausing = NoPause
  /\ launches = 0 /\ throws = 0 /\ pauses = 0 /\ crashes = 0
  /\ did = [r \in Runs |-> <<>>] /\ starts = [r \in Runs |-> [s \in Steps |-> 0]]
  /\ lost = [r \in Runs |-> 0] /\ meddled = [r \in Runs |-> FALSE]

----------------------------------------------------------------------------
(* The pure reducer.                                                         *)

Ended(s) == s.status \in {"completed", "failed"}

(* Where the result of a step leads. A failure transition overrides the      *)
(* transition of StepMachine; FlowEngine knows none.                         *)
MachineTarget(s, result) ==
  IF FailureTransitions[s][result] # None THEN FailureTransitions[s][result]
                                          ELSE Transitions[s][result]
EngineTarget(s, result) == Transitions[s][result]
Target(s, result) ==
  IF engine = "machine" THEN MachineTarget(s, result) ELSE EngineTarget(s, result)

Retries(st, result) == result = "failure" /\ st.retries[st.step] < RetryLimit[st.step]
Retried(st) == [st EXCEPT !.retries[st.step] = @ + 1]

(* Fault: the count of calls is reset with the retries.                      *)
MutMoved(st, target) ==
  [st EXCEPT !.step = target, !.history = Append(@, st.step), !.retries[st.step] = 0,
             !.iters[st.step] = 0]

(* The step is done: its retries are forgiven, its count is kept.            *)
Moved(st, target) ==
  [st EXCEPT !.step = target, !.history = Append(@, st.step), !.retries[st.step] = 0]

BreakerOpen(st) ==
  Breaker[st.step] # Unlimited /\ st.iters[st.step] >= Breaker[st.step]
Redirected(st) == [st EXCEPT !.step = OnOpen[st.step]]
Counted(st) == [st EXCEPT !.iters[st.step] = @ + 1]

----------------------------------------------------------------------------
(* Starting a process.                                                       *)

At(p, place) == proc[p].at = place
Mem(p) == proc[p].mem
Becomes(p, record) == proc' = [proc EXCEPT ![p] = record]
Goes(p, place) == Becomes(p, IF place = "idle" THEN Idle ELSE [proc[p] EXCEPT !.at = place])
Save(p, st) == store' = [store EXCEPT ![proc[p].run] = st]

MayFail == throws + crashes < MaxFaults

Driving(r) == {p \in Procs : proc[p].run = r}
Paused == {r \in Runs : store[r].status = "paused"}
IsNew(r) == store[r] = NoRun /\ \A q \in Runs : store[q] = NoRun => r <= q

(* The names of processes do not matter: the first that is free is used.     *)
Launch(p, mode, place, run) ==
  /\ At(p, "idle") /\ (\A q \in Procs : At(q, "idle") => p <= q)
  /\ launches < MaxLaunches
  /\ launches' = launches + 1
  /\ Becomes(p, [Idle EXCEPT !.at = place, !.how = mode, !.run = run])
  /\ UNCHANGED <<engine, store, marker, pausing, throws, pauses, crashes, ghosts>>

(* step-machine-cli FLOW, with --initial-data or --resume or neither.        *)
LaunchCli(p) ==
  /\ engine = "machine"
  /\ \E mode \in {"run", "data", "resume"} : Launch(p, mode, "clear", None)

(* run() and resume(runId) called by a program.                              *)
LaunchRun(p) == Launch(p, "library", "create", None)
LaunchResume(p) == \E r \in Runs : store[r] # NoRun /\ Launch(p, "library", "load", r)

(* The command line drops a pause request, whoever it was meant for.         *)
ClearMarker(p) ==
  /\ At(p, "clear") /\ marker' = FALSE
  /\ \/ proc[p].how = "data" /\ Becomes(p, [proc[p] EXCEPT !.at = "create", !.how = "run"])
     \/ proc[p].how # "data" /\ Goes(p, "resolve")
  /\ UNCHANGED <<engine, store, pausing, bounds, ghosts>>

(* A paused run is taken up again, whether --resume asks for it or not.      *)
ResolveRun(p) ==
  /\ At(p, "resolve")
  /\ \/ \E r \in Paused : Becomes(p, [proc[p] EXCEPT !.at = "load", !.run = r, !.how = "run"])
     \/ Paused = {} /\ Goes(p, IF proc[p].how = "resume" THEN "idle" ELSE "create")
  /\ UNCHANGED <<engine, store, marker, pausing, bounds, ghosts>>

Create(p) ==
  /\ At(p, "create")
  /\ \E r \in Runs :
       /\ IsNew(r)
       /\ store' = [store EXCEPT ![r] = Initial]
       /\ Becomes(p, [proc[p] EXCEPT !.at = "loop", !.run = r, !.mem = Initial])
  /\ UNCHANGED <<engine, marker, pausing, bounds, ghosts>>

(* Fault: a run that has ended is resumed like any other.                    *)
MutLoad(p) ==
  /\ At(p, "load")
  /\ Becomes(p, [proc[p] EXCEPT !.at = "restore", !.mem = store[proc[p].run]])
  /\ meddled' = [meddled EXCEPT ![proc[p].run] = @ \/ Driving(proc[p].run) # {p}]
  /\ UNCHANGED <<engine, store, marker, pausing, bounds, did, starts, lost>>

(* resume(): a run that has ended is refused, any other is taken, also one   *)
(* that another process is driving.                                          *)
Load(p) ==
  LET r == proc[p].run IN
  /\ At(p, "load")
  /\ \/ Ended(store[r]) /\ Goes(p, "idle") /\ UNCHANGED meddled
     \/ /\ ~Ended(store[r])
        /\ Becomes(p, [proc[p] EXCEPT !.at = "restore", !.mem = store[r]])
        /\ meddled' = [meddled EXCEPT ![r] = @ \/ Driving(r) # {p} \/ pausing.run = r]
  /\ UNCHANGED <<engine, store, marker, pausing, bounds, did, starts, lost>>

(* Fault: a resumed run begins anew.                                         *)
MutRestore(p) ==
  /\ At(p, "restore") /\ Save(p, Initial)
  /\ Becomes(p, [proc[p] EXCEPT !.at = "loop", !.mem = Initial, !.resumed = TRUE])
  /\ UNCHANGED <<engine, marker, pausing, bounds, ghosts>>

Restore(p) ==
  LET st == [Mem(p) EXCEPT !.status = "running"] IN
  /\ At(p, "restore") /\ Save(p, st)
  /\ Becomes(p, [proc[p] EXCEPT !.at = "loop", !.mem = st, !.resumed = TRUE])
  /\ UNCHANGED <<engine, marker, pausing, bounds, ghosts>>

----------------------------------------------------------------------------
(* executeLoop: what it looks at before it calls a handler, in this order.   *)

InLoop(p) == At(p, "loop")
MutMayGoOn(p) == InLoop(p) /\ ~proc[p].aborted   \* fault: no limit of steps
MayGoOn(p) == InLoop(p) /\ ~proc[p].aborted /\ proc[p].loops < MaxSteps
AtStep(p) == MayGoOn(p) /\ Mem(p).step \in Steps
Looped(p, st) == [proc[p] EXCEPT !.at = "loop", !.mem = st, !.loops = @ + 1]

End(p, status, place) ==
  /\ Save(p, [Mem(p) EXCEPT !.status = status])
  /\ Becomes(p, IF place = "idle" THEN Idle
                ELSE [proc[p] EXCEPT !.at = place, !.mem.status = status])
  /\ UNCHANGED <<engine, marker, pausing, launches, pauses, crashes, ghosts>>

Cancel(p) ==
  /\ InLoop(p) /\ proc[p].aborted /\ proc[p].loops < MaxSteps
  /\ End(p, "cancelled", IF proc[p].seen THEN "mark" ELSE "idle")
  /\ UNCHANGED throws

(* The deadline has passed, or the iterations are used up: the run counts as *)
(* completed wherever it stands.                                             *)
Timeout(p) ==
  /\ Timed /\ MayGoOn(p)
  /\ End(p, "completed", "idle") /\ UNCHANGED throws

Exhaust(p) ==
  /\ InLoop(p) /\ proc[p].loops >= MaxSteps
  /\ End(p, "completed", "idle") /\ UNCHANGED throws

(* A terminal state. onComplete is called after the save, and may throw.     *)
Complete(p) ==
  /\ MayGoOn(p) /\ Mem(p).step \in Terminals
  /\ \/ End(p, "completed", "idle") /\ UNCHANGED throws
     \/ /\ MayFail /\ throws' = throws + 1
        /\ End(p, "completed", "catch")

(* Fault: the redirection does not count as an iteration.                    *)
MutRedirect(p) ==
  /\ AtStep(p) /\ BreakerOpen(Mem(p))
  /\ Save(p, Redirected(Mem(p))) /\ Becomes(p, [proc[p] EXCEPT !.mem = Redirected(@)])
  /\ UNCHANGED <<engine, marker, pausing, bounds, ghosts>>

(* The redirection of an open breaker is saved and counts as an iteration.   *)
Redirect(p) ==
  /\ AtStep(p) /\ BreakerOpen(Mem(p))
  /\ Save(p, Redirected(Mem(p))) /\ Becomes(p, Looped(p, Redirected(Mem(p))))
  /\ UNCHANGED <<engine, marker, pausing, bounds, ghosts>>

(* The call is counted in memory; the count is saved with what comes of it.  *)
CallHandler(p) ==
  /\ AtStep(p) /\ ~BreakerOpen(Mem(p))
  /\ Becomes(p, [proc[p] EXCEPT !.at = "handler", !.mem = Counted(@)])
  /\ starts' = [starts EXCEPT ![proc[p].run][Mem(p).step] = @ + 1]
  /\ UNCHANGED <<engine, store, marker, pausing, bounds, did, lost, meddled>>

----------------------------------------------------------------------------
(* What comes of a step.                                                     *)

(* onStep of the command line: the first sight of the marker aborts. Only    *)
(* StepMachine is launched from there.                                       *)
OnStep(p, record) ==
  LET stop == proc[p].how # "library" /\ marker IN
  [record EXCEPT !.seen = @ \/ stop, !.aborted = @ \/ stop]

(* A result without a transition throws out of the loop.                     *)
NoTransition(p, result) ==
  /\ ~Retries(Mem(p), result) /\ Target(Mem(p).step, result) = None
  /\ Goes(p, "catch") /\ UNCHANGED <<store, did, throws>>

(* The step moves on, and is saved; onTransition may throw after the save.   *)
Moves(p, result) ==
  LET st == Moved(Mem(p), Target(Mem(p).step, result)) IN
  /\ ~Retries(Mem(p), result) /\ Target(Mem(p).step, result) # None
  /\ Save(p, st)
  /\ did' = [did EXCEPT ![proc[p].run] = Append(@, Mem(p).step)]
  /\ \/ Becomes(p, OnStep(p, Looped(p, st))) /\ UNCHANGED throws
     \/ /\ MayFail /\ throws' = throws + 1
        /\ Becomes(p, [OnStep(p, Looped(p, st)) EXCEPT !.at = "catch"])

(* StepMachine saves a retry, and an onStep that throws ends the run.        *)
MachineReturn(p, result) ==
  /\ engine = "machine" /\ At(p, "handler")
  /\ \/ /\ Retries(Mem(p), result) /\ Save(p, Retried(Mem(p)))
        /\ Becomes(p, OnStep(p, Looped(p, Retried(Mem(p))))) /\ UNCHANGED <<did, throws>>
     \/ NoTransition(p, result)
     \/ Moves(p, result)
     \/ /\ MayFail /\ throws' = throws + 1
        /\ Goes(p, "catch") /\ UNCHANGED <<store, did>>
  /\ UNCHANGED <<engine, marker, pausing, launches, pauses, crashes, starts, lost, meddled>>

(* FlowEngine keeps a retry in memory; what onStep throws is a failure of    *)
(* the step, which needs no case of its own.                                 *)
EngineReturn(p, result) ==
  /\ engine = "engine" /\ At(p, "handler")
  /\ \/ /\ Retries(Mem(p), result)
        /\ Becomes(p, Looped(p, Retried(Mem(p)))) /\ UNCHANGED <<store, did, throws>>
     \/ NoTransition(p, result)
     \/ Moves(p, result)
  /\ UNCHANGED <<engine, marker, pausing, launches, pauses, crashes, starts, lost, meddled>>

(* The catch of run(): StepMachine saves the state the run began with,       *)
(* FlowEngine, which works on one object, the state it has reached. resume() *)
(* has no catch: the store keeps what was saved last.                        *)
CaughtState(p) ==
  [(IF engine = "machine" THEN Initial ELSE Mem(p)) EXCEPT !.status = "failed"]

Catch(p) ==
  /\ At(p, "catch") /\ Goes(p, "idle")
  /\ \/ ~proc[p].resumed /\ Save(p, CaughtState(p)) /\ UNCHANGED lost
     \/ proc[p].resumed /\ lost' = [lost EXCEPT ![proc[p].run] = @ + 1] /\ UNCHANGED store
  /\ UNCHANGED <<engine, marker, pausing, bounds, did, starts, meddled>>

----------------------------------------------------------------------------
(* Pausing.                                                                  *)

(* --pause: the marker is written when the store shows a run that runs,      *)
(* though its process may be dead, or about to end.                          *)
RequestPause ==
  /\ engine = "machine" /\ pauses < MaxPauses /\ pauses' = pauses + 1
  /\ \E r \in Runs : store[r].status = "running"
  /\ marker' = TRUE
  /\ UNCHANGED <<engine, store, proc, pausing, launches, throws, crashes, ghosts>>

(* The driver that saw the marker turns its cancelled run into a paused one, *)
MarkPaused(p) ==
  /\ At(p, "mark") /\ Goes(p, "unmark")
  /\ Save(p, [store[proc[p].run] EXCEPT !.status = "paused"])
  /\ UNCHANGED <<engine, marker, pausing, bounds, ghosts>>

(* and removes the marker.                                                   *)
Unmark(p) ==
  /\ At(p, "unmark") /\ Goes(p, "idle") /\ marker' = FALSE
  /\ UNCHANGED <<engine, store, pausing, bounds, ghosts>>

(* pause(runId) of the engines reads the state of a run, whatever its status,*)
PauseLoad(r) ==
  /\ pauses < MaxPauses /\ pauses' = pauses + 1
  /\ pausing = NoPause /\ store[r] # NoRun
  /\ pausing' = [run |-> r, state |-> store[r]]
  /\ meddled' = [meddled EXCEPT ![r] = @ \/ Driving(r) # {} \/ Ended(store[r])]
  /\ UNCHANGED <<engine, store, marker, proc, launches, throws, crashes, did, starts, lost>>

(* and saves it as paused. No loop looks.                                    *)
PauseSave ==
  /\ pausing # NoPause /\ pausing' = NoPause
  /\ store' = [store EXCEPT ![pausing.run] = [pausing.state EXCEPT !.status = "paused"]]
  /\ UNCHANGED <<engine, marker, proc, bounds, ghosts>>

(* The abort signal of a program.                                            *)
Abort(p) ==
  /\ proc[p].how = "library" /\ proc[p].at \in {"loop", "handler"} /\ ~proc[p].aborted
  /\ pauses < MaxPauses /\ pauses' = pauses + 1
  /\ Becomes(p, [proc[p] EXCEPT !.aborted = TRUE])
  /\ UNCHANGED <<engine, store, marker, pausing, launches, throws, crashes, ghosts>>

Crash(p) ==
  /\ ~At(p, "idle") /\ MayFail /\ crashes' = crashes + 1
  /\ Goes(p, "idle")
  /\ lost' = [r \in Runs |-> lost[r] + IF proc[p].run = r THEN 1 ELSE 0]
  /\ UNCHANGED <<engine, store, marker, pausing, launches, throws, pauses, did, starts, meddled>>

----------------------------------------------------------------------------
Work(p) ==
  \/ ClearMarker(p) \/ ResolveRun(p) \/ Create(p) \/ Load(p) \/ Restore(p)
  \/ Cancel(p) \/ Timeout(p) \/ Exhaust(p) \/ Complete(p) \/ Redirect(p) \/ CallHandler(p)
  \/ (\E result \in Results : MachineReturn(p, result) \/ EngineReturn(p, result))
  \/ Catch(p) \/ MarkPaused(p) \/ Unmark(p)

Next ==
  \/ \E p \in Procs : Work(p) \/ LaunchCli(p) \/ LaunchRun(p) \/ LaunchResume(p)
                      \/ Abort(p) \/ Crash(p)
  \/ RequestPause \/ (\E r \in Runs : PauseLoad(r)) \/ PauseSave

(* A process that is alive goes on, and handlers return.                     *)
Fairness == \A p \in Procs : WF_vars(Work(p))
Spec == Init /\ [][Next]_vars /\ Fairness

----------------------------------------------------------------------------
TypeOK ==
  /\ engine \in Engines /\ marker \in BOOLEAN
  /\ store \in [Runs -> State \cup {NoRun}] /\ proc \in [Procs -> Process]
  /\ pausing \in [run : Runs, state : State] \cup {NoPause}
  /\ did \in [Runs -> Seq(Steps)] /\ starts \in [Runs -> [Steps -> Nat]]
  /\ lost \in [Runs -> Nat] /\ meddled \in [Runs -> BOOLEAN]
  /\ launches \in 0 .. MaxLaunches /\ {throws, crashes} \subseteq 0 .. MaxFaults
  /\ pauses \in 0 .. MaxPauses

(* Pausing, cancelling, dying and being resumed lose and repeat no           *)
(* transition: as long as a run has one driver at a time, its saved history  *)
(* is every transition taken since its start, in order. (Only StepMachine,   *)
(* when it fails a run, saves the state it began with: README.md.)           *)
ProgressKept ==
  \A r \in Runs : store[r] # NoRun /\ ~meddled[r] =>
    \/ store[r].history = did[r]
    \/ engine = "machine" /\ store[r].status = "failed"

(* A breaker that opens after n calls of a handler lets through no more than *)
(* n over all drivers of the run, but for the calls whose count a driver took*)
(* with it: one for a StepMachine, which saves its retries, one and all      *)
(* retries for a FlowEngine, which does not.                                 *)
Unsaved(s) == IF engine = "machine" THEN 1 ELSE RetryLimit[s] + 1
BreakerHolds ==
  \A r \in Runs, s \in Steps : ~meddled[r] /\ Breaker[s] # Unlimited =>
    starts[r][s] <= Breaker[s] + lost[r] * Unsaved(s)

(* A run that has ended stays as it was saved, whoever tries to resume it,   *)
(* until a callback throws over its end or somebody calls pause() on it.     *)
EndedStays ==
  [][\A r \in Runs : Ended(store[r]) /\ ~meddled'[r] /\ throws = 0 => store'[r] = store[r]]_vars

(* Every process comes to an end, also in a flow whose breakers lead from one*)
(* to another in a circle.                                                   *)
Finishes == \A p \in Procs : ~At(p, "idle") ~> At(p, "idle")
=============================================================================
