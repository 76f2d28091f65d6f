--------------------------- MODULE StepMachineProofs ---------------------------
(***************************************************************************)
(* Theorems about StepMachine, for every flow, every number of processes,  *)
(* launches, pauses and faults, and for either engine.                     *)
(***************************************************************************)
EXTENDS StepMachine, SequenceTheorems, TLAPS

----------------------------------------------------------------------------
(* The invariant.                                                          *)

(* The places where a process holds a run: its state is in memory.         *)
Holding == {"restore", "loop", "handler", "catch", "mark", "unmark"}
Holds(p, r) == proc[p].at \in Holding /\ proc[p].run = r

(* What a process has at each place.                                       *)
Placed(p) ==
  /\ proc[p].at \in Holding \cup {"load"} => proc[p].run \in Runs /\ store[proc[p].run] # NoRun
  /\ proc[p].at \in Holding => Mem(p) \in State
  /\ proc[p].at = "handler" => Mem(p).step \in Steps /\ proc[p].loops < MaxSteps
PlaceInv == \A p \in Procs : Placed(p)

(* A state that accounts for everything that has happened to its run, but  *)
(* for what the drivers that were lost took with them.                     *)
Allowed(r, s) == lost[r] * Unsaved(s)
Bounded(st, r) ==
  /\ st.history = did[r]
  /\ \A s \in Steps : st.retries[s] <= RetryLimit[s]
  /\ \A s \in Steps : Breaker[s] # Unlimited => st.iters[s] <= Breaker[s]
Accounts(st, r) ==
  /\ Bounded(st, r)
  /\ \A s \in Steps : starts[r][s] <= st.iters[s] + Allowed(r, s)

(* How far the counts in memory may be ahead of those that were saved.     *)
Ahead(p, s) ==
  (IF engine = "engine" /\ proc[p].at \in {"loop", "handler", "catch"} THEN Mem(p).retries[s] ELSE 0)
  + (IF proc[p].at \in {"handler", "catch"} /\ s = Mem(p).step THEN 1 ELSE 0)

(* The driver of a run: its memory accounts for the run, and what is saved *)
(* accounts for it but for what the driver is ahead.                       *)
Driver(p, r) ==
  /\ Accounts(Mem(p), r) /\ Bounded(store[r], r)
  /\ \A s \in Steps : Mem(p).iters[s] <= store[r].iters[s] + Ahead(p, s)
  /\ Ended(store[r]) \/ Ended(Mem(p)) => throws # 0 /\ proc[p].at = "catch"

(* A failed run of a StepMachine was saved as it began.                    *)
Forgotten(r) == engine = "machine" /\ store[r].status = "failed"
Rested(r) ==
  IF Forgotten(r)
  THEN \A s \in Steps : Breaker[s] # Unlimited => starts[r][s] <= Breaker[s] + Allowed(r, s)
  ELSE Accounts(store[r], r)

Untouched(r) == did[r] = <<>> /\ \A s \in Steps : starts[r][s] = 0

RunInv(r) ==
  ~meddled[r] =>
    /\ \A p, q \in Procs : Holds(p, r) /\ Holds(q, r) => p = q
    /\ \A p \in Procs : Holds(p, r) => Driver(p, r)
    /\ (\A p \in Procs : ~Holds(p, r)) =>
         IF store[r] = NoRun THEN Untouched(r) ELSE Rested(r)
    /\ pausing.run = r =>
         (\A p \in Procs : ~Holds(p, r)) /\ store[r] = pausing.state /\ ~Ended(store[r])

RunsInv == \A r \in Runs : RunInv(r)
----------------------------------------------------------------------------
(* What the reducer does to a state.                                       *)

Statuses == {"running", "paused", "cancelled", "completed", "failed"}

LEMMA InitialFacts ==
  /\ Initial \in State /\ Initial # NoRun /\ Initial.status = "running" /\ Initial.history = <<>>
  /\ \A s \in Steps : Initial.iters[s] = 0 /\ Initial.retries[s] = 0
<1>1. <<>> \in Seq(Steps) /\ Start \in Places /\ [s \in Steps |-> 0] \in [Steps -> Nat]
  BY FlowAssumption
<1>2. Initial \in State
  BY <1>1 DEF Initial, State
<1> QED BY <1>2 DEF Initial, NoRun

LEMMA StatusFacts ==
  ASSUME NEW st \in State, NEW x \in Statuses
  PROVE  LET m == [st EXCEPT !.status = x]
         IN  /\ m \in State /\ m # NoRun /\ m.step = st.step /\ m.status = x
             /\ m.history = st.history /\ m.iters = st.iters /\ m.retries = st.retries
BY DEF State, Statuses, NoRun

LEMMA MovedFacts ==
  ASSUME NEW st \in State, st.step \in Steps, NEW t \in Places
  PROVE  LET m == Moved(st, t)
         IN  /\ m \in State /\ m # NoRun /\ m.status = st.status
             /\ m.history = Append(st.history, st.step) /\ m.iters = st.iters
             /\ \A s \in Steps : m.retries[s] = IF s = st.step THEN 0 ELSE st.retries[s]
<1> DEFINE h == Append(st.history, st.step)
           f == [st.retries EXCEPT ![st.step] = 0]
           m == [st EXCEPT !.step = t, !.history = h, !.retries = f]
<1>1. Moved(st, t) = m
  BY DEF Moved, State
<1>2. h \in Seq(Steps)
  BY AppendProperties DEF State
<1>3. f \in [Steps -> Nat] /\ \A s \in Steps : f[s] = IF s = st.step THEN 0 ELSE st.retries[s]
  BY DEF State
<1> HIDE DEF h, f
<1>4. m \in State /\ m.status = st.status /\ m.history = h /\ m.iters = st.iters /\ m.retries = f
  BY <1>2, <1>3 DEF State
<1>5. m # NoRun
  BY <1>4 DEF State, NoRun
<1> QED BY <1>1, <1>3, <1>4, <1>5 DEF h

LEMMA RetriedFacts ==
  ASSUME NEW st \in State, st.step \in Steps
  PROVE  LET m == Retried(st)
         IN  /\ m \in State /\ m # NoRun /\ m.step = st.step /\ m.status = st.status
             /\ m.history = st.history /\ m.iters = st.iters
             /\ \A s \in Steps : m.retries[s] = IF s = st.step THEN st.retries[s] + 1 ELSE st.retries[s]
<1> DEFINE f == [st.retries EXCEPT ![st.step] = st.retries[st.step] + 1]
           m == [st EXCEPT !.retries = f]
<1>1. Retried(st) = m
  BY DEF Retried, State
<1>2. f \in [Steps -> Nat] /\ \A s \in Steps : f[s] = IF s = st.step THEN st.retries[s] + 1 ELSE st.retries[s]
  BY DEF State
<1> HIDE DEF f
<1>3. /\ m \in State /\ m.step = st.step /\ m.status = st.status /\ m.history = st.history
      /\ m.iters = st.iters /\ m.retries = f
  BY <1>2 DEF State
<1>4. m # NoRun
  BY <1>3 DEF State, NoRun
<1> QED BY <1>1, <1>2, <1>3, <1>4

LEMMA CountedFacts ==
  ASSUME NEW st \in State, st.step \in Steps
  PROVE  LET m == Counted(st)
         IN  /\ m \in State /\ m.step = st.step /\ m.history = st.history /\ m.retries = st.retries
             /\ \A s \in Steps : m.iters[s] = IF s = st.step THEN st.iters[s] + 1 ELSE st.iters[s]
<1> DEFINE f == [st.iters EXCEPT ![st.step] = st.iters[st.step] + 1]
           m == [st EXCEPT !.iters = f]
<1>1. Counted(st) = m
  BY DEF Counted, State
<1>2. f \in [Steps -> Nat] /\ \A s \in Steps : f[s] = IF s = st.step THEN st.iters[s] + 1 ELSE st.iters[s]
  BY DEF State
<1> HIDE DEF f
<1>3. m \in State /\ m.step = st.step /\ m.history = st.history /\ m.retries = st.retries /\ m.iters = f
  BY <1>2 DEF State
<1> QED BY <1>1, <1>2, <1>3

LEMMA RedirectedFacts ==
  ASSUME NEW st \in State, st.step \in Steps
  PROVE  LET m == Redirected(st)
         IN  /\ m \in State /\ m # NoRun /\ m.status = st.status
             /\ m.history = st.history /\ m.iters = st.iters /\ m.retries = st.retries
<1>1. OnOpen[st.step] \in Places
  BY FlowAssumption
<1> QED BY <1>1 DEF Redirected, State, NoRun

LEMMA TargetPlace ==
  ASSUME NEW s \in Steps, NEW result \in Results, Target(s, result) # None
  PROVE  Target(s, result) \in Places
BY FlowAssumption DEF Target, MachineTarget, EngineTarget

LEMMA IdleType == Idle \in Process /\ Idle.at = "idle" /\ Idle.run = None /\ ~Idle.aborted
BY BoundAssumption DEF Idle, Process, Modes

----------------------------------------------------------------------------
(* Types.  A step of a process changes its own record, and stores a state  *)
(* of its run or nothing.                                                  *)

TypeInv == TypeOK /\ PlaceInv

Others(p) == proc' = [proc EXCEPT ![p] = proc'[p]]
Writes(r, st) == r \in Runs /\ st \in State /\ store' = [store EXCEPT ![r] = st]

LEMMA BecomesFacts ==
  ASSUME TypeOK, NEW p \in Procs, NEW record, Becomes(p, record)
  PROVE  proc'[p] = record /\ Others(p)
BY DEF TypeOK, Becomes, Others

LEMMA OthersFacts ==
  ASSUME TypeOK, NEW p \in Procs, Others(p)
  PROVE  /\ \A q \in Procs : q # p => proc'[q] = proc[q]
         /\ proc'[p] \in Process => proc' \in [Procs -> Process]
BY DEF TypeOK, Others

LEMMA WritesFacts ==
  ASSUME TypeOK, NEW r, NEW st, Writes(r, st)
  PROVE  /\ store' \in [Runs -> State \cup {NoRun}]
         /\ store'[r] = st /\ st # NoRun
         /\ \A x \in Runs : x # r => store'[x] = store[x]
         /\ \A x \in Runs : store[x] # NoRun => store'[x] # NoRun
<1>1. st # NoRun
  BY DEF Writes, State, NoRun
<1> QED BY <1>1 DEF Writes, TypeOK

LEMMA HolderFacts ==
  ASSUME TypeInv, NEW p \in Procs, proc[p].at \in Holding \cup {"load"}
  PROVE  /\ proc[p] \in Process /\ proc[p].run \in Runs /\ store[proc[p].run] \in State
         /\ store[proc[p].run] # NoRun
         /\ proc[p].at \in Holding => Mem(p) \in State
BY DEF TypeInv, TypeOK, PlaceInv, Placed

(* The places of the processes, after a step of one of them.               *)
LEMMA PlacedStep ==
  ASSUME TypeInv, NEW p \in Procs, Others(p), proc'[p] \in Process,
         \A x \in Runs : store[x] # NoRun => store'[x] # NoRun,
         proc'[p].at \in Holding \cup {"load"} => proc'[p].run \in Runs /\ store'[proc'[p].run] # NoRun,
         proc'[p].at \in Holding => proc'[p].mem \in State,
         proc'[p].at = "handler" => proc'[p].mem.step \in Steps /\ proc'[p].loops < MaxSteps
  PROVE  PlaceInv'
<1> SUFFICES ASSUME NEW q \in Procs PROVE Placed(q)'
  BY DEF PlaceInv
<1>1. CASE q = p
  BY <1>1 DEF Placed, Mem
<1>2. CASE q # p
  BY <1>2, OthersFacts DEF TypeInv, PlaceInv, Placed, Mem
<1> QED BY <1>1, <1>2

LEMMA IdlePlaced ==
  ASSUME TypeInv, NEW p \in Procs, Others(p), proc'[p] = Idle,
         \A x \in Runs : store[x] # NoRun => store'[x] # NoRun
  PROVE  PlaceInv'
BY IdleType, PlacedStep DEF Holding

(* Records of a process.                                                   *)
LEMMA LoopedFacts ==
  ASSUME TypeInv, NEW p \in Procs, proc[p].loops < MaxSteps, NEW st \in State
  PROVE  LET l == Looped(p, st)
         IN  /\ l \in Process /\ l.at = "loop" /\ l.run = proc[p].run /\ l.mem = st
             /\ l.resumed = proc[p].resumed
<1>1. proc[p] \in Process /\ proc[p].loops + 1 \in 0 .. MaxSteps
  BY BoundAssumption DEF TypeInv, TypeOK, Process
<1> DEFINE n == proc[p].loops + 1
<1>2. Looped(p, st) = [proc[p] EXCEPT !.at = "loop", !.mem = st, !.loops = n]
  BY DEF Looped
<1> HIDE DEF n
<1> QED BY <1>1, <1>2 DEF Process, n

LEMMA OnStepFacts ==
  ASSUME TypeOK, NEW p \in Procs, NEW l \in Process
  PROVE  LET o == OnStep(p, l)
         IN  /\ o \in Process /\ o.at = l.at /\ o.run = l.run /\ o.mem = l.mem
             /\ o.loops = l.loops /\ o.resumed = l.resumed
<1> DEFINE stop == proc[p].how # "library" /\ marker
           a == l.seen \/ stop
           b == l.aborted \/ stop
<1>1. OnStep(p, l) = [l EXCEPT !.seen = a, !.aborted = b]
  BY DEF OnStep
<1>2. a \in BOOLEAN /\ b \in BOOLEAN
  OBVIOUS
<1> HIDE DEF a, b
<1> QED BY <1>1, <1>2 DEF Process

LEMMA AtFacts ==
  ASSUME NEW l \in Process, NEW place \in {"resolve", "create", "catch", "mark", "unmark"}
  PROVE  LET o == [l EXCEPT !.at = place]
         IN  /\ o \in Process /\ o.at = place /\ o.run = l.run /\ o.mem = l.mem
             /\ o.loops = l.loops /\ o.resumed = l.resumed
BY DEF Process

----------------------------------------------------------------------------
(* What each action does to the process that takes it and to the store.    *)

(* The process takes place, with its run and st in memory.                 *)
Continues(p, place, st) ==
  /\ Others(p) /\ proc'[p] \in Process /\ proc'[p].at = place
  /\ proc'[p].run = proc[p].run /\ proc'[p].mem = st
Leaves(p) == Others(p) /\ proc'[p] = Idle

LEMMA GoesFacts ==
  ASSUME TypeInv, NEW p \in Procs,
         NEW place \in {"idle", "resolve", "create", "catch", "mark", "unmark"}, Goes(p, place)
  PROVE  IF place = "idle" THEN Leaves(p) ELSE Continues(p, place, Mem(p))
<1>1. proc[p] \in Process
  BY DEF TypeInv, TypeOK
<1>2. CASE place = "idle"
  BY <1>2, BecomesFacts DEF Goes, Leaves, TypeInv
<1>3. CASE place # "idle"
  <2> DEFINE l == [proc[p] EXCEPT !.at = place]
  <2>1. Becomes(p, l)
    BY <1>3 DEF Goes
  <2>2. l \in Process /\ l.at = place /\ l.run = proc[p].run /\ l.mem = Mem(p)
    BY <1>1, <1>3 DEF Mem, Process
  <2> HIDE DEF l
  <2>3. proc'[p] = l /\ Others(p)
    BY <2>1, BecomesFacts DEF TypeInv
  <2> QED BY <1>3, <2>2, <2>3 DEF Continues
<1> QED BY <1>2, <1>3

LEMMA SaveFacts ==
  ASSUME TypeInv, NEW p \in Procs, proc[p].run \in Runs, NEW st \in State, Save(p, st)
  PROVE  Writes(proc[p].run, st)
BY DEF Save, Writes

LEMMA EndEffect ==
  ASSUME TypeInv, NEW p \in Procs, At(p, "loop"), NEW x \in Statuses,
         NEW place \in {"idle", "catch", "mark"}, End(p, x, place)
  PROVE  LET st == [Mem(p) EXCEPT !.status = x]
         IN  /\ st \in State /\ Writes(proc[p].run, st)
             /\ IF place = "idle" THEN Leaves(p) ELSE Continues(p, place, st)
<1> DEFINE st == [Mem(p) EXCEPT !.status = x]
<1>1. /\ proc[p] \in Process /\ proc[p].run \in Runs /\ Mem(p) \in State
  BY HolderFacts DEF At, Holding
<1>2. st \in State
  BY <1>1, StatusFacts
<1>3. Writes(proc[p].run, st)
  BY <1>1, <1>2, SaveFacts DEF End
<1>4. CASE place = "idle"
  <2>1. Becomes(p, Idle)
    BY <1>4 DEF End
  <2> QED BY <1>2, <1>3, <1>4, <2>1, BecomesFacts DEF Leaves, TypeInv
<1>5. CASE place # "idle"
  <2> DEFINE l == [proc[p] EXCEPT !.at = place, !.mem = st]
  <2>1. Becomes(p, [proc[p] EXCEPT !.at = place, !.mem.status = x])
    BY <1>5 DEF End
  <2>2. [proc[p] EXCEPT !.at = place, !.mem.status = x] = l
    BY <1>1 DEF Mem, Process
  <2> HIDE DEF st
  <2>3. l \in Process /\ l.at = place /\ l.run = proc[p].run /\ l.mem = st
    BY <1>1, <1>2 DEF Process
  <2> HIDE DEF l
  <2>4. proc'[p] = l /\ Others(p)
    BY <2>1, <2>2, BecomesFacts DEF TypeInv
  <2> QED BY <1>2, <1>3, <1>5, <2>3, <2>4 DEF Continues, st
<1> QED BY <1>2, <1>3, <1>4, <1>5

(* A process that holds no run goes to a place where it holds none.        *)
Waits(p) ==
  /\ Others(p) /\ proc'[p] \in Process /\ proc'[p].at \notin Holding
  /\ proc'[p].at = "load" => proc'[p].run \in Runs /\ store[proc'[p].run] # NoRun
  /\ UNCHANGED store

LEMMA WaitsPlaced ==
  ASSUME TypeInv, NEW p \in Procs, Waits(p)
  PROVE  PlaceInv'
BY PlacedStep DEF Waits, Holding

LEMMA ContinuesPlaced ==
  ASSUME TypeInv, NEW p \in Procs, proc[p].at \in Holding,
         NEW place \in Holding \ {"handler"}, NEW st \in State, Continues(p, place, st),
         \A x \in Runs : store[x] # NoRun => store'[x] # NoRun
  PROVE  PlaceInv'
<1>1. proc[p].run \in Runs /\ store[proc[p].run] # NoRun
  BY HolderFacts
<1> QED BY <1>1, PlacedStep DEF Continues

LEMMA LaunchEffect ==
  ASSUME TypeInv, NEW p \in Procs, NEW mode \in Modes, NEW place \in {"clear", "create", "load"},
         NEW run \in Runs \cup {None}, place = "load" => run \in Runs /\ store[run] # NoRun,
         Launch(p, mode, place, run)
  PROVE  ~(proc[p].at \in Holding) /\ Waits(p)
<1> DEFINE l == [Idle EXCEPT !.at = place, !.how = mode, !.run = run]
<1>1. l \in Process /\ l.at = place /\ l.run = run
  BY IdleType DEF Process
<1>2. Becomes(p, l) /\ UNCHANGED store /\ At(p, "idle")
  BY DEF Launch
<1> HIDE DEF l
<1>3. proc'[p] = l /\ Others(p)
  BY <1>2, BecomesFacts DEF TypeInv
<1> QED BY <1>1, <1>2, <1>3 DEF Waits, Holding, At

LEMMA ClearEffect ==
  ASSUME TypeInv, NEW p \in Procs, ClearMarker(p)
  PROVE  ~(proc[p].at \in Holding) /\ Waits(p)
<1>1. UNCHANGED store /\ proc[p].at = "clear" /\ proc[p] \in Process
  BY DEF ClearMarker, At, TypeInv, TypeOK
<1>2. CASE Becomes(p, [proc[p] EXCEPT !.at = "create", !.how = "run"])
  <2> DEFINE l == [proc[p] EXCEPT !.at = "create", !.how = "run"]
  <2>1. l \in Process /\ l.at = "create"
    BY <1>1 DEF Process, Modes
  <2> HIDE DEF l
  <2>2. proc'[p] = l /\ Others(p)
    BY <1>2, BecomesFacts DEF TypeInv, l
  <2> QED BY <1>1, <2>1, <2>2 DEF Waits, Holding
<1>3. CASE Goes(p, "resolve")
  BY <1>1, <1>3, GoesFacts DEF Continues, Waits, Holding
<1> QED BY <1>2, <1>3 DEF ClearMarker

LEMMA ResolveEffect ==
  ASSUME TypeInv, NEW p \in Procs, ResolveRun(p)
  PROVE  ~(proc[p].at \in Holding) /\ Waits(p)
<1>1. UNCHANGED store /\ proc[p].at = "resolve" /\ proc[p] \in Process
  BY DEF ResolveRun, At, TypeInv, TypeOK
<1>2. ASSUME NEW r \in Paused, Becomes(p, [proc[p] EXCEPT !.at = "load", !.run = r, !.how = "run"])
      PROVE  Waits(p)
  <2> DEFINE l == [proc[p] EXCEPT !.at = "load", !.run = r, !.how = "run"]
  <2>1. r \in Runs /\ store[r] # NoRun
    BY DEF Paused, NoRun
  <2>2. l \in Process /\ l.at = "load" /\ l.run = r
    BY <1>1, <2>1 DEF Process, Modes
  <2> HIDE DEF l
  <2>3. proc'[p] = l /\ Others(p)
    BY <1>2, BecomesFacts DEF TypeInv, l
  <2> QED BY <1>1, <2>1, <2>2, <2>3 DEF Waits, Holding
<1>3. CASE Goes(p, "create")
  BY <1>1, <1>3, GoesFacts DEF Continues, Waits, Holding
<1>4. CASE Goes(p, "idle")
  BY <1>1, <1>4, GoesFacts, IdleType DEF Leaves, Waits, Holding
<1> QED BY <1>1, <1>2, <1>3, <1>4 DEF ResolveRun, Holding

LEMMA CreateEffect ==
  ASSUME TypeInv, NEW p \in Procs, Create(p)
  PROVE  /\ ~(proc[p].at \in Holding)
         /\ \E r \in Runs : /\ store[r] = NoRun /\ Writes(r, Initial) /\ Others(p)
                           /\ proc'[p] \in Process /\ proc'[p].at = "loop"
                           /\ proc'[p].run = r /\ proc'[p].mem = Initial
<1>1. PICK r \in Runs : /\ IsNew(r) /\ store' = [store EXCEPT ![r] = Initial]
                       /\ Becomes(p, [proc[p] EXCEPT !.at = "loop", !.run = r, !.mem = Initial])
  BY DEF Create
<1> DEFINE l == [proc[p] EXCEPT !.at = "loop", !.run = r, !.mem = Initial]
<1>2. l \in Process /\ l.at = "loop" /\ l.run = r /\ l.mem = Initial
  <2>1. proc[p] \in Process /\ Initial \in State
    BY InitialFacts DEF TypeInv, TypeOK
  <2> HIDE DEF Initial
  <2> QED BY <2>1 DEF Process
<1> HIDE DEF l
<1>3. proc'[p] = l /\ Others(p)
  BY <1>1, BecomesFacts DEF TypeInv, l
<1> QED BY <1>1, <1>2, <1>3, InitialFacts DEF IsNew, Writes, Create, At, Holding

LEMMA LoadEffect ==
  ASSUME TypeInv, NEW p \in Procs, Load(p)
  PROVE  /\ proc[p].at = "load" /\ UNCHANGED store
         /\ \/ Ended(store[proc[p].run]) /\ Leaves(p) /\ UNCHANGED meddled
            \/ /\ ~Ended(store[proc[p].run]) /\ Continues(p, "restore", store[proc[p].run])
               /\ meddled' = [meddled EXCEPT ![proc[p].run] =
                                @ \/ Driving(proc[p].run) # {p} \/ pausing.run = proc[p].run]
<1> DEFINE r == proc[p].run
<1>1. proc[p] \in Process /\ store[r] \in State /\ proc[p].at = "load" /\ UNCHANGED store
  BY HolderFacts DEF Load, At
<1>2. CASE Ended(store[r]) /\ Goes(p, "idle") /\ UNCHANGED meddled
  BY <1>1, <1>2, GoesFacts
<1>3. CASE /\ ~Ended(store[r])
           /\ Becomes(p, [proc[p] EXCEPT !.at = "restore", !.mem = store[r]])
           /\ meddled' = [meddled EXCEPT ![r] = @ \/ Driving(r) # {p} \/ pausing.run = r]
  <2> DEFINE l == [proc[p] EXCEPT !.at = "restore", !.mem = store[r]]
  <2>1. l \in Process /\ l.at = "restore" /\ l.run = r /\ l.mem = store[r]
    BY <1>1 DEF Process
  <2> HIDE DEF l
  <2>2. proc'[p] = l /\ Others(p)
    BY <1>3, BecomesFacts DEF TypeInv, l
  <2> QED BY <1>1, <1>3, <2>1, <2>2 DEF Continues
<1> QED BY <1>1, <1>2, <1>3 DEF Load

LEMMA RestoreEffect ==
  ASSUME TypeInv, NEW p \in Procs, Restore(p)
  PROVE  LET st == [Mem(p) EXCEPT !.status = "running"]
         IN  /\ proc[p].at = "restore" /\ st \in State
             /\ Writes(proc[p].run, st) /\ Continues(p, "loop", st)
<1> DEFINE st == [Mem(p) EXCEPT !.status = "running"]
           l == [proc[p] EXCEPT !.at = "loop", !.mem = st, !.resumed = TRUE]
<1>1. /\ proc[p] \in Process /\ proc[p].run \in Runs /\ Mem(p) \in State
      /\ proc[p].at = "restore" /\ Save(p, st) /\ Becomes(p, l)
  BY HolderFacts DEF Restore, At, Holding
<1>2. st \in State
  BY <1>1, StatusFacts DEF Statuses
<1> HIDE DEF st
<1>3. l \in Process /\ l.at = "loop" /\ l.run = proc[p].run /\ l.mem = st
  BY <1>1, <1>2 DEF Process
<1> HIDE DEF l
<1>4. proc'[p] = l /\ Others(p)
  BY <1>1, BecomesFacts DEF TypeInv
<1>5. Continues(p, "loop", st)
  BY <1>3, <1>4 DEF Continues
<1>6. Writes(proc[p].run, st)
  BY <1>1, <1>2, SaveFacts
<1> QED BY <1>1, <1>2, <1>5, <1>6 DEF st

(* The four ways in which a loop ends.                                     *)
Exits(p) == Cancel(p) \/ Timeout(p) \/ Exhaust(p) \/ Complete(p)
LEMMA ExitEffect ==
  ASSUME TypeInv, NEW p \in Procs, Exits(p)
  PROVE  /\ proc[p].at = "loop" /\ UNCHANGED ghosts
         /\ \E x \in {"cancelled", "completed"} :
              LET st == [Mem(p) EXCEPT !.status = x]
              IN  /\ st \in State /\ Writes(proc[p].run, st)
                  /\ \/ Leaves(p) /\ UNCHANGED throws
                     \/ Continues(p, "mark", st) /\ x = "cancelled" /\ UNCHANGED throws
                     \/ Continues(p, "catch", st) /\ throws' = throws + 1
<1>1. proc[p].at = "loop" /\ UNCHANGED ghosts
  BY DEF Exits, Cancel, Timeout, Exhaust, Complete, MayGoOn, InLoop, At, End
<1>2. ASSUME NEW place \in {"mark", "idle"}, End(p, "cancelled", place), UNCHANGED throws
      PROVE  LET st == [Mem(p) EXCEPT !.status = "cancelled"]
             IN  /\ st \in State /\ Writes(proc[p].run, st)
                 /\ Leaves(p) \/ Continues(p, "mark", st)
  BY <1>1, <1>2, EndEffect DEF Statuses, At
<1>3. ASSUME NEW place \in {"catch", "idle"}, End(p, "completed", place)
      PROVE  LET st == [Mem(p) EXCEPT !.status = "completed"]
             IN  /\ st \in State /\ Writes(proc[p].run, st)
                 /\ IF place = "idle" THEN Leaves(p) ELSE Continues(p, "catch", st)
  BY <1>1, <1>3, EndEffect DEF Statuses, At
<1>4. CASE Cancel(p)
  <2>1. PICK place \in {"mark", "idle"} : End(p, "cancelled", place) /\ UNCHANGED throws
    BY <1>4 DEF Cancel
  <2> QED BY <1>1, <1>2, <2>1
<1>5. CASE End(p, "completed", "idle") /\ UNCHANGED throws
  BY <1>1, <1>3, <1>5
<1>6. CASE End(p, "completed", "catch") /\ throws' = throws + 1
  BY <1>1, <1>3, <1>6
<1> QED BY <1>4, <1>5, <1>6 DEF Exits, Timeout, Exhaust, Complete

LEMMA RedirectEffect ==
  ASSUME TypeInv, NEW p \in Procs, Redirect(p)
  PROVE  /\ proc[p].at = "loop" /\ Mem(p).step \in Steps
         /\ Writes(proc[p].run, Redirected(Mem(p))) /\ Continues(p, "loop", Redirected(Mem(p)))
<1> DEFINE l == Looped(p, Redirected(Mem(p)))
<1>1. /\ Mem(p) \in State /\ proc[p].run \in Runs /\ proc[p].at = "loop" /\ Mem(p).step \in Steps
      /\ proc[p].loops < MaxSteps /\ Save(p, Redirected(Mem(p))) /\ Becomes(p, l)
  BY HolderFacts DEF Redirect, AtStep, MayGoOn, InLoop, At, Holding
<1>2. Redirected(Mem(p)) \in State
  BY <1>1, RedirectedFacts
<1>3. l \in Process /\ l.at = "loop" /\ l.run = proc[p].run /\ l.mem = Redirected(Mem(p))
  BY <1>1, <1>2, LoopedFacts
<1> HIDE DEF l
<1>4. proc'[p] = l /\ Others(p)
  BY <1>1, BecomesFacts DEF TypeInv
<1>5. Writes(proc[p].run, Redirected(Mem(p)))
  BY <1>1, <1>2, SaveFacts
<1> QED BY <1>1, <1>3, <1>4, <1>5 DEF Continues

LEMMA CallEffect ==
  ASSUME TypeInv, NEW p \in Procs, CallHandler(p)
  PROVE  /\ proc[p].at = "loop" /\ Mem(p).step \in Steps /\ UNCHANGED store
         /\ ~BreakerOpen(Mem(p)) /\ Continues(p, "handler", Counted(Mem(p)))
         /\ proc'[p].loops < MaxSteps
<1> DEFINE l == [proc[p] EXCEPT !.at = "handler", !.mem = Counted(Mem(p))]
<1>1. /\ Mem(p) \in State /\ proc[p] \in Process /\ proc[p].at = "loop" /\ Mem(p).step \in Steps
      /\ proc[p].loops < MaxSteps /\ UNCHANGED store /\ ~BreakerOpen(Mem(p))
  BY HolderFacts DEF CallHandler, AtStep, MayGoOn, InLoop, At, Holding
<1>2. Counted(Mem(p)) \in State
  BY <1>1, CountedFacts
<1>3. Becomes(p, l)
  BY <1>1 DEF CallHandler, Mem, Process
<1>4. l \in Process /\ l.at = "handler" /\ l.run = proc[p].run /\ l.mem = Counted(Mem(p))
      /\ l.loops = proc[p].loops
  BY <1>1, <1>2 DEF Process
<1> HIDE DEF l
<1>5. proc'[p] = l /\ Others(p)
  BY <1>3, BecomesFacts DEF TypeInv
<1> QED BY <1>1, <1>4, <1>5 DEF Continues

(* What comes of a step: a retry, an end in the catch, or a transition.    *)
Retrying(p) ==
  /\ Mem(p).retries[Mem(p).step] < RetryLimit[Mem(p).step]
  /\ Continues(p, "loop", Retried(Mem(p))) /\ UNCHANGED did
  /\ IF engine = "machine" THEN Writes(proc[p].run, Retried(Mem(p))) ELSE UNCHANGED store
Throwing(p) == Continues(p, "catch", Mem(p)) /\ UNCHANGED <<store, did>>
Moving(p) ==
  \E t \in Places, place \in {"loop", "catch"} :
    /\ Continues(p, place, Moved(Mem(p), t)) /\ Writes(proc[p].run, Moved(Mem(p), t))
    /\ did' = [did EXCEPT ![proc[p].run] = Append(@, Mem(p).step)]

LEMMA RetryRecord ==
  ASSUME TypeInv, NEW p \in Procs, At(p, "handler"), NEW l \in Process, NEW st \in State,
         l.at \in {"loop", "catch"}, l.run = proc[p].run, l.mem = st, Becomes(p, l)
  PROVE  Continues(p, l.at, st)
BY BecomesFacts DEF TypeInv, Continues

LEMMA MovesEffect ==
  ASSUME TypeInv, NEW p \in Procs, At(p, "handler"), Mem(p) \in State, Mem(p).step \in Steps,
         proc[p].run \in Runs, proc[p].loops < MaxSteps, NEW result \in Results, Moves(p, result)
  PROVE  Moving(p)
<1> DEFINE t == Target(Mem(p).step, result)
           st == Moved(Mem(p), t)
           l == OnStep(p, Looped(p, st))
           o == [l EXCEPT !.at = "catch"]
<1>1. t \in Places
  BY TargetPlace DEF Moves
<1>2. st \in State
  BY <1>1, MovedFacts
<1>3. Looped(p, st) \in Process /\ Looped(p, st).at = "loop" /\ Looped(p, st).run = proc[p].run
      /\ Looped(p, st).mem = st
  BY <1>2, LoopedFacts
<1>4. l \in Process /\ l.at = "loop" /\ l.run = proc[p].run /\ l.mem = st
  BY <1>3, OnStepFacts DEF TypeInv
<1>5. /\ Save(p, st) /\ did' = [did EXCEPT ![proc[p].run] = Append(@, Mem(p).step)]
      /\ Becomes(p, l) \/ Becomes(p, o)
  BY DEF Moves
<1>6. Writes(proc[p].run, st)
  BY <1>2, <1>5, SaveFacts
<1> HIDE DEF l
<1>7. o \in Process /\ o.at = "catch" /\ o.run = proc[p].run /\ o.mem = st
  BY <1>4, AtFacts
<1> HIDE DEF o, st, t
<1>8. Continues(p, "loop", st) \/ Continues(p, "catch", st)
  BY <1>2, <1>4, <1>5, <1>7, RetryRecord
<1> QED BY <1>1, <1>5, <1>6, <1>8 DEF Moving, st

LEMMA ReturnEffect ==
  ASSUME TypeInv, NEW p \in Procs, NEW result \in Results,
         MachineReturn(p, result) \/ EngineReturn(p, result)
  PROVE  /\ proc[p].at = "handler" /\ Mem(p).step \in Steps
         /\ Retrying(p) \/ Throwing(p) \/ Moving(p)
<1>1. /\ At(p, "handler") /\ proc[p].at = "handler" /\ Mem(p) \in State /\ Mem(p).step \in Steps
      /\ proc[p].run \in Runs /\ proc[p].loops < MaxSteps
  <2>1. proc[p].at = "handler"
    BY DEF MachineReturn, EngineReturn, At
  <2> QED BY <2>1, HolderFacts DEF At, Holding, TypeInv, PlaceInv, Placed
<1> DEFINE st == Retried(Mem(p))
           l == Looped(p, st)
           o == OnStep(p, l)
<1>2. st \in State
  BY <1>1, RetriedFacts
<1>3. l \in Process /\ l.at = "loop" /\ l.run = proc[p].run /\ l.mem = st
  BY <1>1, <1>2, LoopedFacts
<1>4. o \in Process /\ o.at = "loop" /\ o.run = proc[p].run /\ o.mem = st
  BY <1>3, OnStepFacts DEF TypeInv
<1>5. CASE /\ engine = "machine" /\ Retries(Mem(p), result) /\ Save(p, st) /\ Becomes(p, o)
           /\ UNCHANGED did
  <2>1. Writes(proc[p].run, st)
    BY <1>1, <1>2, <1>5, SaveFacts
  <2> HIDE DEF o
  <2>2. Continues(p, "loop", st)
    BY <1>1, <1>2, <1>4, <1>5, RetryRecord
  <2> QED BY <1>1, <1>5, <2>1, <2>2 DEF Retrying, Retries
<1>6. CASE /\ engine = "engine" /\ Retries(Mem(p), result) /\ Becomes(p, l)
           /\ UNCHANGED <<store, did>>
  <2> HIDE DEF l
  <2>1. Continues(p, "loop", st)
    BY <1>1, <1>2, <1>3, <1>6, RetryRecord
  <2> QED BY <1>1, <1>6, <2>1 DEF Retrying, Retries
<1>7. CASE Goes(p, "catch") /\ UNCHANGED <<store, did>>
  BY <1>1, <1>7, GoesFacts DEF Throwing
<1>8. CASE Moves(p, result)
  BY <1>1, <1>8, MovesEffect
<1> QED BY <1>1, <1>5, <1>6, <1>7, <1>8 DEF MachineReturn, EngineReturn, NoTransition

LEMMA CatchEffect ==
  ASSUME TypeInv, NEW p \in Procs, Catch(p)
  PROVE  /\ proc[p].at = "catch" /\ Leaves(p)
         /\ \/ /\ Writes(proc[p].run, CaughtState(p)) /\ UNCHANGED lost
               /\ CaughtState(p).status = "failed"
               /\ engine = "machine" \/ /\ CaughtState(p).history = Mem(p).history
                                        /\ CaughtState(p).iters = Mem(p).iters
                                        /\ CaughtState(p).retries = Mem(p).retries
            \/ UNCHANGED store /\ lost' = [lost EXCEPT ![proc[p].run] = @ + 1]
<1>1. /\ proc[p].at = "catch" /\ proc[p].run \in Runs /\ Mem(p) \in State /\ Goes(p, "idle")
  BY HolderFacts DEF Catch, At, Holding
<1>2. Leaves(p)
  BY <1>1, GoesFacts
<1> DEFINE st == IF engine = "machine" THEN Initial ELSE Mem(p)
<1>3. st \in State
  BY <1>1, InitialFacts
<1>4. CaughtState(p) = [st EXCEPT !.status = "failed"]
  BY DEF CaughtState
<1>5. /\ CaughtState(p) \in State /\ CaughtState(p).status = "failed"
      /\ CaughtState(p).history = st.history /\ CaughtState(p).iters = st.iters
      /\ CaughtState(p).retries = st.retries
  <2> HIDE DEF st
  <2> QED BY <1>3, <1>4 DEF State
<1>6. CASE ~proc[p].resumed /\ Save(p, CaughtState(p)) /\ UNCHANGED lost
  <2>1. Writes(proc[p].run, CaughtState(p))
    BY <1>1, <1>5, <1>6, SaveFacts
  <2> QED BY <1>1, <1>2, <1>5, <1>6, <2>1
<1>7. CASE UNCHANGED store /\ lost' = [lost EXCEPT ![proc[p].run] = @ + 1]
  BY <1>1, <1>2, <1>7
<1> QED BY <1>6, <1>7 DEF Catch

LEMMA MarkEffect ==
  ASSUME TypeInv, NEW p \in Procs, MarkPaused(p)
  PROVE  LET st == [store[proc[p].run] EXCEPT !.status = "paused"]
         IN  /\ proc[p].at = "mark" /\ st \in State
             /\ Writes(proc[p].run, st) /\ Continues(p, "unmark", Mem(p))
<1>1. /\ proc[p].at = "mark" /\ proc[p].run \in Runs /\ store[proc[p].run] \in State
      /\ Goes(p, "unmark") /\ Save(p, [store[proc[p].run] EXCEPT !.status = "paused"])
  BY HolderFacts DEF MarkPaused, At, Holding
<1> DEFINE st == [store[proc[p].run] EXCEPT !.status = "paused"]
<1>2. st \in State
  BY <1>1, StatusFacts DEF Statuses
<1>3. Writes(proc[p].run, st)
  BY <1>1, <1>2, SaveFacts
<1>4. Continues(p, "unmark", Mem(p))
  BY <1>1, GoesFacts
<1> QED BY <1>1, <1>2, <1>3, <1>4

LEMMA AbortEffect ==
  ASSUME TypeInv, NEW p \in Procs, Abort(p)
  PROVE  /\ proc[p].at \in {"loop", "handler"} /\ Continues(p, proc[p].at, Mem(p))
         /\ proc'[p].loops = proc[p].loops
<1> DEFINE l == [proc[p] EXCEPT !.aborted = TRUE]
<1>1. proc[p] \in Process /\ Becomes(p, l) /\ proc[p].at \in {"loop", "handler"}
  BY DEF Abort, TypeInv, TypeOK
<1>2. /\ l \in Process /\ l.at = proc[p].at /\ l.run = proc[p].run /\ l.mem = Mem(p)
      /\ l.loops = proc[p].loops
  BY <1>1 DEF Process, Mem
<1> HIDE DEF l
<1>3. proc'[p] = l /\ Others(p)
  BY <1>1, BecomesFacts DEF TypeInv
<1> QED BY <1>1, <1>2, <1>3 DEF Continues

----------------------------------------------------------------------------
(* Type correctness.                                                       *)

Working == /\ store \in [Runs -> State \cup {NoRun}] /\ proc \in [Procs -> Process]
           /\ PlaceInv

LEMMA StoreSame ==
  ASSUME TypeInv, UNCHANGED store
  PROVE  store' \in [Runs -> State \cup {NoRun}] /\ \A x \in Runs : store[x] # NoRun => store'[x] # NoRun
BY DEF TypeInv, TypeOK

LEMMA WorkStep ==
  ASSUME TypeInv, Next
  PROVE  Working'
<1> USE DEF Working
<1>1. ASSUME NEW p \in Procs, Waits(p) PROVE Working'
  BY <1>1, WaitsPlaced, OthersFacts, StoreSame DEF Waits, TypeInv
<1>2. ASSUME NEW p \in Procs, Leaves(p),
             \/ UNCHANGED store
             \/ \E r, st : Writes(r, st)
      PROVE  Working'
  <2>1. store' \in [Runs -> State \cup {NoRun}] /\ \A x \in Runs : store[x] # NoRun => store'[x] # NoRun
    BY <1>2, StoreSame, WritesFacts DEF TypeInv
  <2>2. PlaceInv' /\ proc' \in [Procs -> Process]
    BY <1>2, <2>1, IdlePlaced, IdleType, OthersFacts DEF Leaves, TypeInv
  <2> QED BY <2>1, <2>2
<1>3. ASSUME NEW p \in Procs, proc[p].at \in Holding, NEW place \in Holding \ {"handler"},
             NEW m \in State, Continues(p, place, m),
             \/ UNCHANGED store
             \/ \E r, st : Writes(r, st)
      PROVE  Working'
  <2>1. store' \in [Runs -> State \cup {NoRun}] /\ \A x \in Runs : store[x] # NoRun => store'[x] # NoRun
    BY <1>3, StoreSame, WritesFacts DEF TypeInv
  <2>2. PlaceInv' /\ proc' \in [Procs -> Process]
    BY <1>3, <2>1, ContinuesPlaced, OthersFacts DEF Continues, TypeInv
  <2> QED BY <2>1, <2>2
<1>4. ASSUME NEW p \in Procs, proc[p].at \in Holding, NEW m \in State, Continues(p, "handler", m),
             m.step \in Steps, proc'[p].loops < MaxSteps, UNCHANGED store
      PROVE  Working'
  <2>1. store' \in [Runs -> State \cup {NoRun}] /\ \A x \in Runs : store[x] # NoRun => store'[x] # NoRun
    BY <1>4, StoreSame
  <2>2. proc[p].run \in Runs /\ store[proc[p].run] # NoRun
    BY <1>4, HolderFacts
  <2>3. PlaceInv'
    BY <1>4, <2>1, <2>2, PlacedStep DEF Continues
  <2> QED BY <1>4, <2>1, <2>3, OthersFacts DEF Continues, TypeInv
<1>5. ASSUME NEW p \in Procs, proc[p].at \in Holding PROVE Mem(p) \in State /\ proc[p].run \in Runs
  BY <1>5, HolderFacts
<1>6. ASSUME NEW p \in Procs, Work(p) PROVE Working'
  <2>1. CASE ClearMarker(p)
    BY <1>1, <2>1, ClearEffect
  <2>2. CASE ResolveRun(p)
    BY <1>1, <2>2, ResolveEffect
  <2>3. CASE Create(p)
    <3>1. PICK r \in Runs : /\ Writes(r, Initial) /\ Others(p)
                           /\ proc'[p] \in Process /\ proc'[p].at = "loop"
                           /\ proc'[p].run = r /\ proc'[p].mem = Initial
      BY <2>3, CreateEffect
    <3>2. PlaceInv'
      BY <3>1, WritesFacts, InitialFacts, PlacedStep DEF TypeInv
    <3> QED BY <3>1, <3>2, WritesFacts, OthersFacts DEF TypeInv
  <2>4. CASE Load(p)
    <3>1. CASE Leaves(p)
      BY <1>2, <2>4, <3>1, LoadEffect
    <3>2. CASE Continues(p, "restore", store[proc[p].run])
      <4>1. /\ store[proc[p].run] \in State /\ store[proc[p].run] # NoRun
            /\ proc[p].run \in Runs /\ UNCHANGED store
        BY <2>4, LoadEffect, HolderFacts
      <4>2. PlaceInv'
        BY <3>2, <4>1, PlacedStep DEF Continues
      <4> QED BY <3>2, <4>1, <4>2, StoreSame, OthersFacts DEF Continues, TypeInv
    <3> QED BY <2>4, <3>1, <3>2, LoadEffect
  <2>5. CASE Restore(p)
    BY <1>3, <2>5, RestoreEffect DEF Holding
  <2>6. CASE Exits(p)
    BY <1>2, <1>3, <2>6, ExitEffect DEF Holding
  <2>7. CASE Redirect(p)
    BY <1>3, <2>7, RedirectEffect DEF Holding, Writes
  <2>8. CASE CallHandler(p)
    BY <1>4, <1>5, <2>8, CallEffect, CountedFacts DEF Holding
  <2>9. ASSUME NEW result \in Results, MachineReturn(p, result) \/ EngineReturn(p, result)
        PROVE  Working'
    <3>1. proc[p].at \in Holding /\ Mem(p) \in State /\ Mem(p).step \in Steps
      BY <1>5, <2>9, ReturnEffect DEF Holding
    <3>2. CASE Retrying(p)
      BY <1>3, <3>1, <3>2, RetriedFacts DEF Retrying, Holding
    <3>3. CASE Throwing(p)
      BY <1>3, <3>1, <3>3 DEF Throwing, Holding
    <3>4. CASE Moving(p)
      BY <1>3, <3>1, <3>4, MovedFacts DEF Moving, Holding
    <3> QED BY <2>9, <3>2, <3>3, <3>4, ReturnEffect
  <2>10. CASE Catch(p)
    BY <1>2, <2>10, CatchEffect
  <2>11. CASE MarkPaused(p)
    BY <1>3, <1>5, <2>11, MarkEffect DEF Holding
  <2>12. CASE Unmark(p)
    BY <1>2, <2>12, GoesFacts DEF Unmark
  <2> QED BY <1>6, <2>1, <2>2, <2>3, <2>4, <2>5, <2>6, <2>7, <2>8, <2>9, <2>10, <2>11, <2>12
          DEF Work, Exits
<1>7. ASSUME NEW p \in Procs, LaunchCli(p) \/ LaunchRun(p) \/ LaunchResume(p) PROVE Working'
  <2>1. CASE LaunchCli(p)
    <3>1. PICK mode \in {"run", "data", "resume"} : Launch(p, mode, "clear", None)
      BY <2>1 DEF LaunchCli
    <3> QED BY <1>1, <3>1, LaunchEffect DEF Modes
  <2>2. CASE LaunchRun(p)
    BY <1>1, <2>2, LaunchEffect DEF LaunchRun, Modes
  <2>3. CASE LaunchResume(p)
    BY <1>1, <2>3, LaunchEffect DEF LaunchResume, Modes
  <2> QED BY <1>7, <2>1, <2>2, <2>3
<1>8. ASSUME NEW p \in Procs, Abort(p) PROVE Working'
  <2>1. CASE proc[p].at = "loop"
    BY <1>3, <1>5, <1>8, <2>1, AbortEffect DEF Abort, Holding
  <2>2. CASE proc[p].at = "handler"
    <3>1. Mem(p).step \in Steps /\ proc[p].loops < MaxSteps
      BY <2>2 DEF TypeInv, PlaceInv, Placed
    <3> QED BY <1>4, <1>5, <1>8, <2>2, <3>1, AbortEffect DEF Abort, Holding
  <2> QED BY <1>8, <2>1, <2>2, AbortEffect
<1>9. ASSUME NEW p \in Procs, Crash(p) PROVE Working'
  BY <1>2, <1>9, GoesFacts DEF Crash
<1>10. ASSUME UNCHANGED proc, UNCHANGED store \/ \E r, st : Writes(r, st) PROVE Working'
  <2>1. store' \in [Runs -> State \cup {NoRun}] /\ \A x \in Runs : store[x] # NoRun => store'[x] # NoRun
    BY <1>10, StoreSame, WritesFacts DEF TypeInv
  <2> QED BY <1>10, <2>1 DEF TypeInv, TypeOK, PlaceInv, Placed, Mem
<1>11. CASE PauseSave
  <2>1. pausing.run \in Runs /\ pausing.state \in State
    BY <1>11 DEF PauseSave, TypeInv, TypeOK
  <2>2. [pausing.state EXCEPT !.status = "paused"] \in State
    BY <2>1, StatusFacts DEF Statuses
  <2> QED BY <1>10, <1>11, <2>1, <2>2 DEF PauseSave, Writes
<1> QED BY <1>6, <1>7, <1>8, <1>9, <1>10, <1>11 DEF Next, RequestPause, PauseLoad

(* What is counted and recorded about the runs.                            *)
Counting == engine \in Engines /\ marker \in BOOLEAN
            /\ launches \in 0 .. MaxLaunches /\ {throws, crashes} \subseteq 0 .. MaxFaults
            /\ pauses \in 0 .. MaxPauses
Recording == /\ did \in [Runs -> Seq(Steps)] /\ starts \in [Runs -> [Steps -> Nat]]
             /\ lost \in [Runs -> Nat] /\ meddled \in [Runs -> BOOLEAN]

LEMMA CountingStep ==
  ASSUME TypeInv, Next
  PROVE  Counting'
<1> USE BoundAssumption DEF Counting, bounds, TypeInv, TypeOK
<1>1. CASE UNCHANGED <<engine, marker, launches, throws, crashes, pauses>>
  BY <1>1
<1>2. ASSUME NEW p \in Procs, NEW mode, NEW place, NEW run, Launch(p, mode, place, run) PROVE Counting'
  BY <1>2 DEF Launch
<1>3. ASSUME NEW p \in Procs, Work(p) PROVE Counting'
  <2>1. ASSUME UNCHANGED <<engine, marker, launches, crashes, pauses>>,
               throws' = throws + 1 /\ MayFail
        PROVE  Counting'
    BY <2>1 DEF MayFail
  <2>2. CASE ClearMarker(p) \/ Unmark(p)
    BY <2>2 DEF ClearMarker, Unmark
  <2>3. CASE ResolveRun(p) \/ Create(p) \/ Load(p) \/ Restore(p) \/ Redirect(p)
    BY <2>3, <1>1 DEF ResolveRun, Create, Load, Restore, Redirect
  <2>4. CASE CallHandler(p) \/ Catch(p) \/ MarkPaused(p)
    BY <2>4, <1>1 DEF CallHandler, Catch, MarkPaused
  <2>5. CASE Cancel(p) \/ Timeout(p) \/ Exhaust(p) \/ Complete(p)
    BY <2>5, <1>1, <2>1 DEF Cancel, Timeout, Exhaust, Complete, End
  <2>6. ASSUME NEW result \in Results, MachineReturn(p, result) PROVE Counting'
    BY <2>6, <1>1, <2>1 DEF MachineReturn, NoTransition, Moves
  <2>7. ASSUME NEW result \in Results, EngineReturn(p, result) PROVE Counting'
    BY <2>7, <1>1, <2>1 DEF EngineReturn, NoTransition, Moves
  <2> QED BY <1>3, <2>2, <2>3, <2>4, <2>5, <2>6, <2>7 DEF Work
<1>4. ASSUME NEW p \in Procs, LaunchCli(p) \/ LaunchRun(p) \/ LaunchResume(p) PROVE Counting'
  BY <1>2, <1>4 DEF LaunchCli, LaunchRun, LaunchResume
<1>5. ASSUME NEW p \in Procs, Abort(p) PROVE Counting'
  BY <1>5 DEF Abort
<1>6. ASSUME NEW p \in Procs, Crash(p) PROVE Counting'
  BY <1>6 DEF Crash, MayFail
<1>7. CASE RequestPause
  BY <1>7 DEF RequestPause
<1>8. ASSUME NEW r \in Runs, PauseLoad(r) PROVE Counting'
  BY <1>8 DEF PauseLoad
<1>9. CASE PauseSave
  BY <1>9, <1>1 DEF PauseSave
<1> QED BY <1>3, <1>4, <1>5, <1>6, <1>7, <1>8, <1>9 DEF Next

LEMMA RecordingStep ==
  ASSUME TypeInv, Next
  PROVE  Recording'
<1> USE DEF Recording, ghosts
<1>1. Recording
  BY DEF TypeInv, TypeOK
<1>2. ASSUME UNCHANGED ghosts PROVE Recording'
  BY <1>1, <1>2
<1>3. ASSUME NEW p \in Procs, Work(p) PROVE Recording'
  <2>1. CASE ClearMarker(p) \/ Unmark(p) \/ ResolveRun(p) \/ Create(p) \/ Restore(p) \/ Redirect(p)
             \/ MarkPaused(p)
    BY <1>2, <2>1 DEF ClearMarker, Unmark, ResolveRun, Create, Restore, Redirect, MarkPaused
  <2>2. CASE Exits(p)
    BY <1>2, <2>2, ExitEffect
  <2>3. CASE Load(p)
    <3>1. UNCHANGED <<did, starts, lost>>
      BY <2>3 DEF Load
    <3>2. meddled' \in [Runs -> BOOLEAN]
      BY <1>1, <2>3, LoadEffect
    <3> QED BY <1>1, <3>1, <3>2
  <2>4. CASE CallHandler(p)
    <3>1. Mem(p).step \in Steps /\ proc[p].run \in Runs
      BY <2>4, CallEffect, HolderFacts DEF Holding
    <3>2. /\ starts' = [starts EXCEPT ![proc[p].run][Mem(p).step] = @ + 1]
          /\ UNCHANGED <<did, lost, meddled>>
      BY <2>4 DEF CallHandler
    <3>3. starts' \in [Runs -> [Steps -> Nat]]
      BY <1>1, <3>1, <3>2
    <3> QED BY <1>1, <3>2, <3>3
  <2>5. ASSUME NEW result \in Results, MachineReturn(p, result) \/ EngineReturn(p, result)
        PROVE  Recording'
    <3>1. UNCHANGED <<starts, lost, meddled>>
      BY <2>5 DEF MachineReturn, EngineReturn
    <3>2. CASE UNCHANGED did
      BY <1>1, <3>1, <3>2
    <3>3. CASE did' = [did EXCEPT ![proc[p].run] = Append(@, Mem(p).step)]
      <4>1. Mem(p).step \in Steps
        BY <2>5, ReturnEffect
      <4>2. \A r \in Runs : Append(did[r], Mem(p).step) \in Seq(Steps)
        BY <1>1, <4>1, AppendProperties
      <4> QED BY <1>1, <3>1, <3>3, <4>2
    <3> QED BY <2>5, <3>2, <3>3, ReturnEffect DEF Retrying, Throwing, Moving
  <2>6. CASE Catch(p)
    BY <1>1, <2>6 DEF Catch
  <2> QED BY <1>3, <2>1, <2>2, <2>3, <2>4, <2>5, <2>6 DEF Work, Exits
<1>4. ASSUME NEW p \in Procs, LaunchCli(p) \/ LaunchRun(p) \/ LaunchResume(p) \/ Abort(p)
      PROVE  Recording'
  BY <1>2, <1>4 DEF LaunchCli, LaunchRun, LaunchResume, Launch, Abort
<1>5. ASSUME NEW p \in Procs, Crash(p) PROVE Recording'
  BY <1>1, <1>5 DEF Crash
<1>6. ASSUME NEW r \in Runs, PauseLoad(r) PROVE Recording'
  <2>1. UNCHANGED <<did, starts, lost>>
    BY <1>6 DEF PauseLoad
  <2>2. meddled' \in [Runs -> BOOLEAN]
    BY <1>1, <1>6 DEF PauseLoad
  <2> QED BY <1>1, <2>1, <2>2
<1>7. CASE RequestPause \/ PauseSave
  BY <1>2, <1>7 DEF RequestPause, PauseSave
<1> QED BY <1>3, <1>4, <1>5, <1>6, <1>7 DEF Next

LEMMA PausingStep ==
  ASSUME TypeInv, Next
  PROVE  pausing' \in [run : Runs, state : State] \cup {NoPause}
<1>1. CASE UNCHANGED pausing
  BY <1>1 DEF TypeInv, TypeOK
<1>2. ASSUME NEW p \in Procs, Work(p) PROVE UNCHANGED pausing
  BY <1>2 DEF Work, ClearMarker, ResolveRun, Create, Load, Restore, Cancel, Timeout, Exhaust, Complete,
              End, Redirect, CallHandler, MachineReturn, EngineReturn, Catch, MarkPaused, Unmark
<1>3. ASSUME NEW p \in Procs,
             LaunchCli(p) \/ LaunchRun(p) \/ LaunchResume(p) \/ Abort(p) \/ Crash(p)
      PROVE  UNCHANGED pausing
  BY <1>3 DEF LaunchCli, LaunchRun, LaunchResume, Launch, Abort, Crash
<1>4. ASSUME NEW r \in Runs, PauseLoad(r) PROVE pausing' \in [run : Runs, state : State]
  <2>1. pausing' = [run |-> r, state |-> store[r]] /\ store[r] \in State
    BY <1>4 DEF PauseLoad, TypeInv, TypeOK
  <2> QED BY <2>1
<1>5. CASE RequestPause
  BY <1>1, <1>5 DEF RequestPause
<1>6. CASE PauseSave
  BY <1>6 DEF PauseSave
<1> QED BY <1>1, <1>2, <1>3, <1>4, <1>5, <1>6 DEF Next

LEMMA TypeInit == Init => TypeInv
<1> SUFFICES ASSUME Init PROVE TypeInv
  OBVIOUS
<1>1. proc \in [Procs -> Process] /\ \A p \in Procs : proc[p] = Idle
  BY IdleType DEF Init
<1>2. PlaceInv
  BY <1>1, IdleType DEF PlaceInv, Placed, Holding
<1>3. did \in [Runs -> Seq(Steps)] /\ starts \in [Runs -> [Steps -> Nat]]
  BY DEF Init
<1>4. store \in [Runs -> State \cup {NoRun}] /\ lost \in [Runs -> Nat] /\ meddled \in [Runs -> BOOLEAN]
  BY DEF Init
<1>5. engine \in Engines /\ marker \in BOOLEAN /\ pausing = NoPause
  BY DEF Init
<1>6. /\ launches \in 0 .. MaxLaunches /\ {throws, crashes} \subseteq 0 .. MaxFaults
      /\ pauses \in 0 .. MaxPauses
  BY BoundAssumption DEF Init
<1> QED BY <1>1, <1>2, <1>3, <1>4, <1>5, <1>6 DEF TypeInv, TypeOK

LEMMA TypeStep == TypeInv /\ [Next]_vars => TypeInv'
<1>1. ASSUME TypeInv, Next PROVE TypeInv'
  <2>1. Working' /\ Counting' /\ Recording'
        /\ pausing' \in [run : Runs, state : State] \cup {NoPause}
    BY <1>1, WorkStep, CountingStep, RecordingStep, PausingStep
  <2> QED BY <2>1 DEF Working, Counting, Recording, TypeInv, TypeOK
<1>2. ASSUME TypeInv, UNCHANGED vars PROVE TypeInv'
  BY <1>2 DEF vars, bounds, ghosts, TypeInv, TypeOK, PlaceInv, Placed, Mem
<1> QED BY <1>1, <1>2

(* Every variable of StepMachine stays in its range: the state of every run*)
(* in the store and in memory is one the engines know.                     *)
THEOREM TypeCorrect == Spec => []TypeOK
<1>1. TypeInv => TypeOK
  BY DEF TypeInv
<1> QED BY <1>1, TypeInit, TypeStep, PTL DEF Spec

----------------------------------------------------------------------------
(* What holds of every run.                                                *)

(* Nothing here multiplies but the drivers lost.                           *)
LEMMA TimesFacts ==
  ASSUME NEW m \in Nat, NEW n \in Nat, NEW u \in Nat, m <= n
  PROVE  m * u \in Nat /\ n * u \in Nat /\ m * u <= n * u /\ (n = m + 1 => n * u = m * u + u)
<1>1. m * u \in Nat /\ n * u \in Nat
  OBVIOUS
<1>2. PICK d \in Nat : n = m + d
  <2> WITNESS n - m \in Nat
  <2> QED OBVIOUS
<1>3. n * u = m * u + d * u /\ d * u \in Nat
  BY <1>2, Z3
<1> QED BY <1>1, <1>2, <1>3

LEMMA AllowedFacts ==
  ASSUME TypeInv, TypeInv', NEW x \in Runs, NEW s \in Steps, engine' = engine, lost[x] <= lost'[x]
  PROVE  /\ Unsaved(s) \in Nat /\ Allowed(x, s) \in Nat /\ Allowed(x, s)' \in Nat
         /\ Allowed(x, s) <= Allowed(x, s)'
         /\ lost'[x] = lost[x] + 1 => Allowed(x, s)' = Allowed(x, s) + Unsaved(s)
<1>1. Unsaved(s) \in Nat /\ Unsaved(s)' = Unsaved(s)
  BY FlowAssumption DEF Unsaved
<1>2. lost[x] \in Nat /\ lost'[x] \in Nat
  BY DEF TypeInv, TypeOK
<1> DEFINE u == Unsaved(s)
           m == lost[x]
           n == lost'[x]
<1>3. Allowed(x, s) = m * u /\ Allowed(x, s)' = n * u
  BY <1>1 DEF Allowed
<1> HIDE DEF u, m, n
<1>4. u \in Nat /\ m \in Nat /\ n \in Nat /\ m <= n
  BY <1>1, <1>2 DEF u, m, n
<1>5. m * u \in Nat /\ n * u \in Nat /\ m * u <= n * u /\ (n = m + 1 => n * u = m * u + u)
  BY <1>4, TimesFacts
<1> QED BY <1>1, <1>3, <1>5 DEF u, m, n

(* A state that accounts for a run goes on to do so, whatever else is lost.*)
LEMMA AccountsStays ==
  ASSUME TypeInv, TypeInv', NEW x \in Runs, NEW st \in State, engine' = engine, lost[x] <= lost'[x],
         did'[x] = did[x], starts'[x] = starts[x], Accounts(st, x)
  PROVE  Bounded(st, x)' /\ (\A s \in Steps : starts'[x][s] <= st.iters[s] + Allowed(x, s)')
<1>1. Bounded(st, x)'
  BY DEF Accounts, Bounded
<1>2. ASSUME NEW s \in Steps PROVE starts'[x][s] <= st.iters[s] + Allowed(x, s)'
  <2>1. Allowed(x, s) \in Nat /\ Allowed(x, s)' \in Nat /\ Allowed(x, s) <= Allowed(x, s)'
    BY AllowedFacts
  <2>2. st.iters[s] \in Nat /\ starts[x][s] \in Nat
    BY DEF State, TypeInv, TypeOK
  <2>3. starts[x][s] <= st.iters[s] + Allowed(x, s)
    BY DEF Accounts
  <2> QED BY <2>1, <2>2, <2>3
<1> QED BY <1>1, <1>2

LEMMA RestedStays ==
  ASSUME TypeInv, TypeInv', NEW x \in Runs, store[x] # NoRun, store'[x] = store[x],
         engine' = engine, lost[x] <= lost'[x],
         did'[x] = did[x], starts'[x] = starts[x], Rested(x)
  PROVE  Rested(x)'
<1>1. store[x] \in State
  BY DEF TypeInv, TypeOK
<1>2. CASE Forgotten(x)
  <2> SUFFICES ASSUME NEW s \in Steps, Breaker[s] # Unlimited
               PROVE  starts'[x][s] <= Breaker[s] + Allowed(x, s)'
    BY <1>2 DEF Rested, Forgotten
  <2>1. Allowed(x, s) \in Nat /\ Allowed(x, s)' \in Nat /\ Allowed(x, s) <= Allowed(x, s)'
    BY AllowedFacts
  <2>2. Breaker[s] \in Nat /\ starts[x][s] \in Nat
    BY FlowAssumption DEF TypeInv, TypeOK
  <2>3. starts[x][s] <= Breaker[s] + Allowed(x, s)
    BY <1>2 DEF Rested
  <2> QED BY <2>1, <2>2, <2>3
<1>3. CASE ~Forgotten(x)
  <2>1. Accounts(store[x], x)
    BY <1>3 DEF Rested
  <2>2. Bounded(store[x], x)' /\ (\A s \in Steps : starts'[x][s] <= store[x].iters[s] + Allowed(x, s)')
    BY <1>1, <2>1, AccountsStays DEF Bounded
  <2> QED BY <1>3, <2>2 DEF Rested, Forgotten, Accounts, Bounded
<1> QED BY <1>2, <1>3

(* A step that has nothing to do with run x.                               *)
Same(x) ==
  /\ store'[x] = store[x] /\ did'[x] = did[x] /\ starts'[x] = starts[x] /\ lost[x] <= lost'[x]
  /\ meddled[x] => meddled'[x]
  /\ engine' = engine /\ (throws # 0 => throws' # 0)
  /\ pausing'.run = x => pausing' = pausing

LEMMA SameRun ==
  ASSUME TypeInv, TypeInv', NEW x \in Runs, RunInv(x), Same(x),
         \A q \in Procs : Holds(q, x)' <=> Holds(q, x),
         \A q \in Procs : Holds(q, x) => proc'[q] = proc[q]
  PROVE  RunInv(x)'
<1> SUFFICES ASSUME ~meddled'[x] PROVE RunInv(x)'
  BY DEF RunInv
<1>1. ~meddled[x]
  BY DEF Same
<1>2. \A q \in Procs : Holds(q, x) => Driver(q, x)'
  <2> SUFFICES ASSUME NEW q \in Procs, Holds(q, x) PROVE Driver(q, x)'
    OBVIOUS
  <2>1. Driver(q, x) /\ proc'[q] = proc[q]
    BY <1>1 DEF RunInv
  <2>2. Mem(q) \in State
    BY HolderFacts DEF Holds
  <2>3. Bounded(Mem(q), x)' /\ (\A s \in Steps : starts'[x][s] <= Mem(q).iters[s] + Allowed(x, s)')
    BY <2>1, <2>2, AccountsStays DEF Same, Driver, Bounded, Mem
  <2> QED BY <2>1, <2>3 DEF Same, Driver, Accounts, Bounded, Ahead, Mem, Ended
<1>3. store[x] # NoRun /\ Rested(x) => Rested(x)'
  BY RestedStays DEF Same
<1>4. Untouched(x) => Untouched(x)'
  BY DEF Same, Untouched
<1>5. \A q, o \in Procs : Holds(q, x)' /\ Holds(o, x)' => q = o
  BY <1>1 DEF RunInv
<1>6. \A q \in Procs : Holds(q, x)' => Driver(q, x)'
  BY <1>2
<1>7. (\A q \in Procs : ~Holds(q, x)') =>
         IF store'[x] = NoRun THEN Untouched(x)' ELSE Rested(x)'
  BY <1>1, <1>3, <1>4 DEF RunInv, Same
<1>8. pausing'.run = x =>
         (\A q \in Procs : ~Holds(q, x)') /\ store'[x] = pausing'.state /\ ~Ended(store'[x])
  BY <1>1 DEF RunInv, Same
<1> QED BY <1>5, <1>6, <1>7, <1>8 DEF RunInv

(* A step that has nothing to do with any run but r.                       *)
Frame(r) ==
  /\ engine' = engine /\ meddled' = meddled /\ pausing' = pausing /\ (throws # 0 => throws' # 0)
  /\ \A x \in Runs : x # r => /\ store'[x] = store[x] /\ did'[x] = did[x]
                             /\ starts'[x] = starts[x] /\ lost[x] <= lost'[x]

LEMMA OtherRuns ==
  ASSUME TypeInv, TypeInv', RunsInv, NEW p \in Procs, Others(p), NEW r, Frame(r),
         \A x \in Runs : x # r => ~Holds(p, x) /\ ~Holds(p, x)'
  PROVE  \A x \in Runs : x # r => RunInv(x)'
<1> SUFFICES ASSUME NEW x \in Runs, x # r PROVE RunInv(x)'
  OBVIOUS
<1>1. RunInv(x) /\ Same(x)
  BY DEF RunsInv, Frame, Same
<1>2. \A q \in Procs : q # p => proc'[q] = proc[q]
  BY OthersFacts DEF TypeInv
<1>3. \A q \in Procs : (Holds(q, x)' <=> Holds(q, x)) /\ (Holds(q, x) => proc'[q] = proc[q])
  BY <1>2 DEF Holds
<1> QED BY <1>1, <1>3, SameRun

(* The driver of r goes on.                                                *)
LEMMA KeepStep ==
  ASSUME TypeInv, TypeInv', RunsInv, NEW p \in Procs, NEW r \in Runs, Holds(p, r), Holds(p, r)', Others(p),
         Frame(r), ~meddled[r] /\ Driver(p, r) => Driver(p, r)'
  PROVE  RunsInv'
<1>1. \A x \in Runs : x # r => RunInv(x)'
  BY OtherRuns DEF Holds
<1>2. RunInv(r)'
  <2> SUFFICES ASSUME ~meddled'[r] PROVE RunInv(r)'
    BY DEF RunInv
  <2>1. ~meddled[r] /\ RunInv(r)
    BY DEF Frame, RunsInv
  <2>2. \A q \in Procs : Holds(q, r)' => q = p
    <3> SUFFICES ASSUME NEW q \in Procs, Holds(q, r)', q # p PROVE FALSE
      OBVIOUS
    <3>1. Holds(q, r)
      BY OthersFacts DEF Holds, TypeInv
    <3> QED BY <2>1, <3>1 DEF RunInv
  <2>3. Driver(p, r)'
    BY <2>1 DEF RunInv
  <2>4. pausing'.run # r
    BY <2>1 DEF RunInv, Frame
  <2> QED BY <2>2, <2>3, <2>4 DEF RunInv
<1> QED BY <1>1, <1>2 DEF RunsInv

(* The driver of r ends.                                                   *)
LEMMA LeaveStep ==
  ASSUME TypeInv, TypeInv', RunsInv, NEW p \in Procs, NEW r \in Runs, Holds(p, r), Leaves(p),
         Frame(r), store'[r] # NoRun, ~meddled[r] /\ Driver(p, r) => Rested(r)'
  PROVE  RunsInv'
<1>0. Others(p) /\ \A x \in Runs : ~Holds(p, x)'
  BY IdleType DEF Leaves, Holds, Holding
<1>1. \A x \in Runs : x # r => RunInv(x)'
  BY <1>0, OtherRuns DEF Holds
<1>2. RunInv(r)'
  <2> SUFFICES ASSUME ~meddled'[r] PROVE RunInv(r)'
    BY DEF RunInv
  <2>1. ~meddled[r] /\ RunInv(r)
    BY DEF Frame, RunsInv
  <2>2. \A q \in Procs : ~Holds(q, r)'
    <3> SUFFICES ASSUME NEW q \in Procs, Holds(q, r)' PROVE FALSE
      OBVIOUS
    <3>1. q # p /\ Holds(q, r)
      BY <1>0, OthersFacts DEF Holds, TypeInv
    <3> QED BY <2>1, <3>1 DEF RunInv
  <2>3. Rested(r)'
    BY <2>1 DEF RunInv
  <2>4. pausing'.run # r
    BY <2>1 DEF RunInv, Frame
  <2> QED BY <2>2, <2>3, <2>4 DEF RunInv
<1> QED BY <1>1, <1>2 DEF RunsInv

(* A step of a process that holds no run, before or after.                 *)
LEMMA IdleStep ==
  ASSUME TypeInv, TypeInv', RunsInv, NEW p \in Procs, Others(p), ~(proc[p].at \in Holding),
         ~(proc'[p].at \in Holding), Frame(None), UNCHANGED <<store, did, starts>>
  PROVE  RunsInv'
<1>1. \A x \in Runs : x # None
  BY FlowAssumption
<1>2. \A x \in Runs : RunInv(x)'
  BY <1>1, OtherRuns DEF Holds
<1> QED BY <1>2 DEF RunsInv

(* A state with the same past and the same counts accounts for the same.   *)
LEMMA AccountsSame ==
  ASSUME NEW r, NEW st, NEW m, Accounts(st, r), engine' = engine,
         did'[r] = did[r], starts'[r] = starts[r], lost'[r] = lost[r],
         m.history = st.history, m.iters = st.iters,
         \A s \in Steps : m.retries[s] <= RetryLimit[s]
  PROVE  Accounts(m, r)'
BY DEF Accounts, Bounded, Allowed, Unsaved

(* A driver that has just saved what it has in memory.                     *)
LEMMA SavedDriver ==
  ASSUME NEW p \in Procs, NEW r, NEW m \in State, Accounts(m, r)', Mem(p)' = m, store'[r] = m,
         Ended(m) => throws' # 0 /\ proc'[p].at = "catch"
  PROVE  Driver(p, r)'
<1>1. \A s \in Steps : Ahead(p, s)' \in Nat
  BY DEF Ahead, State
<1>2. \A s \in Steps : m.iters[s] \in Nat
  BY DEF State
<1>3. \A s \in Steps : Mem(p)'.iters[s] <= store'[r].iters[s] + Ahead(p, s)'
  BY <1>1, <1>2
<1> QED BY <1>3 DEF Driver, Accounts

LEMMA FrameWrites ==
  ASSUME TypeInv, TypeInv', NEW r \in Runs, NEW st, Writes(r, st) \/ UNCHANGED store,
         engine' = engine, meddled' = meddled, pausing' = pausing, throws # 0 => throws' # 0,
         \A x \in Runs : x # r => did'[x] = did[x] /\ starts'[x] = starts[x],
         \A x \in Runs : x # r => lost'[x] = lost[x]
  PROVE  Frame(r)
<1>1. \A x \in Runs : x # r => store'[x] = store[x]
  BY DEF Writes, TypeInv, TypeOK
<1>2. \A x \in Runs : lost[x] \in Nat
  BY DEF TypeInv, TypeOK
<1> QED BY <1>1, <1>2 DEF Frame

LEMMA RestoreRuns ==
  ASSUME TypeInv, TypeInv', RunsInv, NEW p \in Procs, Restore(p)
  PROVE  RunsInv'
<1>0. PICK r, m : r = proc[p].run /\ m = [Mem(p) EXCEPT !.status = "running"]
  OBVIOUS
<1>1. proc[p].at = "restore" /\ m \in State /\ Writes(r, m) /\ Continues(p, "loop", m)
  BY <1>0, RestoreEffect
<1>2. r \in Runs /\ Mem(p) \in State
  BY <1>0, <1>1, HolderFacts DEF Holding
<1>3. UNCHANGED ghosts /\ engine' = engine /\ pausing' = pausing /\ throws' = throws
  BY DEF Restore, bounds
<1>4. Frame(r)
  BY <1>1, <1>2, <1>3, FrameWrites DEF ghosts
<1>5. m.status = "running" /\ m.history = Mem(p).history /\ m.iters = Mem(p).iters
      /\ m.retries = Mem(p).retries
  BY <1>0, <1>2, StatusFacts DEF Statuses
<1>6. ASSUME Driver(p, r) PROVE Driver(p, r)'
  <2>0. Accounts(Mem(p), r) /\ \A s \in Steps : m.retries[s] <= RetryLimit[s]
    BY <1>5, <1>6 DEF Driver, Accounts, Bounded
  <2>1. Accounts(m, r)'
    BY <1>3, <1>5, <2>0, AccountsSame DEF ghosts
  <2>2. Mem(p)' = m /\ store'[r] = m
    BY <1>1, WritesFacts DEF Continues, Mem, TypeInv
  <2>3. ~Ended(m)
    BY <1>1, <1>5, <1>6 DEF Driver, Ended
  <2> QED BY <1>1, <1>5, <2>1, <2>2, <2>3, SavedDriver
<1>7. Holds(p, r) /\ Holds(p, r)' /\ Others(p)
  BY <1>0, <1>1 DEF Holds, Holding, Continues
<1> QED BY <1>2, <1>4, <1>6, <1>7, KeepStep

LEMMA RedirectRuns ==
  ASSUME TypeInv, TypeInv', RunsInv, NEW p \in Procs, Redirect(p)
  PROVE  RunsInv'
<1>0. PICK r, m : r = proc[p].run /\ m = Redirected(Mem(p))
  OBVIOUS
<1>1. proc[p].at = "loop" /\ Mem(p).step \in Steps /\ Writes(r, m) /\ Continues(p, "loop", m)
  BY <1>0, RedirectEffect
<1>2. r \in Runs /\ Mem(p) \in State
  BY <1>0, <1>1, HolderFacts DEF Holding
<1>3. UNCHANGED ghosts /\ engine' = engine /\ pausing' = pausing /\ throws' = throws
  BY DEF Redirect, bounds
<1>4. Frame(r)
  BY <1>1, <1>2, <1>3, FrameWrites DEF ghosts
<1>5. m \in State /\ m.status = Mem(p).status /\ m.history = Mem(p).history /\ m.iters = Mem(p).iters
      /\ m.retries = Mem(p).retries
  BY <1>0, <1>1, <1>2, RedirectedFacts
<1>6. ASSUME Driver(p, r) PROVE Driver(p, r)'
  <2>0. Accounts(Mem(p), r) /\ \A s \in Steps : m.retries[s] <= RetryLimit[s]
    BY <1>5, <1>6 DEF Driver, Accounts, Bounded
  <2>1. Accounts(m, r)'
    BY <1>3, <1>5, <2>0, AccountsSame DEF ghosts
  <2>2. Mem(p)' = m /\ store'[r] = m
    BY <1>1, WritesFacts DEF Continues, Mem, TypeInv
  <2>3. ~Ended(m)
    BY <1>1, <1>5, <1>6 DEF Driver, Ended
  <2> QED BY <1>1, <1>5, <2>1, <2>2, <2>3, SavedDriver
<1>7. Holds(p, r) /\ Holds(p, r)' /\ Others(p)
  BY <1>0, <1>1 DEF Holds, Holding, Continues
<1> QED BY <1>2, <1>4, <1>6, <1>7, KeepStep

(* The counts of a driver are ahead of the saved ones by what BreakerHolds *)
(* grants to a driver that is lost, and not at all once it has saved.      *)
LEMMA AheadFacts ==
  ASSUME TypeInv, NEW p \in Procs, NEW r \in Runs, Holds(p, r), Driver(p, r), NEW s \in Steps
  PROVE  /\ Ahead(p, s) \in Nat /\ Ahead(p, s) <= Unsaved(s)
         /\ proc[p].at \in {"restore", "mark", "unmark"} => Ahead(p, s) = 0
         /\ store[r] \in State /\ store[r] # NoRun /\ starts[r][s] \in Nat
         /\ Allowed(r, s) \in Nat /\ Unsaved(s) \in Nat
         /\ starts[r][s] <= store[r].iters[s] + Ahead(p, s) + Allowed(r, s)
         /\ starts[r][s] <= Mem(p).iters[s] + Allowed(r, s)
<1>1. Mem(p) \in State /\ store[r] \in State /\ store[r] # NoRun
  BY HolderFacts DEF Holds
<1>2. Mem(p).retries[s] \in Nat /\ Mem(p).iters[s] \in Nat /\ store[r].iters[s] \in Nat
  BY <1>1 DEF State
<1>3. Mem(p).retries[s] <= RetryLimit[s] /\ RetryLimit[s] \in Nat
  BY FlowAssumption DEF Driver, Accounts, Bounded
<1>4. engine \in {"machine", "engine"} /\ starts[r][s] \in Nat /\ lost[r] \in Nat
  BY BoundAssumption DEF TypeInv, TypeOK
<1>5. Ahead(p, s) \in Nat /\ Ahead(p, s) <= Unsaved(s) /\ Unsaved(s) \in Nat
  BY <1>2, <1>3, <1>4 DEF Ahead, Unsaved
<1>6. proc[p].at \in {"restore", "mark", "unmark"} => Ahead(p, s) = 0
  BY DEF Ahead
<1>7. Allowed(r, s) \in Nat
  <2> DEFINE u == Unsaved(s)
             n == lost[r]
  <2>1. Allowed(r, s) = n * u
    BY DEF Allowed
  <2> HIDE DEF u, n
  <2>2. u \in Nat /\ n \in Nat
    BY <1>4, <1>5 DEF u, n
  <2>3. n * u \in Nat
    BY <2>2, TimesFacts
  <2> QED BY <2>1, <2>3
<1>8. starts[r][s] <= Mem(p).iters[s] + Allowed(r, s)
      /\ Mem(p).iters[s] <= store[r].iters[s] + Ahead(p, s)
  BY DEF Driver, Accounts
<1>9. starts[r][s] <= store[r].iters[s] + Ahead(p, s) + Allowed(r, s)
  BY <1>2, <1>4, <1>5, <1>7, <1>8
<1> QED BY <1>1, <1>4, <1>5, <1>6, <1>7, <1>8, <1>9

(* A driver is lost: the store accounts for its run but for one more loss. *)
LEMMA LostRested ==
  ASSUME TypeInv, TypeInv', NEW p \in Procs, NEW r \in Runs, Holds(p, r), Driver(p, r),
         engine' = engine, store'[r] = store[r], did'[r] = did[r], starts'[r] = starts[r],
         lost'[r] = lost[r] + 1
  PROVE  Rested(r)'
<1>1. lost[r] <= lost'[r]
  BY DEF TypeInv, TypeOK
<1>2. CASE Forgotten(r)
  <2> SUFFICES ASSUME NEW s \in Steps, Breaker[s] # Unlimited
               PROVE  starts'[r][s] <= Breaker[s] + Allowed(r, s)'
    BY <1>2 DEF Rested, Forgotten
  <2>1. Mem(p).iters[s] <= Breaker[s] /\ Breaker[s] \in Nat
    BY FlowAssumption DEF Driver, Accounts, Bounded
  <2>2. Mem(p).iters[s] \in Nat
    BY HolderFacts DEF Holds, State
  <2>3. starts[r][s] <= Mem(p).iters[s] + Allowed(r, s) /\ starts[r][s] \in Nat
    BY AheadFacts
  <2>4. Allowed(r, s) \in Nat /\ Allowed(r, s)' \in Nat /\ Allowed(r, s) <= Allowed(r, s)'
    BY <1>1, AllowedFacts
  <2> QED BY <2>1, <2>2, <2>3, <2>4
<1>3. CASE ~Forgotten(r)
  <2>1. ASSUME NEW s \in Steps PROVE starts'[r][s] <= store'[r].iters[s] + Allowed(r, s)'
    <3>1. /\ Ahead(p, s) \in Nat /\ Ahead(p, s) <= Unsaved(s) /\ Unsaved(s) \in Nat
          /\ starts[r][s] \in Nat /\ store[r] \in State /\ Allowed(r, s) \in Nat
          /\ starts[r][s] <= store[r].iters[s] + Ahead(p, s) + Allowed(r, s)
      BY AheadFacts
    <3>2. Allowed(r, s)' = Allowed(r, s) + Unsaved(s)
      BY <1>1, AllowedFacts
    <3>3. store[r].iters[s] \in Nat
      BY <3>1 DEF State
    <3> QED BY <3>1, <3>2, <3>3
  <2>2. Bounded(store[r], r)'
    BY DEF Driver, Bounded
  <2> QED BY <1>3, <2>1, <2>2 DEF Rested, Forgotten, Accounts
<1> QED BY <1>2, <1>3

LEMMA ExitRuns ==
  ASSUME TypeInv, TypeInv', RunsInv, NEW p \in Procs, Exits(p)
  PROVE  RunsInv'
<1>1. PICK r, x, m :
        /\ r = proc[p].run /\ x \in {"cancelled", "completed"} /\ m = [Mem(p) EXCEPT !.status = x]
        /\ m \in State /\ Writes(r, m)
        /\ \/ Leaves(p) /\ UNCHANGED throws
           \/ Continues(p, "mark", m) /\ x = "cancelled" /\ UNCHANGED throws
           \/ Continues(p, "catch", m) /\ throws' = throws + 1
  BY ExitEffect
<1>2. proc[p].at = "loop" /\ UNCHANGED ghosts /\ r \in Runs /\ Mem(p) \in State
  BY <1>1, ExitEffect, HolderFacts DEF Holding
<1>3. engine' = engine /\ pausing' = pausing
  BY DEF Exits, Cancel, Timeout, Exhaust, Complete, End
<1>4. throws \in Nat /\ throws' \in Nat
  BY BoundAssumption DEF TypeInv, TypeOK
<1>5. Frame(r)
  BY <1>1, <1>2, <1>3, <1>4, FrameWrites DEF ghosts
<1>6. m.status = x /\ m.history = Mem(p).history /\ m.iters = Mem(p).iters
      /\ m.retries = Mem(p).retries
  BY <1>1, <1>2, StatusFacts DEF Statuses
<1>7. ASSUME Driver(p, r) PROVE Accounts(m, r)'
  <2>1. Accounts(Mem(p), r) /\ \A s \in Steps : m.retries[s] <= RetryLimit[s]
    BY <1>6, <1>7 DEF Driver, Accounts, Bounded
  <2> QED BY <1>2, <1>3, <1>6, <2>1, AccountsSame DEF ghosts
<1>8. store'[r] = m /\ m # NoRun
  BY <1>1, WritesFacts DEF TypeInv
<1>9. Holds(p, r)
  BY <1>1, <1>2 DEF Holds, Holding
<1>10. CASE Leaves(p)
  <2>1. ASSUME Driver(p, r) PROVE Rested(r)'
    <3>1. ~Forgotten(r)'
      BY <1>1, <1>6, <1>8 DEF Forgotten
    <3> QED BY <1>7, <1>8, <2>1, <3>1 DEF Rested, Accounts, Bounded
  <2> QED BY <1>2, <1>5, <1>8, <1>9, <1>10, <2>1, LeaveStep
<1>11. ASSUME NEW place \in {"mark", "catch"}, Continues(p, place, m), Ended(m) => throws' # 0 /\ place = "catch"
       PROVE  RunsInv'
  <2>1. ASSUME Driver(p, r) PROVE Driver(p, r)'
    <3>1. Mem(p)' = m
      BY <1>11 DEF Continues, Mem
    <3> QED BY <1>1, <1>7, <1>8, <1>11, <2>1, <3>1, SavedDriver DEF Continues
  <2>2. Holds(p, r)' /\ Others(p)
    BY <1>1, <1>11 DEF Holds, Holding, Continues
  <2> QED BY <1>2, <1>5, <1>9, <2>1, <2>2, KeepStep
<1>12. CASE Continues(p, "mark", m) /\ x = "cancelled"
  BY <1>6, <1>11, <1>12 DEF Ended
<1>13. CASE Continues(p, "catch", m) /\ throws' = throws + 1
  BY <1>4, <1>11, <1>13
<1> QED BY <1>1, <1>10, <1>12, <1>13

LEMMA CallRuns ==
  ASSUME TypeInv, TypeInv', RunsInv, NEW p \in Procs, CallHandler(p)
  PROVE  RunsInv'
<1>1. PICK r, m, z : r = proc[p].run /\ m = Counted(Mem(p)) /\ z = Mem(p).step
  OBVIOUS
<1>2. /\ proc[p].at = "loop" /\ z \in Steps /\ UNCHANGED store /\ ~BreakerOpen(Mem(p))
      /\ Continues(p, "handler", m) /\ r \in Runs /\ Mem(p) \in State
  BY <1>1, CallEffect, HolderFacts DEF Holding
<1>3. /\ engine' = engine /\ pausing' = pausing /\ throws' = throws /\ UNCHANGED <<did, lost, meddled>>
      /\ starts' = [starts EXCEPT ![r][z] = @ + 1]
  BY <1>1 DEF CallHandler, bounds
<1>4. starts \in [Runs -> [Steps -> Nat]]
  BY DEF TypeInv, TypeOK
<1>5. \A t \in Steps : starts'[r][t] = IF t = z THEN starts[r][t] + 1 ELSE starts[r][t]
  BY <1>2, <1>3, <1>4
<1>6. Frame(r)
  BY <1>2, <1>3, <1>4, FrameWrites
<1>7. /\ m \in State /\ m.step = z /\ m.history = Mem(p).history /\ m.retries = Mem(p).retries
      /\ \A t \in Steps : m.iters[t] = IF t = z THEN Mem(p).iters[t] + 1 ELSE Mem(p).iters[t]
  BY <1>1, <1>2, CountedFacts
<1>8. Holds(p, r) /\ Holds(p, r)' /\ Others(p)
  BY <1>1, <1>2 DEF Holds, Holding, Continues
<1>9. ASSUME Driver(p, r) PROVE Driver(p, r)'
  <2>1. Mem(p)' = m /\ proc'[p].at = "handler"
    BY <1>2 DEF Continues, Mem
  <2>2. \A t \in Steps : Mem(p).iters[t] \in Nat /\ store[r].iters[t] \in Nat
    BY <1>2, <1>8, HolderFacts DEF State, Holds
  <2>3. ASSUME NEW t \in Steps PROVE Allowed(r, t)' = Allowed(r, t) /\ Allowed(r, t) \in Nat
    BY <1>2, <1>3, <1>8, <1>9, AheadFacts DEF Allowed, Unsaved
  <2>4. Bounded(m, r)'
    <3>1. \A t \in Steps : Breaker[t] # Unlimited => m.iters[t] <= Breaker[t]
      <4> SUFFICES ASSUME NEW t \in Steps, Breaker[t] # Unlimited PROVE m.iters[t] <= Breaker[t]
        OBVIOUS
      <4>1. Breaker[t] \in Nat /\ Mem(p).iters[t] <= Breaker[t]
        BY <1>9, FlowAssumption DEF Driver, Accounts, Bounded
      <4>2. t = z => Mem(p).iters[t] < Breaker[t]
        BY <1>1, <1>2, <2>2, <4>1 DEF BreakerOpen
      <4> QED BY <1>7, <2>2, <4>1, <4>2
    <3> QED BY <1>3, <1>7, <1>9, <3>1 DEF Driver, Accounts, Bounded
  <2>5. ASSUME NEW t \in Steps PROVE starts'[r][t] <= m.iters[t] + Allowed(r, t)'
    <3>1. starts[r][t] <= Mem(p).iters[t] + Allowed(r, t) /\ starts[r][t] \in Nat
      BY <1>2, <1>8, <1>9, AheadFacts
    <3> QED BY <1>5, <1>7, <2>2, <2>3, <3>1
  <2>6. ASSUME NEW t \in Steps PROVE m.iters[t] <= store'[r].iters[t] + Ahead(p, t)'
    <3>1. Ahead(p, t)' = Ahead(p, t) + IF t = z THEN 1 ELSE 0
      <4>1. m.retries[t] \in Nat
        BY <1>7 DEF State
      <4> QED BY <1>2, <1>3, <1>7, <2>1, <4>1 DEF Ahead
    <3>2. Mem(p).iters[t] <= store[r].iters[t] + Ahead(p, t) /\ Ahead(p, t) \in Nat
      BY <1>2, <1>8, <1>9, AheadFacts DEF Driver
    <3> QED BY <1>2, <1>7, <2>2, <3>1, <3>2
  <2>7. Bounded(store[r], r)' /\ ~Ended(store'[r]) /\ ~Ended(m)
    <3>1. m.status = Mem(p).status
      BY <1>1, <1>2 DEF Counted, State
    <3> QED BY <1>2, <1>3, <1>9, <3>1 DEF Driver, Bounded, Ended
  <2> QED BY <2>1, <2>4, <2>5, <2>6, <2>7 DEF Driver, Accounts
<1> QED BY <1>2, <1>6, <1>8, <1>9, KeepStep

LEMMA ThrowingRuns ==
  ASSUME TypeInv, TypeInv', RunsInv, NEW p \in Procs, proc[p].at = "handler", Throwing(p),
         engine' = engine, pausing' = pausing, UNCHANGED <<starts, lost, meddled>>,
         throws # 0 => throws' # 0
  PROVE  RunsInv'
<1>1. PICK r, m : r = proc[p].run /\ m = Mem(p)
  OBVIOUS
<1>2. Continues(p, "catch", m) /\ UNCHANGED <<store, did>> /\ r \in Runs
  BY <1>1, HolderFacts DEF Throwing, Holding
<1>3. Frame(r)
  BY <1>2, FrameWrites
<1>4. Holds(p, r) /\ Holds(p, r)' /\ Others(p)
  BY <1>1, <1>2 DEF Holds, Holding, Continues
<1>5. ASSUME Driver(p, r) PROVE Driver(p, r)'
  <2>1. Mem(p)' = Mem(p) /\ proc'[p].at = "catch"
    BY <1>1, <1>2 DEF Continues, Mem
  <2>2. Accounts(Mem(p), r)' /\ Bounded(store[r], r)'
    BY <1>2, <1>5, <2>1 DEF Driver, Accounts, Bounded, Allowed, Unsaved
  <2>3. \A t \in Steps : Ahead(p, t)' = Ahead(p, t)
    BY <2>1 DEF Ahead
  <2> QED BY <1>2, <1>5, <2>1, <2>2, <2>3 DEF Driver
<1> QED BY <1>2, <1>3, <1>4, <1>5, KeepStep

LEMMA RetryingRuns ==
  ASSUME TypeInv, TypeInv', RunsInv, NEW p \in Procs, proc[p].at = "handler", Mem(p).step \in Steps,
         Retrying(p), engine' = engine, pausing' = pausing, UNCHANGED <<starts, lost, meddled>>,
         throws # 0 => throws' # 0
  PROVE  RunsInv'
<1>1. PICK r, m, z : r = proc[p].run /\ m = Retried(Mem(p)) /\ z = Mem(p).step
  OBVIOUS
<1>2. /\ Continues(p, "loop", m) /\ UNCHANGED did /\ r \in Runs /\ Mem(p) \in State
      /\ Mem(p).retries[z] < RetryLimit[z] /\ z \in Steps
      /\ IF engine = "machine" THEN Writes(r, m) ELSE UNCHANGED store
  BY <1>1, HolderFacts DEF Retrying, Holding
<1>3. Frame(r)
  BY <1>2, FrameWrites
<1>4. Holds(p, r) /\ Holds(p, r)' /\ Others(p)
  BY <1>1, <1>2 DEF Holds, Holding, Continues
<1>5. /\ m \in State /\ m.history = Mem(p).history /\ m.iters = Mem(p).iters
      /\ m.status = Mem(p).status
      /\ \A t \in Steps : m.retries[t] = IF t = z THEN Mem(p).retries[t] + 1 ELSE Mem(p).retries[t]
  BY <1>1, <1>2, RetriedFacts
<1>6. ASSUME Driver(p, r) PROVE Driver(p, r)'
  <2>1. Mem(p)' = m /\ proc'[p].at = "loop"
    BY <1>2 DEF Continues, Mem
  <2>2. \A t \in Steps : m.retries[t] <= RetryLimit[t]
    <3> SUFFICES ASSUME NEW t \in Steps PROVE m.retries[t] <= RetryLimit[t]
      OBVIOUS
    <3>1. Mem(p).retries[t] <= RetryLimit[t]
      BY <1>6 DEF Driver, Accounts, Bounded
    <3>2. Mem(p).retries[t] \in Nat /\ RetryLimit[t] \in Nat
      BY <1>2, FlowAssumption DEF State
    <3> QED BY <1>2, <1>5, <3>1, <3>2
  <2>3. Accounts(m, r)'
    <3>1. Accounts(Mem(p), r)
      BY <1>6 DEF Driver
    <3> QED BY <1>2, <1>5, <2>2, <3>1, AccountsSame
  <2>4. ~Ended(m) /\ ~Ended(store[r])
    BY <1>5, <1>6 DEF Driver, Ended
  <2>5. CASE engine = "machine"
    <3>1. store'[r] = m
      BY <1>2, <2>5, WritesFacts DEF TypeInv
    <3> QED BY <1>5, <2>1, <2>3, <2>4, <3>1, SavedDriver
  <2>6. CASE engine # "machine"
    <3>1. UNCHANGED store /\ engine = "engine"
      BY <1>2, <2>6, BoundAssumption DEF TypeInv, TypeOK
    <3>2. \A t \in Steps : Ahead(p, t)' = Ahead(p, t)
      <4> SUFFICES ASSUME NEW t \in Steps PROVE Ahead(p, t)' = Ahead(p, t)
        OBVIOUS
      <4>1. Mem(p).retries[t] \in Nat
        BY <1>2 DEF State
      <4> QED BY <1>1, <1>5, <2>1, <3>1, <4>1 DEF Ahead
    <3>3. Bounded(store[r], r)'
      BY <1>2, <1>6, <3>1 DEF Driver, Bounded
    <3>4. \A t \in Steps : m.iters[t] <= store'[r].iters[t] + Ahead(p, t)'
      BY <1>5, <1>6, <3>1, <3>2 DEF Driver
    <3> QED BY <2>1, <2>3, <2>4, <3>1, <3>3, <3>4 DEF Driver
  <2> QED BY <2>5, <2>6
<1> QED BY <1>2, <1>3, <1>4, <1>6, KeepStep

LEMMA MovingRuns ==
  ASSUME TypeInv, TypeInv', RunsInv, NEW p \in Procs, proc[p].at = "handler", Mem(p).step \in Steps,
         Moving(p), engine' = engine, pausing' = pausing, UNCHANGED <<starts, lost, meddled>>,
         throws # 0 => throws' # 0
  PROVE  RunsInv'
<1>0. PICK t \in Places, place \in {"loop", "catch"} :
        /\ Continues(p, place, Moved(Mem(p), t)) /\ Writes(proc[p].run, Moved(Mem(p), t))
        /\ did' = [did EXCEPT ![proc[p].run] = Append(@, Mem(p).step)]
  BY DEF Moving
<1>1. PICK r, m : r = proc[p].run /\ m = Moved(Mem(p), t)
  OBVIOUS
<1>7. /\ Continues(p, place, m) /\ Writes(r, m)
      /\ did' = [did EXCEPT ![r] = Append(@, Mem(p).step)]
  BY <1>0, <1>1
<1>2. r \in Runs /\ Mem(p) \in State /\ did \in [Runs -> Seq(Steps)]
  BY <1>1, HolderFacts DEF Holding, TypeInv, TypeOK
<1>3. Frame(r)
  BY <1>2, <1>7, FrameWrites
<1>4. Holds(p, r) /\ Holds(p, r)' /\ Others(p)
  BY <1>1, <1>7 DEF Holds, Holding, Continues
<1>5. /\ m \in State /\ m.history = Append(Mem(p).history, Mem(p).step) /\ m.iters = Mem(p).iters
      /\ m.status = Mem(p).status
      /\ \A s \in Steps : m.retries[s] = IF s = Mem(p).step THEN 0 ELSE Mem(p).retries[s]
  BY <1>1, <1>2, MovedFacts
<1>6. ASSUME Driver(p, r) PROVE Driver(p, r)'
  <2>1. Mem(p)' = m /\ store'[r] = m
    BY <1>7, WritesFacts DEF Continues, Mem, TypeInv
  <2>2. m.history = did'[r]
    BY <1>2, <1>5, <1>6, <1>7 DEF Driver, Accounts, Bounded
  <2>3. \A s \in Steps : m.retries[s] <= RetryLimit[s]
    <3> SUFFICES ASSUME NEW s \in Steps PROVE m.retries[s] <= RetryLimit[s]
      OBVIOUS
    <3>1. Mem(p).retries[s] <= RetryLimit[s] /\ RetryLimit[s] \in Nat
      BY <1>6, FlowAssumption DEF Driver, Accounts, Bounded
    <3> QED BY <1>5, <3>1
  <2>4. Accounts(m, r)'
    BY <1>5, <1>6, <2>2, <2>3 DEF Driver, Accounts, Bounded, Allowed, Unsaved
  <2>5. ~Ended(m)
    BY <1>5, <1>6 DEF Driver, Ended
  <2> QED BY <1>5, <2>1, <2>4, <2>5, SavedDriver
<1> QED BY <1>2, <1>3, <1>4, <1>6, KeepStep

LEMMA ReturnRuns ==
  ASSUME TypeInv, TypeInv', RunsInv, NEW p \in Procs, NEW result \in Results,
         MachineReturn(p, result) \/ EngineReturn(p, result)
  PROVE  RunsInv'
<1>1. /\ proc[p].at = "handler" /\ Mem(p).step \in Steps
      /\ Retrying(p) \/ Throwing(p) \/ Moving(p)
  BY ReturnEffect
<1>2. engine' = engine /\ pausing' = pausing /\ UNCHANGED <<starts, lost, meddled>>
  BY DEF MachineReturn, EngineReturn
<1>3. throws # 0 => throws' # 0
  <2>1. throws \in Nat
    BY BoundAssumption DEF TypeInv, TypeOK
  <2>2. throws' = throws \/ throws' = throws + 1
    BY DEF MachineReturn, EngineReturn, NoTransition, Moves
  <2> QED BY <2>1, <2>2
<1> QED BY <1>1, <1>2, <1>3, RetryingRuns, ThrowingRuns, MovingRuns

LEMMA CatchRuns ==
  ASSUME TypeInv, TypeInv', RunsInv, NEW p \in Procs, Catch(p)
  PROVE  RunsInv'
<1>1. PICK r, m : r = proc[p].run /\ m = CaughtState(p)
  OBVIOUS
<1>2. /\ proc[p].at = "catch" /\ Leaves(p) /\ r \in Runs /\ store[r] # NoRun
      /\ did \in [Runs -> Seq(Steps)] /\ lost \in [Runs -> Nat]
  BY <1>1, CatchEffect, HolderFacts DEF Holding, TypeInv, TypeOK
<1>3. /\ engine' = engine /\ pausing' = pausing /\ throws' = throws
      /\ UNCHANGED <<did, starts, meddled>>
  BY DEF Catch, bounds
<1>4. Holds(p, r)
  BY <1>1, <1>2 DEF Holds, Holding
<1>5. CASE /\ Writes(r, m) /\ UNCHANGED lost /\ m.status = "failed"
           /\ engine = "machine" \/ /\ m.history = Mem(p).history /\ m.iters = Mem(p).iters
                                    /\ m.retries = Mem(p).retries
  <2>1. Frame(r)
    BY <1>2, <1>3, <1>5, FrameWrites
  <2>2. store'[r] = m /\ m # NoRun
    BY <1>5, WritesFacts DEF TypeInv
  <2>3. ASSUME Driver(p, r) PROVE Rested(r)'
    <3>1. CASE engine = "machine"
      <4> SUFFICES ASSUME NEW s \in Steps, Breaker[s] # Unlimited
                   PROVE  starts'[r][s] <= Breaker[s] + Allowed(r, s)'
        BY <1>3, <1>5, <2>2, <3>1 DEF Rested, Forgotten
      <4>1. Mem(p).iters[s] <= Breaker[s] /\ Breaker[s] \in Nat
        BY <2>3, FlowAssumption DEF Driver, Accounts, Bounded
      <4>2. Mem(p).iters[s] \in Nat
        BY <1>4, HolderFacts DEF Holds, State
      <4>3. starts[r][s] <= Mem(p).iters[s] + Allowed(r, s) /\ starts[r][s] \in Nat
            /\ Allowed(r, s) \in Nat
        BY <1>2, <1>4, <2>3, AheadFacts
      <4>4. Allowed(r, s)' = Allowed(r, s)
        BY <1>3, <1>5 DEF Allowed, Unsaved
      <4> QED BY <1>3, <4>1, <4>2, <4>3, <4>4
    <3>2. CASE engine # "machine"
      <4>1. Accounts(Mem(p), r) /\ \A s \in Steps : m.retries[s] <= RetryLimit[s]
        BY <1>5, <2>3, <3>2 DEF Driver, Accounts, Bounded
      <4>2. Accounts(m, r)'
        BY <1>3, <1>5, <3>2, <4>1, AccountsSame
      <4> QED BY <1>3, <2>2, <3>2, <4>2 DEF Rested, Forgotten, Accounts, Bounded
    <3> QED BY <3>1, <3>2
  <2> QED BY <1>2, <1>4, <2>1, <2>2, <2>3, LeaveStep
<1>6. CASE UNCHANGED store /\ lost' = [lost EXCEPT ![r] = @ + 1]
  <2>1. Frame(r)
    BY <1>2, <1>3, <1>6, FrameWrites
  <2>2. lost'[r] = lost[r] + 1
    BY <1>2, <1>6
  <2>3. ASSUME Driver(p, r) PROVE Rested(r)'
    BY <1>2, <1>3, <1>4, <1>6, <2>2, <2>3, LostRested
  <2> QED BY <1>2, <1>4, <1>6, <2>1, <2>3, LeaveStep
<1> QED BY <1>1, <1>5, <1>6, CatchEffect

LEMMA MarkRuns ==
  ASSUME TypeInv, TypeInv', RunsInv, NEW p \in Procs, MarkPaused(p)
  PROVE  RunsInv'
<1>0. PICK r, m : r = proc[p].run /\ m = [store[proc[p].run] EXCEPT !.status = "paused"]
  OBVIOUS
<1>1. proc[p].at = "mark" /\ m \in State /\ Writes(r, m) /\ Continues(p, "unmark", Mem(p))
  BY <1>0, MarkEffect
<1>2. r \in Runs /\ store[r] \in State
  BY <1>0, <1>1, HolderFacts DEF Holding
<1>3. UNCHANGED ghosts /\ engine' = engine /\ pausing' = pausing /\ throws' = throws
  BY DEF MarkPaused, bounds
<1>4. Frame(r)
  BY <1>1, <1>2, <1>3, FrameWrites DEF ghosts
<1>5. /\ m.status = "paused" /\ m.history = store[r].history /\ m.iters = store[r].iters
      /\ m.retries = store[r].retries
  BY <1>0, <1>2, StatusFacts DEF Statuses
<1>6. Holds(p, r) /\ Holds(p, r)' /\ Others(p)
  BY <1>0, <1>1 DEF Holds, Holding, Continues
<1>7. ASSUME Driver(p, r) PROVE Driver(p, r)'
  <2>1. Mem(p)' = Mem(p) /\ proc'[p].at = "unmark" /\ store'[r] = m
    BY <1>1, WritesFacts DEF Continues, Mem, TypeInv
  <2>2. Accounts(Mem(p), r)' /\ Bounded(m, r)'
    BY <1>3, <1>5, <1>7, <2>1 DEF Driver, Accounts, Bounded, Allowed, Unsaved, ghosts
  <2>3. \A t \in Steps : Ahead(p, t)' = 0 /\ Ahead(p, t) = 0
    BY <1>1, <2>1 DEF Ahead
  <2>4. \A t \in Steps : Mem(p)'.iters[t] <= store'[r].iters[t] + Ahead(p, t)'
    BY <1>5, <1>7, <2>1, <2>3 DEF Driver
  <2>5. ~Ended(Mem(p)) /\ ~Ended(m)
    BY <1>1, <1>5, <1>7 DEF Driver, Ended
  <2> QED BY <2>1, <2>2, <2>4, <2>5 DEF Driver
<1> QED BY <1>2, <1>4, <1>6, <1>7, KeepStep

LEMMA UnmarkRuns ==
  ASSUME TypeInv, TypeInv', RunsInv, NEW p \in Procs, Unmark(p)
  PROVE  RunsInv'
<1>0. PICK r : r = proc[p].run
  OBVIOUS
<1>1. proc[p].at = "unmark" /\ Leaves(p) /\ r \in Runs /\ store[r] \in State /\ store[r] # NoRun
  BY <1>0, GoesFacts, HolderFacts DEF Unmark, At, Holding
<1>2. UNCHANGED <<ghosts, engine, store, pausing, throws>>
  BY DEF Unmark, bounds
<1>3. Frame(r)
  BY <1>1, <1>2, FrameWrites DEF ghosts
<1>4. Holds(p, r)
  BY <1>0, <1>1 DEF Holds, Holding
<1>5. ASSUME Driver(p, r) PROVE Rested(r)'
  <2>1. ~Forgotten(r)'
    BY <1>1, <1>2, <1>5 DEF Driver, Ended, Forgotten
  <2>2. ASSUME NEW s \in Steps PROVE starts[r][s] <= store[r].iters[s] + Allowed(r, s)
    <3>1. /\ Ahead(p, s) = 0 /\ store[r].iters[s] \in Nat /\ Allowed(r, s) \in Nat
          /\ starts[r][s] <= store[r].iters[s] + Ahead(p, s) + Allowed(r, s)
      BY <1>1, <1>4, <1>5, AheadFacts DEF State
    <3> QED BY <3>1
  <2>3. Bounded(store[r], r)
    BY <1>5 DEF Driver
  <2> QED BY <1>2, <2>1, <2>2, <2>3 DEF Rested, Accounts, Bounded, Allowed, Unsaved, ghosts
<1> QED BY <1>1, <1>2, <1>3, <1>4, <1>5, LeaveStep

LEMMA AbortRuns ==
  ASSUME TypeInv, TypeInv', RunsInv, NEW p \in Procs, Abort(p)
  PROVE  RunsInv'
<1>0. PICK r : r = proc[p].run
  OBVIOUS
<1>1. /\ proc[p].at \in {"loop", "handler"} /\ Continues(p, proc[p].at, Mem(p)) /\ r \in Runs
  BY <1>0, AbortEffect, HolderFacts DEF Holding
<1>2. UNCHANGED <<ghosts, engine, store, pausing, throws>>
  BY DEF Abort
<1>3. Frame(r)
  BY <1>1, <1>2, FrameWrites DEF ghosts
<1>4. Holds(p, r) /\ Holds(p, r)' /\ Others(p) /\ Mem(p)' = Mem(p) /\ proc'[p].at = proc[p].at
  BY <1>0, <1>1 DEF Holds, Holding, Continues, Mem
<1>5. ASSUME Driver(p, r) PROVE Driver(p, r)'
  BY <1>2, <1>4, <1>5 DEF Driver, Accounts, Bounded, Allowed, Unsaved, Ahead, ghosts
<1> QED BY <1>1, <1>3, <1>4, <1>5, KeepStep

LEMMA CrashRuns ==
  ASSUME TypeInv, TypeInv', RunsInv, NEW p \in Procs, Crash(p)
  PROVE  RunsInv'
<1>0. PICK r : r = proc[p].run
  OBVIOUS
<1>1. /\ Leaves(p) /\ UNCHANGED <<engine, store, pausing, throws, did, starts, meddled>>
      /\ lost \in [Runs -> Nat]
      /\ \A x \in Runs : lost'[x] = lost[x] + IF r = x THEN 1 ELSE 0
  BY <1>0, GoesFacts DEF Crash, TypeInv, TypeOK
<1>2. CASE proc[p].at \in Holding
  <2>1. Holds(p, r) /\ r \in Runs /\ store[r] # NoRun
    BY <1>0, <1>2, HolderFacts DEF Holds
  <2>2. Frame(r)
    BY <1>1, <2>1, FrameWrites
  <2>3. lost'[r] = lost[r] + 1
    BY <1>1, <2>1
  <2>4. ASSUME Driver(p, r) PROVE Rested(r)'
    BY <1>1, <2>1, <2>3, <2>4, LostRested
  <2> QED BY <1>1, <2>1, <2>2, <2>4, LeaveStep
<1>3. CASE proc[p].at \notin Holding
  <2>1. Frame(None)
    BY <1>1 DEF Frame
  <2> QED BY <1>1, <1>3, <2>1, IdleStep, IdleType DEF Leaves, Holding
<1> QED BY <1>2, <1>3

LEMMA WaitsRuns ==
  ASSUME TypeInv, TypeInv', RunsInv, NEW p \in Procs, Waits(p), ~(proc[p].at \in Holding),
         engine' = engine, pausing' = pausing, UNCHANGED ghosts, throws' = throws
  PROVE  RunsInv'
<1>1. \A x \in Runs : lost[x] \in Nat
  BY DEF TypeInv, TypeOK
<1>2. Frame(None)
  BY <1>1 DEF Frame, ghosts, Waits
<1> QED BY <1>2, IdleStep DEF Waits, ghosts

LEMMA CreateRuns ==
  ASSUME TypeInv, TypeInv', RunsInv, NEW p \in Procs, Create(p)
  PROVE  RunsInv'
<1>1. PICK r \in Runs :
        /\ store[r] = NoRun /\ Writes(r, Initial) /\ Others(p) /\ proc'[p].at = "loop"
        /\ proc'[p].run = r /\ proc'[p].mem = Initial
  BY CreateEffect
<1>2. UNCHANGED ghosts /\ engine' = engine /\ pausing' = pausing /\ throws' = throws
  BY DEF Create, bounds
<1>3. Frame(r)
  BY <1>1, <1>2, FrameWrites DEF ghosts
<1>4. ~(proc[p].at \in Holding)
  BY CreateEffect
<1>5. \A x \in Runs : x # r => RunInv(x)'
  BY <1>1, <1>3, <1>4, OtherRuns DEF Holds
<1>6. RunInv(r)'
  <2> SUFFICES ASSUME ~meddled'[r] PROVE RunInv(r)'
    BY DEF RunInv
  <2>1. ~meddled[r] /\ RunInv(r)
    BY <1>1, <1>2 DEF RunsInv, ghosts
  <2>2. \A q \in Procs : ~Holds(q, r)
    BY <1>1, HolderFacts DEF Holds
  <2>3. Untouched(r) /\ pausing.run # r
    <3>1. Untouched(r)
      BY <1>1, <2>1, <2>2 DEF RunInv
    <3>2. ASSUME pausing.run = r PROVE FALSE
      <4>1. pausing # NoPause
        BY <3>2, <1>1, FlowAssumption DEF NoPause
      <4>2. pausing.state \in State
        BY <4>1 DEF TypeInv, TypeOK
      <4>3. pausing.state = NoRun
        BY <1>1, <2>1, <3>2 DEF RunInv
      <4> QED BY <4>2, <4>3 DEF State, NoRun
    <3> QED BY <3>1, <3>2
  <2>4. \A q \in Procs : Holds(q, r)' => q = p
    BY <1>1, <2>2, OthersFacts DEF Holds, TypeInv
  <2>5. Accounts(Initial, r)'
    <3>1. Initial.history = did'[r]
      BY <1>2, <2>3, InitialFacts DEF Untouched, ghosts
    <3>2. \A s \in Steps : Initial.retries[s] <= RetryLimit[s]
      BY FlowAssumption, InitialFacts
    <3>3. \A s \in Steps : Breaker[s] # Unlimited => Initial.iters[s] <= Breaker[s]
      BY FlowAssumption, InitialFacts
    <3>4. ASSUME NEW s \in Steps PROVE starts'[r][s] <= Initial.iters[s] + Allowed(r, s)'
      <4>1. Allowed(r, s)' \in Nat
        BY <1>1, <1>2, AllowedFacts DEF ghosts, TypeInv, TypeOK
      <4>2. starts'[r][s] = 0 /\ Initial.iters[s] = 0
        BY <1>2, <2>3, InitialFacts DEF Untouched, ghosts
      <4> QED BY <4>1, <4>2
    <3> QED BY <3>1, <3>2, <3>3, <3>4 DEF Accounts, Bounded
  <2>6. Driver(p, r)'
    <3>1. Mem(p)' = Initial /\ store'[r] = Initial
      BY <1>1, WritesFacts DEF Mem, TypeInv
    <3>2. Initial \in State /\ ~Ended(Initial)
      BY InitialFacts DEF Ended
    <3> QED BY <2>5, <3>1, <3>2, SavedDriver
  <2>7. Holds(p, r)'
    BY <1>1 DEF Holds, Holding
  <2> QED BY <1>2, <2>3, <2>4, <2>6, <2>7 DEF RunInv
<1> QED BY <1>5, <1>6 DEF RunsInv

LEMMA LoadRuns ==
  ASSUME TypeInv, TypeInv', RunsInv, NEW p \in Procs, Load(p)
  PROVE  RunsInv'
<1>0. PICK r : r = proc[p].run
  OBVIOUS
<1>1. proc[p].at = "load" /\ UNCHANGED store /\ r \in Runs /\ store[r] \in State /\ store[r] # NoRun
  BY <1>0, LoadEffect, HolderFacts
<1>2. /\ engine' = engine /\ pausing' = pausing /\ throws' = throws /\ UNCHANGED <<did, starts, lost>>
      /\ lost \in [Runs -> Nat] /\ meddled \in [Runs -> BOOLEAN]
  BY DEF Load, bounds, TypeInv, TypeOK
<1>3. CASE Leaves(p) /\ UNCHANGED meddled
  <2>1. Waits(p)
    BY <1>1, <1>3, IdleType DEF Leaves, Waits, Holding
  <2> QED BY <1>1, <1>2, <1>3, <2>1, WaitsRuns DEF Holding, ghosts
<1>4. CASE /\ ~Ended(store[r]) /\ Continues(p, "restore", store[r])
           /\ meddled' = [meddled EXCEPT ![r] = @ \/ Driving(r) # {p} \/ pausing.run = r]
  <2>1. \A q \in Procs : q # p => proc'[q] = proc[q]
    BY <1>4, OthersFacts DEF Continues, TypeInv
  <2>2. proc'[p].at = "restore" /\ proc'[p].run = r /\ proc'[p].mem = store[r]
    BY <1>0, <1>4 DEF Continues
  <2>3. ASSUME NEW x \in Runs, x # r PROVE RunInv(x)'
    <3>1. RunInv(x) /\ Same(x)
      BY <1>1, <1>2, <1>4, <2>3 DEF RunsInv, Same
    <3>2. \A q \in Procs : (Holds(q, x)' <=> Holds(q, x)) /\ (Holds(q, x) => proc'[q] = proc[q])
      BY <1>1, <2>1, <2>2, <2>3 DEF Holds, Holding
    <3> QED BY <3>1, <3>2, SameRun
  <2>4. RunInv(r)'
    <3> SUFFICES ASSUME ~meddled'[r] PROVE RunInv(r)'
      BY DEF RunInv
    <3>1. ~meddled[r] /\ Driving(r) = {p} /\ pausing.run # r
      BY <1>1, <1>2, <1>4
    <3>2. \A q \in Procs : ~Holds(q, r)
      BY <1>1, <3>1 DEF Driving, Holds, Holding
    <3>3. Accounts(store[r], r)
      BY <1>1, <1>4, <3>1, <3>2 DEF RunsInv, RunInv, Rested, Forgotten, Ended
    <3>4. Accounts(store[r], r)'
      BY <1>1, <1>2, <3>3 DEF Accounts, Bounded, Allowed, Unsaved
    <3>5. Driver(p, r)'
      BY <1>1, <1>4, <2>2, <3>4, SavedDriver DEF Mem, Accounts, Bounded
    <3>6. \A q \in Procs : Holds(q, r)' => q = p
      BY <2>1, <3>2 DEF Holds
    <3>7. Holds(p, r)'
      BY <2>2 DEF Holds, Holding
    <3> QED BY <1>2, <3>1, <3>5, <3>6, <3>7 DEF RunInv
  <2> QED BY <2>3, <2>4 DEF RunsInv
<1> QED BY <1>0, <1>3, <1>4, LoadEffect

LEMMA PauseLoadRuns ==
  ASSUME TypeInv, TypeInv', RunsInv, NEW r \in Runs, PauseLoad(r)
  PROVE  RunsInv'
<1>1. /\ pausing = NoPause /\ store[r] # NoRun /\ pausing' = [run |-> r, state |-> store[r]]
      /\ meddled' = [meddled EXCEPT ![r] = @ \/ Driving(r) # {} \/ Ended(store[r])]
      /\ UNCHANGED <<engine, store, proc, throws, did, starts, lost>>
      /\ lost \in [Runs -> Nat] /\ meddled \in [Runs -> BOOLEAN]
  BY DEF PauseLoad, TypeInv, TypeOK
<1>2. ASSUME NEW x \in Runs, x # r PROVE RunInv(x)'
  <2>1. RunInv(x) /\ Same(x)
    BY <1>1, <1>2 DEF RunsInv, Same
  <2> QED BY <1>1, <2>1, SameRun DEF Holds
<1>3. RunInv(r)'
  <2> SUFFICES ASSUME ~meddled'[r] PROVE RunInv(r)'
    BY DEF RunInv
  <2>1. ~meddled[r] /\ Driving(r) = {} /\ ~Ended(store[r])
    BY <1>1
  <2>2. \A q \in Procs : ~Holds(q, r)
    BY <2>1 DEF Driving, Holds
  <2>3. Rested(r)
    BY <1>1, <2>1, <2>2 DEF RunsInv, RunInv
  <2>4. Rested(r)'
    BY <1>1, <2>3 DEF Rested, Forgotten, Accounts, Bounded, Allowed, Unsaved
  <2>5. \A q \in Procs : ~Holds(q, r)'
    BY <1>1, <2>2 DEF Holds
  <2> QED BY <1>1, <2>1, <2>4, <2>5 DEF RunInv
<1> QED BY <1>2, <1>3 DEF RunsInv

LEMMA PauseSaveRuns ==
  ASSUME TypeInv, TypeInv', RunsInv, PauseSave
  PROVE  RunsInv'
<1>1. PICK r, m : r = pausing.run /\ m = [pausing.state EXCEPT !.status = "paused"]
  OBVIOUS
<1>2. /\ r \in Runs /\ pausing.state \in State /\ pausing' = NoPause /\ None \notin Runs
      /\ store' = [store EXCEPT ![r] = m] /\ UNCHANGED <<engine, proc, throws, did, starts, lost, meddled>>
      /\ lost \in [Runs -> Nat]
  BY <1>1, FlowAssumption DEF PauseSave, bounds, ghosts, TypeInv, TypeOK
<1>3. /\ m \in State /\ m # NoRun /\ m.status = "paused" /\ m.history = pausing.state.history
      /\ m.iters = pausing.state.iters /\ m.retries = pausing.state.retries
  BY <1>1, <1>2, StatusFacts DEF Statuses
<1>4. store'[r] = m /\ \A x \in Runs : x # r => store'[x] = store[x]
  BY <1>2 DEF TypeInv, TypeOK
<1>5. ASSUME NEW x \in Runs, x # r PROVE RunInv(x)'
  <2>1. RunInv(x) /\ Same(x)
    BY <1>2, <1>4, <1>5 DEF RunsInv, Same, NoPause
  <2> QED BY <1>2, <2>1, SameRun DEF Holds
<1>6. RunInv(r)'
  <2> SUFFICES ASSUME ~meddled'[r] PROVE RunInv(r)'
    BY DEF RunInv
  <2>1. /\ \A q \in Procs : ~Holds(q, r)
        /\ store[r] = pausing.state /\ ~Ended(store[r])
    BY <1>1, <1>2 DEF RunsInv, RunInv
  <2>2. Accounts(store[r], r)
    <3>1. store[r] # NoRun
      BY <1>2, <2>1 DEF State, NoRun
    <3> QED BY <1>2, <2>1, <3>1 DEF RunsInv, RunInv, Rested, Forgotten, Ended
  <2>3. Accounts(m, r)'
    <3>1. \A s \in Steps : m.retries[s] <= RetryLimit[s]
      BY <1>3, <2>1, <2>2 DEF Accounts, Bounded
    <3> QED BY <1>2, <1>3, <2>1, <2>2, <3>1, AccountsSame
  <2>4. Rested(r)'
    BY <1>3, <1>4, <2>3 DEF Rested, Forgotten, Accounts, Bounded
  <2>5. \A q \in Procs : ~Holds(q, r)'
    BY <1>2, <2>1 DEF Holds
  <2>6. pausing'.run # r
    BY <1>2 DEF NoPause
  <2> QED BY <1>3, <1>4, <2>4, <2>5, <2>6 DEF RunInv
<1> QED BY <1>5, <1>6 DEF RunsInv

LEMMA RunsInit == Init => RunsInv
<1> SUFFICES ASSUME Init, NEW r \in Runs PROVE RunInv(r)
  BY DEF RunsInv
<1>1. \A p \in Procs : ~Holds(p, r)
  BY IdleType DEF Init, Holds, Holding
<1>2. store[r] = NoRun /\ Untouched(r)
  BY DEF Init, Untouched
<1>3. pausing.run # r
  BY FlowAssumption DEF Init, NoPause
<1> QED BY <1>1, <1>2, <1>3 DEF RunInv

LEMMA RunsStep ==
  ASSUME TypeInv, TypeInv', RunsInv, [Next]_vars
  PROVE  RunsInv'
<1>1. ASSUME NEW p \in Procs, Work(p) PROVE RunsInv'
  <2>1. CASE ClearMarker(p)
    BY <2>1, ClearEffect, WaitsRuns DEF ClearMarker, bounds
  <2>2. CASE ResolveRun(p)
    BY <2>2, ResolveEffect, WaitsRuns DEF ResolveRun, bounds
  <2>3. CASE Exits(p)
    BY <2>3, ExitRuns
  <2>4. ASSUME NEW result \in Results, MachineReturn(p, result) \/ EngineReturn(p, result)
        PROVE  RunsInv'
    BY <2>4, ReturnRuns
  <2> QED BY <1>1, <2>1, <2>2, <2>3, <2>4, CreateRuns, LoadRuns, RestoreRuns, RedirectRuns, CallRuns,
             CatchRuns, MarkRuns, UnmarkRuns DEF Work, Exits
<1>2. ASSUME NEW p \in Procs, LaunchCli(p) \/ LaunchRun(p) \/ LaunchResume(p) PROVE RunsInv'
  <2>1. engine' = engine /\ pausing' = pausing /\ UNCHANGED ghosts /\ throws' = throws
    BY <1>2 DEF LaunchCli, LaunchRun, LaunchResume, Launch
  <2>2. ~(proc[p].at \in Holding) /\ Waits(p)
    <3>1. CASE LaunchCli(p)
      <4>1. PICK mode \in {"run", "data", "resume"} : Launch(p, mode, "clear", None)
        BY <3>1 DEF LaunchCli
      <4> QED BY <4>1, LaunchEffect DEF Modes
    <3>2. CASE LaunchRun(p)
      BY <3>2, LaunchEffect DEF LaunchRun, Modes
    <3>3. CASE LaunchResume(p)
      BY <3>3, LaunchEffect DEF LaunchResume, Modes
    <3> QED BY <1>2, <3>1, <3>2, <3>3
  <2> QED BY <2>1, <2>2, WaitsRuns
<1>3. CASE UNCHANGED vars \/ RequestPause
  <2>1. UNCHANGED <<engine, store, proc, pausing, throws, did, starts, lost, meddled>>
    BY <1>3 DEF RequestPause, vars, bounds, ghosts
  <2>2. \A x \in Runs : lost[x] \in Nat
    BY DEF TypeInv, TypeOK
  <2> SUFFICES ASSUME NEW x \in Runs PROVE RunInv(x)'
    BY DEF RunsInv
  <2>3. RunInv(x) /\ Same(x)
    BY <2>1, <2>2 DEF RunsInv, Same
  <2> QED BY <2>1, <2>3, SameRun DEF Holds
<1> QED BY <1>1, <1>2, <1>3, AbortRuns, CrashRuns, PauseLoadRuns, PauseSaveRuns DEF Next

----------------------------------------------------------------------------
(* The theorems.                                                           *)

LEMMA RunsAlways == Spec => [](TypeInv /\ RunsInv)
<1>1. Init => TypeInv /\ RunsInv
  BY TypeInit, RunsInit
<1>2. TypeInv /\ RunsInv /\ [Next]_vars => (TypeInv /\ RunsInv)'
  BY TypeStep, RunsStep
<1> QED BY <1>1, <1>2, PTL DEF Spec

(* The saved history of a run that had one driver at a time is every       *)
(* transition taken since its start, in order, whatever was paused,        *)
(* cancelled, resumed or lost in between.                                  *)
THEOREM HistoriesAreKept == Spec => []ProgressKept
<1>1. TypeInv /\ RunsInv => ProgressKept
  <2> SUFFICES ASSUME TypeInv, RunsInv, NEW r \in Runs, store[r] # NoRun, ~meddled[r]
               PROVE  store[r].history = did[r] \/ Forgotten(r)
    BY DEF ProgressKept, Forgotten
  <2>1. CASE \E p \in Procs : Holds(p, r)
    BY <2>1 DEF RunsInv, RunInv, Driver, Bounded
  <2>2. CASE \A p \in Procs : ~Holds(p, r)
    BY <2>2 DEF RunsInv, RunInv, Rested, Accounts, Bounded
  <2> QED BY <2>1, <2>2
<1> QED BY <1>1, RunsAlways, PTL

(* A breaker lets through no more calls than it is set to, but for those   *)
(* whose count the drivers that were lost took with them.                  *)
THEOREM BreakersHold == Spec => []BreakerHolds
<1>1. TypeInv /\ RunsInv => BreakerHolds
  <2> SUFFICES ASSUME TypeInv, RunsInv, NEW r \in Runs, NEW s \in Steps,
                      ~meddled[r], Breaker[s] # Unlimited
               PROVE  starts[r][s] <= Breaker[s] + Allowed(r, s)
    BY DEF BreakerHolds, Allowed
  <2>1. Breaker[s] \in Nat /\ starts[r][s] \in Nat
    BY FlowAssumption DEF TypeInv, TypeOK
  <2>2. CASE \E p \in Procs : Holds(p, r)
    <3>1. PICK p \in Procs : Holds(p, r)
      BY <2>2
    <3>2. Driver(p, r)
      BY <3>1 DEF RunsInv, RunInv
    <3>3. Mem(p).iters[s] \in Nat
      BY <3>1, HolderFacts DEF Holds, State
    <3>4. Mem(p).iters[s] <= Breaker[s]
      BY <3>2 DEF Driver, Accounts, Bounded
    <3>5. starts[r][s] <= Mem(p).iters[s] + Allowed(r, s) /\ Allowed(r, s) \in Nat
      BY <3>1, <3>2, AheadFacts
    <3> QED BY <2>1, <3>3, <3>4, <3>5
  <2>3. CASE \A p \in Procs : ~Holds(p, r)
    <3>1. Allowed(r, s) \in Nat
      <4> DEFINE u == Unsaved(s)
                 n == lost[r]
      <4>1. u \in Nat /\ n \in Nat
        BY FlowAssumption DEF Unsaved, TypeInv, TypeOK
      <4>2. Allowed(r, s) = n * u
        BY DEF Allowed
      <4> HIDE DEF u, n
      <4>3. n * u \in Nat
        BY <4>1, TimesFacts
      <4> QED BY <4>2, <4>3
    <3>2. CASE store[r] = NoRun
      <4>1. starts[r][s] = 0
        BY <2>3, <3>2 DEF RunsInv, RunInv, Untouched
      <4> QED BY <2>1, <3>1, <4>1
    <3>3. CASE store[r] # NoRun
      <4>1. Rested(r)
        BY <2>3, <3>3 DEF RunsInv, RunInv
      <4>2. CASE Forgotten(r)
        BY <4>1, <4>2 DEF Rested
      <4>3. CASE ~Forgotten(r)
        <5>1. store[r].iters[s] <= Breaker[s] /\ starts[r][s] <= store[r].iters[s] + Allowed(r, s)
          BY <4>1, <4>3 DEF Rested, Accounts, Bounded
        <5>2. store[r].iters[s] \in Nat
          BY <3>3 DEF TypeInv, TypeOK, State
        <5> QED BY <2>1, <3>1, <5>1, <5>2
      <4> QED BY <4>2, <4>3
    <3> QED BY <3>2, <3>3
  <2> QED BY <2>2, <2>3
<1> QED BY <1>1, RunsAlways, PTL

(* Who writes the state of a run: the one that creates it, one that holds  *)
(* it, and a pause of a program.                                           *)
LEMMA Writers ==
  ASSUME TypeInv, Next, NEW r \in Runs, store'[r] # store[r]
  PROVE  store[r] = NoRun \/ (\E p \in Procs : Holds(p, r)) \/ pausing.run = r
<1>1. ASSUME NEW p \in Procs, proc[p].at \in Holding, NEW st, Writes(proc[p].run, st) PROVE Holds(p, r)
  BY <1>1, WritesFacts DEF Holds, TypeInv
<1>2. ASSUME NEW p \in Procs, Work(p)
      PROVE  store[r] = NoRun \/ (\E q \in Procs : Holds(q, r))
  <2>1. CASE ClearMarker(p) \/ ResolveRun(p) \/ Load(p) \/ CallHandler(p) \/ Unmark(p)
    BY <2>1 DEF ClearMarker, ResolveRun, Load, CallHandler, Unmark
  <2>2. CASE Create(p)
    BY <2>2, CreateEffect, WritesFacts DEF TypeInv
  <2>3. CASE Restore(p)
    BY <1>1, <2>3, RestoreEffect DEF Holding
  <2>4. CASE Exits(p)
    BY <1>1, <2>4, ExitEffect DEF Holding
  <2>5. CASE Redirect(p)
    BY <1>1, <2>5, RedirectEffect DEF Holding
  <2>6. ASSUME NEW result \in Results, MachineReturn(p, result) \/ EngineReturn(p, result)
        PROVE  Holds(p, r)
    BY <1>1, <2>6, ReturnEffect DEF Retrying, Throwing, Moving, Holding
  <2>7. CASE Catch(p)
    BY <1>1, <2>7, CatchEffect DEF Holding
  <2>8. CASE MarkPaused(p)
    BY <1>1, <2>8, MarkEffect DEF Holding
  <2> QED BY <1>2, <2>1, <2>2, <2>3, <2>4, <2>5, <2>6, <2>7, <2>8 DEF Work, Exits
<1>3. ASSUME NEW p \in Procs,
             LaunchCli(p) \/ LaunchRun(p) \/ LaunchResume(p) \/ Abort(p) \/ Crash(p)
      PROVE  FALSE
  BY <1>3 DEF LaunchCli, LaunchRun, LaunchResume, Launch, Abort, Crash
<1>4. CASE RequestPause \/ \E x \in Runs : PauseLoad(x)
  BY <1>4 DEF RequestPause, PauseLoad
<1>5. CASE PauseSave
  BY <1>5 DEF PauseSave, TypeInv, TypeOK
<1> QED BY <1>2, <1>3, <1>4, <1>5 DEF Next

LEMMA MeddlingStays ==
  ASSUME TypeInv, Next, NEW r \in Runs, meddled[r]
  PROVE  meddled'[r]
<1>1. meddled \in [Runs -> BOOLEAN]
  BY DEF TypeInv, TypeOK
<1>2. CASE UNCHANGED meddled
  BY <1>2
<1>3. ASSUME NEW p \in Procs, Work(p), ~Load(p) PROVE UNCHANGED meddled
  BY <1>3 DEF Work, ClearMarker, ResolveRun, Create, Restore, Cancel, Timeout, Exhaust, Complete, End,
              Redirect, CallHandler, MachineReturn, EngineReturn, Catch, MarkPaused, Unmark, ghosts
<1>4. ASSUME NEW p \in Procs, Load(p) PROVE meddled'[r]
  BY <1>1, <1>4 DEF Load
<1>5. ASSUME NEW p \in Procs,
             LaunchCli(p) \/ LaunchRun(p) \/ LaunchResume(p) \/ Abort(p) \/ Crash(p)
      PROVE  UNCHANGED meddled
  BY <1>5 DEF LaunchCli, LaunchRun, LaunchResume, Launch, Abort, Crash, ghosts
<1>6. ASSUME NEW x \in Runs, PauseLoad(x) PROVE meddled'[r]
  BY <1>1, <1>6 DEF PauseLoad
<1>7. CASE RequestPause \/ PauseSave
  BY <1>7 DEF RequestPause, PauseSave, ghosts
<1> QED BY <1>2, <1>3, <1>4, <1>5, <1>6, <1>7 DEF Next

(* A run that has ended stays as it was saved, whoever tries to resume it. *)
THEOREM EndsAreFinal == Spec => EndedStays
<1> DEFINE Kept == \A r \in Runs : Ended(store[r]) /\ ~meddled'[r] /\ throws = 0 => store'[r] = store[r]
<1>1. ASSUME TypeInv, RunsInv, [Next]_vars PROVE Kept
  <2> SUFFICES ASSUME NEW r \in Runs, Ended(store[r]), ~meddled'[r], throws = 0, store'[r] # store[r]
               PROVE  FALSE
    OBVIOUS
  <2>1. Next
    BY <1>1 DEF vars
  <2>2. ~meddled[r]
    BY <1>1, <2>1, MeddlingStays
  <2>3. RunInv(r)
    BY <1>1 DEF RunsInv
  <2>4. CASE store[r] = NoRun
    BY <2>4 DEF Ended, NoRun
  <2>5. CASE \E p \in Procs : Holds(p, r)
    BY <2>2, <2>3, <2>5 DEF RunInv, Driver
  <2>6. CASE pausing.run = r
    BY <2>2, <2>3, <2>6 DEF RunInv
  <2> QED BY <1>1, <2>1, <2>4, <2>5, <2>6, Writers
<1>2. TypeInv /\ RunsInv /\ [Next]_vars => [Kept]_vars
  BY <1>1
<1> HIDE DEF Kept
<1>3. Spec => [][Kept]_vars
  BY <1>2, RunsAlways, PTL DEF Spec
<1> QED BY <1>3 DEF EndedStays, Kept

=============================================================================
