------------------------ MODULE ReactiveGraphProofs ------------------------
(***************************************************************************)
(* Theorems about ReactiveGraph, for every set of tasks, every wiring and  *)
(* every mix of API calls.                                                 *)
(***************************************************************************)
EXTENDS ReactiveDataflow, LiveGraphProofs

----------------------------------------------------------------------------
(* Type correctness.                                                       *)

LEMMA CallDrainType ==
  ASSUME TypeOK, CallDrain
  PROVE  phase' \in {"idle", "drain", "apply", "dispatch"} /\ drainQueued' \in BOOLEAN
<1>1. CASE disposed \/ phase = "idle"
  BY <1>1, Zenon DEF TypeOK, CallDrain
<1>2. CASE ~ (disposed \/ phase = "idle")
  BY <1>2, Zenon DEF TypeOK, CallDrain
<1> QED BY <1>1, <1>2

LEMMA DropType ==
  ASSUME TypeOK, NEW t \in Tasks, NEW i \in DOMAIN flights[t], Drop(t, i)
  PROVE  flights' \in [Tasks -> Seq(Inputs)] /\ flights[t][i] \in Inputs
<1>1. flights[t] \in Seq(Inputs)
  BY DEF TypeOK
<1>2. Without(flights[t], i) \in Seq(Inputs)
  BY <1>1, RemovedType DEF Without
<1>3. flights[t][i] \in Inputs
  BY <1>1, LenProperties, ElementOfSeq
<1> QED BY <1>2, <1>3 DEF Drop, TypeOK

LEMMA LaunchType ==
  ASSUME TypeOK, NEW t \in Tasks, Launch(t)
  PROVE  flights' \in [Tasks -> Seq(Inputs)] /\ launched' \in [Tasks -> Nat]
<1>1. ReadInputs(live, t) \in Inputs
  BY ReadInputsType DEF TypeOK
<1>2. Append(flights[t], ReadInputs(live, t)) \in Seq(Inputs)
  BY <1>1, AppendProperties DEF TypeOK
<1>3. launched' \in [Tasks -> Nat]
  BY DEF Launch, TypeOK
<1> QED BY <1>2, <1>3 DEF Launch, TypeOK

LEMMA InitType == Init => TypeOK
<1> SUFFICES ASSUME Init PROVE TypeOK
  OBVIOUS
<1>1. live \in Graph
  <2>1. [t \in Tasks |-> FreshStore] \in [Tasks -> Store]
    BY NoInputsType
  <2> QED BY <2>1, EngineAssumption DEF Init, Graph
<1>2. /\ input \in Seq(Event) /\ internal \in Seq(Event) /\ batch \in Seq(Event)
      /\ todo \in SUBSET Tasks /\ updates \in Seq(Tasks)
  BY DEF Init
<1>3. drainQueued \in BOOLEAN /\ disposed \in BOOLEAN
  BY Zenon DEF Init
<1>4. flights \in [Tasks -> Seq(Inputs)] /\ basis \in [Tasks -> Inputs] /\ launched \in [Tasks -> Nat]
  BY NoInputsType DEF Init
<1> QED BY <1>1, <1>2, <1>3, <1>4 DEF Init, TypeOK

LEMMA DrainType ==
  ASSUME TypeOK, Drain
  PROVE  TypeOK'
<1>1. CASE TakeEvents
  <2>1. Taken \in Seq(Event)
    BY ConcatProperties DEF Taken, TypeOK
  <2> QED BY <1>1, <2>1, Zenon, EmptySeq DEF TakeEvents, TypeOK
<1>2. CASE DropEvents
  BY <1>2, Zenon, EmptySeq DEF DropEvents, TypeOK
<1>3. CASE ApplyOne
  <2>1. Head(batch) \in Event /\ Tail(batch) \in Seq(Event)
    BY <1>3, HeadTailProperties DEF ApplyOne, TypeOK
  <2>2. live' \in Graph
    BY <1>3, <2>1, ApplyEventType DEF ApplyOne, TypeOK
  <2>3. basis' \in [Tasks -> Inputs]
    BY <1>3, <2>1 DEF ApplyOne, TypeOK, Event
  <2>4. Head(batch).task \in Tasks
    BY <2>1 DEF Event
  <2>5. updates' \in Seq(Tasks)
    BY <1>3, <2>4, AppendProperties DEF ApplyOne, TypeOK
  <2> QED BY <1>3, <2>1, <2>2, <2>3, <2>5, Zenon DEF ApplyOne, TypeOK
<1>4. CASE Schedule
  <2>1. todo' \in SUBSET Tasks
    BY <1>4, EngineAssumption DEF Schedule
  <2> QED BY <1>4, <2>1, Zenon DEF Schedule, TypeOK
<1>5. ASSUME NEW t \in todo, Dispatch(t) PROVE TypeOK'
  <2>1. t \in Tasks
    BY DEF TypeOK
  <2>2. flights' \in [Tasks -> Seq(Inputs)] /\ launched' \in [Tasks -> Nat]
    BY <1>5, <2>1, LaunchType DEF Dispatch
  <2>3. internal' \in Seq(Event)
    <3>1. Ev("started", t) \in Event
      BY <2>1, NoInputsType DEF Ev, Event, Payload
    <3> QED BY <1>5, <3>1, AppendProperties DEF Dispatch, TypeOK
  <2>4. phase' \in {"idle", "drain", "apply", "dispatch"} /\ drainQueued' \in BOOLEAN
    BY <1>5, CallDrainType DEF Dispatch
  <2>5. todo' \in SUBSET Tasks
    BY <1>5 DEF Dispatch, TypeOK
  <2> QED BY <1>5, <2>2, <2>3, <2>4, <2>5, Zenon DEF Dispatch, TypeOK
<1>6. CASE Reinvoke
  <2>1. Head(updates) \in Tasks /\ Tail(updates) \in Seq(Tasks)
    BY <1>6, HeadTailProperties DEF Reinvoke, TypeOK
  <2>2. flights' \in [Tasks -> Seq(Inputs)] /\ launched' \in [Tasks -> Nat]
    <3>1. CASE UNCHANGED <<flights, launched>>
      BY <3>1 DEF TypeOK
    <3>2. CASE Launch(Head(updates))
      BY <3>2, <2>1, LaunchType
    <3> QED BY <1>6, <3>1, <3>2, Zenon DEF Reinvoke
  <2> QED BY <1>6, <2>1, <2>2, Zenon DEF Reinvoke, TypeOK
<1>7. CASE EndPass
  <2>1. phase' \in {"idle", "drain", "apply", "dispatch"}
    BY <1>7 DEF EndPass
  <2> QED BY <1>7, <2>1, Zenon DEF EndPass, TypeOK
<1> QED BY <1>1, <1>2, <1>3, <1>4, <1>5, <1>6, <1>7 DEF Drain

LEMMA AnswerType ==
  ASSUME TypeOK, NEW t \in Tasks, NEW e \in Event, Answer(t, e)
  PROVE  /\ input' \in Seq(Event)
         /\ phase' \in {"idle", "drain", "apply", "dispatch"} /\ drainQueued' \in BOOLEAN
<1>1. CASE disposed \/ ~ Has(live, t)
  BY <1>1, Zenon DEF Answer, TypeOK
<1>2. CASE ~ (disposed \/ ~ Has(live, t))
  <2>1. CallDrain /\ input' = Append(input, e)
    BY <1>2, Zenon DEF Answer
  <2>2. input' \in Seq(Event)
    BY <2>1, AppendProperties DEF TypeOK
  <2> QED BY <2>1, <2>2, CallDrainType
<1> QED BY <1>1, <1>2

LEMMA RunsType ==
  ASSUME TypeOK, Runs
  PROVE  TypeOK'
<1>0. PICK t \in Tasks : \E i \in DOMAIN flights[t] :
        (\E d \in Published : Resolve(t, i, d)) \/ ResolveErrors(t, i) \/ Reject(t, i)
  BY DEF Runs
<1>1. PICK i \in DOMAIN flights[t] :
        (\E d \in Published : Resolve(t, i, d)) \/ ResolveErrors(t, i) \/ Reject(t, i)
  BY <1>0
<1>2. flights[t][i] \in Inputs /\ flights' \in [Tasks -> Seq(Inputs)]
  BY <1>1, DropType DEF Resolve, ResolveErrors, Reject
<1>3. [Ev("failed", t) EXCEPT !.read = flights[t][i]] \in Event
  BY <1>2, NoInputsType DEF Ev, Event, Payload
<1>4. ASSUME NEW d \in Published, Resolve(t, i, d) PROVE TypeOK'
  <2>1. d \in Payload
    BY EngineAssumption
  <2>2. [Ev("completed", t) EXCEPT !.data = d, !.read = flights[t][i]] \in Event
    BY <1>2, <2>1, NoInputsType DEF Ev, Event
  <2>3. /\ input' \in Seq(Event)
        /\ phase' \in {"idle", "drain", "apply", "dispatch"} /\ drainQueued' \in BOOLEAN
    BY <1>4, <2>2, AnswerType DEF Resolve
  <2> QED BY <1>2, <1>4, <2>3, Zenon DEF Resolve, Answer, TypeOK
<1>5. CASE ResolveErrors(t, i)
  <2>1. /\ input' \in Seq(Event)
        /\ phase' \in {"idle", "drain", "apply", "dispatch"} /\ drainQueued' \in BOOLEAN
    BY <1>3, <1>5, AnswerType DEF ResolveErrors
  <2>2. failures' \in Nat
    BY <1>5 DEF ResolveErrors, TypeOK
  <2> QED BY <1>2, <1>5, <2>1, <2>2, Zenon DEF ResolveErrors, Answer, TypeOK
<1>6. CASE Reject(t, i)
  <2>1. internal' \in Seq(Event)
    <3>1. Append(internal, [Ev("failed", t) EXCEPT !.read = flights[t][i]]) \in Seq(Event)
      BY <1>3, AppendProperties DEF TypeOK
    <3>2. internal \in Seq(Event)
      BY DEF TypeOK
    <3> QED BY <1>6, <3>1, <3>2, Zenon DEF Reject
  <2>2. failures' \in Nat
    BY <1>6 DEF Reject, TypeOK
  <2>3. phase' \in {"idle", "drain", "apply", "dispatch"} /\ drainQueued' \in BOOLEAN
    BY <1>6, CallDrainType DEF Reject
  <2> QED BY <1>2, <1>6, <2>1, <2>2, <2>3, Zenon DEF Reject, TypeOK
<1> QED BY <1>1, <1>4, <1>5, <1>6

LEMMA PushType ==
  ASSUME TypeOK, NEW e \in Event, Push(e), calls' = calls + 1
  PROVE  TypeOK'
<1>1. input' \in Seq(Event)
  BY AppendProperties DEF Push, TypeOK
<1>2. phase' \in {"idle", "drain", "apply", "dispatch"} /\ drainQueued' \in BOOLEAN
  BY CallDrainType DEF Push
<1>3. calls' \in Nat
  BY DEF TypeOK
<1> QED BY <1>1, <1>2, <1>3, Zenon DEF Push, TypeOK

LEMMA APIType ==
  ASSUME TypeOK, API
  PROVE  TypeOK'
<1> DEFINE Pushed == \E e \in Event : Push(e) /\ calls' = calls + 1
<1>1. Targets \subseteq Tasks /\ Published \subseteq Payload /\ Rewired \subseteq Tokens
  BY EngineAssumption
<1>2. ASSUME NEW t \in Targets, NEW d \in Published, PushCompleted(t, d) PROVE Pushed
  <2>1. [Ev("completed", t) EXCEPT !.data = d] \in Event
    BY <1>1, NoInputsType DEF Ev, Event
  <2> QED BY <1>2, <2>1, Zenon DEF PushCompleted, CanCall
<1>3. ASSUME NEW t \in Targets, NEW d \in Published, PushRouted(t, d) PROVE Pushed
  <2>1. [Ev("completed", t) EXCEPT !.data = d, !.routed = TRUE] \in Event
    BY <1>1, NoInputsType DEF Ev, Event
  <2> QED BY <1>3, <2>1, Zenon DEF PushRouted, CanCall
<1>4. ASSUME NEW t \in Targets, PushProgress(t) \/ Retrigger(t) \/ RemoveTask(t) PROVE Pushed
  <2>1. Ev("progress", t) \in Event /\ Ev("restart", t) \in Event /\ Ev("remove", t) \in Event
    BY <1>1, NoInputsType DEF Ev, Event, Payload
  <2> QED BY <1>4, <2>1, Zenon DEF PushProgress, Retrigger, RemoveTask, CanCall
<1>5. ASSUME NEW t \in Targets, UpsertTask(t) PROVE Pushed
  <2>1. Requires[t] \in SUBSET Tokens
    BY <1>1, EngineAssumption
  <2>2. [Ev("upsert", t) EXCEPT !.tokens = Requires[t]] \in Event
    BY <1>1, <2>1, NoInputsType DEF Ev, Event, Payload
  <2> QED BY <1>5, <2>2, Zenon DEF UpsertTask, CanCall
<1>6. ASSUME NEW t \in Targets, NEW k \in Rewired,
             AddRequires(t, k) \/ RemoveRequires(t, k) \/ AddProvides(t, k) \/ RemoveProvides(t, k)
      PROVE  Pushed
  <2>1. {k} \in SUBSET Tokens
    BY <1>1
  <2>2. /\ [Ev("requires-add", t) EXCEPT !.tokens = {k}] \in Event
        /\ [Ev("requires-remove", t) EXCEPT !.tokens = {k}] \in Event
        /\ [Ev("provides-add", t) EXCEPT !.tokens = {k}] \in Event
        /\ [Ev("provides-remove", t) EXCEPT !.tokens = {k}] \in Event
    BY <1>1, <2>1, NoInputsType DEF Ev, Event, Payload
  <2> QED BY <1>6, <2>2, Zenon DEF AddRequires, RemoveRequires, AddProvides, RemoveProvides, CanCall
<1>7. ASSUME NEW k \in Tokens, Inject(k) PROVE Pushed
  <2>1. AnyTask \in Tasks
    BY TasksAssumption DEF AnyTask
  <2>2. [Ev("inject", AnyTask) EXCEPT !.tokens = {k}] \in Event
    BY <2>1, NoInputsType DEF Ev, Event, Payload
  <2> QED BY <1>7, <2>2, Zenon DEF Inject, CanCall
<1>8. CASE Dispose
  <2>1. calls' \in Nat
    BY <1>8 DEF Dispose, CanCall, TypeOK
  <2> QED BY <1>8, <2>1, Zenon DEF Dispose, TypeOK
<1>9. ASSUME Pushed PROVE TypeOK'
  BY <1>9, PushType
<1> QED BY <1>2, <1>3, <1>4, <1>5, <1>6, <1>7, <1>8, <1>9, Zenon DEF API

(* Every state of the engine is well typed: tokens have a first and a last *)
(* provider whenever one is looked up, positions stay within the number of *)
(* tasks, counters stay natural (core.ts, reactive.ts).                    *)
THEOREM TypeCorrect == Spec => []TypeOK
<1>1. TypeOK /\ [Next]_vars => TypeOK'
  <2> SUFFICES ASSUME TypeOK, [Next]_vars PROVE TypeOK'
    OBVIOUS
  <2>1. CASE Next
    BY <2>1, DrainType, RunsType, APIType DEF Next
  <2>2. CASE UNCHANGED vars
    BY <2>2, Zenon DEF vars, TypeOK
  <2> QED BY <2>1, <2>2
<1> QED BY InitType, <1>1, PTL DEF Spec

----------------------------------------------------------------------------
(* drain() returns with empty queues.                                      *)

(* While a drain runs, an event that waits in a queue has asked for another*)
(* pass.                                                                   *)
PassRequested ==
  /\ phase = "idle" => input = <<>> /\ internal = <<>>
  /\ phase \in {"apply", "dispatch"} => (input = <<>> /\ internal = <<>>) \/ drainQueued

QueueInv == phase \in {"idle", "drain", "apply", "dispatch"} /\ (disposed \/ PassRequested)

(* After a call of drain() there is a pass to come, whatever was appended. *)
LEMMA CallDrainServes ==
  ASSUME CallDrain, disposed' = disposed, phase \in {"idle", "dispatch"}
  PROVE  QueueInv'
<1>1. CASE disposed
  BY <1>1 DEF CallDrain, QueueInv
<1>2. CASE ~ disposed /\ phase = "idle"
  <2>1. phase' = "drain"
    BY <1>2, Zenon DEF CallDrain
  <2> QED BY <2>1 DEF QueueInv, PassRequested
<1>3. CASE ~ disposed /\ phase = "dispatch"
  <2>1. phase' = "dispatch" /\ drainQueued'
    <3>1. phase # "idle"
      BY <1>3
    <3> QED BY <1>3, <3>1, Zenon DEF CallDrain
  <2> QED BY <2>1 DEF QueueInv, PassRequested
<1> QED BY <1>1, <1>2, <1>3

LEMMA DrainServes ==
  ASSUME QueueInv, Drain
  PROVE  QueueInv'
<1>1. CASE TakeEvents
  BY <1>1 DEF TakeEvents, QueueInv, PassRequested
<1>2. CASE DropEvents
  BY <1>2 DEF DropEvents, QueueInv, PassRequested
<1>3. CASE ApplyOne
  BY <1>3 DEF ApplyOne, QueueInv, PassRequested
<1>4. CASE Schedule
  BY <1>4 DEF Schedule, QueueInv, PassRequested
<1>5. ASSUME NEW t \in todo, Dispatch(t) PROVE QueueInv'
  BY <1>5, CallDrainServes DEF Dispatch
<1>6. CASE Reinvoke
  BY <1>6 DEF Reinvoke, QueueInv, PassRequested
<1>7. CASE EndPass
  BY <1>7 DEF EndPass, QueueInv, PassRequested
<1> QED BY <1>1, <1>2, <1>3, <1>4, <1>5, <1>6, <1>7 DEF Drain

LEMMA AnswerServes ==
  ASSUME QueueInv, NEW t, NEW e, Answer(t, e)
  PROVE  QueueInv'
<1>1. CASE disposed \/ ~ Has(live, t)
  BY <1>1 DEF Answer, QueueInv, PassRequested
<1>2. CASE ~ (disposed \/ ~ Has(live, t))
  BY <1>2, CallDrainServes DEF Answer
<1> QED BY <1>1, <1>2

LEMMA QueueKept == QueueInv /\ [Next]_vars => QueueInv'
<1> SUFFICES ASSUME QueueInv, [Next]_vars PROVE QueueInv'
  OBVIOUS
<1>1. CASE Drain
  BY <1>1, DrainServes
<1>2. CASE Runs
  <2>1. ASSUME NEW t, NEW i, NEW d, Resolve(t, i, d) PROVE QueueInv'
    BY <2>1, AnswerServes DEF Resolve
  <2>2. ASSUME NEW t, NEW i, ResolveErrors(t, i) PROVE QueueInv'
    BY <2>2, AnswerServes DEF ResolveErrors
  <2>3. ASSUME NEW t, NEW i, Reject(t, i) PROVE QueueInv'
    BY <2>3, CallDrainServes DEF Reject
  <2> QED BY <1>2, <2>1, <2>2, <2>3, Zenon DEF Runs
<1>3. CASE API
  <2>1. ASSUME NEW name, NEW e, CanCall(name), Push(e) PROVE QueueInv'
    BY <2>1, CallDrainServes DEF CanCall, Push
  <2>2. CASE Dispose
    BY <2>2 DEF Dispose, QueueInv
  <2> QED BY <1>3, <2>1, <2>2, Zenon DEF API, PushCompleted, PushRouted, PushProgress, Retrigger,
        RemoveTask, UpsertTask, AddRequires, RemoveRequires, AddProvides, RemoveProvides, Inject
<1>4. CASE UNCHANGED vars
  BY <1>4 DEF vars, QueueInv, PassRequested
<1> QED BY <1>1, <1>2, <1>3, <1>4 DEF Next

LEMMA QueuesServed == Spec => []QueueInv
<1>1. Init => QueueInv
  BY DEF Init, QueueInv, PassRequested
<1> QED BY <1>1, QueueKept, PTL DEF Spec

(* drain() never returns with an event left in a queue, however callbacks  *)
(* nest, whichever event throws and whatever is called (reactive.ts:309-333*)
(* and the push methods).                                                  *)
THEOREM DrainLeavesNothing == Spec => []NothingLeftQueued
<1>1. QueueInv => NothingLeftQueued
  BY DEF QueueInv, PassRequested, NothingLeftQueued
<1> QED BY <1>1, QueuesServed, PTL

----------------------------------------------------------------------------
(* After dispose().                                                        *)

(* A disposed graph that is out of its drain never changes again: neither  *)
(* late answers nor rejections nor calls reach it (reactive.ts:310,        *)
(* 477-478, 515 and the first line of every method).                       *)
THEOREM DisposedStaysQuiet == Spec => DisposedIsQuiet
<1> DEFINE Quiet == disposed /\ phase = "idle" => UNCHANGED <<live, input, internal, phase>>
<1>1. [Next]_vars => [Quiet]_vars
  <2> SUFFICES ASSUME Next, disposed, phase = "idle"
               PROVE  UNCHANGED <<live, input, internal, phase>>
    OBVIOUS
  <2>1. ~ Drain
    BY DEF Drain, TakeEvents, DropEvents, ApplyOne, Schedule, Dispatch, Reinvoke, EndPass
  <2>2. ~ API
    BY Zenon DEF API, PushCompleted, PushRouted, PushProgress, Retrigger, RemoveTask, UpsertTask,
       AddRequires, RemoveRequires, AddProvides, RemoveProvides, Inject, Dispose, CanCall
  <2>3. ASSUME NEW t, NEW e, Answer(t, e) PROVE UNCHANGED <<live, input, internal, phase>>
    BY <2>3, Zenon DEF Answer
  <2>4. ASSUME NEW t, NEW i, Reject(t, i) PROVE UNCHANGED <<live, input, internal, phase>>
    BY <2>4, Zenon DEF Reject, CallDrain
  <2>5. ASSUME Runs PROVE UNCHANGED <<live, input, internal, phase>>
    BY <2>3, <2>4, <2>5, Zenon DEF Runs, Resolve, ResolveErrors
  <2> QED BY <2>1, <2>2, <2>5 DEF Next
<1> QED BY <1>1, PTL DEF Spec, DisposedIsQuiet

----------------------------------------------------------------------------
(* Sequences of events: whether one of S occurs, at most one does, only S  *)
(* does, and nothing but S precedes one of S.                              *)

Bears(q, S)   == \E i \in DOMAIN q : q[i] \in S
Once(q, S)    == \A i, j \in DOMAIN q : q[i] \in S /\ q[j] \in S => i = j
Only(q, S)    == \A i \in DOMAIN q : q[i] \in S
Leading(q, S) == \A i, j \in DOMAIN q : i < j /\ q[j] \in S => q[i] \in S

LEMMA NoneQueued ==
  ASSUME NEW S
  PROVE  ~ Bears(<<>>, S) /\ Once(<<>>, S) /\ Only(<<>>, S) /\ Leading(<<>>, S)
BY DEF Bears, Once, Only, Leading

LEMMA OneAppended ==
  ASSUME NEW T, NEW q \in Seq(T), NEW e \in T, NEW S
  PROVE  /\ Bears(Append(q, e), S) <=> Bears(q, S) \/ e \in S
         /\ Only(q, S) /\ e \in S => Only(Append(q, e), S)
         /\ Once(q, S) /\ (e \in S => ~ Bears(q, S)) => Once(Append(q, e), S)
         /\ Leading(q, S) /\ (e \in S => Only(q, S)) => Leading(Append(q, e), S)
<1> DEFINE a == Append(q, e)
<1>1. /\ Len(q) \in Nat /\ DOMAIN q = 1..Len(q) /\ DOMAIN a = 1..(Len(q) + 1)
      /\ \A i \in 1..Len(q) : a[i] = q[i]
      /\ a[Len(q) + 1] = e
  BY AppendProperties, LenProperties
<1> HIDE DEF a
<1>2. \A i \in DOMAIN a : i \in DOMAIN q \/ i = Len(q) + 1
  BY <1>1
<1>3. \A i \in DOMAIN q : i \in DOMAIN a /\ i # Len(q) + 1 /\ a[i] = q[i]
  BY <1>1
<1>4. Bears(a, S) <=> Bears(q, S) \/ e \in S
  BY <1>1, <1>2, <1>3 DEF Bears
<1>5. Only(q, S) /\ e \in S => Only(a, S)
  BY <1>1, <1>2, <1>3 DEF Only
<1>6. Once(q, S) /\ (e \in S => ~ Bears(q, S)) => Once(a, S)
  BY <1>1, <1>2, <1>3 DEF Once, Bears
<1>7. Leading(q, S) /\ (e \in S => Only(q, S)) => Leading(a, S)
  BY <1>1, <1>2, <1>3 DEF Leading, Only
<1> QED BY <1>4, <1>5, <1>6, <1>7 DEF a

LEMMA BothJoined ==
  ASSUME NEW T, NEW p \in Seq(T), NEW q \in Seq(T), NEW S
  PROVE  /\ Bears(p \o q, S) <=> Bears(p, S) \/ Bears(q, S)
         /\ Only(p, S) /\ Only(q, S) => Only(p \o q, S)
         /\ Once(p, S) /\ Once(q, S) /\ ~ (Bears(p, S) /\ Bears(q, S)) => Once(p \o q, S)
         /\ Leading(p, S) /\ ~ Bears(q, S) => Leading(p \o q, S)
<1> DEFINE a == p \o q
           m == Len(p)
           n == Len(q)
<1>1. /\ m \in Nat /\ n \in Nat /\ DOMAIN p = 1..m /\ DOMAIN q = 1..n
      /\ DOMAIN a = 1..(m + n)
      /\ \A i \in 1..(m + n) : a[i] = IF i <= m THEN p[i] ELSE q[i - m]
  <2>1. a \in Seq(T) /\ Len(a) = m + n
    BY ConcatProperties
  <2> QED BY <2>1, ConcatProperties, LenProperties
<1> HIDE DEF a, m, n
<1>2. \A i \in DOMAIN a : \/ i \in DOMAIN p /\ a[i] = p[i]
                          \/ i - m \in DOMAIN q /\ a[i] = q[i - m] /\ i > m
  BY <1>1
<1>3. /\ \A i \in DOMAIN p : i \in DOMAIN a /\ a[i] = p[i]
      /\ \A i \in DOMAIN q : i + m \in DOMAIN a /\ a[i + m] = q[i]
  <2>1. \A i \in DOMAIN q : i + m \in DOMAIN a /\ ~ (i + m <= m) /\ (i + m) - m = i
    BY <1>1
  <2> QED BY <1>1, <2>1
<1>4. Bears(a, S) <=> Bears(p, S) \/ Bears(q, S)
  BY <1>2, <1>3 DEF Bears
<1>5. Only(p, S) /\ Only(q, S) => Only(a, S)
  BY <1>2, <1>3 DEF Only
<1>6. Once(p, S) /\ Once(q, S) /\ ~ (Bears(p, S) /\ Bears(q, S)) => Once(a, S)
  <2> SUFFICES ASSUME Once(p, S), Once(q, S), ~ (Bears(p, S) /\ Bears(q, S)),
                      NEW i \in DOMAIN a, NEW j \in DOMAIN a, a[i] \in S, a[j] \in S
               PROVE  i = j
    BY DEF Once
  <2>1. CASE Bears(p, S)
    <3>1. i \in DOMAIN p /\ a[i] = p[i] /\ j \in DOMAIN p /\ a[j] = p[j]
      BY <1>2, <2>1 DEF Bears
    <3> QED BY <3>1 DEF Once
  <2>2. CASE ~ Bears(p, S)
    <3>1. /\ i - m \in DOMAIN q /\ a[i] = q[i - m]
          /\ j - m \in DOMAIN q /\ a[j] = q[j - m]
      BY <1>2, <2>2 DEF Bears
    <3>2. i - m = j - m
      BY <3>1 DEF Once
    <3> QED BY <1>1, <3>2
  <2> QED BY <2>1, <2>2
<1>7. Leading(p, S) /\ ~ Bears(q, S) => Leading(a, S)
  <2> SUFFICES ASSUME Leading(p, S), ~ Bears(q, S),
                      NEW i \in DOMAIN a, NEW j \in DOMAIN a, i < j, a[j] \in S
               PROVE  a[i] \in S
    BY DEF Leading
  <2>1. j \in DOMAIN p /\ a[j] = p[j]
    BY <1>2 DEF Bears
  <2>2. i \in DOMAIN p /\ a[i] = p[i]
    BY <1>1, <2>1
  <2> QED BY <2>1, <2>2 DEF Leading
<1> QED BY <1>4, <1>5, <1>6, <1>7 DEF a

LEMMA HeadTaken ==
  ASSUME NEW T, NEW q \in Seq(T), q # <<>>, NEW S
  PROVE  /\ Bears(q, S) <=> Head(q) \in S \/ Bears(Tail(q), S)
         /\ Only(q, S) => Head(q) \in S /\ Only(Tail(q), S)
         /\ Once(q, S) => Once(Tail(q), S) /\ (Head(q) \in S => ~ Bears(Tail(q), S))
         /\ Leading(q, S) => Leading(Tail(q), S) /\ (Bears(q, S) => Head(q) \in S)
<1> DEFINE a == Tail(q)
           n == Len(q)
<1>1. /\ n \in Nat /\ n > 0 /\ DOMAIN q = 1..n /\ DOMAIN a = 1..(n - 1)
      /\ \A i \in 1..(n - 1) : a[i] = q[i + 1]
  BY HeadTailProperties, LenProperties, EmptySeq
<1>2. Head(q) = q[1]
  OBVIOUS
<1> HIDE DEF a, n
<1>3. /\ 1 \in DOMAIN q
      /\ \A i \in DOMAIN a : i + 1 \in DOMAIN q /\ a[i] = q[i + 1] /\ 1 # i + 1 /\ 1 < i + 1
      /\ \A i \in DOMAIN q : i = 1 \/ (i - 1 \in DOMAIN a /\ a[i - 1] = q[i])
  BY <1>1
<1>4. Bears(q, S) <=> Head(q) \in S \/ Bears(a, S)
  BY <1>2, <1>3 DEF Bears
<1>5. Only(q, S) => Head(q) \in S /\ Only(a, S)
  BY <1>2, <1>3 DEF Only
<1>6. Once(q, S) => Once(a, S) /\ (Head(q) \in S => ~ Bears(a, S))
  <2> SUFFICES ASSUME Once(q, S) PROVE Once(a, S) /\ (Head(q) \in S => ~ Bears(a, S))
    OBVIOUS
  <2>1. ASSUME NEW i \in DOMAIN a, NEW j \in DOMAIN a, a[i] \in S, a[j] \in S PROVE i = j
    <3>1. i + 1 = j + 1
      BY <1>3, <2>1 DEF Once
    <3> QED BY <1>1, <3>1
  <2>2. Head(q) \in S => ~ Bears(a, S)
    BY <1>2, <1>3 DEF Once, Bears
  <2> QED BY <2>1, <2>2 DEF Once
<1>7. Leading(q, S) => Leading(a, S) /\ (Bears(q, S) => Head(q) \in S)
  <2> SUFFICES ASSUME Leading(q, S) PROVE Leading(a, S) /\ (Bears(q, S) => Head(q) \in S)
    OBVIOUS
  <2>1. ASSUME NEW i \in DOMAIN a, NEW j \in DOMAIN a, i < j, a[j] \in S PROVE a[i] \in S
    <3>1. i + 1 < j + 1
      BY <1>1, <2>1
    <3> QED BY <1>3, <2>1, <3>1 DEF Leading
  <2>2. ASSUME NEW i \in DOMAIN q, q[i] \in S PROVE Head(q) \in S
    <3>1. i = 1 \/ 1 < i
      BY <1>1
    <3> QED BY <1>2, <1>3, <2>2, <3>1 DEF Leading
  <2> QED BY <2>1, <2>2 DEF Leading, Bears
<1> QED BY <1>4, <1>5, <1>6, <1>7 DEF a

----------------------------------------------------------------------------
(* What the transitions of a task do to its state.                         *)

LEMMA StartEffect ==
  ASSUME NEW g \in Graph, NEW t \in Tasks
  PROVE  LET h == TaskStart(g, t) IN
         /\ h.rank = g.rank /\ h.req = g.req /\ h.prov = g.prov
         /\ \A u \in Tasks \ {t} : h.st[u] = g.st[u]
         /\ h.st[t].status = "running" /\ h.st[t].hasStart /\ h.st[t].started = StartHashes(g, t)
         /\ h.st[t].execs = g.st[t].execs /\ h.st[t].retry = g.st[t].retry
         /\ h.st[t].hash = g.st[t].hash
         /\ h.st[t].data = g.st[t].data /\ h.st[t].consumed = g.st[t].consumed
BY DEF TaskStart, Graph, Store

LEMMA CompletionEffect ==
  ASSUME NEW g \in Graph, NEW t \in Tasks, NEW d, NEW r
  PROVE  LET h == TaskCompletion(g, t, d, r) IN
         /\ h.rank = g.rank /\ h.req = g.req /\ h.prov = g.prov
         /\ \A u \in Tasks \ {t} : h.st[u] = g.st[u]
         /\ h.st[t].status = "completed" /\ h.st[t].execs = g.st[t].execs + 1
         /\ h.st[t].retry = g.st[t].retry
         /\ h.st[t].hash = d /\ h.st[t].data = d
         /\ h.st[t].consumed = ConsumedHashes(g, t)
<1> DEFINE c == ConsumedHashes(g, t)
           n == g.st[t].execs + 1
           s == [g.st[t] EXCEPT !.status = "completed", !.execs = n, !.epoch = n,
                                !.hash = d, !.data = d, !.consumed = c]
<1>1. TaskCompletion(g, t, d, r) = [g EXCEPT !.st[t] = s, !.out = g.out \cup Produced(g, t, r)]
  BY DEF TaskCompletion, Graph
<1>2. s.status = "completed" /\ s.execs = n /\ s.hash = d /\ s.data = d /\ s.consumed = c
      /\ s.retry = g.st[t].retry
  <2>1. g.st[t] \in Store
    BY DEF Graph
  <2> HIDE DEF c, n
  <2> QED BY <2>1 DEF Store
<1> HIDE DEF s
<1> QED BY <1>1, <1>2 DEF Graph

LEMMA FailureEffect ==
  ASSUME NEW g \in Graph, NEW t \in Tasks
  PROVE  LET h == TaskFailure(g, t) IN
         /\ h.rank = g.rank /\ h.req = g.req /\ h.prov = g.prov
         /\ \A u \in Tasks \ {t} : h.st[u] = g.st[u]
         /\ h.st[t].status \in {"not-started", "failed"}
         /\ \/ h.st[t].execs = g.st[t].execs + 1 /\ h.st[t].retry = g.st[t].retry
            \/ /\ h.st[t].execs = g.st[t].execs
               /\ h.st[t].retry = g.st[t].retry + 1 /\ h.st[t].retry <= Retry[t]
         /\ h.st[t].hash = g.st[t].hash /\ h.st[t].data = g.st[t].data
         /\ h.st[t].consumed = g.st[t].consumed
<1>0. g.st[t] \in Store
  BY DEF Graph
<1> DEFINE n == g.st[t].execs + 1
           m == g.st[t].retry + 1
           s == [g.st[t] EXCEPT !.status = "failed", !.execs = n]
           r == [g.st[t] EXCEPT !.status = "not-started", !.retry = m]
<1>1. /\ s.status = "failed" /\ s.execs = n /\ s.hash = g.st[t].hash /\ s.data = g.st[t].data
      /\ s.consumed = g.st[t].consumed /\ s.retry = g.st[t].retry /\ r.retry = m
      /\ r.status = "not-started" /\ r.execs = g.st[t].execs /\ r.hash = g.st[t].hash
      /\ r.data = g.st[t].data /\ r.consumed = g.st[t].consumed
  <2> HIDE DEF n, m
  <2> QED BY <1>0 DEF Store
<1>2. TaskGivesUp(g, t) =
        [g EXCEPT !.st[t] = s, !.out = g.out \cup OnFailure[t] \cup (IF Tripped(n, t) THEN OnBreak[t] ELSE {})]
  BY DEF TaskGivesUp, Graph
<1>3. TaskRetry(g, t) = [g EXCEPT !.st[t] = r]
  BY DEF TaskRetry, Graph
<1> HIDE DEF s, r
<1> QED BY <1>1, <1>2, <1>3 DEF TaskFailure, Graph

(* The events that change the wiring only.                                 *)
Rewiring == {"inject", "requires-add", "requires-remove", "provides-add", "provides-remove"}
Unexpected == {"restart", "progress", "remove"}

LEMMA EventCases ==
  ASSUME NEW g \in Graph, NEW e \in Event, e.type \notin Unexpected
  PROVE  LET h == ApplyEvent(g, e)  t == e.task IN
         \/ e.type \in Rewiring /\ h.rank = g.rank /\ h.st = g.st
         \/ e.type = "upsert" /\ h = AddNode(g, t, e.tokens, g.prov[t])
         \/ e.type = "started" /\ Has(g, t) /\ h = TaskStart(g, t)
         \/ e.type = "completed" /\ Has(g, t) /\ h = TaskCompletion(g, t, e.data, e.routed)
         \/ e.type = "failed" /\ Has(g, t) /\ h = TaskFailure(g, t)
         \/ ~ Has(g, t) /\ h = g
<1>1. CASE e.type \in Rewiring
  <2>1. /\ [g EXCEPT !.out = @ \cup e.tokens].rank = g.rank
        /\ [g EXCEPT !.out = @ \cup e.tokens].st = g.st
        /\ \A t : [g EXCEPT !.req[t] = @ \cup e.tokens].rank = g.rank
        /\ \A t : [g EXCEPT !.req[t] = @ \cup e.tokens].st = g.st
        /\ \A t : [g EXCEPT !.req[t] = @ \ e.tokens].rank = g.rank
        /\ \A t : [g EXCEPT !.req[t] = @ \ e.tokens].st = g.st
        /\ \A t : [g EXCEPT !.prov[t] = @ \cup e.tokens].rank = g.rank
        /\ \A t : [g EXCEPT !.prov[t] = @ \cup e.tokens].st = g.st
        /\ \A t : [g EXCEPT !.prov[t] = @ \ e.tokens].rank = g.rank
        /\ \A t : [g EXCEPT !.prov[t] = @ \ e.tokens].st = g.st
    BY DEF Graph
  <2> QED BY <1>1, <2>1 DEF ApplyEvent, Rewiring
<1>2. CASE e.type = "upsert"
  BY <1>2 DEF ApplyEvent
<1>3. CASE e.type \in {"started", "completed", "failed"}
  BY <1>3 DEF ApplyEvent
<1>4. e.type \in Rewiring \cup {"upsert", "started", "completed", "failed"}
  BY DEF Event, Unexpected, Rewiring
<1> QED BY <1>1, <1>2, <1>3, <1>4

LEMMA AddNodeEffect ==
  ASSUME NEW g \in Graph, NEW t \in Tasks, NEW r, NEW p
  PROVE  LET h == AddNode(g, t, r, p) IN
         /\ \A u \in Tasks : Has(g, u) => Has(h, u)
         /\ \A u \in Tasks : h.st[u] = IF u = t /\ ~ Has(g, t) THEN FreshStore ELSE g.st[u]
         /\ \A u \in Tasks \ {t} : h.req[u] = g.req[u] /\ h.prov[u] = g.prov[u] /\ h.rank[u] = g.rank[u]
         /\ h.prov[t] = p /\ h.req[t] = r
<1> DEFINE n == IF Has(g, t) THEN g.rank[t] ELSE Cardinality(Nodes(g)) + 1
           s == IF Has(g, t) THEN g.st[t] ELSE FreshStore
<1>1. AddNode(g, t, r, p) = [g EXCEPT !.rank[t] = n, !.req[t] = r, !.prov[t] = p, !.st[t] = s]
  BY DEF AddNode, Graph
<1>2. Has(g, t) => n # 0
  BY DEF Has
<1> HIDE DEF n
<1> QED BY <1>1, <1>2 DEF Graph, Has, Positions

----------------------------------------------------------------------------
(* One run at a time.                                                      *)

Starts       == {e \in Event : e.type = "started"}
StartsOf(t)  == {e \in Event : e.type = "started" /\ e.task = t}
AnswersOf(t) == {e \in Event : e.type \in {"completed", "failed"} /\ e.task = t}

(* t has been dispatched and task-started is still to be applied; the      *)
(* answer of a run of t waits to be applied; a run of t is not over.       *)
Begun(t)    == Bears(batch, StartsOf(t)) \/ Bears(internal, StartsOf(t))
Answered(t) == Bears(batch, AnswersOf(t)) \/ Bears(internal, AnswersOf(t)) \/ Bears(input, AnswersOf(t))
Open(t)     == flights[t] # <<>> \/ Answered(t)

(* What may wait in a queue.                                               *)
Expected == {e \in Event : e.type \notin Unexpected /\ (e.type = "completed" => Has(live, e.task))}

QueuesInv ==
  /\ phase # "apply" => batch = <<>>
  /\ phase = "apply" => input = <<>> /\ internal = <<>>
  /\ phase # "dispatch" => todo = {}
  /\ phase = "dispatch" => Only(internal, Starts)
  /\ ~ Bears(input, Starts) /\ Leading(internal, Starts) /\ Leading(batch, Starts)
  /\ Only(batch, Expected) /\ Only(internal, Expected) /\ Only(input, Expected)
  /\ updates = <<>> /\ todo \subseteq Handled

OneRun(t) ==
  /\ Len(flights[t]) <= 1
  /\ flights[t] # <<>> => ~ Answered(t)
  /\ Once(batch, StartsOf(t)) /\ Once(internal, StartsOf(t))
  /\ Once(batch, AnswersOf(t)) /\ Once(internal, AnswersOf(t)) /\ Once(input, AnswersOf(t))
  /\ ~ (Bears(internal, AnswersOf(t)) /\ Bears(input, AnswersOf(t)))
  /\ Begun(t) => live.st[t].status \in {"not-started", "completed"}
  /\ Open(t) => live.st[t].status = "running" \/ Begun(t)
  /\ Open(t) \/ Begun(t) => Has(live, t)
  /\ ~ disposed /\ (live.st[t].status = "running" \/ Begun(t)) => Open(t)
  /\ t \in todo => Eligible(live, t) /\ ~ Begun(t) /\ ~ Open(t)

RunsInv == QueuesInv /\ \A t \in Handled : OneRun(t)

(* What a step leaves of it: a run begins with a dispatch.                 *)
Kept(t)  == OneRun(t)' /\ (Open(t)' => Open(t) \/ t \in todo)
RunsKept == QueuesInv' /\ \A t \in Handled : Kept(t)

(* Every run of the handlers of t but the one that is not over has raised  *)
(* one of the two counts of its store.                                     *)
Counted(t) == live.st[t].execs + live.st[t].retry

Tally(t) ==
  /\ live.st[t].retry <= Retry[t]
  /\ ~ Has(live, t) => launched[t] = 0
  /\ launched[t] <= Counted(t) + 1
  /\ ~ Begun(t) /\ live.st[t].status # "running" => launched[t] <= Counted(t)

CapInv == \A t \in Handled : Tally(t) /\ \A n \in Limits(t) : launched[t] <= n + Retry[t]

(* Nobody restarts or removes a task, or reports progress of it.           *)
NoInterference == Calls \cap Unexpected = {}

(* Starts and answers are different events, and those of different tasks   *)
(* are.                                                                    *)
LEMMA Kinds ==
  ASSUME NEW t, NEW q
  PROVE  /\ StartsOf(t) \subseteq Starts
         /\ StartsOf(t) \cap AnswersOf(t) = {} /\ Starts \cap AnswersOf(t) = {}
         /\ Bears(q, StartsOf(t)) => Bears(q, Starts)
         /\ Only(q, Starts) => ~ Bears(q, AnswersOf(t))
BY DEF Starts, StartsOf, AnswersOf, Bears, Only

(* A call of drain() leads to the next pass.                               *)
LEMMA CallDrainPhase ==
  ASSUME CallDrain, phase \in {"idle", "dispatch"}
  PROVE  phase' # "apply" /\ (phase' = "dispatch" <=> phase = "dispatch")
<1>1. CASE disposed \/ phase # "idle"
  BY <1>1, Zenon DEF CallDrain
<1>2. CASE ~ disposed /\ phase = "idle"
  <2>1. phase' = "drain"
    BY <1>2, Zenon DEF CallDrain
  <2> QED BY <2>1, <1>2
<1> QED BY <1>1, <1>2

(* An expected event is one later on: nobody removes a task.               *)
LEMMA ExpectedStays ==
  ASSUME \A t \in Tasks : Has(live, t) => Has(live', t)
  PROVE  /\ Expected \subseteq Expected'
         /\ \A q : Only(q, Expected) => Only(q, Expected')
BY DEF Expected, Only, Event

(* A batch of expected events does not throw.                              *)
LEMMA GreatestNumber ==
  ASSUME NEW n \in Nat, NEW S \in SUBSET (1..n), S # {}
  PROVE  \E m \in S : \A k \in S : k <= m
<1> DEFINE D == {n - k : k \in S}
<1>1. D \in SUBSET Nat /\ D # {}
  <2>1. \A k \in S : n - k \in Nat
    OBVIOUS
  <2> QED BY <2>1
<1>2. PICK x \in D : \A y \in D : x <= y
  <2> HIDE DEF D
  <2> QED BY <1>1, LeastNumber
<1>3. PICK m \in S : x = n - m
  BY <1>2
<1>4. \A k \in S : n - m <= n - k
  BY <1>2, <1>3
<1> QED BY <1>4

LEMMA NothingThrows ==
  ASSUME TypeOK, QueuesInv
  PROVE  ~ Throws
<1> SUFFICES ASSUME NEW i \in DOMAIN Taken, Taken[i].type = "completed"
             PROVE  PresentAt(Taken, i, Taken[i].task)
  BY DEF Throws
<1> DEFINE q == Taken
           C == {j \in 1..(i - 1) : q[j].type \in {"upsert", "remove"} /\ q[j].task = q[i].task}
<1>1. q \in Seq(Event) /\ Only(q, Expected)
  <2>1. internal \in Seq(Event) /\ input \in Seq(Event)
    BY DEF TypeOK
  <2> QED BY <2>1, BothJoined, ConcatProperties DEF Taken, QueuesInv
<1> HIDE DEF q
<1>2. i \in 1..Len(q) /\ DOMAIN q = 1..Len(q) /\ Len(q) \in Nat
  BY <1>1, LenProperties DEF q
<1>3. Has(live, q[i].task)
  BY <1>1, <1>2 DEF Only, Expected, q
<1>4. ASSUME NEW j \in C PROVE q[j].type = "upsert"
  <2>1. j \in DOMAIN q /\ q[j].type \in {"upsert", "remove"}
    BY <1>2
  <2>2. q[j].type # "remove"
    BY <1>1, <2>1 DEF Only, Expected, Unexpected
  <2> QED BY <2>1, <2>2
<1>5. ASSUME C # {} PROVE \E j \in C : \A k \in C : k <= j
  <2>1. i - 1 \in Nat /\ C \in SUBSET (1..(i - 1))
    BY <1>2
  <2> HIDE DEF C
  <2> QED BY <1>5, <2>1, GreatestNumber
<1>6. PresentAt(q, i, q[i].task)
  BY <1>3, <1>4, <1>5 DEF PresentAt
<1> QED BY <1>6 DEF q

(* The queues and the flights of a task are all that its invariant speaks  *)
(* of, with its state.                                                     *)
LEMMA TakeKeeps ==
  ASSUME TypeOK, RunsInv, TakeEvents
  PROVE  RunsKept
<1>1. batch = <<>> /\ todo = {} /\ phase' = "apply" /\ internal \in Seq(Event) /\ input \in Seq(Event)
  BY DEF TakeEvents, RunsInv, QueuesInv, TypeOK
<1>2. /\ batch' = internal \o input /\ internal' = <<>> /\ input' = <<>>
      /\ live' = live /\ flights' = flights /\ todo' = todo /\ updates' = updates /\ disposed' = disposed
  BY DEF TakeEvents, Taken
<1>3. \A S : /\ Bears(batch', S) <=> Bears(internal, S) \/ Bears(input, S)
             /\ ~ Bears(batch, S) /\ ~ Bears(internal', S) /\ ~ Bears(input', S)
             /\ Only(internal', S) /\ Only(input', S) /\ Leading(internal', S)
             /\ Once(internal', S) /\ Once(input', S)
  BY <1>1, <1>2, BothJoined, NoneQueued
<1>4. QueuesInv'
  <2>1. Expected' = Expected
    BY <1>2 DEF Expected, Has
  <2>2. Only(batch', Expected') /\ Leading(batch', Starts)
    BY <1>1, <1>2, <2>1, BothJoined DEF RunsInv, QueuesInv
  <2> QED BY <1>1, <1>2, <1>3, <2>2 DEF RunsInv, QueuesInv, Starts
<1>5. ASSUME NEW t \in Handled PROVE Kept(t)
  <2>1. OneRun(t) /\ ~ Bears(input, StartsOf(t)) /\ Once(input, StartsOf(t))
    BY Kinds DEF RunsInv, QueuesInv, Bears, Once
  <2>2. (Begun(t)' <=> Begun(t)) /\ (Answered(t)' <=> Answered(t)) /\ (Open(t)' <=> Open(t))
    BY <1>2, <1>3, <2>1 DEF Begun, Answered, Open, StartsOf, AnswersOf
  <2>3. Once(internal \o input, StartsOf(t)) /\ Once(internal \o input, AnswersOf(t))
    BY <1>1, <2>1, BothJoined DEF OneRun
  <2> QED BY <1>1, <1>2, <1>3, <2>1, <2>2, <2>3 DEF Kept, OneRun, StartsOf, AnswersOf
<1> QED BY <1>4, <1>5 DEF RunsKept

(* What applying an event does to the state of a task t.                   *)
LEMMA AppliedTo ==
  ASSUME NEW g \in Graph, NEW e \in Event, e.type \notin Unexpected, NEW t \in Tasks
  PROVE  LET h == ApplyEvent(g, e) IN
         /\ Has(g, t) => Has(h, t)
         /\ \/ Has(g, t) /\ e \in StartsOf(t)
                /\ h.st[t].status = "running" /\ h.st[t].execs = g.st[t].execs
                /\ h.st[t].retry = g.st[t].retry
            \/ Has(g, t) /\ e \in AnswersOf(t) /\ h.st[t].status # "running"
                /\ \/ h.st[t].execs = g.st[t].execs + 1 /\ h.st[t].retry = g.st[t].retry
                   \/ /\ h.st[t].execs = g.st[t].execs
                      /\ h.st[t].retry = g.st[t].retry + 1 /\ h.st[t].retry <= Retry[t]
            \/ Has(g, t) /\ e \notin StartsOf(t) \cup AnswersOf(t) /\ h.st[t] = g.st[t]
            \/ ~ Has(g, t) /\ (h.st[t] = g.st[t] \/ h.st[t] = FreshStore)
<1> DEFINE h == ApplyEvent(g, e)
<1>0. e.task \in Tasks /\ g.st[t] \in Store
  BY DEF Event, Graph
<1>1. CASE e.type \in Rewiring /\ h.rank = g.rank /\ h.st = g.st
  BY <1>1 DEF Has, StartsOf, AnswersOf, Rewiring
<1>2. CASE e.type = "upsert" /\ h = AddNode(g, e.task, e.tokens, g.prov[e.task])
  BY <1>0, <1>2, AddNodeEffect DEF StartsOf, AnswersOf
<1>3. CASE e.type = "started" /\ Has(g, e.task) /\ h = TaskStart(g, e.task)
  <2>1. CASE t = e.task
    BY <1>0, <1>3, <2>1, StartEffect DEF Has, StartsOf
  <2>2. CASE t # e.task
    BY <1>0, <1>3, <2>2, StartEffect DEF Has, StartsOf, AnswersOf
  <2> QED BY <2>1, <2>2
<1>4. CASE e.type = "completed" /\ Has(g, e.task) /\ h = TaskCompletion(g, e.task, e.data, e.routed)
  <2>1. CASE t = e.task
    BY <1>0, <1>4, <2>1, CompletionEffect DEF Has, AnswersOf
  <2>2. CASE t # e.task
    BY <1>0, <1>4, <2>2, CompletionEffect DEF Has, StartsOf, AnswersOf
  <2> QED BY <2>1, <2>2
<1>5. CASE e.type = "failed" /\ Has(g, e.task) /\ h = TaskFailure(g, e.task)
  <2>1. CASE t = e.task
    BY <1>0, <1>5, <2>1, FailureEffect DEF Has, AnswersOf
  <2>2. CASE t # e.task
    BY <1>0, <1>5, <2>2, FailureEffect DEF Has, StartsOf, AnswersOf
  <2> QED BY <2>1, <2>2
<1>6. CASE ~ Has(g, e.task) /\ h = g
  BY <1>6 DEF Has, StartsOf, AnswersOf
<1> QED BY <1>1, <1>2, <1>3, <1>4, <1>5, <1>6, EventCases

(* The event that is applied was expected, and stands for itself.          *)
LEMMA AppliedNow ==
  ASSUME TypeOK, RunsInv, ApplyOne
  PROVE  /\ Head(batch) \in Event /\ Head(batch).type \notin Unexpected
         /\ live' = ApplyEvent(live, Head(batch)) /\ live \in Graph
         /\ batch' = Tail(batch) /\ batch # <<>> /\ batch \in Seq(Event)
         /\ phase = "apply" /\ input = <<>> /\ internal = <<>> /\ todo = {}
         /\ UNCHANGED <<input, internal, todo, phase, disposed, flights>>
         /\ Head(batch) \in Expected
<1>1. Head(batch) \in Event /\ batch # <<>> /\ batch \in Seq(Event)
  BY HeadTailProperties DEF ApplyOne, TypeOK
<1>2. Head(batch) \in Expected
  BY <1>1, HeadTaken DEF RunsInv, QueuesInv
<1> QED BY <1>1, <1>2 DEF ApplyOne, TypeOK, RunsInv, QueuesInv, Expected

LEMMA ApplyKeeps ==
  ASSUME TypeOK, RunsInv, ApplyOne
  PROVE  RunsKept
<1> DEFINE e == Head(batch)
<1>1. /\ e \in Event /\ e.type \notin Unexpected
      /\ live' = ApplyEvent(live, e) /\ live \in Graph
      /\ batch' = Tail(batch) /\ batch # <<>> /\ batch \in Seq(Event)
      /\ phase = "apply" /\ input = <<>> /\ internal = <<>> /\ todo = {}
      /\ UNCHANGED <<input, internal, todo, phase, disposed, flights>>
  BY AppliedNow
<1>2. \A t \in Tasks : Has(live, t) => Has(live', t)
  BY <1>1, AppliedTo
<1>3. \A S : /\ Bears(batch, S) <=> e \in S \/ Bears(batch', S)
             /\ Only(batch, S) => Only(batch', S)
             /\ Once(batch, S) => Once(batch', S) /\ (e \in S => ~ Bears(batch', S))
             /\ Leading(batch, S) => Leading(batch', S) /\ (Bears(batch, S) => e \in S)
             /\ ~ Bears(internal, S) /\ ~ Bears(input, S)
  BY <1>1, HeadTaken, NoneQueued
<1>4. updates' = updates
  BY <1>1 DEF ApplyOne, Unexpected
<1> HIDE DEF e
<1>5. QueuesInv'
  BY <1>1, <1>2, <1>3, <1>4, ExpectedStays DEF RunsInv, QueuesInv, Starts
<1>6. ASSUME NEW t \in Handled PROVE Kept(t)
  <2>1. OneRun(t) /\ t \in Tasks
    BY EngineAssumption DEF RunsInv
  <2>2. /\ Begun(t) <=> e \in StartsOf(t) \/ Begun(t)'
        /\ Answered(t) <=> e \in AnswersOf(t) \/ Answered(t)'
        /\ e \in StartsOf(t) => ~ Begun(t)'
        /\ e \in AnswersOf(t) => ~ Answered(t)'
    BY <1>1, <1>3, <2>1 DEF Begun, Answered, StartsOf, AnswersOf, OneRun
  <2>3. /\ Once(batch', StartsOf(t)) /\ Once(internal', StartsOf(t))
        /\ Once(batch', AnswersOf(t)) /\ Once(internal', AnswersOf(t)) /\ Once(input', AnswersOf(t))
        /\ ~ (Bears(internal', AnswersOf(t)) /\ Bears(input', AnswersOf(t)))
    BY <1>1, <1>3, <2>1 DEF OneRun, StartsOf, AnswersOf
  <2>4. CASE Has(live, t) /\ e \in StartsOf(t) /\ live'.st[t].status = "running"
    <3>1. e \notin AnswersOf(t)
      BY <2>4 DEF StartsOf, AnswersOf
    <3>2. ~ Begun(t)' /\ Begun(t) /\ (Open(t)' <=> Open(t))
      BY <1>1, <2>2, <2>4, <3>1 DEF Open
    <3> QED BY <1>1, <1>2, <2>1, <2>2, <2>3, <2>4, <3>1, <3>2 DEF Kept, OneRun, Open, StartsOf, AnswersOf
  <2>5. CASE Has(live, t) /\ e \in AnswersOf(t) /\ live'.st[t].status # "running"
    <3>1. e \notin StartsOf(t) /\ e \notin Starts
      BY <2>5 DEF StartsOf, AnswersOf, Starts
    <3>2. ~ Begun(t)
      <4>1. ~ Bears(batch, Starts)
        BY <1>3, <3>1 DEF RunsInv, QueuesInv
      <4> QED BY <1>3, <4>1, Kinds DEF Begun
    <3>3. ~ Begun(t)' /\ ~ Answered(t)' /\ flights[t] = <<>> /\ ~ Open(t)'
      BY <1>1, <2>1, <2>2, <2>5, <3>2 DEF OneRun, Open
    <3> QED BY <1>1, <1>2, <2>1, <2>3, <2>5, <3>3 DEF Kept, OneRun, StartsOf, AnswersOf
  <2>6. CASE /\ e \notin StartsOf(t) \cup AnswersOf(t) /\ Has(live, t)
             /\ live'.st[t] = live.st[t]
    <3>1. (Begun(t)' <=> Begun(t)) /\ (Answered(t)' <=> Answered(t)) /\ (Open(t)' <=> Open(t))
      BY <1>1, <2>2, <2>6 DEF Open
    <3> QED BY <1>1, <1>2, <2>1, <2>3, <2>6, <3>1 DEF Kept, OneRun, StartsOf, AnswersOf
  <2>7. CASE ~ Has(live, t) /\ (live'.st[t] = live.st[t] \/ live'.st[t] = FreshStore)
    <3>1. ~ Open(t) /\ ~ Begun(t) /\ ~ Open(t)' /\ ~ Begun(t)' /\ flights'[t] = <<>>
      BY <1>1, <2>1, <2>2, <2>7 DEF OneRun, Open
    <3>2. ~ disposed => live'.st[t].status # "running"
      BY <2>1, <2>7, <3>1 DEF OneRun, FreshStore
    <3> QED BY <1>1, <2>1, <2>3, <3>1, <3>2 DEF Kept, OneRun, StartsOf, AnswersOf, Open
  <2> QED BY <1>1, <2>1, <2>4, <2>5, <2>6, <2>7, AppliedTo
<1> QED BY <1>5, <1>6 DEF RunsKept

(* A task that an action does not touch.                                   *)
LEMMA Untouched ==
  ASSUME NEW t, OneRun(t), live' = live, disposed' = disposed, batch' = batch,
         flights'[t] = flights[t], t \in todo' => t \in todo,
         \A S \in {StartsOf(t), AnswersOf(t)} :
           /\ Bears(internal', S) <=> Bears(internal, S)
           /\ Bears(input', S) <=> Bears(input, S)
           /\ Once(internal, S) => Once(internal', S)
           /\ Once(input, S) => Once(input', S)
  PROVE  Kept(t)
<1>1. (Begun(t)' <=> Begun(t)) /\ (Answered(t)' <=> Answered(t)) /\ (Open(t)' <=> Open(t))
  BY DEF Begun, Answered, Open, StartsOf, AnswersOf
<1> QED BY <1>1 DEF Kept, OneRun, StartsOf, AnswersOf

(* An event that no drain journalled itself joins the input queue.         *)
LEMMA InputGrows ==
  ASSUME TypeOK, RunsInv, phase \in {"idle", "dispatch"}, CallDrain,
         NEW e \in Expected, e.type # "started",
         input' = Append(input, e), UNCHANGED <<live, internal, batch, todo, updates, disposed>>
  PROVE  /\ QueuesInv'
         /\ \A S : /\ Bears(input', S) <=> Bears(input, S) \/ e \in S
                   /\ Once(input, S) /\ (e \in S => ~ Bears(input, S)) => Once(input', S)
<1>1. input \in Seq(Event) /\ e \in Event
  BY DEF TypeOK, Expected
<1>2. \A S : /\ Bears(input', S) <=> Bears(input, S) \/ e \in S
             /\ Once(input, S) /\ (e \in S => ~ Bears(input, S)) => Once(input', S)
             /\ Only(input, S) /\ e \in S => Only(input', S)
  BY <1>1, OneAppended
<1>3. phase' # "apply" /\ (phase' = "dispatch" <=> phase = "dispatch")
  BY CallDrainPhase
<1>4. Expected' = Expected /\ e \notin Starts
  BY DEF Expected, Starts
<1>5. QueuesInv'
  BY <1>2, <1>3, <1>4 DEF RunsInv, QueuesInv, Starts
<1> QED BY <1>2, <1>5

(* A call that no handler's task is named in, or that leaves it alone.     *)
LEMMA PushKeeps ==
  ASSUME TypeOK, RunsInv, phase \in {"idle", "dispatch"}, NEW e \in Expected, Push(e),
         e.type # "started", e.type \in {"completed", "failed"} => e.task \notin Handled
  PROVE  RunsKept
<1>1. /\ QueuesInv'
      /\ \A S : /\ Bears(input', S) <=> Bears(input, S) \/ e \in S
                /\ Once(input, S) /\ (e \in S => ~ Bears(input, S)) => Once(input', S)
  BY InputGrows DEF Push
<1>2. ASSUME NEW t \in Handled PROVE Kept(t)
  <2>1. e \notin StartsOf(t) /\ e \notin AnswersOf(t)
    BY DEF StartsOf, AnswersOf
  <2>2. \A S \in {StartsOf(t), AnswersOf(t)} :
          (Bears(input', S) <=> Bears(input, S)) /\ (Once(input, S) => Once(input', S))
    BY <1>1, <2>1
  <2>3. OneRun(t)
    BY DEF RunsInv
  <2>4. UNCHANGED <<live, internal, batch, todo, disposed, flights>>
    BY DEF Push
  <2> QED BY <2>2, <2>3, <2>4, Untouched
<1> QED BY <1>1, <1>2 DEF RunsKept

LEMMA APIKeeps ==
  ASSUME TypeOK, RunsInv, NoInterference, API
  PROVE  RunsKept
<1> DEFINE Harmless(e) == /\ e \in Expected /\ e.type # "started"
                          /\ e.type \in {"completed", "failed"} => e.task \notin Handled
           Pushed == phase \in {"idle", "dispatch"} /\ \E e : Harmless(e) /\ Push(e)
<1>1. Targets \subseteq Tasks /\ Rewired \subseteq Tokens /\ Published \subseteq Payload
      /\ Requires \in [Tasks -> SUBSET Tokens]
  BY EngineAssumption
<1>2. ASSUME NEW t \in Targets, NEW d \in Published, PushCompleted(t, d) \/ PushRouted(t, d)
      PROVE  Pushed
  <2>1. /\ Harmless([Ev("completed", t) EXCEPT !.data = d])
        /\ Harmless([Ev("completed", t) EXCEPT !.data = d, !.routed = TRUE])
    BY <1>1, <1>2, NoInputsType DEF Ev, Event, Expected, Unexpected, PushCompleted, PushRouted
  <2> HIDE DEF Harmless
  <2> QED BY <1>2, <2>1, Zenon DEF PushCompleted, PushRouted, CanCall
<1>3. ASSUME NEW t \in Targets, UpsertTask(t) PROVE Pushed
  <2>1. Harmless([Ev("upsert", t) EXCEPT !.tokens = Requires[t]])
    BY <1>1, NoInputsType DEF Ev, Event, Payload, Expected, Unexpected
  <2> HIDE DEF Harmless
  <2> QED BY <1>3, <2>1, Zenon DEF UpsertTask, CanCall
<1>4. ASSUME NEW t \in Targets, NEW k \in Rewired,
             AddRequires(t, k) \/ RemoveRequires(t, k) \/ AddProvides(t, k) \/ RemoveProvides(t, k)
      PROVE  Pushed
  <2>1. {k} \in SUBSET Tokens
    BY <1>1
  <2>2. /\ Harmless([Ev("requires-add", t) EXCEPT !.tokens = {k}])
        /\ Harmless([Ev("requires-remove", t) EXCEPT !.tokens = {k}])
        /\ Harmless([Ev("provides-add", t) EXCEPT !.tokens = {k}])
        /\ Harmless([Ev("provides-remove", t) EXCEPT !.tokens = {k}])
    BY <1>1, <2>1, NoInputsType DEF Ev, Event, Payload, Expected, Unexpected
  <2> HIDE DEF Harmless
  <2> QED BY <1>4, <2>2, Zenon DEF AddRequires, RemoveRequires, AddProvides, RemoveProvides, CanCall
<1>5. ASSUME NEW k \in Tokens, Inject(k) PROVE Pushed
  <2>1. AnyTask \in Tasks
    BY TasksAssumption DEF AnyTask
  <2>2. Harmless([Ev("inject", AnyTask) EXCEPT !.tokens = {k}])
    BY <2>1, NoInputsType DEF Ev, Event, Payload, Expected, Unexpected
  <2> HIDE DEF Harmless
  <2> QED BY <1>5, <2>2, Zenon DEF Inject, CanCall
<1>6. ASSUME NEW t \in Targets PROVE ~ PushProgress(t) /\ ~ Retrigger(t) /\ ~ RemoveTask(t)
  BY DEF NoInterference, Unexpected, PushProgress, Retrigger, RemoveTask, CanCall
<1>7. CASE Dispose
  <2>1. disposed' /\ UNCHANGED <<live, input, internal, batch, todo, updates, phase, flights>>
    BY <1>7, Zenon DEF Dispose
  <2>2. QueuesInv'
    BY <2>1 DEF RunsInv, QueuesInv, Starts, Expected
  <2>3. ASSUME NEW t \in Handled PROVE Kept(t)
    <3>1. OneRun(t)
      BY DEF RunsInv
    <3>2. /\ Begun(t)' <=> Begun(t)
          /\ Open(t)' <=> Open(t)
          /\ Answered(t)' <=> Answered(t)
      BY <2>1 DEF Begun, Open, Answered, StartsOf, AnswersOf
    <3> QED BY <2>1, <3>1, <3>2 DEF Kept, OneRun, StartsOf, AnswersOf
  <2> QED BY <2>2, <2>3 DEF RunsKept
<1>8. ASSUME Pushed PROVE RunsKept
  BY <1>8, PushKeeps
<1> QED BY <1>2, <1>3, <1>4, <1>5, <1>6, <1>7, <1>8, Zenon DEF API

(* A run that is over leaves no other.                                     *)
LEMMA NoneLeft ==
  ASSUME NEW T, NEW s \in Seq(T), Len(s) <= 1, NEW i \in DOMAIN s
  PROVE  Without(s, i) = <<>> /\ s # <<>>
<1>1. DOMAIN s = 1..Len(s) /\ Len(s) \in Nat
  OBVIOUS
<1>2. i = 1 /\ Len(s) = 1
  BY <1>1
<1>3. SubSeq(s, 1, 0) = <<>> /\ SubSeq(s, 2, 1) = <<>>
  BY SubSeqProperties, <1>2
<1> QED BY <1>2, <1>3 DEF Without

LEMMA OnlyFlight ==
  ASSUME TypeOK, NEW t \in Tasks, Len(flights[t]) <= 1, NEW i \in DOMAIN flights[t], Drop(t, i)
  PROVE  flights'[t] = <<>> /\ flights[t] # <<>>
<1>1. flights \in [Tasks -> Seq(Inputs)] /\ flights[t] \in Seq(Inputs)
  BY DEF TypeOK
<1>2. Without(flights[t], i) = <<>> /\ flights[t] # <<>>
  BY <1>1, NoneLeft
<1> QED BY <1>1, <1>2 DEF Drop

LEMMA AnswerKeeps ==
  ASSUME TypeOK, RunsInv, NEW t \in Tasks, NEW i \in DOMAIN flights[t], Drop(t, i),
         NEW e \in AnswersOf(t), Answer(t, e)
  PROVE  RunsKept
<1>1. e \in Event /\ e.task = t /\ e.type # "started" /\ e \notin StartsOf(t)
  BY DEF AnswersOf, StartsOf
<1>2. \A u \in Tasks \ {t} : flights'[u] = flights[u]
  BY DEF Drop, TypeOK
<1>3. UNCHANGED <<live, internal, batch, todo, updates, disposed>> /\ phase \in {"idle", "dispatch"}
  BY DEF Answer
<1>4. t \in Handled => OneRun(t) /\ flights'[t] = <<>> /\ flights[t] # <<>> /\ ~ Answered(t)
  BY OnlyFlight DEF RunsInv, OneRun
<1>5. CASE disposed \/ ~ Has(live, t)
  <2>1. UNCHANGED <<input, phase>>
    BY <1>5 DEF Answer
  <2>2. QueuesInv'
    BY <1>3, <2>1 DEF RunsInv, QueuesInv, Starts, Expected
  <2>3. ASSUME NEW u \in Handled PROVE Kept(u)
    <3>1. CASE u # t
      BY <1>2, <1>3, <2>1, <3>1, Untouched, EngineAssumption DEF RunsInv
    <3>2. CASE u = t
      <4>1. disposed /\ disposed' /\ ~ Open(t)'
        BY <1>3, <1>4, <1>5, <2>1, <3>2 DEF OneRun, Open, Answered, AnswersOf
      <4> QED BY <1>3, <1>4, <2>1, <3>2, <4>1 DEF Kept, OneRun, Begun, Answered, AnswersOf, StartsOf
    <3> QED BY <3>1, <3>2
  <2> QED BY <2>2, <2>3 DEF RunsKept
<1>6. CASE ~ disposed /\ Has(live, t)
  <2>1. input' = Append(input, e) /\ CallDrain /\ e \in Expected
    BY <1>1, <1>6, Zenon DEF Answer, Expected, AnswersOf, Unexpected
  <2>2. /\ QueuesInv'
        /\ \A S : /\ Bears(input', S) <=> Bears(input, S) \/ e \in S
                  /\ Once(input, S) /\ (e \in S => ~ Bears(input, S)) => Once(input', S)
    BY <1>1, <1>3, <2>1, InputGrows
  <2>3. ASSUME NEW u \in Handled PROVE Kept(u)
    <3>1. CASE u # t
      <4>1. e \notin StartsOf(u) /\ e \notin AnswersOf(u)
        BY <1>1, <3>1 DEF StartsOf, AnswersOf
      <4> QED BY <1>2, <1>3, <2>2, <3>1, <4>1, Untouched, EngineAssumption DEF RunsInv
    <3>2. CASE u = t
      <4>1. ~ Bears(batch, AnswersOf(t)) /\ ~ Bears(internal, AnswersOf(t)) /\ ~ Bears(input, AnswersOf(t))
        BY <1>4, <3>2 DEF Answered
      <4>2. /\ Once(input', AnswersOf(t)) /\ Open(t)' /\ (Begun(t)' <=> Begun(t))
        BY <1>1, <1>3, <1>4, <2>2, <3>2, <4>1 DEF OneRun, Open, Answered, Begun, AnswersOf, StartsOf
      <4>3. Open(t)
        BY <1>4, <3>2 DEF Open
      <4> QED BY <1>3, <1>4, <1>6, <2>2, <3>2, <4>1, <4>2, <4>3 DEF Kept, OneRun, AnswersOf, StartsOf
    <3> QED BY <3>1, <3>2
  <2> QED BY <2>2, <2>3 DEF RunsKept
<1> QED BY <1>5, <1>6

LEMMA RejectKeeps ==
  ASSUME TypeOK, QueueInv, RunsInv, NEW t \in Tasks, NEW i \in DOMAIN flights[t], Reject(t, i)
  PROVE  RunsKept
<1> DEFINE e == [Ev("failed", t) EXCEPT !.read = flights[t][i]]
<1>0. Drop(t, i) /\ phase = "idle" /\ CallDrain
      /\ UNCHANGED <<live, input, batch, todo, updates, disposed>>
  BY DEF Reject
<1>1. e \in Event /\ e.type = "failed" /\ e.task = t
  BY DropType, <1>0 DEF Ev, Event, Payload
<1>2. internal' = IF disposed THEN internal ELSE Append(internal, e)
  BY DEF Reject
<1> HIDE DEF e
<1>3. \A u \in Tasks \ {t} : flights'[u] = flights[u]
  BY <1>0 DEF Drop, TypeOK
<1>4. t \in Handled => OneRun(t) /\ flights'[t] = <<>> /\ flights[t] # <<>> /\ ~ Answered(t)
  BY <1>0, OnlyFlight DEF RunsInv, OneRun
<1>5. phase' # "apply" /\ phase' # "dispatch"
  BY <1>0, CallDrainPhase
<1>6. CASE disposed
  <2>1. internal' = internal
    BY <1>2, <1>6
  <2>2. QueuesInv'
    BY <1>0, <1>5, <2>1 DEF RunsInv, QueuesInv, Starts, Expected
  <2>3. ASSUME NEW u \in Handled PROVE Kept(u)
    <3>1. CASE u # t
      BY <1>0, <1>3, <2>1, <3>1, Untouched, EngineAssumption DEF RunsInv
    <3>2. CASE u = t
      <4>1. disposed /\ disposed' /\ ~ Open(t)'
        BY <1>0, <1>4, <1>6, <2>1, <3>2 DEF OneRun, Open, Answered, AnswersOf
      <4> QED BY <1>0, <1>4, <2>1, <3>2, <4>1 DEF Kept, OneRun, Begun, Answered, AnswersOf, StartsOf
    <3> QED BY <3>1, <3>2
  <2> QED BY <2>2, <2>3 DEF RunsKept
<1>7. CASE ~ disposed
  <2>1. internal = <<>> /\ internal \in Seq(Event) /\ internal' = Append(internal, e)
    BY <1>0, <1>2, <1>7 DEF QueueInv, PassRequested, TypeOK
  <2>2. e \in Expected /\ e \notin Starts
    BY <1>1 DEF Expected, Unexpected, Starts
  <2>3. \A S : /\ Bears(internal', S) <=> e \in S
               /\ ~ Bears(internal, S) /\ Once(internal', S) /\ Leading(internal', S)
               /\ e \in S => Only(internal', S)
    BY <1>1, <2>1, NoneQueued, OneAppended
  <2>4. QueuesInv'
    <3>1. Expected' = Expected
      BY <1>0 DEF Expected
    <3> QED BY <1>0, <1>5, <2>2, <2>3, <3>1 DEF RunsInv, QueuesInv, Starts
  <2>5. ASSUME NEW u \in Handled PROVE Kept(u)
    <3>1. CASE u # t
      <4>1. e \notin StartsOf(u) /\ e \notin AnswersOf(u)
        BY <1>1, <3>1 DEF StartsOf, AnswersOf
      <4>2. u \in Tasks /\ OneRun(u)
        BY EngineAssumption DEF RunsInv
      <4> QED BY <1>0, <1>3, <2>3, <3>1, <4>1, <4>2, Untouched
    <3>2. CASE u = t
      <4>1. e \in AnswersOf(t) /\ e \notin StartsOf(t)
        BY <1>1 DEF AnswersOf, StartsOf
      <4>2. ~ Bears(batch, AnswersOf(t)) /\ ~ Bears(input, AnswersOf(t)) /\ Open(t)
        BY <1>4, <3>2 DEF Answered, Open
      <4>3. Open(t)' /\ (Begun(t)' <=> Begun(t))
        BY <1>0, <2>3, <4>1 DEF Open, Answered, Begun, AnswersOf, StartsOf
      <4> QED BY <1>0, <1>4, <1>7, <2>3, <3>2, <4>1, <4>2, <4>3 DEF Kept, OneRun, AnswersOf, StartsOf
    <3> QED BY <3>1, <3>2
  <2> QED BY <2>4, <2>5 DEF RunsKept
<1> QED BY <1>6, <1>7

(* schedule() finds no task whose last run is not over.                    *)
LEMMA ScheduleKeeps ==
  ASSUME TypeOK, RunsInv, Schedule
  PROVE  RunsKept
<1>1. /\ batch = <<>> /\ internal = <<>> /\ input = <<>> /\ updates = <<>>
      /\ todo' = {t \in Handled : Eligible(live, t)} /\ phase' = "dispatch"
      /\ UNCHANGED <<live, input, internal, batch, updates, disposed, flights>>
  BY DEF Schedule, RunsInv, QueuesInv
<1>2. QueuesInv'
  BY <1>1, NoneQueued DEF RunsInv, QueuesInv, Starts, Expected
<1>3. ASSUME NEW t \in Handled PROVE Kept(t)
  <2>1. OneRun(t) /\ ~ Begun(t)
    BY <1>1, NoneQueued DEF RunsInv, Begun
  <2>2. ASSUME t \in todo' PROVE Eligible(live, t) /\ ~ Open(t)
    BY <1>1, <2>1, <2>2 DEF OneRun, Eligible
  <2>3. (Begun(t)' <=> Begun(t)) /\ (Answered(t)' <=> Answered(t)) /\ (Open(t)' <=> Open(t))
    BY <1>1 DEF Begun, Answered, Open, StartsOf, AnswersOf
  <2> QED BY <1>1, <2>1, <2>2, <2>3 DEF Kept, OneRun, StartsOf, AnswersOf
<1> QED BY <1>2, <1>3 DEF RunsKept

LEMMA DispatchKeeps ==
  ASSUME TypeOK, RunsInv, NEW t \in todo, Dispatch(t)
  PROVE  RunsKept
<1> DEFINE e == Ev("started", t)
<1>1. /\ internal' = Append(internal, e) /\ CallDrain /\ Launch(t) /\ todo' = todo \ {t}
      /\ phase = "dispatch" /\ UNCHANGED <<live, input, batch, updates, disposed>>
  BY DEF Dispatch
<1>2. t \in Tasks /\ t \in Handled /\ internal \in Seq(Event) /\ flights \in [Tasks -> Seq(Inputs)]
  BY EngineAssumption DEF RunsInv, QueuesInv, TypeOK
<1>3. e \in Event /\ e.type = "started" /\ e.task = t
  BY <1>2, NoInputsType DEF Ev, Event, Payload
<1> HIDE DEF e
<1>4. phase' = "dispatch"
  BY <1>1, CallDrainPhase
<1>5. e \in Expected /\ e \in Starts /\ e \in StartsOf(t) /\ \A u : e \notin AnswersOf(u)
  BY <1>3 DEF Expected, Unexpected, Starts, StartsOf, AnswersOf
<1>6. \A S : /\ Bears(internal', S) <=> Bears(internal, S) \/ e \in S
             /\ Once(internal, S) /\ (e \in S => ~ Bears(internal, S)) => Once(internal', S)
             /\ Only(internal, S) /\ e \in S => Only(internal', S)
             /\ Leading(internal, S) /\ (e \in S => Only(internal, S)) => Leading(internal', S)
  BY <1>1, <1>2, <1>3, OneAppended
<1>7. QueuesInv'
  <2>1. Expected' = Expected
    BY <1>1 DEF Expected
  <2> QED BY <1>1, <1>4, <1>5, <1>6, <2>1 DEF RunsInv, QueuesInv, Starts
<1>8. ASSUME NEW u \in Handled PROVE Kept(u)
  <2>1. CASE u # t
    <3>1. e \notin StartsOf(u) /\ e \notin AnswersOf(u)
      BY <1>3, <2>1 DEF StartsOf, AnswersOf
    <3>2. u \in Tasks /\ OneRun(u) /\ flights'[u] = flights[u]
      BY <1>1, <1>2, <2>1, EngineAssumption DEF RunsInv, Launch
    <3> QED BY <1>1, <1>6, <2>1, <3>1, <3>2, Untouched
  <2>2. CASE u = t
    <3>1. OneRun(t) /\ Eligible(live, t) /\ ~ Begun(t) /\ ~ Open(t) /\ flights[t] = <<>>
      BY <1>2 DEF RunsInv, OneRun, Open
    <3>2. Len(flights'[t]) = 1 /\ flights'[t] # <<>>
      BY <1>1, <1>2, <3>1 DEF Launch
    <3>3. Begun(t)' /\ Open(t)' /\ ~ Answered(t)' /\ t \notin todo'
      BY <1>1, <1>5, <1>6, <3>1, <3>2 DEF Open, Answered, Begun, AnswersOf, StartsOf
    <3>4. Has(live, t) /\ live.st[t].status \in {"not-started", "completed"}
      BY <3>1 DEF Eligible
    <3>5. Once(internal', StartsOf(t)) /\ Once(internal', AnswersOf(t)) /\ ~ Bears(internal', AnswersOf(t))
      BY <1>5, <1>6, <3>1 DEF OneRun, Begun, Open, Answered
    <3> QED BY <1>1, <2>2, <3>1, <3>2, <3>3, <3>4, <3>5 DEF Kept, OneRun, AnswersOf, StartsOf
  <2> QED BY <2>1, <2>2
<1> QED BY <1>7, <1>8 DEF RunsKept

LEMMA EndPassKeeps ==
  ASSUME TypeOK, RunsInv, EndPass
  PROVE  RunsKept
<1>1. /\ phase = "dispatch" /\ todo = {} /\ phase' \notin {"apply", "dispatch"}
      /\ UNCHANGED <<live, input, internal, batch, todo, updates, disposed, flights>>
  <2>1. phase' = IF drainQueued THEN "drain" ELSE "idle"
    BY DEF EndPass
  <2> QED BY <2>1, Zenon DEF EndPass
<1>2. QueuesInv'
  BY <1>1 DEF RunsInv, QueuesInv, Starts, Expected
<1>3. ASSUME NEW t \in Handled PROVE Kept(t)
  BY <1>1, Untouched DEF RunsInv
<1> QED BY <1>2, <1>3 DEF RunsKept

LEMMA RunsStep ==
  ASSUME TypeOK, QueueInv, RunsInv, NoInterference, [Next]_vars
  PROVE  RunsKept
<1>1. CASE Drain
  <2>1. ~ DropEvents
    BY NothingThrows DEF DropEvents, RunsInv
  <2>2. ~ Reinvoke
    BY DEF Reinvoke, RunsInv, QueuesInv
  <2> QED BY <1>1, <2>1, <2>2, TakeKeeps, ApplyKeeps, ScheduleKeeps, DispatchKeeps, EndPassKeeps DEF Drain
<1>2. CASE Runs
  <2>1. ASSUME NEW t \in Tasks, NEW i \in DOMAIN flights[t], NEW d \in Published, Resolve(t, i, d)
        PROVE  RunsKept
    <3>1. [Ev("completed", t) EXCEPT !.data = d, !.read = flights[t][i]] \in AnswersOf(t)
      BY <2>1, DropType, EngineAssumption DEF Ev, Event, AnswersOf, Resolve
    <3> QED BY <2>1, <3>1, AnswerKeeps DEF Resolve
  <2>2. ASSUME NEW t \in Tasks, NEW i \in DOMAIN flights[t], ResolveErrors(t, i)
        PROVE  RunsKept
    <3>1. [Ev("failed", t) EXCEPT !.read = flights[t][i]] \in AnswersOf(t)
      BY <2>2, DropType DEF Ev, Event, Payload, AnswersOf, ResolveErrors
    <3> QED BY <2>2, <3>1, AnswerKeeps DEF ResolveErrors
  <2> QED BY <1>2, <2>1, <2>2, RejectKeeps DEF Runs
<1>3. CASE UNCHANGED vars
  <2>1. /\ UNCHANGED <<live, input, internal, batch, todo, updates, phase, disposed, flights>>
    BY <1>3, Zenon DEF vars
  <2>2. QueuesInv'
    BY <2>1 DEF RunsInv, QueuesInv, Starts, Expected
  <2>3. ASSUME NEW t \in Handled PROVE Kept(t)
    BY <2>1, Untouched DEF RunsInv
  <2> QED BY <2>2, <2>3 DEF RunsKept
<1> QED BY <1>1, <1>2, <1>3, APIKeeps DEF Next

LEMMA RunsInit == Init => RunsInv
<1> SUFFICES ASSUME Init PROVE RunsInv
  OBVIOUS
<1>1. QueuesInv
  BY NoneQueued DEF Init, QueuesInv
<1>2. ASSUME NEW t \in Handled PROVE OneRun(t)
  <2>1. t \in Tasks /\ flights[t] = <<>> /\ live.st[t].status = "not-started" /\ todo = {}
    BY EngineAssumption DEF Init, FreshStore
  <2>2. ~ Begun(t) /\ ~ Answered(t) /\ ~ Open(t)
    BY <2>1, NoneQueued DEF Begun, Answered, Open, Init
  <2> QED BY <2>1, <2>2, NoneQueued DEF OneRun, Init
<1> QED BY <1>1, <1>2 DEF RunsInv

LEMMA RunsStay ==
  ASSUME TypeOK, QueueInv, RunsInv, NoInterference, [Next]_vars
  PROVE  RunsInv'
BY RunsStep DEF RunsKept, Kept, RunsInv

LEMMA RunsMatch ==
  ASSUME TypeOK, QueueInv, RunsInv
  PROVE  RunsMatchStatus
<1> SUFFICES ASSUME phase = "idle", ~ disposed, NEW t \in Handled
             PROVE  Len(flights[t]) = IF Has(live, t) /\ live.st[t].status = "running" THEN 1 ELSE 0
  BY DEF RunsMatchStatus
<1>1. batch = <<>> /\ input = <<>> /\ internal = <<>> /\ OneRun(t) /\ flights[t] \in Seq(Inputs)
  BY EngineAssumption DEF QueueInv, PassRequested, RunsInv, QueuesInv, TypeOK
<1>2. ~ Begun(t) /\ ~ Answered(t)
  BY <1>1, NoneQueued DEF Begun, Answered
<1>3. Len(flights[t]) \in Nat /\ (Len(flights[t]) = 0 <=> flights[t] = <<>>)
  BY <1>1, EmptySeq, LenProperties
<1>4. flights[t] # <<>> <=> Has(live, t) /\ live.st[t].status = "running"
  BY <1>1, <1>2 DEF OneRun, Open
<1>5. Len(flights[t]) <= 1
  BY <1>1 DEF OneRun
<1> QED BY <1>3, <1>4, <1>5

(* Unless somebody restarts or removes tasks or reports progress, a task   *)
(* with a handler is running between drains exactly when one run of it is  *)
(* unanswered (reactive.ts:309-325, 408-462, 500-530): however runs,       *)
(* callbacks and calls interleave, none is dispatched twice and none is    *)
(* left running with nobody to answer for it.                              *)
THEOREM RunsAreMatched == NoInterference => (Spec => []RunsMatchStatus)
<1> SUFFICES ASSUME NoInterference PROVE Spec => []RunsMatchStatus
  OBVIOUS
<1>1. TypeOK /\ QueueInv /\ RunsInv /\ [Next]_vars => RunsInv'
  BY RunsStay
<1>2. TypeOK /\ QueueInv /\ RunsInv => RunsMatchStatus
  BY RunsMatch
<1> QED BY <1>1, <1>2, RunsInit, TypeCorrect, QueuesServed, PTL DEF Spec

----------------------------------------------------------------------------
(* The caps on executions.                                                 *)

LEMMA LimitIsNat ==
  ASSUME NEW t \in Tasks, NEW n \in Limits(t)
  PROVE  n \in Nat /\ n > 0 /\ \A g : ~ Capped(g, t) => ~ (g.st[t].execs >= n)
BY ConfigAssumption DEF Limits, NoLimit, Capped, Tripped

(* An answer ends the only run of its task.                                *)
LEMMA LastAnswer ==
  ASSUME TypeOK, RunsInv, ApplyOne, NEW t \in Handled, Head(batch) \in AnswersOf(t)
  PROVE  Open(t) /\ ~ Open(t)'
<1> DEFINE e == Head(batch)
<1>1. /\ batch' = Tail(batch) /\ batch # <<>> /\ batch \in Seq(Event)
      /\ input = <<>> /\ internal = <<>> /\ UNCHANGED <<input, internal, flights>>
  BY AppliedNow
<1>2. \A S : ~ Bears(<<>>, S)
  BY NoneQueued
<1>3. OneRun(t) /\ Answered(t) /\ Open(t)
  BY <1>1, HeadTaken DEF RunsInv, Answered, Open
<1>4. ~ Bears(batch', AnswersOf(t)) /\ flights[t] = <<>>
  BY <1>1, <1>3, HeadTaken DEF OneRun
<1> QED BY <1>1, <1>2, <1>3, <1>4 DEF Open, Answered, AnswersOf

(* Only the application of an event takes a start out of the queues.       *)
LEMMA StartWaits ==
  ASSUME TypeOK, RunsInv, NoInterference, [Next]_vars, ~ ApplyOne, NEW t \in Handled, Begun(t)
  PROVE  Begun(t)'
<1>1. internal \in Seq(Event) /\ input \in Seq(Event) /\ NoInputs \in Inputs
  BY NoInputsType DEF TypeOK
<1>2. StartsOf(t)' = StartsOf(t)
  BY DEF StartsOf
<1>3. CASE TakeEvents
  <2>1. batch = <<>> /\ batch' = internal \o input
    BY <1>3 DEF TakeEvents, Taken, RunsInv, QueuesInv
  <2>2. Bears(internal, StartsOf(t))
    BY <2>1, NoneQueued DEF Begun
  <2> QED BY <1>1, <1>2, <2>1, <2>2, BothJoined DEF Begun
<1>4. ASSUME batch' = batch, internal' = internal \/ \E e \in Event : internal' = Append(internal, e)
      PROVE  Begun(t)'
  <2>1. Bears(internal, StartsOf(t)) => Bears(internal', StartsOf(t))
    <3>1. ASSUME NEW e \in Event, internal' = Append(internal, e), Bears(internal, StartsOf(t))
          PROVE  Bears(internal', StartsOf(t))
      <4> DEFINE q == internal  S == StartsOf(t)
      <4> HIDE DEF q, S
      <4>1. Bears(Append(q, e), S) <=> Bears(q, S) \/ e \in S
        BY <1>1, OneAppended DEF q
      <4> QED BY <3>1, <4>1 DEF q, S
    <3> QED BY <1>4, <3>1
  <2> QED BY <1>2, <1>4, <2>1 DEF Begun
<1>5. ASSUME NEW u \in todo, Dispatch(u) PROVE Begun(t)'
  <2>1. Ev("started", u) \in Event
    BY <1>1 DEF Ev, Event, Payload, TypeOK
  <2> QED BY <1>4, <1>5, <2>1, Zenon DEF Dispatch
<1>6. ASSUME NEW u \in Tasks, NEW i \in DOMAIN flights[u], Reject(u, i) PROVE Begun(t)'
  <2>1. flights[u][i] \in Inputs
    BY <1>6, DropType DEF Reject
  <2>2. [Ev("failed", u) EXCEPT !.read = flights[u][i]] \in Event
    BY <1>1, <2>1 DEF Ev, Event, Payload
  <2> QED BY <1>4, <1>6, <2>2, Zenon DEF Reject
<1>7. ~ DropEvents
  BY NothingThrows DEF DropEvents, RunsInv
<1>8. CASE UNCHANGED <<batch, internal>>
  BY <1>4, <1>8
<1> QED BY <1>3, <1>5, <1>6, <1>7, <1>8, Zenon DEF Next, Drain, Runs, API, vars, Schedule, Reinvoke,
      EndPass, Resolve, ResolveErrors, Answer, Push, PushCompleted, PushRouted, PushProgress,
      Retrigger, RemoveTask, UpsertTask, AddRequires, RemoveRequires, AddProvides, RemoveProvides,
      Inject, Dispose

(* A run that ends for good raises the one count, one that is retried the  *)
(* other.                                                                  *)
LEMMA ApplyCounts ==
  ASSUME TypeOK, RunsInv, ApplyOne, NEW t \in Handled, Tally(t)
  PROVE  Tally(t)'
<1> DEFINE e == Head(batch)
           st == live.st[t]
           new == live'.st[t]
<1>1. /\ e \in Event /\ e.type \notin Unexpected /\ live' = ApplyEvent(live, e) /\ live \in Graph
      /\ batch' = Tail(batch) /\ batch # <<>> /\ batch \in Seq(Event) /\ internal' = internal
  BY AppliedNow
<1>2. launched' = launched /\ launched[t] \in Nat /\ t \in Tasks
  BY EngineAssumption DEF ApplyOne, TypeOK
<1>3. st.execs \in Nat /\ st.retry \in Nat /\ Retry[t] \in Nat
  BY <1>1, <1>2, ConfigAssumption DEF Graph, Store
<1> HIDE DEF e
<1>4. CASE Has(live, t) /\ e \in StartsOf(t) /\ new.status = "running" /\ new.execs = st.execs
           /\ new.retry = st.retry /\ Has(live', t)
  BY <1>2, <1>4 DEF Tally, Counted
<1>5. CASE /\ Has(live, t) /\ Has(live', t)
           /\ \/ new.execs = st.execs + 1 /\ new.retry = st.retry
              \/ new.execs = st.execs /\ new.retry = st.retry + 1 /\ new.retry <= Retry[t]
  <2>1. new.execs + new.retry = Counted(t) + 1
    BY <1>3, <1>5 DEF Counted
  <2> QED BY <1>2, <1>3, <1>5, <2>1 DEF Tally, Counted
<1>6. CASE Has(live, t) /\ Has(live', t) /\ e \notin StartsOf(t) /\ new = st
  <2>1. Begun(t) => Begun(t)'
    BY <1>1, <1>6, HeadTaken DEF Begun, StartsOf, e
  <2> QED BY <1>2, <1>6, <2>1 DEF Tally, Counted
<1>7. CASE ~ Has(live, t) /\ (new = st \/ new = FreshStore)
  <2>1. launched[t] = 0 /\ new.execs \in Nat /\ new.retry \in Nat /\ new.retry <= Retry[t]
    BY <1>3, <1>7 DEF Tally, FreshStore
  <2> QED BY <1>2, <2>1 DEF Tally, Counted
<1> QED BY <1>1, <1>2, <1>4, <1>5, <1>6, <1>7, AppliedTo

(* The graph changes and handlers are run in no other step.                *)
LEMMA GraphStays ==
  ASSUME TypeOK, RunsInv, [Next]_vars, ~ ApplyOne
  PROVE  live' = live /\ (launched' = launched \/ \E t \in todo : Dispatch(t))
<1>1. ~ Reinvoke
  BY DEF Reinvoke, RunsInv, QueuesInv
<1> QED BY <1>1, Zenon DEF Next, Drain, Runs, API, vars, TakeEvents, DropEvents, Schedule, Dispatch,
      EndPass, Resolve, ResolveErrors, Reject, Answer, Push, PushCompleted, PushRouted,
      PushProgress, Retrigger, RemoveTask, UpsertTask, AddRequires, RemoveRequires, AddProvides,
      RemoveProvides, Inject, Dispose

(* A dispatch finds every earlier run counted, and the count below the     *)
(* caps.                                                                   *)
LEMMA DispatchCounts ==
  ASSUME TypeOK, RunsInv, CapInv, NEW t \in todo, Dispatch(t)
  PROVE  CapInv'
<1>1. t \in Handled /\ OneRun(t) /\ Eligible(live, t) /\ ~ Begun(t) /\ live' = live
  BY DEF Dispatch, RunsInv, QueuesInv, OneRun
<1>2. /\ launched' = [launched EXCEPT ![t] = @ + 1] /\ internal' = Append(internal, Ev("started", t))
      /\ batch' = batch /\ launched \in [Tasks -> Nat] /\ t \in Tasks /\ internal \in Seq(Event)
  BY <1>1, EngineAssumption DEF Dispatch, Launch, TypeOK
<1>3. Ev("started", t) \in Event
  BY <1>2, NoInputsType DEF Ev, Event, Payload
<1>4. \A S : Bears(internal', S) <=> Bears(internal, S) \/ Ev("started", t) \in S
  BY <1>2, <1>3, OneAppended
<1>5. ASSUME NEW u \in Handled, u # t
      PROVE  Tally(u)' /\ \A n \in Limits(u) : launched'[u] <= n + Retry[u]
  <2>1. launched'[u] = launched[u]
    BY <1>2, <1>5, EngineAssumption
  <2>2. Begun(u) => Begun(u)'
    BY <1>2, <1>4 DEF Begun, StartsOf
  <2> QED BY <1>1, <2>1, <2>2 DEF CapInv, Tally, Counted
<1>6. Begun(t)' /\ Has(live, t)
  <2>1. Ev("started", t) \in StartsOf(t)
    BY <1>3 DEF StartsOf, Ev
  <2> QED BY <1>1, <1>4, <2>1 DEF Begun, StartsOf, Eligible
<1>7. Tally(t) /\ live.st[t].status # "running"
  BY <1>1 DEF CapInv, Eligible
<1>8. live.st[t].execs \in Nat /\ live.st[t].retry \in Nat /\ Retry[t] \in Nat
  BY <1>2, ConfigAssumption DEF TypeOK, Graph, Store
<1>9. launched[t] <= Counted(t) /\ launched'[t] = launched[t] + 1 /\ launched[t] \in Nat
  BY <1>1, <1>2, <1>7 DEF Tally
<1>10. Tally(t)'
  BY <1>1, <1>6, <1>7, <1>8, <1>9 DEF Tally, Counted
<1>11. ASSUME NEW n \in Limits(t) PROVE launched'[t] <= n + Retry[t]
  <2>1. n \in Nat /\ live.st[t].execs < n
    BY <1>1, <1>2, <1>8, LimitIsNat DEF Eligible
  <2> QED BY <1>7, <1>8, <1>9, <2>1 DEF Tally, Counted
<1> QED BY <1>5, <1>10, <1>11 DEF CapInv, Limits

LEMMA CapsStay ==
  ASSUME TypeOK, RunsInv, CapInv, NoInterference, [Next]_vars
  PROVE  CapInv'
<1>1. CASE ApplyOne
  <2>1. launched' = launched
    BY <1>1 DEF ApplyOne
  <2> QED BY <1>1, <2>1, ApplyCounts DEF CapInv, Limits
<1>2. CASE ~ ApplyOne /\ live' = live /\ launched' = launched
  <2>1. ASSUME NEW t \in Handled PROVE Begun(t) => Begun(t)'
    BY <1>2, StartWaits
  <2> QED BY <1>2, <2>1 DEF CapInv, Limits, Tally, Counted
<1> QED BY <1>1, <1>2, GraphStays, DispatchCounts

LEMMA CapInit == Init => CapInv
<1> SUFFICES ASSUME Init, NEW t \in Handled
             PROVE  Tally(t) /\ \A n \in Limits(t) : launched[t] <= n + Retry[t]
  BY DEF CapInv
<1>1. t \in Tasks /\ launched[t] = 0 /\ live.st[t].execs = 0 /\ live.st[t].retry = 0 /\ Retry[t] \in Nat
  BY EngineAssumption, ConfigAssumption DEF Init, FreshStore
<1>2. \A n \in Limits(t) : n \in Nat
  BY <1>1, LimitIsNat
<1> QED BY <1>1, <1>2 DEF Tally, Counted

(* Nor are its handlers run more often than maxExecutions and its circuit  *)
(* breaker allow, and max_attempts times more.  Every run but the one that *)
(* is not over has raised executionCount or, when it was retried,          *)
(* retryCount, which stays within max_attempts; and no run begins before   *)
(* the last one is counted, nor once executionCount has reached a cap      *)
(* (schedule.ts:51-62, task-transitions.ts:113, 148-162, 173).             *)
THEOREM CapsAreKept == NoInterference => (Spec => []RunsWithinCap)
<1> SUFFICES ASSUME NoInterference PROVE Spec => []RunsWithinCap
  OBVIOUS
<1>1. TypeOK /\ QueueInv /\ RunsInv /\ [Next]_vars => RunsInv'
  BY RunsStay
<1>2. TypeOK /\ RunsInv /\ CapInv /\ [Next]_vars => CapInv'
  BY CapsStay
<1>3. CapInv => RunsWithinCap
  BY DEF CapInv, RunsWithinCap
<1> QED BY <1>1, <1>2, <1>3, RunsInit, CapInit, TypeCorrect, QueuesServed, PTL DEF Spec

----------------------------------------------------------------------------
(* No lost update.                                                         *)

(* Nobody interferes with the tasks or rewires what they provide, what is  *)
(* published has content, and a token has one provider at most.            *)
Tampering == {"restart", "progress", "remove", "provides-add", "provides-remove"}

Undisturbed ==
  /\ Calls \cap Tampering = {} /\ Published \subseteq Data
  /\ \A t, u \in Tasks : Provides[t] \cap Provides[u] # {} => t = u

(* Events that keep it so.                                                 *)
Tame == {e \in Event : e.type \notin Tampering /\ (e.type = "completed" => e.data # NoData)}

DataInv ==
  /\ \A t \in Tasks : live.prov[t] = Provides[t] /\ live.st[t].data = live.st[t].hash
  /\ Only(batch, Tame) /\ Only(internal, Tame) /\ Only(input, Tame)

(* Whatever was read is the content of a task that still has some.         *)
Known(r) == \A k \in Tokens : r[k] # NoData => \E p \in Providers(live, k) : live.st[p].hash # NoData

(* What an unanswered run of t may have read: while task-started waits, the*)
(* inputs of this pass; later on, what task-started has recorded.          *)
Suits(t) == {r \in Inputs : /\ Known(r)
                            /\ Begun(t) => r = ReadInputs(live, t)
                            /\ live.st[t].status = "running" => r = live.st[t].started}
Fitting(t) == {e \in Event : e \in AnswersOf(t) => e.read \in Suits(t)}

(* t has run, and schedule() would dispatch it again.                      *)
Restless(t) == Eligible(live, t) /\ live.st[t].status = "completed"

ReadOf(t) ==
  /\ live.st[t].status = "running" => live.st[t].hasStart
  /\ Known(basis[t])
  /\ live.st[t].status = "completed" => basis[t] = live.st[t].consumed
  /\ Only(flights[t], Suits(t))
  /\ Only(batch, Fitting(t)) /\ Only(internal, Fitting(t)) /\ Only(input, Fitting(t))
  /\ phase = "idle" /\ ~ disposed => ~ Restless(t)
  /\ phase = "dispatch" /\ ~ disposed /\ ~ drainQueued /\ Restless(t) => t \in todo

ReadsInv == DataInv /\ \A t \in Handled : ReadOf(t)

(* The first provider of a token is then the last one too.                 *)
LEMMA OneProvider ==
  ASSUME Undisturbed, NEW g \in Graph, \A t \in Tasks : g.prov[t] = Provides[t],
         NEW k \in Tokens, NEW p \in Providers(g, k)
  PROVE  Providers(g, k) = {p} /\ FirstProvider(g, k) = p /\ LastProvider(g, k) = p
<1>1. \A u \in Providers(g, k) : u = p
  BY DEF Undisturbed, Providers, Nodes
<1>2. g.rank[p] \in Int
  BY TasksAssumption, FS_CardinalityType DEF Graph, Positions, Providers, Nodes
<1>3. FirstProvider(g, k) \in Providers(g, k)
  BY <1>1, <1>2 DEF FirstProvider
<1>4. LastProvider(g, k) \in Providers(g, k)
  BY <1>1, <1>2 DEF LastProvider
<1> QED BY <1>1, <1>3, <1>4

(* So what a handler reads is what task-started records.                   *)
LEMMA ReadsAreHashes ==
  ASSUME Undisturbed, TypeOK, DataInv, NEW t \in Tasks
  PROVE  /\ StartHashes(live, t) = ReadInputs(live, t)
         /\ ReadInputs(live, t) \in Inputs /\ Known(ReadInputs(live, t))
<1>1. live \in Graph /\ \A u \in Tasks : live.prov[u] = Provides[u] /\ live.st[u] \in Store
                                         /\ live.st[u].data = live.st[u].hash
  BY DEF TypeOK, DataInv, Graph
<1>2. ASSUME NEW k \in Tokens, Providers(live, k) # {}
      PROVE  /\ live.st[FirstProvider(live, k)].hash = live.st[LastProvider(live, k)].data
             /\ live.st[LastProvider(live, k)].data \in Payload
             /\ LastProvider(live, k) \in Providers(live, k)
             /\ live.st[LastProvider(live, k)].data = live.st[LastProvider(live, k)].hash
  <2>1. PICK p \in Providers(live, k) : TRUE
    BY <1>2
  <2>2. p \in Tasks /\ FirstProvider(live, k) = p /\ LastProvider(live, k) = p
    BY <1>1, OneProvider DEF Providers, Nodes
  <2> QED BY <1>1, <2>1, <2>2 DEF Store
<1>3. ReadInputs(live, t) \in Inputs
  BY <1>2 DEF ReadInputs, Inputs, Payload
<1> QED BY <1>2, <1>3 DEF ReadInputs, StartHashes, Known

(* What applying a tame event does to the data.                            *)
LEMMA AppliedData ==
  ASSUME NEW g \in Graph, NEW e \in Tame
  PROVE  LET h == ApplyEvent(g, e) IN
         /\ \A u \in Tasks : h.prov[u] = g.prov[u]
         /\ \A u \in Tasks : g.st[u].data = g.st[u].hash => h.st[u].data = h.st[u].hash
         /\ \A u \in Tasks : Has(g, u) /\ g.st[u].hash # NoData => h.st[u].hash # NoData
         /\ e.type = "started" => /\ h.rank = g.rank /\ h.req = g.req /\ h.prov = g.prov
                                  /\ \A u \in Tasks : h.st[u].data = g.st[u].data
<1> DEFINE h == ApplyEvent(g, e)
<1>0. e \in Event /\ e.type \notin Unexpected /\ e.task \in Tasks
  BY DEF Tame, Tampering, Unexpected, Event
<1>1. CASE e.type \in Rewiring
  <2>1. e.type \in {"inject", "requires-add", "requires-remove"}
    BY <1>1 DEF Tame, Tampering, Rewiring
  <2>2. h.st = g.st /\ h.prov = g.prov
    <3>1. /\ [g EXCEPT !.out = @ \cup e.tokens].prov = g.prov
          /\ [g EXCEPT !.out = @ \cup e.tokens].st = g.st
          /\ \A t : [g EXCEPT !.req[t] = @ \cup e.tokens].prov = g.prov
          /\ \A t : [g EXCEPT !.req[t] = @ \cup e.tokens].st = g.st
          /\ \A t : [g EXCEPT !.req[t] = @ \ e.tokens].prov = g.prov
          /\ \A t : [g EXCEPT !.req[t] = @ \ e.tokens].st = g.st
      BY DEF Graph
    <3> QED BY <2>1, <3>1 DEF ApplyEvent
  <2> QED BY <2>1, <2>2
<1>2. CASE e.type = "upsert" /\ h = AddNode(g, e.task, e.tokens, g.prov[e.task])
  BY <1>0, <1>2, AddNodeEffect DEF FreshStore
<1>3. CASE e.type = "started" /\ Has(g, e.task) /\ h = TaskStart(g, e.task)
  BY <1>0, <1>3, StartEffect
<1>4. CASE e.type = "completed" /\ Has(g, e.task) /\ h = TaskCompletion(g, e.task, e.data, e.routed)
  BY <1>0, <1>4, CompletionEffect DEF Tame
<1>5. CASE e.type = "failed" /\ Has(g, e.task) /\ h = TaskFailure(g, e.task)
  BY <1>0, <1>5, FailureEffect
<1>6. CASE ~ Has(g, e.task) /\ h = g
  BY <1>6
<1> QED BY <1>0, <1>1, <1>2, <1>3, <1>4, <1>5, <1>6, EventCases

(* What an event of t does to what t remembers.                            *)
LEMMA AppliedMemory ==
  ASSUME NEW g \in Graph, NEW e \in Event, NEW t \in Tasks, Has(g, t)
  PROVE  LET h == ApplyEvent(g, e) IN
         /\ e \in StartsOf(t) => h.st[t].hasStart /\ h.st[t].started = StartHashes(g, t)
         /\ e \in AnswersOf(t) /\ h.st[t].status = "completed" /\ g.st[t].hasStart =>
              e.type = "completed" /\ h.st[t].consumed = g.st[t].started
<1>1. CASE e \in StartsOf(t)
  <2>1. ApplyEvent(g, e) = TaskStart(g, t) /\ e \notin AnswersOf(t)
    BY <1>1 DEF ApplyEvent, StartsOf, AnswersOf
  <2> QED BY <2>1, StartEffect
<1>2. CASE e \in AnswersOf(t) /\ e.type = "completed"
  <2>1. ApplyEvent(g, e) = TaskCompletion(g, t, e.data, e.routed) /\ e \notin StartsOf(t)
    BY <1>2 DEF ApplyEvent, StartsOf, AnswersOf
  <2>2. TaskCompletion(g, t, e.data, e.routed).st[t].consumed = ConsumedHashes(g, t)
    BY CompletionEffect
  <2> QED BY <1>2, <2>1, <2>2 DEF ConsumedHashes
<1>3. CASE e \in AnswersOf(t) /\ e.type = "failed"
  <2>1. ApplyEvent(g, e) = TaskFailure(g, t) /\ e \notin StartsOf(t)
    BY <1>3 DEF ApplyEvent, StartsOf, AnswersOf
  <2> QED BY <2>1, FailureEffect
<1> QED BY <1>1, <1>2, <1>3 DEF AnswersOf

(* What a step may leave waiting: what waited, and the events of E.        *)
Gained(E) == \A S : Only(batch, S) /\ Only(internal, S) /\ Only(input, S) /\ E \subseteq S =>
                      Only(batch', S) /\ Only(internal', S) /\ Only(input', S)

(* The engine does not come to rest with work to do.                       *)
Calm(t) == /\ phase' = "idle" /\ ~ disposed' => ~ Restless(t)
           /\ phase' = "dispatch" /\ ~ disposed' /\ ~ drainQueued' /\ Restless(t) => t \in todo'

(* As long as the graph is the same, a read that was right stays right.    *)
LEMMA SuitsStay ==
  ASSUME NEW t \in Tasks, live' = live, Begun(t)' => Begun(t)
  PROVE  Suits(t) \subseteq Suits(t)' /\ Fitting(t) \subseteq Fitting(t)'
<1>1. Suits(t) \subseteq Suits(t)'
  BY DEF Suits, Known, Providers, Nodes
<1> QED BY <1>1 DEF Fitting, AnswersOf

LEMMA BegunStays ==
  ASSUME TypeOK, QueuesInv, NEW E \in SUBSET Event, Gained(E), NEW t, E \cap StartsOf(t) = {}
  PROVE  Begun(t)' => Begun(t)
<1> SUFFICES ASSUME ~ Begun(t) PROVE ~ Begun(t)'
  OBVIOUS
<1> DEFINE S == {e \in Event : e \notin StartsOf(t)}
<1>1. \A q : ~ Bears(q, StartsOf(t)) /\ Only(q, Event) <=> Only(q, S)
  BY DEF Bears, Only
<1>2. Only(batch, Event) /\ Only(internal, Event) /\ Only(input, Event)
  BY DEF QueuesInv, Expected, Only
<1>3. ~ Bears(input, StartsOf(t))
  BY DEF QueuesInv, Bears, Starts, StartsOf
<1>4. Only(batch, S) /\ Only(internal, S) /\ Only(input, S) /\ E \subseteq S
  BY <1>1, <1>2, <1>3 DEF Begun
<1> HIDE DEF S
<1>5. Only(batch', S) /\ Only(internal', S)
  BY <1>4 DEF Gained
<1> QED BY <1>1, <1>5 DEF Begun, StartsOf

LEMMA QuietKeeps ==
  ASSUME TypeOK, RunsInv, ReadsInv, NEW E \in SUBSET Tame, Gained(E), live' = live, basis' = basis,
         \A t \in Handled : /\ E \cap StartsOf(t) = {} /\ E \subseteq Fitting(t)
                            /\ Only(flights'[t], Suits(t)) /\ Calm(t)
  PROVE  ReadsInv'
<1>1. DataInv'
  <2>1. Only(batch', Tame) /\ Only(internal', Tame) /\ Only(input', Tame)
    BY DEF ReadsInv, DataInv, Gained
  <2> QED BY <2>1 DEF ReadsInv, DataInv, Tame
<1>2. ASSUME NEW t \in Handled PROVE ReadOf(t)'
  <2>1. t \in Tasks /\ ReadOf(t) /\ Calm(t)
    BY EngineAssumption DEF ReadsInv
  <2>2. Begun(t)' => Begun(t)
    BY BegunStays DEF RunsInv, Tame
  <2>3. Suits(t) \subseteq Suits(t)' /\ Fitting(t) \subseteq Fitting(t)'
    BY <2>1, <2>2, SuitsStay
  <2>4. Only(batch', Fitting(t)) /\ Only(internal', Fitting(t)) /\ Only(input', Fitting(t))
    BY <2>1 DEF Gained, ReadOf
  <2>5. /\ Only(batch', Fitting(t)') /\ Only(internal', Fitting(t)') /\ Only(input', Fitting(t)')
        /\ Only(flights'[t], Suits(t)')
    BY <2>3, <2>4 DEF Only
  <2>6. Known(basis[t])' /\ (Restless(t)' <=> Restless(t))
    BY <2>1 DEF ReadOf, Known, Providers, Nodes, Restless
  <2> QED BY <2>1, <2>5, <2>6 DEF ReadOf, Calm, Suits, Fitting
<1> QED BY <1>1, <1>2 DEF ReadsInv

(* Whoever calls drain() is heard.                                         *)
LEMMA CallIsCalm ==
  ASSUME CallDrain, phase \in {"idle", "dispatch"}, disposed' = disposed
  PROVE  \A t : Calm(t)
<1>1. CASE disposed
  BY <1>1 DEF Calm
<1>2. CASE ~ disposed /\ phase = "idle"
  <2>1. phase' = "drain"
    BY <1>2, Zenon DEF CallDrain
  <2> QED BY <2>1 DEF Calm
<1>3. CASE ~ disposed /\ phase = "dispatch"
  <2>1. phase' = "dispatch" /\ drainQueued'
    <3>1. phase # "idle"
      BY <1>3
    <3> QED BY <1>3, <3>1, Zenon DEF CallDrain
  <2> QED BY <2>1 DEF Calm
<1> QED BY <1>1, <1>2, <1>3

LEMMA OneGained ==
  ASSUME TypeOK, NEW e \in Event, batch' = batch,
         \/ internal' = internal /\ input' \in {input, Append(input, e)}
         \/ input' = input /\ internal' = Append(internal, e)
  PROVE  Gained({e})
<1>1. input \in Seq(Event) /\ internal \in Seq(Event)
  BY DEF TypeOK
<1>2. ASSUME NEW S, Only(input, S), Only(internal, S), e \in S
      PROVE  Only(Append(input, e), S) /\ Only(Append(internal, e), S)
  BY <1>1, <1>2, OneAppended
<1> QED BY <1>2 DEF Gained

LEMMA TakeReads ==
  ASSUME TypeOK, RunsInv, ReadsInv, TakeEvents
  PROVE  ReadsInv'
<1>1. /\ batch' = internal \o input /\ internal' = <<>> /\ input' = <<>> /\ phase' = "apply"
      /\ live' = live /\ basis' = basis /\ flights' = flights
  BY DEF TakeEvents, Taken
<1>2. internal \in Seq(Event) /\ input \in Seq(Event)
  BY DEF TypeOK
<1>3. Gained({})
  BY <1>1, <1>2, BothJoined, NoneQueued DEF Gained
<1>4. \A t \in Handled : Only(flights'[t], Suits(t)) /\ Calm(t)
  BY <1>1 DEF ReadsInv, ReadOf, Calm
<1> QED BY <1>1, <1>3, <1>4, QuietKeeps

LEMMA ScheduleReads ==
  ASSUME TypeOK, RunsInv, ReadsInv, Schedule
  PROVE  ReadsInv'
<1>1. /\ todo' = {t \in Handled : Eligible(live, t)} /\ phase' = "dispatch"
      /\ UNCHANGED <<batch, internal, input, live, basis, flights>>
  BY DEF Schedule
<1>2. Gained({})
  BY <1>1 DEF Gained
<1>3. \A t \in Handled : Only(flights'[t], Suits(t)) /\ Calm(t)
  BY <1>1 DEF ReadsInv, ReadOf, Calm, Restless
<1> QED BY <1>1, <1>2, <1>3, QuietKeeps

LEMMA EndPassReads ==
  ASSUME TypeOK, RunsInv, ReadsInv, EndPass
  PROVE  ReadsInv'
<1>1. /\ phase = "dispatch" /\ todo = {} /\ phase' # "dispatch" /\ (phase' = "idle" => ~ drainQueued)
      /\ UNCHANGED <<batch, internal, input, live, basis, flights, disposed>>
  <2>1. phase' = IF drainQueued THEN "drain" ELSE "idle"
    BY DEF EndPass
  <2> QED BY <2>1, Zenon DEF EndPass
<1>2. Gained({})
  BY <1>1 DEF Gained
<1>3. \A t \in Handled : Only(flights'[t], Suits(t)) /\ Calm(t)
  BY <1>1 DEF ReadsInv, ReadOf, Calm
<1> QED BY <1>1, <1>2, <1>3, QuietKeeps

(* A call that completes no task with a handler.                           *)
LEMMA PushReads ==
  ASSUME TypeOK, RunsInv, ReadsInv, phase \in {"idle", "dispatch"}, NEW e \in Tame, Push(e),
         e.type # "started", e.type \in {"completed", "failed"} => e.task \notin Handled
  PROVE  ReadsInv'
<1>1. /\ input' = Append(input, e) /\ CallDrain
      /\ UNCHANGED <<batch, internal, live, basis, flights, disposed>>
  BY DEF Push
<1>2. Gained({e})
  BY <1>1, OneGained DEF Tame
<1>3. \A t \in Handled : /\ {e} \cap StartsOf(t) = {} /\ {e} \subseteq Fitting(t)
                         /\ Only(flights'[t], Suits(t)) /\ Calm(t)
  BY <1>1, CallIsCalm DEF ReadsInv, ReadOf, Tame, Fitting, StartsOf, AnswersOf
<1> QED BY <1>1, <1>2, <1>3, QuietKeeps

LEMMA StillReads ==
  ASSUME TypeOK, RunsInv, ReadsInv, UNCHANGED <<batch, internal, input, live, basis, flights>>,
         disposed' \/ UNCHANGED <<phase, todo, disposed, drainQueued>>
  PROVE  ReadsInv'
<1>1. Gained({})
  BY DEF Gained
<1>2. \A t \in Handled : Only(flights'[t], Suits(t)) /\ Calm(t)
  BY DEF ReadsInv, ReadOf, Calm
<1> QED BY <1>1, <1>2, QuietKeeps

LEMMA APIReads ==
  ASSUME TypeOK, RunsInv, ReadsInv, Undisturbed, API
  PROVE  ReadsInv'
<1> DEFINE Harmless(e) == /\ e \in Tame /\ e.type # "started"
                          /\ e.type \in {"completed", "failed"} => e.task \notin Handled
           Pushed == phase \in {"idle", "dispatch"} /\ \E e : Harmless(e) /\ Push(e)
<1>1. /\ Targets \subseteq Tasks /\ Rewired \subseteq Tokens /\ Published \subseteq Payload
      /\ NoData \notin Published /\ Requires \in [Tasks -> SUBSET Tokens]
  BY EngineAssumption, DataAssumption DEF Undisturbed
<1>2. ASSUME NEW t \in Targets, NEW d \in Published, PushCompleted(t, d) \/ PushRouted(t, d)
      PROVE  Pushed
  <2>1. /\ Harmless([Ev("completed", t) EXCEPT !.data = d])
        /\ Harmless([Ev("completed", t) EXCEPT !.data = d, !.routed = TRUE])
    BY <1>1, <1>2, NoInputsType DEF Ev, Event, Tame, Tampering, PushCompleted, PushRouted
  <2> HIDE DEF Harmless
  <2> QED BY <1>2, <2>1, Zenon DEF PushCompleted, PushRouted, CanCall
<1>3. ASSUME NEW t \in Targets, UpsertTask(t) PROVE Pushed
  <2>1. Harmless([Ev("upsert", t) EXCEPT !.tokens = Requires[t]])
    BY <1>1, NoInputsType DEF Ev, Event, Payload, Tame, Tampering
  <2> HIDE DEF Harmless
  <2> QED BY <1>3, <2>1, Zenon DEF UpsertTask, CanCall
<1>4. ASSUME NEW t \in Targets, NEW k \in Rewired, AddRequires(t, k) \/ RemoveRequires(t, k)
      PROVE  Pushed
  <2>1. {k} \in SUBSET Tokens
    BY <1>1
  <2>2. /\ Harmless([Ev("requires-add", t) EXCEPT !.tokens = {k}])
        /\ Harmless([Ev("requires-remove", t) EXCEPT !.tokens = {k}])
    BY <1>1, <2>1, NoInputsType DEF Ev, Event, Payload, Tame, Tampering
  <2> HIDE DEF Harmless
  <2> QED BY <1>4, <2>2, Zenon DEF AddRequires, RemoveRequires, CanCall
<1>5. ASSUME NEW k \in Tokens, Inject(k) PROVE Pushed
  <2>1. AnyTask \in Tasks
    BY TasksAssumption DEF AnyTask
  <2>2. Harmless([Ev("inject", AnyTask) EXCEPT !.tokens = {k}])
    BY <2>1, NoInputsType DEF Ev, Event, Payload, Tame, Tampering
  <2> HIDE DEF Harmless
  <2> QED BY <1>5, <2>2, Zenon DEF Inject, CanCall
<1>6. ASSUME NEW t \in Targets
      PROVE  /\ ~ PushProgress(t) /\ ~ Retrigger(t) /\ ~ RemoveTask(t)
             /\ \A k : ~ AddProvides(t, k) /\ ~ RemoveProvides(t, k)
  BY DEF Undisturbed, Tampering, PushProgress, Retrigger, RemoveTask, AddProvides, RemoveProvides, CanCall
<1>7. CASE Dispose
  <2>1. disposed' /\ UNCHANGED <<batch, internal, input, live, basis, flights>>
    BY <1>7, Zenon DEF Dispose
  <2> QED BY <2>1, StillReads
<1>8. ASSUME Pushed PROVE ReadsInv'
  BY <1>8, PushReads
<1> QED BY <1>2, <1>3, <1>4, <1>5, <1>6, <1>7, <1>8, Zenon DEF API

(* The answer of a run carries what the run has read.                      *)
LEMMA OneAnswered ==
  ASSUME TypeOK, RunsInv, ReadsInv, NEW t \in Tasks, NEW i \in DOMAIN flights[t], Drop(t, i),
         NEW e \in AnswersOf(t), e \in Tame, e.read = flights[t][i]
  PROVE  \A u \in Handled : /\ {e} \cap StartsOf(u) = {} /\ {e} \subseteq Fitting(u)
                            /\ Only(flights'[u], Suits(u))
<1> SUFFICES ASSUME NEW u \in Handled
             PROVE  /\ {e} \cap StartsOf(u) = {} /\ {e} \subseteq Fitting(u)
                    /\ Only(flights'[u], Suits(u))
  OBVIOUS
<1>1. e \in Event /\ e.task = t /\ e.type # "started"
  BY DEF AnswersOf
<1>2. u \in Tasks /\ Only(flights[u], Suits(u)) /\ OneRun(u)
  BY EngineAssumption DEF ReadsInv, ReadOf, RunsInv
<1>3. CASE u # t
  BY <1>1, <1>2, <1>3 DEF Drop, TypeOK, Fitting, AnswersOf, StartsOf
<1>4. CASE u = t
  <2>1. flights'[u] = <<>>
    BY <1>2, <1>4, OnlyFlight DEF OneRun
  <2>2. e.read \in Suits(u)
    BY <1>2, <1>4 DEF Only
  <2> QED BY <1>1, <2>1, <2>2, NoneQueued DEF Fitting, StartsOf
<1> QED BY <1>3, <1>4

LEMMA AnswerReads ==
  ASSUME TypeOK, RunsInv, ReadsInv, NEW t \in Tasks, NEW i \in DOMAIN flights[t], Drop(t, i),
         NEW e \in AnswersOf(t), e \in Tame, e.read = flights[t][i], Answer(t, e)
  PROVE  ReadsInv'
<1>1. UNCHANGED <<live, internal, batch, todo, disposed, basis>> /\ phase \in {"idle", "dispatch"}
  BY DEF Answer
<1>2. \/ input' = input /\ UNCHANGED <<phase, drainQueued>>
      \/ input' = Append(input, e) /\ CallDrain
  BY DEF Answer
<1>3. Gained({e})
  BY <1>1, <1>2, OneGained DEF Tame
<1>4. \A u \in Handled : Calm(u)
  BY <1>1, <1>2, CallIsCalm DEF ReadsInv, ReadOf, Calm
<1> QED BY <1>1, <1>3, <1>4, OneAnswered, QuietKeeps

LEMMA RejectReads ==
  ASSUME TypeOK, RunsInv, ReadsInv, NEW t \in Tasks, NEW i \in DOMAIN flights[t], Reject(t, i)
  PROVE  ReadsInv'
<1> DEFINE e == [Ev("failed", t) EXCEPT !.read = flights[t][i]]
<1>1. UNCHANGED <<live, input, batch, todo, disposed, basis>> /\ phase = "idle" /\ CallDrain /\ Drop(t, i)
  BY DEF Reject
<1>2. e \in AnswersOf(t) /\ e \in Tame /\ e.read = flights[t][i]
  BY <1>1, DropType DEF Ev, Event, Payload, AnswersOf, Tame, Tampering
<1>3. internal' = internal \/ internal' = Append(internal, e)
  BY DEF Reject
<1> HIDE DEF e
<1>4. Gained({e})
  BY <1>1, <1>2, <1>3, OneGained DEF Tame
<1>5. \A u : Calm(u)
  BY <1>1, CallIsCalm
<1> QED BY <1>1, <1>2, <1>4, <1>5, OneAnswered, QuietKeeps

(* Inputs only change with the wiring or with the data of a task.          *)
LEMMA SameReads ==
  ASSUME Undisturbed, NEW g \in Graph, \A u \in Tasks : g.prov[u] = Provides[u],
         NEW h, h.rank = g.rank, h.req = g.req, h.prov = g.prov,
         \A u \in Tasks : h.st[u].data = g.st[u].data, NEW t \in Tasks
  PROVE  ReadInputs(h, t) = ReadInputs(g, t)
<1>1. \A k : Providers(h, k) = Providers(g, k) /\ LastProvider(h, k) = LastProvider(g, k)
  BY DEF Providers, Nodes, Has, LastProvider
<1>2. ASSUME NEW k \in Tokens, Providers(g, k) # {} PROVE LastProvider(g, k) \in Tasks
  <2>1. PICK p \in Providers(g, k) : TRUE
    BY <1>2
  <2> QED BY <2>1, OneProvider DEF Providers, Nodes
<1> QED BY <1>1, <1>2 DEF ReadInputs

(* A dispatched handler reads the inputs of this pass.                     *)
LEMMA DispatchReads ==
  ASSUME TypeOK, RunsInv, ReadsInv, Undisturbed, NEW t \in todo, Dispatch(t)
  PROVE  ReadsInv'
<1> DEFINE e == Ev("started", t)
           r == ReadInputs(live, t)
<1>1. /\ internal' = Append(internal, e) /\ CallDrain /\ flights' = [flights EXCEPT ![t] = Append(@, r)]
      /\ phase = "dispatch" /\ UNCHANGED <<live, input, batch, disposed, basis>>
  BY DEF Dispatch, Launch
<1>2. t \in Tasks /\ t \in Handled
  BY EngineAssumption DEF RunsInv, QueuesInv
<1>3. e \in Event /\ e.type = "started" /\ e.task = t
  BY <1>2, NoInputsType DEF Ev, Event, Payload
<1>4. r \in Inputs /\ Known(r)
  BY <1>2, ReadsAreHashes DEF ReadsInv
<1> HIDE DEF e
<1>5. e \in Tame /\ \A u : e \notin AnswersOf(u)
  BY <1>3 DEF Tame, Tampering, AnswersOf
<1>6. Gained({e})
  BY <1>1, <1>3, OneGained
<1>7. \A u : Calm(u)
  BY <1>1, CallIsCalm
<1>8. DataInv'
  <2>1. Only(batch', Tame) /\ Only(internal', Tame) /\ Only(input', Tame)
    BY <1>5, <1>6 DEF ReadsInv, DataInv, Gained
  <2> QED BY <1>1, <2>1 DEF ReadsInv, DataInv, Tame
<1>9. ASSUME NEW u \in Handled PROVE ReadOf(u)'
  <2>1. u \in Tasks /\ ReadOf(u) /\ OneRun(u) /\ Calm(u)
    BY <1>7, EngineAssumption DEF ReadsInv, RunsInv
  <2>2. Known(basis[u])' /\ (Restless(u)' <=> Restless(u))
    BY <1>1, <2>1 DEF ReadOf, Known, Providers, Nodes, Restless
  <2>3. /\ Only(batch', Fitting(u)') /\ Only(internal', Fitting(u)') /\ Only(input', Fitting(u)')
        /\ Only(flights'[u], Suits(u)')
    <3>1. CASE u # t
      <4>1. {e} \cap StartsOf(u) = {} /\ {e} \subseteq Fitting(u) /\ {e} \in SUBSET Event
        BY <1>3, <1>5, <3>1 DEF StartsOf, Fitting
      <4>2. Begun(u)' => Begun(u)
        BY <1>6, <4>1, BegunStays DEF RunsInv
      <4>3. Suits(u) \subseteq Suits(u)' /\ Fitting(u) \subseteq Fitting(u)'
        BY <1>1, <2>1, <4>2, SuitsStay
      <4>4. Only(batch', Fitting(u)) /\ Only(internal', Fitting(u)) /\ Only(input', Fitting(u))
        BY <1>6, <2>1, <4>1 DEF Gained, ReadOf
      <4>5. Only(flights'[u], Suits(u))
        BY <1>1, <2>1, <3>1 DEF TypeOK, ReadOf
      <4> QED BY <4>3, <4>4, <4>5 DEF Only
    <3>2. CASE u = t
      <4>1. flights[t] = <<>> /\ ~ Answered(t) /\ live.st[t].status # "running"
        BY <2>1, <3>2 DEF OneRun, Open, Eligible
      <4>2. flights'[t] = <<r>>
        BY <1>1, <1>2, <4>1 DEF TypeOK
      <4>3. r \in Suits(t)'
        <5>1. PICK x \in Inputs : x = r /\ Known(x)
          BY <1>4
        <5>2. ReadInputs(live', t) = x /\ live'.st[t].status # "running" /\ Known(x)'
          BY <1>1, <4>1, <5>1 DEF Known, Providers, Nodes
        <5>3. x \in Suits(t)'
          BY <5>2 DEF Suits
        <5> QED BY <5>1, <5>3
      <4>4. Only(batch', Fitting(u)') /\ Only(internal', Fitting(u)') /\ Only(input', Fitting(u)')
        <5> DEFINE S == {x \in Event : x \notin AnswersOf(t)}
        <5>1. Only(batch, S) /\ Only(internal, S) /\ Only(input, S)
          BY <4>1 DEF Answered, Bears, Only, RunsInv, QueuesInv, Expected
        <5>2. Only(batch', S) /\ Only(internal', S) /\ Only(input', S)
          BY <1>3, <1>5, <1>6, <5>1 DEF Gained
        <5>3. S \subseteq Fitting(u)'
          BY <3>2 DEF Fitting, AnswersOf
        <5> HIDE DEF S
        <5> QED BY <5>2, <5>3 DEF Only
      <4> QED BY <3>2, <4>2, <4>3, <4>4 DEF Only
    <3> QED BY <3>1, <3>2
  <2> QED BY <1>1, <2>1, <2>2, <2>3 DEF ReadOf, Calm, Suits, Fitting
<1> QED BY <1>8, <1>9 DEF ReadsInv

(* An event is applied: content stays known, and a run that has not started*)
(* yet sees nothing but other starts.                                      *)
LEMMA ApplyReads ==
  ASSUME TypeOK, RunsInv, RunsInv', ReadsInv, Undisturbed, ApplyOne
  PROVE  ReadsInv'
<1> DEFINE e == Head(batch)
<1>1. /\ e \in Event /\ e.type \notin Unexpected
      /\ live' = ApplyEvent(live, e) /\ live \in Graph
      /\ batch' = Tail(batch) /\ batch # <<>> /\ batch \in Seq(Event)
      /\ phase = "apply" /\ input = <<>> /\ internal = <<>>
      /\ UNCHANGED <<input, internal, phase, disposed, flights>>
  BY AppliedNow
<1>2. \A S : /\ Bears(batch, S) <=> e \in S \/ Bears(batch', S)
             /\ Only(batch, S) => e \in S /\ Only(batch', S)
             /\ Leading(batch, S) => (Bears(batch, S) => e \in S)
             /\ ~ Bears(internal, S) /\ ~ Bears(input, S)
             /\ Only(internal, S) /\ Only(input, S)
  BY <1>1, HeadTaken, NoneQueued
<1>3. basis' = IF e.type = "completed" THEN [basis EXCEPT ![e.task] = e.read] ELSE basis
  BY DEF ApplyOne
<1> HIDE DEF e
<1>4. e \in Tame /\ Only(batch', Tame)
  BY <1>2 DEF ReadsInv, DataInv
<1>5. /\ \A u \in Tasks : live'.prov[u] = live.prov[u]
      /\ \A u \in Tasks : live.st[u].data = live.st[u].hash => live'.st[u].data = live'.st[u].hash
      /\ \A u \in Tasks : Has(live, u) /\ live.st[u].hash # NoData => live'.st[u].hash # NoData
      /\ e.type = "started" => /\ live'.rank = live.rank /\ live'.req = live.req /\ live'.prov = live.prov
                               /\ \A u \in Tasks : live'.st[u].data = live.st[u].data
  BY <1>1, <1>4, AppliedData
<1>6. \A u \in Tasks : Has(live, u) => Has(live', u)
  BY <1>1, AppliedTo
<1>7. DataInv'
  BY <1>1, <1>2, <1>4, <1>5 DEF ReadsInv, DataInv, Tame
<1>8. ASSUME NEW r, Known(r) PROVE Known(r)'
  BY <1>5, <1>6, <1>8 DEF Known, Providers, Nodes
<1>9. ASSUME NEW t \in Handled PROVE ReadOf(t)'
  <2>1. t \in Tasks /\ ReadOf(t) /\ OneRun(t) /\ OneRun(t)'
    BY EngineAssumption DEF ReadsInv, RunsInv
  <2>2. Begun(t) <=> e \in StartsOf(t) \/ Begun(t)'
    BY <1>1, <1>2 DEF Begun, StartsOf
  <2>3. Begun(t) => e.type = "started" /\ ReadInputs(live', t) = ReadInputs(live, t)
    <3>1. Begun(t) => e.type = "started"
      BY <1>2, Kinds DEF Begun, RunsInv, QueuesInv, Starts
    <3>2. e.type = "started" => ReadInputs(live', t) = ReadInputs(live, t)
      BY <1>1, <1>5, <2>1, SameReads DEF ReadsInv, DataInv
    <3> QED BY <3>1, <3>2
  <2>4. e \in AnswersOf(t) => /\ live.st[t].status = "running" /\ Has(live, t)
                              /\ e.read \in Suits(t) /\ e.task = t /\ ~ Begun(t)'
    <3> SUFFICES ASSUME e \in AnswersOf(t)
                 PROVE  /\ live.st[t].status = "running" /\ Has(live, t)
                        /\ e.read \in Suits(t) /\ e.task = t /\ ~ Begun(t)'
      OBVIOUS
    <3>1. e.type # "started" /\ e.task = t
      BY DEF AnswersOf
    <3>2. ~ Begun(t) /\ ~ Begun(t)' /\ Open(t)
      BY <1>2, <2>2, <2>3, <3>1 DEF Open, Answered
    <3>3. e \in Fitting(t)
      BY <1>2, <2>1 DEF ReadOf
    <3> QED BY <2>1, <3>1, <3>2, <3>3 DEF OneRun, Fitting
  <2>5. e \notin AnswersOf(t) => basis'[t] = basis[t]
    BY <1>1, <1>3 DEF AnswersOf, TypeOK
  <2>6. /\ Suits(t) \subseteq Suits(t)'
        /\ live'.st[t].status = "running" => live'.st[t].hasStart
        /\ Known(basis[t])' /\ (live'.st[t].status = "completed" => basis'[t] = live'.st[t].consumed)
    <3>1. CASE Has(live, t) /\ e \in StartsOf(t) /\ live'.st[t].status = "running"
      <4>1. live'.st[t].hasStart /\ live'.st[t].started = ReadInputs(live, t)
        BY <1>1, <2>1, <3>1, AppliedMemory, ReadsAreHashes DEF ReadsInv
      <4>2. e \notin AnswersOf(t) /\ Begun(t)
        BY <2>2, <3>1 DEF StartsOf, AnswersOf
      <4>3. Suits(t) \subseteq Suits(t)'
        BY <1>8, <2>2, <2>3, <3>1, <4>1, <4>2 DEF Suits
      <4>4. Known(basis[t])'
        BY <1>8, <2>1, <2>5, <4>2 DEF ReadOf, Known
      <4> QED BY <3>1, <4>1, <4>3, <4>4
    <3>2. CASE e \in AnswersOf(t) /\ live'.st[t].status # "running"
      <4>1. Suits(t) \subseteq Suits(t)'
        BY <1>8, <2>4, <3>2 DEF Suits
      <4>2. live.st[t].hasStart
        BY <2>1, <2>4, <3>2 DEF ReadOf
      <4>3. CASE e.type = "completed"
        <5>1. basis'[t] = e.read
          BY <1>3, <2>1, <2>4, <3>2, <4>3 DEF TypeOK
        <5>2. e.read = live.st[t].started /\ Known(e.read)
          BY <2>4, <3>2 DEF Suits
        <5>3. Known(basis[t])'
          BY <1>8, <5>1, <5>2 DEF Known
        <5> QED BY <1>1, <2>1, <2>4, <3>2, <4>1, <4>2, <5>1, <5>2, <5>3, AppliedMemory
      <4>4. CASE e.type # "completed"
        <5>1. basis'[t] = basis[t]
          BY <1>3, <4>4
        <5>2. Known(basis[t])'
          BY <1>8, <2>1, <5>1 DEF ReadOf, Known
        <5> QED BY <1>1, <2>1, <2>4, <3>2, <4>1, <4>2, <4>4, <5>2, AppliedMemory
      <4> QED BY <4>3, <4>4
    <3>3. CASE /\ e \notin StartsOf(t) \cup AnswersOf(t)
               /\ (live'.st[t] = live.st[t] \/ live'.st[t] = FreshStore)
      <4>1. Suits(t) \subseteq Suits(t)'
        BY <1>8, <2>2, <2>3, <3>3 DEF Suits, FreshStore
      <4>2. Known(basis[t])'
        BY <1>8, <2>1, <2>5, <3>3 DEF ReadOf, Known
      <4> QED BY <2>1, <2>5, <3>3, <4>1, <4>2 DEF ReadOf, FreshStore
    <3>4. ~ Has(live, t) => e \notin StartsOf(t) \cup AnswersOf(t)
      BY <2>1, <2>2, <2>4 DEF OneRun
    <3> QED BY <1>1, <2>1, <2>4, <3>1, <3>2, <3>3, <3>4, AppliedTo
  <2>7. Only(flights'[t], Suits(t)')
    BY <1>1, <2>1, <2>6 DEF ReadOf, Only
  <2>8. Only(batch', Fitting(t)') /\ Only(internal', Fitting(t)') /\ Only(input', Fitting(t)')
    <3>1. Fitting(t) \subseteq Fitting(t)'
      BY <2>6 DEF Fitting, AnswersOf
    <3>2. Only(batch', Fitting(t)) /\ Only(internal', Fitting(t)) /\ Only(input', Fitting(t))
      BY <1>1, <1>2, <2>1 DEF ReadOf
    <3> QED BY <3>1, <3>2 DEF Only
  <2> QED BY <1>1, <2>6, <2>7, <2>8 DEF ReadOf, Suits, Fitting
<1> QED BY <1>7, <1>9 DEF ReadsInv

LEMMA ReadsInit == Init => ReadsInv
<1> SUFFICES ASSUME Init PROVE ReadsInv
  OBVIOUS
<1>1. DataInv
  BY NoneQueued DEF Init, DataInv, FreshStore
<1>2. ASSUME NEW t \in Handled PROVE ReadOf(t)
  <2>1. t \in Tasks /\ flights[t] = <<>> /\ live.st[t].status = "not-started" /\ basis[t] = NoInputs
    BY EngineAssumption DEF Init, FreshStore
  <2>2. Known(basis[t])
    BY <2>1 DEF Known, NoInputs
  <2> QED BY <2>1, <2>2, NoneQueued DEF ReadOf, Init, Restless
<1> QED BY <1>1, <1>2 DEF ReadsInv

LEMMA ReadsStay ==
  ASSUME TypeOK, QueueInv, RunsInv, ReadsInv, NoInterference, Undisturbed, [Next]_vars
  PROVE  ReadsInv'
<1>1. CASE Drain
  <2>1. ~ DropEvents
    BY NothingThrows DEF DropEvents, RunsInv
  <2>2. ~ Reinvoke
    BY DEF Reinvoke, RunsInv, QueuesInv
  <2>3. RunsInv'
    BY RunsStay
  <2> QED BY <1>1, <2>1, <2>2, <2>3, TakeReads, ApplyReads, ScheduleReads, DispatchReads,
             EndPassReads DEF Drain
<1>2. CASE Runs
  <2>1. ASSUME NEW t \in Tasks, NEW i \in DOMAIN flights[t], NEW d \in Published, Resolve(t, i, d)
        PROVE  ReadsInv'
    <3> DEFINE e == [Ev("completed", t) EXCEPT !.data = d, !.read = flights[t][i]]
    <3>1. d \in Payload /\ d # NoData
      BY DataAssumption DEF Undisturbed, Payload
    <3>2. e \in AnswersOf(t) /\ e \in Tame /\ e.read = flights[t][i]
      BY <2>1, <3>1, DropType DEF Ev, Event, AnswersOf, Resolve, Tame, Tampering
    <3> QED BY <2>1, <3>2, AnswerReads DEF Resolve
  <2>2. ASSUME NEW t \in Tasks, NEW i \in DOMAIN flights[t], ResolveErrors(t, i)
        PROVE  ReadsInv'
    <3> DEFINE e == [Ev("failed", t) EXCEPT !.read = flights[t][i]]
    <3>1. e \in AnswersOf(t) /\ e \in Tame /\ e.read = flights[t][i]
      BY <2>2, DropType DEF Ev, Event, Payload, AnswersOf, ResolveErrors, Tame, Tampering
    <3> QED BY <2>2, <3>1, AnswerReads DEF ResolveErrors
  <2> QED BY <1>2, <2>1, <2>2, RejectReads DEF Runs
<1>3. CASE UNCHANGED vars
  <2>1. /\ UNCHANGED <<batch, internal, input, live, basis, flights>>
        /\ UNCHANGED <<phase, todo, disposed, drainQueued>>
    BY <1>3, Zenon DEF vars
  <2> QED BY <2>1, StillReads
<1> QED BY <1>1, <1>2, <1>3, APIReads DEF Next

LEMMA ReadsAreConsistent ==
  ASSUME TypeOK, ReadsInv, Undisturbed
  PROVE  Consistent
<1> SUFFICES ASSUME NEW t \in Tasks, Done(t), NEW k \in WiredInputs(t)
             PROVE  basis[t][k] = ReadInputs(live, t)[k]
  BY DEF Consistent
<1>1. /\ t \in Handled /\ Has(live, t) /\ live.st[t].status = "completed" /\ ReadOf(t)
      /\ Strategy[t] = "data-changed" /\ ~ Capped(live, t) /\ live.req[t] \subseteq Available(live)
      /\ ~ Restless(t) /\ live \in Graph
  BY DEF Done, ReadsInv, ReadOf, TypeOK
<1>2. k \in live.req[t] /\ k \in Tokens /\ Providers(live, k) # {}
  BY <1>1 DEF WiredInputs, Graph
<1>3. ~ DataChanged(live, t, k)
  BY <1>1, <1>2 DEF Restless, Eligible, MayRefresh
<1>4. PICK p \in Providers(live, k) : TRUE
  BY <1>2
<1>5. /\ Providers(live, k) = {p} /\ FirstProvider(live, k) = p /\ LastProvider(live, k) = p
      /\ live.st[p].data = live.st[p].hash
  BY <1>1, <1>2, <1>4, OneProvider DEF ReadsInv, DataInv, Providers, Nodes
<1>6. ReadInputs(live, t)[k] = live.st[p].hash
  BY <1>2, <1>5 DEF ReadInputs
<1>7. CASE live.st[p].hash = NoData
  BY <1>1, <1>2, <1>5, <1>6, <1>7 DEF ReadOf, Known
<1>8. CASE live.st[p].hash # NoData
  BY <1>1, <1>2, <1>3, <1>5, <1>6, <1>8 DEF DataChanged, ReadOf
<1> QED BY <1>7, <1>8

(* No lost update, for any graph in which a token has one provider, as long*)
(* as nobody restarts or removes tasks, reports progress or rewires what   *)
(* they provide, and what is published has content: however often upstream *)
(* tasks complete while a task runs, it comes to rest with data computed   *)
(* from what they hold now (task-transitions.ts:42, 81-90 and the choice   *)
(* of data-changed tasks in schedule.ts:75-92).                            *)
THEOREM NoLostUpdate == Undisturbed => (Spec => []Consistent)
<1> SUFFICES ASSUME Undisturbed PROVE Spec => []Consistent
  OBVIOUS
<1>0. NoInterference
  BY DEF Undisturbed, NoInterference, Tampering, Unexpected
<1>1. TypeOK /\ QueueInv /\ RunsInv /\ [Next]_vars => RunsInv'
  BY <1>0, RunsStay
<1>2. TypeOK /\ QueueInv /\ RunsInv /\ ReadsInv /\ [Next]_vars => ReadsInv'
  BY <1>0, ReadsStay
<1>3. TypeOK /\ ReadsInv => Consistent
  BY ReadsAreConsistent
<1> QED BY <1>1, <1>2, <1>3, RunsInit, ReadsInit, TypeCorrect, QueuesServed, PTL DEF Spec

----------------------------------------------------------------------------
(* The step simulation of Dataflow.                                        *)

(* Tasks are not interfered with, nor is the wiring changed; completions   *)
(* provide what the task provides, and a task only refreshes on data.      *)
Steady ==
  /\ Undisturbed /\ Calls \subseteq {"complete", "inject", "upsert"}
  /\ \A t \in Handled : /\ Strategy[t] # "epoch-changed"
                        /\ Breaker[t] # NoLimit => OnBreak[t] \subseteq OnFailure[t]

(* What then waits in a queue.                                             *)
Issued == {e \in Event :
  /\ e.type \in {"started", "completed", "failed", "inject", "upsert"}
  /\ e.type = "completed" => e.data \in Published /\ ~ e.routed
  /\ e.type \in {"started", "failed"} => e.task \in Handled
  /\ e.type = "inject" => \E k \in Tokens : e.tokens = {k}
  /\ e.type = "upsert" => e.tokens = Requires[e.task]}

(* A task without data has not completed, and has given up once at most.   *)
Grown(g, t) ==
  /\ ~ Has(g, t) => g.st[t].status = "not-started"
  /\ g.st[t].status = "completed" => Provides[t] \subseteq g.out /\ g.st[t].epoch >= 1
  /\ g.st[t].hash = NoData => /\ g.st[t].status # "completed" /\ g.st[t].execs <= 1
                              /\ g.st[t].status # "failed" => g.st[t].execs = 0

FlowInv ==
  /\ ~ disposed /\ live.req = Requires /\ live.prov = Provides
  /\ \A t \in Tasks : Grown(live, t) /\ (t \notin Handled => flights[t] = <<>>)
  /\ Only(batch, Issued) /\ Only(internal, Issued) /\ Only(input, Issued)

(* The rest of what the transitions do.                                    *)
LEMMA StartOutcome ==
  ASSUME NEW g \in Graph, NEW t \in Tasks
  PROVE  LET h == TaskStart(g, t) IN h.out = g.out /\ h.st[t].epoch = g.st[t].epoch
BY DEF TaskStart, Graph, Store

LEMMA CompletionOutcome ==
  ASSUME NEW g \in Graph, NEW t \in Tasks, NEW d, NEW r, ~ r
  PROVE  LET h == TaskCompletion(g, t, d, r) IN
         h.out = g.out \cup g.prov[t] /\ h.st[t].epoch = g.st[t].execs + 1
<1> DEFINE c == ConsumedHashes(g, t)
           n == g.st[t].execs + 1
           s == [g.st[t] EXCEPT !.status = "completed", !.execs = n, !.epoch = n,
                                !.hash = d, !.data = d, !.consumed = c]
<1>1. Produced(g, t, r) = g.prov[t]
  BY Zenon DEF Produced
<1>2. TaskCompletion(g, t, d, r) = [g EXCEPT !.st[t] = s, !.out = g.out \cup g.prov[t]]
  BY <1>1 DEF TaskCompletion, Graph
<1>3. s.epoch = n
  <2>1. g.st[t] \in Store
    BY DEF Graph
  <2> HIDE DEF c, n
  <2> QED BY <2>1 DEF Store
<1> HIDE DEF s
<1> QED BY <1>2, <1>3 DEF Graph

LEMMA FailureOutcome ==
  ASSUME NEW g \in Graph, NEW t \in Tasks
  PROVE  LET h == TaskFailure(g, t) IN
         /\ h.st[t].epoch = g.st[t].epoch
         /\ \/ h.st[t].status = "not-started" /\ h.st[t].execs = g.st[t].execs /\ h.out = g.out
            \/ h.st[t].status = "failed" /\ h.st[t].execs = g.st[t].execs + 1
               /\ h.out = g.out \cup OnFailure[t]
                                \cup (IF Tripped(g.st[t].execs + 1, t) THEN OnBreak[t] ELSE {})
<1>0. g.st[t] \in Store
  BY DEF Graph
<1> DEFINE n == g.st[t].execs + 1
           m == g.st[t].retry + 1
           s == [g.st[t] EXCEPT !.status = "failed", !.execs = n]
           r == [g.st[t] EXCEPT !.status = "not-started", !.retry = m]
           o == g.out \cup OnFailure[t] \cup (IF Tripped(n, t) THEN OnBreak[t] ELSE {})
<1>1. /\ s.status = "failed" /\ s.execs = n /\ s.epoch = g.st[t].epoch
      /\ r.status = "not-started" /\ r.execs = g.st[t].execs /\ r.epoch = g.st[t].epoch
  <2> HIDE DEF n, m
  <2> QED BY <1>0 DEF Store
<1>2. TaskGivesUp(g, t) = [g EXCEPT !.st[t] = s, !.out = o]
  BY DEF TaskGivesUp, Graph
<1>3. TaskRetry(g, t) = [g EXCEPT !.st[t] = r]
  BY DEF TaskRetry, Graph
<1> HIDE DEF s, r, o
<1>4. /\ [g EXCEPT !.st[t] = s, !.out = o].st[t] = s
      /\ [g EXCEPT !.st[t] = s, !.out = o].out = o
      /\ [g EXCEPT !.st[t] = r].st[t] = r
      /\ [g EXCEPT !.st[t] = r].out = g.out
  BY DEF Graph
<1> QED BY <1>1, <1>2, <1>3, <1>4 DEF TaskFailure, o

LEMMA AddNodeOutcome ==
  ASSUME NEW g \in Graph, NEW t \in Tasks
  PROVE  LET h == AddNode(g, t, g.req[t], g.prov[t]) IN
         h.req = g.req /\ h.prov = g.prov /\ h.out = g.out
<1> DEFINE n == IF Has(g, t) THEN g.rank[t] ELSE Cardinality(Nodes(g)) + 1
           s == IF Has(g, t) THEN g.st[t] ELSE FreshStore
<1>1. AddNode(g, t, g.req[t], g.prov[t])
        = [g EXCEPT !.rank[t] = n, !.req[t] = g.req[t], !.prov[t] = g.prov[t], !.st[t] = s]
  BY DEF AddNode, Graph
<1> HIDE DEF n, s
<1> QED BY <1>1 DEF Graph

(* What a token holds, when one task at most provides it.                  *)
LEMMA ContentHeld ==
  ASSUME Undisturbed, NEW g \in Graph, g.prov = Provides, NEW k \in Tokens
  PROVE  /\ \A p \in Providers(g, k) : Content(g, k) = g.st[p].data
         /\ Providers(g, k) = {} => Content(g, k) = NoData
<1>1. ASSUME NEW p \in Providers(g, k) PROVE Content(g, k) = g.st[p].data
  BY OneProvider DEF Content
<1> QED BY <1>1 DEF Content

LEMMA ContentStays ==
  ASSUME Undisturbed, NEW g \in Graph, g.prov = Provides, NEW h \in Graph, h.prov = Provides, NEW k \in Tokens,
         \A u \in Tasks : Has(g, u) => Has(h, u) /\ h.st[u].data = g.st[u].data,
         \A u \in Tasks : ~ Has(g, u) /\ Has(h, u) => h.st[u].data = NoData
  PROVE  Content(h, k) = Content(g, k)
<1>1. CASE Providers(g, k) # {}
  <2>1. PICK p \in Providers(g, k) : TRUE
    BY <1>1
  <2>2. p \in Providers(h, k) /\ p \in Tasks /\ h.st[p].data = g.st[p].data
    BY <2>1 DEF Providers, Nodes
  <2> QED BY <2>1, <2>2, ContentHeld
<1>2. CASE Providers(g, k) = {}
  <2>1. Content(g, k) = NoData
    BY <1>2, ContentHeld
  <2>2. ASSUME NEW p \in Providers(h, k) PROVE h.st[p].data = NoData
    BY <1>2 DEF Providers, Nodes
  <2>3. CASE Providers(h, k) = {}
    BY <2>1, <2>3, ContentHeld
  <2>4. CASE Providers(h, k) # {}
    <3>1. PICK p \in Providers(h, k) : TRUE
      BY <2>4
    <3> QED BY <2>1, <2>2, <3>1, ContentHeld
  <2> QED BY <2>3, <2>4
<1> QED BY <1>1, <1>2

LEMMA ContentPublished ==
  ASSUME Undisturbed, NEW g \in Graph, g.prov = Provides, NEW h \in Graph, h.prov = Provides, NEW k \in Tokens,
         h.rank = g.rank, NEW t \in Tasks, Has(g, t), NEW d, h.st[t].data = d,
         \A u \in Tasks \ {t} : h.st[u] = g.st[u]
  PROVE  Content(h, k) = IF k \in Provides[t] THEN d ELSE Content(g, k)
<1>1. Providers(h, k) = Providers(g, k)
  BY DEF Providers, Nodes, Has
<1>2. CASE k \in Provides[t]
  <2>1. t \in Providers(h, k)
    BY <1>2 DEF Providers, Nodes, Has
  <2> QED BY <1>2, <2>1, ContentHeld
<1>3. CASE k \notin Provides[t]
  <2>1. \A p \in Providers(g, k) : p \in Tasks \ {t}
    BY <1>3 DEF Providers, Nodes
  <2>2. CASE Providers(g, k) = {}
    BY <1>1, <1>3, <2>2, ContentHeld
  <2>3. CASE Providers(g, k) # {}
    <3>1. PICK p \in Providers(g, k) : TRUE
      BY <2>3
    <3>2. h.st[p] = g.st[p] /\ p \in Providers(h, k)
      BY <1>1, <2>1, <3>1
    <3> QED BY <1>3, <3>1, <3>2, ContentHeld
  <2> QED BY <2>2, <2>3
<1> QED BY <1>2, <1>3

(* What the answers in a queue carry.                                      *)
Carriers(t, r) == {e \in AnswersOf(t) : e.read = r}

LEMMA AnswersBear ==
  ASSUME NEW q \in Seq(Event), NEW t
  PROVE  /\ \A r : r \in Answers(q, t) <=> Bears(q, Carriers(t, r))
         /\ Answers(q, t) = {} <=> ~ Bears(q, AnswersOf(t))
<1>1. \A i \in DOMAIN q : q[i] \in Event
  BY LenProperties, ElementOfSeq
<1>2. ASSUME NEW r PROVE r \in Answers(q, t) <=> Bears(q, Carriers(t, r))
  BY <1>1 DEF Answers, Bears, Carriers, AnswersOf
<1>3. Answers(q, t) = {} <=> ~ Bears(q, AnswersOf(t))
  BY <1>1 DEF Answers, Bears, AnswersOf
<1> QED BY <1>2, <1>3

Carried(e, t) == IF e \in AnswersOf(t) THEN {e.read} ELSE {}

LEMMA AnswersMoved ==
  ASSUME NEW q \in Seq(Event), NEW t
  PROVE  /\ Answers(<<>>, t) = {}
         /\ \A e \in Event : Answers(Append(q, e), t) = Answers(q, t) \cup Carried(e, t)
         /\ \A p \in Seq(Event) : Answers(p \o q, t) = Answers(p, t) \cup Answers(q, t)
         /\ q # <<>> => Answers(q, t) = Answers(Tail(q), t) \cup Carried(Head(q), t)
<1>1. Answers(<<>>, t) = {}
  BY DEF Answers
<1>2. ASSUME NEW e \in Event PROVE Answers(Append(q, e), t) = Answers(q, t) \cup Carried(e, t)
  <2>1. Append(q, e) \in Seq(Event)
    BY AppendProperties
  <2>2. ASSUME NEW r PROVE r \in Answers(Append(q, e), t) <=> r \in Answers(q, t) \/ e \in Carriers(t, r)
    BY <2>1, AnswersBear, OneAppended
  <2>3. \A r : e \in Carriers(t, r) <=> r \in Carried(e, t)
    BY DEF Carriers, Carried
  <2> QED BY <2>2, <2>3
<1>3. ASSUME NEW p \in Seq(Event) PROVE Answers(p \o q, t) = Answers(p, t) \cup Answers(q, t)
  <2>1. p \o q \in Seq(Event)
    BY ConcatProperties
  <2>2. ASSUME NEW r PROVE r \in Answers(p \o q, t) <=> r \in Answers(p, t) \/ r \in Answers(q, t)
    BY <2>1, AnswersBear, BothJoined
  <2> QED BY <2>2
<1>4. ASSUME q # <<>> PROVE Answers(q, t) = Answers(Tail(q), t) \cup Carried(Head(q), t)
  <2>1. Tail(q) \in Seq(Event) /\ Head(q) \in Event
    BY <1>4, HeadTailProperties
  <2>2. ASSUME NEW r PROVE r \in Answers(q, t) <=> r \in Answers(Tail(q), t) \/ Head(q) \in Carriers(t, r)
    BY <1>4, <2>1, AnswersBear, HeadTaken
  <2>3. \A r : Head(q) \in Carriers(t, r) <=> r \in Carried(Head(q), t)
    BY DEF Carriers, Carried
  <2> QED BY <2>2, <2>3
<1> QED BY <1>1, <1>2, <1>3, <1>4

(* An answer that is applied ends a run that has started; a start that is  *)
(* applied begins a run of a task that may have one.                       *)
LEMMA AnswersRunning ==
  ASSUME TypeOK, RunsInv, ApplyOne, NEW t \in Handled
  PROVE  /\ Head(batch) \in AnswersOf(t) => Has(live, t) /\ live.st[t].status = "running" /\ flights[t] = <<>>
         /\ Head(batch) \in StartsOf(t) => Has(live, t) /\ live.st[t].status \in {"not-started", "completed"}
<1> DEFINE e == Head(batch)
<1>1. /\ batch # <<>> /\ batch \in Seq(Event) /\ internal = <<>> /\ OneRun(t)
  BY AppliedNow DEF RunsInv
<1>2. \A S : (Bears(batch, S) <=> e \in S \/ Bears(Tail(batch), S)) /\ ~ Bears(internal, S)
             /\ (Leading(batch, S) => (Bears(batch, S) => e \in S))
  BY <1>1, HeadTaken, NoneQueued
<1> HIDE DEF e
<1>3. ASSUME e \in StartsOf(t) PROVE Has(live, t) /\ live.st[t].status \in {"not-started", "completed"}
  BY <1>1, <1>2, <1>3 DEF OneRun, Begun
<1>4. ASSUME e \in AnswersOf(t) PROVE Has(live, t) /\ live.st[t].status = "running" /\ flights[t] = <<>>
  <2>1. Answered(t) /\ Open(t)
    BY <1>2, <1>4 DEF Answered, Open
  <2>2. ~ Bears(batch, Starts)
    BY <1>2, <1>4 DEF RunsInv, QueuesInv, Starts, AnswersOf
  <2>3. ~ Begun(t)
    BY <1>2, <2>2, Kinds DEF Begun
  <2> QED BY <1>1, <2>1, <2>3 DEF OneRun
<1> QED BY <1>3, <1>4 DEF e

(* What an event does to the graph, case by case.                          *)
Applied(g, h, e) ==
  LET t == e.task IN
  \/ /\ e.type = "inject" /\ h.rank = g.rank /\ h.st = g.st /\ h.out = g.out \cup e.tokens
  \/ /\ e.type = "upsert" /\ h.out = g.out
     /\ \A u \in Tasks : Has(g, u) => Has(h, u) /\ h.st[u] = g.st[u]
     /\ \A u \in Tasks : ~ Has(g, u) => h.st[u] \in {g.st[u], FreshStore}
     /\ \A u \in Tasks : ~ Has(g, u) /\ Has(h, u) => h.st[u] = FreshStore
  \/ /\ e.type \in {"started", "completed", "failed"} /\ Has(g, t) /\ h.rank = g.rank
     /\ \A u \in Tasks \ {t} : h.st[u] = g.st[u]
     /\ \/ /\ e.type = "started" /\ h.out = g.out /\ h.st[t].status = "running"
           /\ h.st[t].data = g.st[t].data /\ h.st[t].hash = g.st[t].hash /\ h.st[t].execs = g.st[t].execs
        \/ /\ e.type = "completed" /\ h.out = g.out \cup Provides[t] /\ h.st[t].status = "completed"
           /\ h.st[t].data = e.data /\ h.st[t].hash = e.data /\ h.st[t].epoch = g.st[t].execs + 1
        \/ /\ e.type = "failed" /\ h.st[t].data = g.st[t].data /\ h.st[t].hash = g.st[t].hash
           /\ \/ h.st[t].status = "not-started" /\ h.st[t].execs = g.st[t].execs /\ h.out = g.out
              \/ h.st[t].status = "failed" /\ h.st[t].execs = g.st[t].execs + 1 /\ h.out = g.out \cup OnFailure[t]
  \/ h = g /\ ~ Has(g, t) /\ e.type \in {"started", "failed"}

LEMMA AppliedCases ==
  ASSUME Steady, NEW g \in Graph, g.req = Requires, g.prov = Provides,
         NEW e \in Issued, e.type = "completed" => Has(g, e.task)
  PROVE  LET h == ApplyEvent(g, e) IN h.req = Requires /\ h.prov = Provides /\ Applied(g, h, e)
<1> DEFINE h == ApplyEvent(g, e)
           t == e.task
<1>0. e \in Event /\ t \in Tasks /\ e.type \notin Unexpected
  BY DEF Issued, Event, Unexpected
<1>1. CASE e.type = "inject"
  <2>1. h = [g EXCEPT !.out = g.out \cup e.tokens]
    BY <1>1 DEF ApplyEvent, Graph
  <2> QED BY <1>1, <2>1 DEF Graph, Applied
<1>2. CASE e.type = "upsert"
  <2>1. h = AddNode(g, t, g.req[t], g.prov[t])
    BY <1>2 DEF ApplyEvent, Issued
  <2>2. h.req = g.req /\ h.prov = g.prov /\ h.out = g.out
    BY <1>0, <2>1, AddNodeOutcome
  <2>3. /\ \A u \in Tasks : Has(g, u) => Has(h, u)
        /\ \A u \in Tasks : h.st[u] = IF u = t /\ ~ Has(g, t) THEN FreshStore ELSE g.st[u]
        /\ \A u \in Tasks \ {t} : h.rank[u] = g.rank[u]
    BY <1>0, <2>1, AddNodeEffect
  <2>4. \A u \in Tasks : ~ Has(g, u) /\ Has(h, u) => h.st[u] = FreshStore
    BY <2>3 DEF Has
  <2>5. \A u \in Tasks : (Has(g, u) => h.st[u] = g.st[u]) /\ (~ Has(g, u) => h.st[u] \in {g.st[u], FreshStore})
    BY <2>3, Zenon
  <2>6. Applied(g, h, e)
    <3> HIDE DEF h, t
    <3> QED BY <1>2, <2>2, <2>3, <2>4, <2>5 DEF Applied
  <2> QED BY <2>2, <2>6
<1>3. CASE ~ Has(g, t) /\ h = g /\ e.type \in {"started", "failed"}
  BY <1>3 DEF Applied
<1>4. CASE e.type = "started" /\ Has(g, t) /\ h = TaskStart(g, t)
  BY <1>0, <1>4, StartEffect, StartOutcome DEF Applied
<1>5. CASE e.type = "completed" /\ Has(g, t) /\ h = TaskCompletion(g, t, e.data, e.routed)
  <2>1. ~ e.routed
    BY <1>5 DEF Issued
  <2>2. h.out = g.out \cup Provides[t] /\ h.st[t].epoch = g.st[t].execs + 1
    BY <1>0, <1>5, <2>1, CompletionOutcome
  <2> QED BY <1>0, <1>5, <2>2, CompletionEffect DEF Applied
<1>6. CASE e.type = "failed" /\ Has(g, t) /\ h = TaskFailure(g, t)
  <2>1. t \in Handled
    BY <1>6 DEF Issued
  <2>2. Tripped(g.st[t].execs + 1, t) => OnBreak[t] \subseteq OnFailure[t]
    BY <2>1 DEF Steady, Tripped
  <2>3. g.out \cup OnFailure[t] \cup (IF Tripped(g.st[t].execs + 1, t) THEN OnBreak[t] ELSE {})
          = g.out \cup OnFailure[t]
    BY <2>2
  <2> QED BY <1>0, <1>6, <2>3, FailureEffect, FailureOutcome DEF Applied
<1>7. e.type \in {"started", "completed", "failed", "inject", "upsert"}
  BY DEF Issued
<1>8. CASE e.type \in {"started", "completed", "failed"}
  <2>1. CASE ~ Has(g, t)
    <3>1. h = g
      BY <1>8, <2>1 DEF ApplyEvent
    <3> QED BY <1>3, <1>8, <2>1, <3>1
  <2>2. CASE Has(g, t)
    <3>1. \/ e.type = "started" /\ h = TaskStart(g, t)
          \/ e.type = "completed" /\ h = TaskCompletion(g, t, e.data, e.routed)
          \/ e.type = "failed" /\ h = TaskFailure(g, t)
      BY <1>8, <2>2 DEF ApplyEvent
    <3> QED BY <1>4, <1>5, <1>6, <2>2, <3>1
  <2> QED BY <2>1, <2>2
<1> QED BY <1>1, <1>2, <1>7, <1>8

LEMMA GrownStays ==
  ASSUME Steady, NEW g \in Graph, NEW h \in Graph, NEW e \in Issued, Applied(g, h, e),
         e.type = "failed" /\ Has(g, e.task) => g.st[e.task].status = "running",
         e.type = "started" /\ Has(g, e.task) => g.st[e.task].status # "failed",
         NEW u \in Tasks, Grown(g, u)
  PROVE  Grown(h, u)
<1> DEFINE t == e.task
<1>0. t \in Tasks /\ g.st[u] \in Store /\ h.st[u] \in Store /\ g.st[t].execs \in Nat
  BY DEF Issued, Event, Graph, Store
<1>1. CASE e.type = "inject"
  BY <1>1 DEF Applied, Grown, Has
<1>2. CASE e.type = "upsert"
  <2>1. CASE Has(g, u)
    BY <1>2, <2>1 DEF Applied, Grown
  <2>2. CASE ~ Has(g, u)
    <3>1. h.st[u] \in {g.st[u], FreshStore} /\ g.st[u].status = "not-started" /\ h.st[u].status = "not-started"
      BY <1>2, <2>2 DEF Applied, Grown, FreshStore
    <3>2. g.st[u].hash = NoData => g.st[u].execs = 0
      BY <3>1 DEF Grown
    <3>3. h.st[u].hash = NoData => h.st[u].execs = 0
      BY <3>1, <3>2 DEF FreshStore
    <3> QED BY <3>1, <3>3 DEF Grown
  <2> QED BY <2>1, <2>2
<1>3. CASE h = g
  BY <1>3
<1>4. CASE e.type \in {"started", "completed", "failed"} /\ h # g
  <2>1. /\ Has(g, t) /\ h.rank = g.rank /\ \A x \in Tasks \ {t} : h.st[x] = g.st[x]
        /\ g.out \subseteq h.out
    BY <1>4 DEF Applied
  <2>2. CASE u # t
    <3>1. h.st[u] = g.st[u] /\ (Has(h, u) <=> Has(g, u))
      BY <2>1, <2>2 DEF Has
    <3> QED BY <2>1, <3>1 DEF Grown
  <2>3. CASE u = t
    <3>0. Has(h, u)
      BY <2>1, <2>3 DEF Has
    <3>1. CASE e.type = "started"
      <4>1. h.st[u].status = "running" /\ h.st[u].hash = g.st[u].hash /\ h.st[u].execs = g.st[u].execs
        BY <1>4, <2>3, <3>1 DEF Applied
      <4>2. g.st[u].status # "failed"
        BY <2>1, <2>3, <3>1
      <4> QED BY <3>0, <4>1, <4>2 DEF Grown
    <3>2. CASE e.type = "completed"
      <4>1. /\ h.out = g.out \cup Provides[u] /\ h.st[u].status = "completed"
            /\ h.st[u].hash = e.data /\ h.st[u].epoch = g.st[t].execs + 1
        BY <1>4, <2>3, <3>2 DEF Applied
      <4>2. e.data # NoData
        BY <3>2, DataAssumption DEF Issued, Steady, Undisturbed
      <4> QED BY <1>0, <3>0, <4>1, <4>2 DEF Grown
    <3>3. CASE e.type = "failed"
      <4>1. /\ h.st[u].hash = g.st[u].hash
            /\ \/ h.st[u].status = "not-started" /\ h.st[u].execs = g.st[u].execs
               \/ h.st[u].status = "failed" /\ h.st[u].execs = g.st[u].execs + 1
        BY <1>4, <2>3, <3>3 DEF Applied
      <4>2. g.st[u].status = "running"
        BY <2>1, <2>3, <3>3
      <4>3. g.st[u].hash = NoData => g.st[u].execs = 0
        BY <4>2 DEF Grown
      <4> QED BY <1>0, <3>0, <4>1, <4>3 DEF Grown
    <3> QED BY <1>4, <3>1, <3>2, <3>3
  <2> QED BY <2>2, <2>3
<1>5. e.type \in {"started", "completed", "failed", "inject", "upsert"}
  BY DEF Issued
<1> QED BY <1>1, <1>2, <1>3, <1>4, <1>5

LEMMA QuietFlow ==
  ASSUME FlowInv, live' = live, disposed' = disposed, NEW E \in SUBSET Issued, Gained(E),
         \A t \in Tasks \ Handled : flights'[t] = <<>>
  PROVE  FlowInv'
<1>1. Only(batch', Issued) /\ Only(internal', Issued) /\ Only(input', Issued)
  BY DEF FlowInv, Gained
<1> QED BY <1>1 DEF FlowInv, Issued

LEMMA ApplyFlow ==
  ASSUME TypeOK, RunsInv, FlowInv, Steady, ApplyOne
  PROVE  /\ FlowInv' /\ live \in Graph /\ live' \in Graph /\ live' = ApplyEvent(live, Head(batch))
         /\ Applied(live, live', Head(batch)) /\ Head(batch) \in Issued
<1> DEFINE e == Head(batch)
<1>1. /\ e \in Expected /\ live' = ApplyEvent(live, e) /\ live \in Graph
      /\ batch' = Tail(batch) /\ batch # <<>> /\ batch \in Seq(Event)
      /\ UNCHANGED <<input, internal, disposed, flights>>
  BY AppliedNow
<1>2. e \in Issued /\ Only(batch', Issued)
  BY <1>1, HeadTaken DEF FlowInv
<1>3. e \in Event /\ e.task \in Tasks
  BY <1>1 DEF Expected, Event
<1>4. ASSUME e.task \in Handled
      PROVE  /\ e.type = "failed" => live.st[e.task].status = "running"
             /\ e.type = "started" => live.st[e.task].status # "failed"
  <2>1. /\ e \in AnswersOf(e.task) => live.st[e.task].status = "running"
        /\ e \in StartsOf(e.task) => live.st[e.task].status \in {"not-started", "completed"}
    BY <1>4, AnswersRunning
  <2> HIDE DEF e
  <2> QED BY <1>3, <2>1 DEF AnswersOf, StartsOf
<1> HIDE DEF e
<1>5. live' \in Graph
  BY <1>1, <1>3, ApplyEventType
<1>6. live'.req = Requires /\ live'.prov = Provides /\ Applied(live, live', e)
  BY <1>1, <1>2, AppliedCases DEF FlowInv, Expected
<1>7. /\ e.type = "failed" /\ Has(live, e.task) => live.st[e.task].status = "running"
      /\ e.type = "started" /\ Has(live, e.task) => live.st[e.task].status # "failed"
  BY <1>2, <1>4 DEF Issued
<1>8. \A u \in Tasks : Grown(live', u)
  BY <1>1, <1>2, <1>5, <1>6, <1>7, GrownStays DEF FlowInv
<1>9. FlowInv'
  BY <1>1, <1>2, <1>6, <1>8 DEF FlowInv, Grown, Issued
<1> QED BY <1>1, <1>2, <1>5, <1>6, <1>9 DEF e

(* What the calls and the runs leave in the queues.                        *)
LEMMA IssuedCalls ==
  ASSUME Steady, API
  PROVE  phase \in {"idle", "dispatch"} /\ \E e \in Issued : Push(e) /\ e.type \in {"completed", "inject", "upsert"}
                                                             /\ (e.type = "completed" => e.task \notin Handled)
<1> DEFINE Good(e) == e \in Issued /\ e.type \in {"completed", "inject", "upsert"}
                      /\ (e.type = "completed" => e.task \notin Handled)
           Pushed == phase \in {"idle", "dispatch"} /\ \E e : Good(e) /\ Push(e)
<1>1. /\ Targets \subseteq Tasks /\ Published \subseteq Payload /\ Requires \in [Tasks -> SUBSET Tokens]
      /\ Calls \cap {"route", "restart", "requires-add", "requires-remove", "provides-add", "provides-remove",
                     "remove", "progress", "dispose"} = {}
  BY EngineAssumption DEF Steady
<1>2. ASSUME NEW t \in Targets, NEW d \in Published, PushCompleted(t, d) PROVE Pushed
  <2>1. Good([Ev("completed", t) EXCEPT !.data = d])
    BY <1>1, <1>2, NoInputsType DEF Ev, Event, Issued, PushCompleted
  <2> HIDE DEF Good
  <2> QED BY <1>2, <2>1, Zenon DEF PushCompleted, CanCall
<1>3. ASSUME NEW t \in Targets, UpsertTask(t) PROVE Pushed
  <2>1. Good([Ev("upsert", t) EXCEPT !.tokens = Requires[t]])
    BY <1>1, NoInputsType DEF Ev, Event, Payload, Issued
  <2> HIDE DEF Good
  <2> QED BY <1>3, <2>1, Zenon DEF UpsertTask, CanCall
<1>4. ASSUME NEW k \in Tokens, Inject(k) PROVE Pushed
  <2>1. AnyTask \in Tasks
    BY TasksAssumption DEF AnyTask
  <2>2. Good([Ev("inject", AnyTask) EXCEPT !.tokens = {k}])
    BY <2>1, NoInputsType DEF Ev, Event, Payload, Issued
  <2> HIDE DEF Good
  <2> QED BY <1>4, <2>2, Zenon DEF Inject, CanCall
<1>5. ASSUME NEW t \in Targets
      PROVE  /\ ~ PushProgress(t) /\ ~ Retrigger(t) /\ ~ RemoveTask(t) /\ ~ Dispose
             /\ \A d : ~ PushRouted(t, d)
             /\ \A k : ~ AddProvides(t, k) /\ ~ RemoveProvides(t, k) /\ ~ AddRequires(t, k) /\ ~ RemoveRequires(t, k)
  BY <1>1 DEF PushProgress, Retrigger, RemoveTask, PushRouted, AddProvides, RemoveProvides, AddRequires,
     RemoveRequires, CanCall, Dispose
<1>6. ~ Dispose
  BY <1>1 DEF Dispose, CanCall
<1>7. Pushed
  <2> HIDE DEF Pushed
  <2> QED BY <1>2, <1>3, <1>4, <1>5, <1>6, Zenon DEF API
<1> QED BY <1>7

LEMMA FlowInit == Steady /\ Init => FlowInv
<1> SUFFICES ASSUME Steady, Init PROVE FlowInv
  OBVIOUS
<1>1. live.st = [t \in Tasks |-> FreshStore] /\ live.req = Requires /\ live.prov = Provides
  BY DEF Init
<1>2. \A t \in Tasks : Grown(live, t)
  BY <1>1 DEF Grown, FreshStore
<1> QED BY <1>1, <1>2, NoneQueued DEF Init, FlowInv

(* Only tasks with handlers have runs, and a run ends with an answer.      *)
LEMMA RunsIssue ==
  ASSUME TypeOK, FlowInv, Runs
  PROVE  \E t \in Handled : \E i \in DOMAIN flights[t] : \E e \in Issued :
           /\ Drop(t, i) /\ e \in AnswersOf(t) /\ e.read = flights[t][i]
           /\ UNCHANGED <<live, batch, disposed, basis>>
           /\ Answer(t, e) \/ Reject(t, i)
           /\ \/ input' = Append(input, e) /\ internal' = internal
              \/ internal' = Append(internal, e) /\ input' = input
              \/ ~ Has(live, t)
<1>1. ASSUME NEW t \in Tasks, NEW i \in DOMAIN flights[t] PROVE t \in Handled
  <2>1. flights[t] # <<>>
    BY <1>1
  <2> QED BY <2>1 DEF FlowInv
<1>2. ASSUME NEW t \in Tasks, NEW i \in DOMAIN flights[t], NEW d \in Published, Resolve(t, i, d)
      PROVE  \E e \in Issued : Drop(t, i) /\ e \in AnswersOf(t) /\ e.read = flights[t][i] /\ Answer(t, e)
  <2> DEFINE e == [Ev("completed", t) EXCEPT !.data = d, !.read = flights[t][i]]
  <2>1. d \in Payload
    BY EngineAssumption
  <2>2. e \in Issued /\ e \in AnswersOf(t) /\ e.read = flights[t][i]
    BY <1>1, <1>2, <2>1, DropType DEF Ev, Event, AnswersOf, Resolve, Issued
  <2> QED BY <1>2, <2>2 DEF Resolve
<1>3. ASSUME NEW t \in Tasks, NEW i \in DOMAIN flights[t], ResolveErrors(t, i)
      PROVE  \E e \in Issued : Drop(t, i) /\ e \in AnswersOf(t) /\ e.read = flights[t][i] /\ Answer(t, e)
  <2> DEFINE e == [Ev("failed", t) EXCEPT !.read = flights[t][i]]
  <2>1. e \in Issued /\ e \in AnswersOf(t) /\ e.read = flights[t][i]
    BY <1>1, <1>3, DropType DEF Ev, Event, Payload, AnswersOf, ResolveErrors, Issued
  <2> QED BY <1>3, <2>1 DEF ResolveErrors
<1>4. ASSUME NEW t, NEW e, Answer(t, e)
      PROVE  /\ UNCHANGED <<live, batch, disposed, basis, internal>>
             /\ input' = Append(input, e) \/ ~ Has(live, t)
  BY <1>4 DEF Answer, FlowInv
<1>5. ASSUME NEW t \in Tasks, NEW i \in DOMAIN flights[t], Reject(t, i)
      PROVE  \E e \in Issued : /\ Drop(t, i) /\ e \in AnswersOf(t) /\ e.read = flights[t][i]
                               /\ UNCHANGED <<live, batch, disposed, basis, input>>
                               /\ internal' = Append(internal, e)
  <2> DEFINE e == [Ev("failed", t) EXCEPT !.read = flights[t][i]]
  <2>1. e \in Issued /\ e \in AnswersOf(t) /\ e.read = flights[t][i]
    BY <1>1, <1>5, DropType DEF Ev, Event, Payload, AnswersOf, Reject, Issued
  <2>2. internal' = Append(internal, e)
    BY <1>5 DEF Reject, FlowInv
  <2> QED BY <1>5, <2>1, <2>2 DEF Reject
<1> QED BY <1>1, <1>2, <1>3, <1>4, <1>5 DEF Runs

LEMMA FlowStays ==
  ASSUME TypeOK, QueueInv, RunsInv, FlowInv, Steady, [Next]_vars
  PROVE  FlowInv'
<1>1. \A t \in Tasks \ Handled : flights[t] = <<>>
  BY DEF FlowInv
<1>2. CASE Drain
  <2>1. ~ DropEvents
    BY NothingThrows DEF DropEvents, RunsInv
  <2>2. ~ Reinvoke
    BY DEF Reinvoke, RunsInv, QueuesInv
  <2>3. CASE TakeEvents
    <3>1. /\ batch' = internal \o input /\ internal' = <<>> /\ input' = <<>>
          /\ UNCHANGED <<live, disposed, flights>>
      BY <2>3 DEF TakeEvents, Taken
    <3>2. Gained({})
      BY <3>1, BothJoined, NoneQueued DEF Gained, TypeOK
    <3> QED BY <1>1, <3>1, <3>2, QuietFlow
  <2>4. CASE ApplyOne
    BY <2>4, ApplyFlow
  <2>5. CASE Schedule \/ EndPass
    <3>1. UNCHANGED <<live, input, internal, batch, disposed, flights>>
      BY <2>5, Zenon DEF Schedule, EndPass
    <3>2. Gained({})
      BY <3>1 DEF Gained
    <3> QED BY <1>1, <3>1, <3>2, QuietFlow
  <2>6. ASSUME NEW t \in todo, Dispatch(t) PROVE FlowInv'
    <3> DEFINE e == Ev("started", t)
    <3>1. /\ internal' = Append(internal, e) /\ UNCHANGED <<live, input, batch, disposed>>
          /\ flights' = [flights EXCEPT ![t] = Append(@, ReadInputs(live, t))]
      BY <2>6 DEF Dispatch, Launch
    <3>2. t \in Tasks /\ t \in Handled
      BY EngineAssumption DEF RunsInv, QueuesInv
    <3>3. e \in Issued
      BY <3>2, NoInputsType DEF Ev, Event, Payload, Issued
    <3> HIDE DEF e
    <3>4. Gained({e})
      BY <3>1, <3>3, OneGained DEF Issued
    <3>5. \A u \in Tasks \ Handled : flights'[u] = <<>>
      BY <1>1, <3>1, <3>2 DEF TypeOK
    <3> QED BY <3>1, <3>3, <3>4, <3>5, QuietFlow
  <2> QED BY <1>2, <2>1, <2>2, <2>3, <2>4, <2>5, <2>6 DEF Drain
<1>3. CASE Runs
  <2>1. PICK t \in Handled : \E i \in DOMAIN flights[t] : \E e \in Issued :
           /\ Drop(t, i) /\ UNCHANGED <<live, batch, disposed, basis>>
           /\ \/ input' = Append(input, e) /\ internal' = internal
              \/ internal' = Append(internal, e) /\ input' = input
              \/ ~ Has(live, t)
    BY <1>3, RunsIssue
  <2>2. PICK i \in DOMAIN flights[t], e \in Issued :
           /\ Drop(t, i) /\ UNCHANGED <<live, batch, disposed, basis>>
           /\ \/ input' = Append(input, e) /\ internal' = internal
              \/ internal' = Append(internal, e) /\ input' = input
              \/ ~ Has(live, t)
    BY <2>1
  <2>3. Has(live, t)
    <3>1. flights[t] # <<>> /\ OneRun(t)
      BY DEF RunsInv
    <3> QED BY <3>1 DEF OneRun, Open
  <2>4. Gained({e})
    BY <2>2, <2>3, OneGained DEF Issued
  <2>5. \A u \in Tasks \ Handled : flights'[u] = <<>>
    BY <1>1, <2>2 DEF Drop, TypeOK
  <2> QED BY <2>2, <2>4, <2>5, QuietFlow
<1>4. CASE API
  <2>1. PICK e \in Issued : Push(e)
    BY <1>4, IssuedCalls
  <2>2. input' = Append(input, e) /\ UNCHANGED <<live, internal, batch, disposed, flights>>
    BY <2>1 DEF Push
  <2>3. Gained({e})
    BY <2>2, OneGained DEF Issued
  <2> QED BY <1>1, <2>2, <2>3, QuietFlow
<1>5. CASE UNCHANGED vars
  <2>1. UNCHANGED <<live, input, internal, batch, disposed, flights>>
    BY <1>5, Zenon DEF vars
  <2>2. Gained({})
    BY <2>1 DEF Gained
  <2> QED BY <1>1, <2>1, <2>2, QuietFlow
<1> QED BY <1>2, <1>3, <1>4, <1>5 DEF Next

(* Mode and reads of a task follow from its status and its unanswered runs.*)
LEMMA SameMode ==
  ASSUME NEW t, Unanswered(t)' = Unanswered(t), live'.st[t].status = live.st[t].status
  PROVE  ModeOf(t)' = ModeOf(t) /\ ReadBy(t)' = ReadBy(t)
<1>1. Busy(t)' = Busy(t)
  BY DEF Busy
<1>2. ReadBy(t)' = ReadBy(t)
  BY <1>1 DEF ReadBy
<1>3. ModeOf(t)' = ModeOf(t)
  BY <1>1 DEF ModeOf
<1> QED BY <1>2, <1>3

LEMMA BusyMode ==
  ASSUME NEW t, Unanswered(t) # {}
  PROVE  ModeOf(t) = "busy" /\ \A r : Unanswered(t) = {r} => ReadBy(t) = r
BY DEF ModeOf, ReadBy, Busy

LEMMA FreeMode ==
  ASSUME NEW t, Unanswered(t) = {}
  PROVE  /\ live.st[t].status = "not-started" => ModeOf(t) = "new"
         /\ live.st[t].status = "completed" => ModeOf(t) = "done"
         /\ live.st[t].status = "failed" => ModeOf(t) = "dead"
         /\ ReadBy(t) = NoInputs
BY DEF ModeOf, ReadBy, Busy

LEMMA FlowStutters ==
  ASSUME live' = live, \A t \in Handled : basis'[t] = basis[t] /\ Unanswered(t)' = Unanswered(t)
  PROVE  UNCHANGED Flow!vars
<1>1. Modes' = Modes /\ Readings' = Readings
  BY SameMode DEF Modes, Readings
<1>2. Bases' = Bases
  BY DEF Bases
<1>3. Contents' = Contents
  <2>1. \A k : Content(live, k)' = Content(live, k)
    OBVIOUS
  <2> QED BY <2>1 DEF Contents
<1> QED BY <1>1, <1>2, <1>3 DEF Flow!vars

LEMMA NotOpen ==
  ASSUME TypeOK, NEW t
  PROVE  flights[t] = <<>> /\ ~ Answered(t) => Unanswered(t) = {}
<1>1. /\ Answers(batch, t) = {} <=> ~ Bears(batch, AnswersOf(t))
      /\ Answers(internal, t) = {} <=> ~ Bears(internal, AnswersOf(t))
      /\ Answers(input, t) = {} <=> ~ Bears(input, AnswersOf(t))
  BY AnswersBear DEF TypeOK
<1> QED BY <1>1 DEF Unanswered, Answered

LEMMA RequiredIsRead ==
  ASSUME FlowInv, NEW t \in Tasks
  PROVE  Flow!Required(t) = ReadInputs(live, t)
<1>1. live.req[t] = Requires[t]
  BY DEF FlowInv
<1>2. \A k \in Tokens : Contents[k] = Content(live, k)
  BY DEF Contents
<1> QED BY <1>1, <1>2 DEF Flow!Required, ReadInputs, Content

(* What may be read has been provided.                                     *)
LEMMA AvailableIsOut ==
  ASSUME TypeOK, FlowInv
  PROVE  Available(live) = live.out
<1>1. \A u \in Nodes(live) : live.st[u].status = "completed" => live.prov[u] \subseteq live.out
  BY DEF FlowInv, Grown, Nodes
<1> QED BY <1>1 DEF Available

(* A task that has completed is only dispatched on other inputs.           *)
LEMMA RefreshedOnChange ==
  ASSUME TypeOK, ReadsInv, FlowInv, Steady, NEW t \in Handled,
         Eligible(live, t), live.st[t].status = "completed"
  PROVE  ReadInputs(live, t) # basis[t]
<1>0. Undisturbed /\ live \in Graph /\ t \in Tasks /\ Strategy[t] # "epoch-changed"
  BY EngineAssumption DEF Steady, TypeOK
<1>1. PICK k \in live.req[t] : DataChanged(live, t, k)
  BY <1>0 DEF Eligible, MayRefresh
<1>2. k \in Tokens
  BY <1>0, <1>1 DEF Graph
<1>3. PICK p \in Providers(live, k) : TRUE
  BY <1>1 DEF DataChanged
<1>4. /\ p \in Tasks /\ FirstProvider(live, k) = p /\ LastProvider(live, k) = p
      /\ live.st[p].data = live.st[p].hash
  BY <1>0, <1>2, <1>3, OneProvider DEF ReadsInv, DataInv, Providers, Nodes
<1>5. live.st[p].hash # NoData
  <2>1. live.st[t].epoch >= 1 /\ live.st[t].epoch \in Nat /\ live.st[p].execs \in Nat
    BY <1>0, <1>4 DEF FlowInv, Grown, Graph, Store
  <2>2. live.st[p].hash = NoData => live.st[p].execs <= 1 /\ live.st[p].execs > live.st[t].epoch
    BY <1>1, <1>4 DEF FlowInv, Grown, DataChanged
  <2> QED BY <2>1, <2>2
<1>6. live.st[p].hash # live.st[t].consumed[k]
  BY <1>1, <1>4, <1>5 DEF DataChanged
<1>7. ReadInputs(live, t)[k] = live.st[p].hash
  BY <1>1, <1>2, <1>3, <1>4 DEF ReadInputs
<1>8. basis[t] = live.st[t].consumed
  BY DEF ReadsInv, ReadOf
<1> QED BY <1>6, <1>7, <1>8

LEMMA DispatchStarts ==
  ASSUME TypeOK, RunsInv, ReadsInv, FlowInv, Steady, NEW t \in todo, Dispatch(t)
  PROVE  t \in Handled /\ Flow!Start(t)
<1> DEFINE e == Ev("started", t)
           r == ReadInputs(live, t)
<1>1. /\ internal' = Append(internal, e) /\ UNCHANGED <<live, input, batch, basis>>
      /\ flights' = [flights EXCEPT ![t] = Append(@, r)]
  BY DEF Dispatch, Launch
<1>2. t \in Tasks /\ t \in Handled /\ OneRun(t)
  BY EngineAssumption DEF RunsInv, QueuesInv
<1>3. e \in Event /\ e.type = "started"
  BY <1>2, NoInputsType DEF Ev, Event, Payload
<1> HIDE DEF e
<1>4. Eligible(live, t) /\ flights[t] = <<>> /\ Unanswered(t) = {}
  BY <1>2, NotOpen DEF OneRun, Open
<1>5. ASSUME NEW u PROVE Answers(internal', u) = Answers(internal, u)
  <2>1. internal \in Seq(Event) /\ Carried(e, u) = {}
    BY <1>3 DEF TypeOK, Carried, AnswersOf
  <2>2. Answers(Append(internal, e), u) = Answers(internal, u) \cup Carried(e, u)
    <3>1. e \in Event /\ internal \in Seq(Event)
      BY <1>3, <2>1
    <3> QED BY <3>1, AnswersMoved
  <2> QED BY <1>1, <2>1, <2>2
<1>6. flights'[t] = <<r>> /\ \A u \in Tasks \ {t} : flights'[u] = flights[u]
  BY <1>1, <1>2, <1>4 DEF TypeOK
<1>7. Unanswered(t)' = {r}
  <2>1. {flights'[t][i] : i \in DOMAIN flights'[t]} = {r}
    BY <1>6
  <2>2. Answers(batch, t) = {} /\ Answers(internal, t) = {} /\ Answers(input, t) = {}
    BY <1>4 DEF Unanswered
  <2>3. Answers(batch', t) = {} /\ Answers(internal', t) = {} /\ Answers(input', t) = {}
    BY <1>1, <1>5, <2>2
  <2> QED BY <2>1, <2>3 DEF Unanswered, Answers
<1>8. \A u \in Handled \ {t} : Unanswered(u)' = Unanswered(u)
  <2> SUFFICES ASSUME NEW u \in Handled \ {t} PROVE Unanswered(u)' = Unanswered(u)
    OBVIOUS
  <2>1. flights'[u] = flights[u] /\ Answers(internal', u) = Answers(internal, u)
        /\ Answers(batch', u) = Answers(batch, u) /\ Answers(input', u) = Answers(input, u)
    BY <1>1, <1>5, <1>6, EngineAssumption
  <2> QED BY <2>1 DEF Unanswered, Answers
<1>9. ModeOf(t)' = "busy" /\ ReadBy(t)' = r
  BY <1>7 DEF ModeOf, ReadBy, Busy
<1>10. \A u \in Handled \ {t} : ModeOf(u)' = ModeOf(u) /\ ReadBy(u)' = ReadBy(u)
  BY <1>1, <1>8, SameMode
<1>11. Modes' = [Modes EXCEPT ![t] = "busy"] /\ Readings' = [Readings EXCEPT ![t] = r]
  BY <1>9, <1>10 DEF Modes, Readings
<1>12. Contents' = Contents /\ live'.out = live.out /\ Bases' = Bases
  BY <1>1 DEF Contents, Bases
<1>13. Flow!Required(t) = r
  BY <1>2, RequiredIsRead
<1>14. Requires[t] \subseteq live.out
  BY <1>4, AvailableIsOut DEF Eligible, FlowInv
<1>15. Modes[t] = "new" \/ (Modes[t] = "done" /\ Flow!Required(t) # Bases[t])
  <2>1. live.st[t].status = "completed" => r # basis[t]
    BY <1>2, <1>4, RefreshedOnChange
  <2>2. live.st[t].status \in {"not-started", "completed"}
    BY <1>4 DEF Eligible
  <2> QED BY <1>2, <1>4, <1>13, <2>1, <2>2, FreeMode DEF Modes, Bases
<1> QED BY <1>2, <1>11, <1>12, <1>13, <1>14, <1>15 DEF Flow!Start

(* The answer of a run still has what the run has read.                    *)
LEMMA AnswerStutters ==
  ASSUME TypeOK, RunsInv, FlowInv, Runs
  PROVE  UNCHANGED Flow!vars
<1>1. PICK t \in Handled : \E i \in DOMAIN flights[t] : \E e \in Issued :
           /\ Drop(t, i) /\ e \in AnswersOf(t) /\ e.read = flights[t][i]
           /\ UNCHANGED <<live, batch, disposed, basis>>
           /\ \/ input' = Append(input, e) /\ internal' = internal
              \/ internal' = Append(internal, e) /\ input' = input
              \/ ~ Has(live, t)
  BY RunsIssue
<1>2. PICK i \in DOMAIN flights[t], e \in Issued :
           /\ Drop(t, i) /\ e \in AnswersOf(t) /\ e.read = flights[t][i]
           /\ UNCHANGED <<live, batch, disposed, basis>>
           /\ \/ input' = Append(input, e) /\ internal' = internal
              \/ internal' = Append(internal, e) /\ input' = input
              \/ ~ Has(live, t)
  BY <1>1
<1>3. t \in Tasks /\ OneRun(t) /\ Len(flights[t]) <= 1 /\ flights[t] \in Seq(Inputs)
  BY EngineAssumption DEF RunsInv, OneRun, TypeOK
<1>4. flights'[t] = <<>> /\ flights[t] # <<>>
  BY <1>2, <1>3, OnlyFlight
<1>5. Has(live, t)
  BY <1>3, <1>4 DEF OneRun, Open
<1>6. {flights[t][j] : j \in DOMAIN flights[t]} = {e.read}
  <2>1. \A j \in DOMAIN flights[t] : j = i
    BY <1>2, <1>3, LenProperties
  <2> QED BY <1>2, <2>1
<1>7. ASSUME NEW u
      PROVE  Answers(internal', u) \cup Answers(input', u)
               = Answers(internal, u) \cup Answers(input, u) \cup Carried(e, u)
  <2>1. internal \in Seq(Event) /\ input \in Seq(Event) /\ e \in Event
    BY DEF TypeOK, Issued
  <2>2. /\ Answers(Append(internal, e), u) = Answers(internal, u) \cup Carried(e, u)
        /\ Answers(Append(input, e), u) = Answers(input, u) \cup Carried(e, u)
    BY <2>1, AnswersMoved
  <2> QED BY <1>2, <1>5, <2>2
<1>8. ASSUME NEW u \in Handled PROVE Unanswered(u)' = Unanswered(u)
  <2>1. CASE u = t
    <3>1. Carried(e, t) = {e.read} /\ {flights'[t][j] : j \in DOMAIN flights'[t]} = {}
      BY <1>2, <1>4 DEF Carried
    <3>2. Answers(batch', t) = Answers(batch, t)
      BY <1>2
    <3>3. Unanswered(t)' = {flights'[t][j] : j \in DOMAIN flights'[t]}
                             \cup Answers(batch', t) \cup Answers(internal', t) \cup Answers(input', t)
      BY DEF Unanswered, Answers
    <3>4. Unanswered(t) = {flights[t][j] : j \in DOMAIN flights[t]}
                            \cup Answers(batch, t) \cup Answers(internal, t) \cup Answers(input, t)
      BY DEF Unanswered
    <3> QED BY <1>6, <1>7, <2>1, <3>1, <3>2, <3>3, <3>4
  <2>2. CASE u # t
    <3>1. Carried(e, u) = {} /\ flights'[u] = flights[u]
      BY <1>2, <2>2, EngineAssumption DEF Carried, AnswersOf, Drop, TypeOK
    <3> QED BY <1>2, <1>7, <3>1 DEF Unanswered, Answers
  <2> QED BY <2>1, <2>2
<1> QED BY <1>2, <1>8, FlowStutters

LEMMA OpenIsBusy ==
  ASSUME TypeOK, NEW t \in Tasks
  PROVE  Open(t) => Unanswered(t) # {}
<1>1. CASE flights[t] # <<>>
  <2>1. 1 \in DOMAIN flights[t]
    <3>1. flights[t] \in Seq(Inputs)
      BY DEF TypeOK
    <3> QED BY <1>1, <3>1, LenProperties, EmptySeq
  <2> QED BY <2>1 DEF Unanswered
<1>2. CASE Answered(t)
  <2>1. /\ Answers(batch, t) = {} <=> ~ Bears(batch, AnswersOf(t))
        /\ Answers(internal, t) = {} <=> ~ Bears(internal, AnswersOf(t))
        /\ Answers(input, t) = {} <=> ~ Bears(input, AnswersOf(t))
    BY AnswersBear DEF TypeOK
  <2> QED BY <1>2, <2>1 DEF Unanswered, Answered
<1> QED BY <1>1, <1>2 DEF Open

(* Applying an answer ends the run it answers, and no other.               *)
LEMMA ApplyAnswers ==
  ASSUME TypeOK, RunsInv, ApplyOne, NEW u \in Handled
  PROVE  /\ Head(batch) \notin AnswersOf(u) => Unanswered(u)' = Unanswered(u)
         /\ Head(batch) \in AnswersOf(u) => Unanswered(u) = {Head(batch).read} /\ Unanswered(u)' = {}
<1> DEFINE e == Head(batch)
<1>1. /\ batch # <<>> /\ batch \in Seq(Event) /\ batch' = Tail(batch) /\ e \in Event
      /\ internal = <<>> /\ input = <<>> /\ UNCHANGED <<internal, input, flights>>
  BY AppliedNow
<1>2. batch' \in Seq(Event)
  BY <1>1, HeadTailProperties
<1>3. Answers(batch, u) = Answers(batch', u) \cup Carried(e, u)
  <2>1. batch # <<>> => Answers(batch, u) = Answers(Tail(batch), u) \cup Carried(Head(batch), u)
    BY <1>1, AnswersMoved
  <2> QED BY <1>1, <2>1
<1>4. Answers(<<>>, u) = {}
  BY DEF Answers
<1>5. Unanswered(u) = {flights[u][i] : i \in DOMAIN flights[u]} \cup Answers(batch, u)
  BY <1>1, <1>4 DEF Unanswered
<1>6. Unanswered(u)' = {flights[u][i] : i \in DOMAIN flights[u]} \cup Answers(batch', u)
  <2>1. Unanswered(u)' = {flights'[u][i] : i \in DOMAIN flights'[u]}
                           \cup Answers(batch', u) \cup Answers(internal', u) \cup Answers(input', u)
    BY DEF Unanswered, Answers
  <2> QED BY <1>1, <1>4, <2>1
<1>7. ASSUME e \notin AnswersOf(u) PROVE Unanswered(u)' = Unanswered(u)
  BY <1>3, <1>5, <1>6, <1>7 DEF Carried
<1>8. ASSUME e \in AnswersOf(u) PROVE Unanswered(u) = {e.read} /\ Unanswered(u)' = {}
  <2>1. flights[u] = <<>> /\ OneRun(u)
    BY <1>8, AnswersRunning DEF RunsInv
  <2>2. ~ Bears(batch', AnswersOf(u))
    BY <1>1, <1>8, <2>1, HeadTaken DEF OneRun
  <2>3. Answers(batch', u) = {}
    BY <1>2, <2>2, AnswersBear
  <2>4. Carried(e, u) = {e.read} /\ {flights[u][i] : i \in DOMAIN flights[u]} = {}
    BY <1>8, <2>1 DEF Carried
  <2> QED BY <1>3, <1>5, <1>6, <2>3, <2>4
<1> QED BY <1>7, <1>8

(* A run that ends alone is a stop.                                        *)
LEMMA FreedMode ==
  ASSUME NEW t, Unanswered(t)' = {}
  PROVE  /\ live'.st[t].status = "not-started" => ModeOf(t)' = "new"
         /\ live'.st[t].status = "completed" => ModeOf(t)' = "done"
         /\ live'.st[t].status = "failed" => ModeOf(t)' = "dead"
         /\ ReadBy(t)' = NoInputs
<1>1. ~ Busy(t)'
  BY DEF Busy
<1>2. ReadBy(t)' = NoInputs
  BY <1>1 DEF ReadBy
<1>3. /\ live'.st[t].status = "not-started" => ModeOf(t)' = "new"
      /\ live'.st[t].status = "completed" => ModeOf(t)' = "done"
      /\ live'.st[t].status = "failed" => ModeOf(t)' = "dead"
  BY <1>1 DEF ModeOf
<1> QED BY <1>2, <1>3

LEMMA StopSimulates ==
  ASSUME NEW t \in Handled, NEW r, NEW m, Unanswered(t) = {r}, Unanswered(t)' = {},
         live'.st[t].status = "not-started" => m = "new",
         live'.st[t].status = "completed" => m = "done",
         live'.st[t].status = "failed" => m = "dead",
         live'.st[t].status \in {"not-started", "completed", "failed"},
         \A u \in Handled \ {t} : Unanswered(u)' = Unanswered(u) /\ live'.st[u].status = live.st[u].status
  PROVE  Flow!Stop(t, m) /\ Readings[t] = r
<1>1. ModeOf(t) = "busy" /\ ReadBy(t) = r
  BY BusyMode
<1>2. ModeOf(t)' = m /\ ReadBy(t)' = NoInputs
  BY FreedMode
<1>3. ASSUME NEW u \in Handled \ {t} PROVE ModeOf(u)' = ModeOf(u) /\ ReadBy(u)' = ReadBy(u)
  BY SameMode
<1>4. Modes' = [Modes EXCEPT ![t] = m] /\ Readings' = [Readings EXCEPT ![t] = NoInputs]
  BY <1>2, <1>3 DEF Modes, Readings
<1>5. Modes[t] = "busy" /\ Readings[t] = r
  BY <1>1 DEF Modes, Readings
<1> QED BY <1>4, <1>5 DEF Flow!Stop, Flow!Empty, NoInputs

LEMMA ApplySimulates ==
  ASSUME TypeOK, RunsInv, FlowInv, Steady, ApplyOne
  PROVE  [Flow!Next]_(Flow!vars)
<1> DEFINE e == Head(batch)
           t == e.task
<1>1. /\ live \in Graph /\ live' \in Graph /\ Applied(live, live', e) /\ e \in Issued
      /\ live.prov = Provides /\ live'.prov = Provides /\ Undisturbed
      /\ \A u \in Tasks : Grown(live, u) /\ Grown(live', u)
      /\ ~ disposed
  BY ApplyFlow DEF FlowInv, Steady
<1>2. basis' = IF e.type = "completed" THEN [basis EXCEPT ![t] = e.read] ELSE basis
  BY DEF ApplyOne
<1>3. t \in Tasks /\ Handled \subseteq Tasks /\ basis \in [Tasks -> Inputs]
  BY <1>1, EngineAssumption DEF Issued, Event, TypeOK
<1>4. \A u \in Handled :
        /\ e \notin AnswersOf(u) => Unanswered(u)' = Unanswered(u)
        /\ e \in AnswersOf(u) => /\ Unanswered(u) = {e.read} /\ Unanswered(u)' = {}
                                 /\ Has(live, u) /\ live.st[u].status = "running"
        /\ e \in StartsOf(u) => Unanswered(u) # {}
  <2> SUFFICES ASSUME NEW u \in Handled
               PROVE  /\ e \notin AnswersOf(u) => Unanswered(u)' = Unanswered(u)
                      /\ e \in AnswersOf(u) => /\ Unanswered(u) = {e.read} /\ Unanswered(u)' = {}
                                               /\ Has(live, u) /\ live.st[u].status = "running"
                      /\ e \in StartsOf(u) => Unanswered(u) # {}
    OBVIOUS
  <2>1. e \in StartsOf(u) => Unanswered(u) # {}
    <3> SUFFICES ASSUME e \in StartsOf(u) PROVE Unanswered(u) # {}
      OBVIOUS
    <3>1. Begun(u) /\ OneRun(u)
      <4>1. batch # <<>> /\ batch \in Seq(Event)
        BY AppliedNow
      <4> QED BY <4>1, HeadTaken DEF Begun, RunsInv
    <3>2. Open(u)
      BY <1>1, <3>1 DEF OneRun
    <3> QED BY <1>3, <3>2, OpenIsBusy
  <2> QED BY <2>1, ApplyAnswers, AnswersRunning
<1>5. ASSUME NEW u \in Handled PROVE e \in AnswersOf(u) <=> u = t /\ e.type \in {"completed", "failed"}
  BY <1>1 DEF AnswersOf, Issued
<1>6. ASSUME NEW u \in Handled PROVE e \in StartsOf(u) <=> u = t /\ e.type = "started"
  BY <1>1 DEF StartsOf, Issued
<1> HIDE DEF e
<1>7. ASSUME \A u \in Tasks : Has(live, u) => Has(live', u) /\ live'.st[u].data = live.st[u].data,
             \A u \in Tasks : ~ Has(live, u) /\ Has(live', u) => live'.st[u].data = NoData
      PROVE  Contents' = Contents
  <2>1. ASSUME NEW k \in Tokens PROVE Content(live', k) = Content(live, k)
    BY <1>1, <1>7, ContentStays
  <2> QED BY <2>1 DEF Contents
<1>8. ASSUME e.type # "completed" PROVE Bases' = Bases
  BY <1>2, <1>8 DEF Bases
<1>9. ASSUME e.type \notin {"completed", "failed"}, \A u \in Handled \ {t} : live'.st[u].status = live.st[u].status,
             t \in Handled => e.type = "started" \/ live'.st[t].status = live.st[t].status
      PROVE  Modes' = Modes /\ Readings' = Readings
  <2>1. ASSUME NEW u \in Handled PROVE ModeOf(u)' = ModeOf(u) /\ ReadBy(u)' = ReadBy(u)
    <3>1. Unanswered(u)' = Unanswered(u)
      BY <1>4, <1>5, <1>9
    <3>2. CASE live'.st[u].status = live.st[u].status
      BY <3>1, <3>2, SameMode
    <3>3. CASE u = t /\ e.type = "started"
      <4>1. Unanswered(u) # {}
        BY <1>4, <1>6, <3>3
      <4> QED BY <3>1, <4>1 DEF ModeOf, ReadBy, Busy
    <3> QED BY <1>9, <3>2, <3>3
  <2> QED BY <2>1 DEF Modes, Readings
<1>10. ASSUME t \in Handled, e.type \in {"completed", "failed"}, NEW m,
              live'.st[t].status = "not-started" => m = "new",
              live'.st[t].status = "completed" => m = "done",
              live'.st[t].status = "failed" => m = "dead",
              live'.st[t].status \in {"not-started", "completed", "failed"},
              \A u \in Tasks \ {t} : live'.st[u] = live.st[u]
       PROVE  Flow!Stop(t, m) /\ Readings[t] = e.read
  <2>0. PICK s \in Handled : s = t
    BY <1>10
  <2>1. e \in AnswersOf(s)
    BY <1>5, <1>10, <2>0
  <2>2. Unanswered(s) = {e.read} /\ Unanswered(s)' = {}
    BY <1>4, <2>1
  <2>3. \A u \in Handled \ {s} : Unanswered(u)' = Unanswered(u) /\ live'.st[u].status = live.st[u].status
    BY <1>3, <1>4, <1>5, <1>10, <2>0
  <2>4. /\ live'.st[s].status = "not-started" => m = "new"
        /\ live'.st[s].status = "completed" => m = "done"
        /\ live'.st[s].status = "failed" => m = "dead"
        /\ live'.st[s].status \in {"not-started", "completed", "failed"}
    BY <1>10, <2>0
  <2>5. Flow!Stop(s, m) /\ Readings[s] = e.read
    BY <2>2, <2>3, <2>4, StopSimulates
  <2> QED BY <2>0, <2>5
<1>11. ASSUME Contents' = Contents, live'.out = live.out, Modes' = Modes, Readings' = Readings, Bases' = Bases
       PROVE  UNCHANGED Flow!vars
  BY <1>11 DEF Flow!vars
<1>12. CASE e.type = "inject"
  <2>1. live'.rank = live.rank /\ live'.st = live.st /\ live'.out = live.out \cup e.tokens
    BY <1>1, <1>12 DEF Applied, Has
  <2>2. PICK k \in Tokens : e.tokens = {k}
    BY <1>1, <1>12 DEF Issued
  <2>3. Contents' = Contents
    BY <1>7, <2>1 DEF Has
  <2>4. Modes' = Modes /\ Readings' = Readings /\ Bases' = Bases
    BY <1>8, <1>9, <1>12, <2>1
  <2>5. Flow!Inject(k)
    BY <2>1, <2>2, <2>3, <2>4 DEF Flow!Inject
  <2> QED BY <2>5 DEF Flow!Next
<1>13. CASE e.type = "upsert"
  <2>1. /\ live'.out = live.out
        /\ \A u \in Tasks : Has(live, u) => Has(live', u) /\ live'.st[u] = live.st[u]
        /\ \A u \in Tasks : ~ Has(live, u) => live'.st[u] \in {live.st[u], FreshStore}
        /\ \A u \in Tasks : ~ Has(live, u) /\ Has(live', u) => live'.st[u] = FreshStore
    BY <1>1, <1>13 DEF Applied
  <2>2. Contents' = Contents
    BY <1>7, <2>1 DEF FreshStore
  <2>3. \A u \in Handled : live'.st[u].status = live.st[u].status
    BY <1>1, <1>3, <2>1 DEF Grown, FreshStore
  <2>4. Modes' = Modes /\ Readings' = Readings /\ Bases' = Bases
    BY <1>8, <1>9, <1>13, <2>3
  <2> QED BY <1>11, <2>1, <2>2, <2>4
<1>14. CASE live' = live /\ ~ Has(live, t) /\ e.type \in {"started", "failed"}
  <2>1. e.type # "failed"
    BY <1>1, <1>4, <1>5, <1>14 DEF Issued
  <2>2. Contents' = Contents /\ live'.out = live.out
    BY <1>14 DEF Contents
  <2>3. Modes' = Modes /\ Readings' = Readings /\ Bases' = Bases
    BY <1>8, <1>9, <1>14, <2>1
  <2> QED BY <1>11, <2>2, <2>3
<1>15. CASE e.type \in {"started", "completed", "failed"} 
             /\ ~ (live' = live /\ ~ Has(live, t) /\ e.type \in {"started", "failed"})
  <2>1. Has(live, t) /\ live'.rank = live.rank /\ \A u \in Tasks \ {t} : live'.st[u] = live.st[u]
    BY <1>1, <1>15 DEF Applied
  <2>2. CASE e.type = "started"
    <3>1. live'.out = live.out /\ live'.st[t].data = live.st[t].data
      BY <1>1, <1>15, <2>2 DEF Applied
    <3>2. Contents' = Contents
      BY <1>7, <2>1, <3>1 DEF Has
    <3>3. Modes' = Modes /\ Readings' = Readings /\ Bases' = Bases
      BY <1>3, <1>8, <1>9, <2>1, <2>2
    <3> QED BY <1>11, <3>1, <3>2, <3>3
  <2>3. CASE e.type = "completed"
    <3>1. /\ live'.out = live.out \cup Provides[t] /\ live'.st[t].status = "completed"
          /\ live'.st[t].data = e.data /\ e.data \in Published
      BY <1>1, <1>15, <2>3 DEF Applied, Issued
    <3>2. Flow!Provide(t, e.data)
      <4>1. ASSUME NEW k \in Tokens
            PROVE  Content(live', k) = IF k \in Provides[t] THEN e.data ELSE Content(live, k)
        BY <1>1, <1>3, <2>1, <3>1, ContentPublished
      <4>2. Contents' = [k \in Tokens |-> IF k \in Provides[t] THEN e.data ELSE Contents[k]]
        BY <4>1 DEF Contents
      <4> QED BY <3>1, <4>2 DEF Flow!Provide
    <3>3. CASE t \in Handled
      <4>1. Flow!Stop(t, "done") /\ Readings[t] = e.read
        BY <1>10, <2>1, <2>3, <3>1, <3>3
      <4>2. Bases' = [Bases EXCEPT ![t] = Readings[t]]
        BY <1>2, <1>3, <2>3, <3>3, <4>1 DEF Bases
      <4>3. Flow!Finish(t, e.data)
        BY <3>2, <4>1, <4>2 DEF Flow!Finish
      <4> QED BY <3>1, <3>3, <4>3 DEF Flow!Next, Flow!End
    <3>4. CASE t \notin Handled
      <4>1. \A u \in Handled : u # t /\ e \notin AnswersOf(u) /\ u \in Tasks \ {t}
        BY <1>3, <1>5, <3>4
      <4>2. Modes' = Modes /\ Readings' = Readings
        BY <1>4, <2>1, <4>1, SameMode DEF Modes, Readings
      <4>3. Bases' = Bases
        BY <1>2, <1>3, <2>3, <4>1 DEF Bases
      <4>4. Flow!Publish(t, e.data)
        BY <3>2, <4>2, <4>3 DEF Flow!Publish
      <4> QED BY <1>3, <3>1, <3>4, <4>4 DEF Flow!Next
    <3> QED BY <3>3, <3>4
  <2>4. CASE e.type = "failed"
    <3>0. t \in Handled
      BY <1>1, <2>4 DEF Issued
    <3>1. /\ live'.st[t].data = live.st[t].data
          /\ \/ live'.st[t].status = "not-started" /\ live'.out = live.out
             \/ live'.st[t].status = "failed" /\ live'.out = live.out \cup OnFailure[t]
      BY <1>1, <1>15, <2>4 DEF Applied
    <3>2. Contents' = Contents /\ Bases' = Bases
      BY <1>7, <1>8, <2>1, <2>4, <3>1 DEF Has
    <3>3. CASE live'.st[t].status = "not-started" /\ live'.out = live.out
      <4>1. Flow!Stop(t, "new")
        BY <1>10, <2>1, <2>4, <3>0, <3>3
      <4> QED BY <3>0, <3>2, <3>3, <4>1 DEF Flow!Next, Flow!End, Flow!StartOver
    <3>4. CASE live'.st[t].status = "failed" /\ live'.out = live.out \cup OnFailure[t]
      <4>1. Flow!Stop(t, "dead")
        BY <1>10, <2>1, <2>4, <3>0, <3>4
      <4> QED BY <3>0, <3>2, <3>4, <4>1 DEF Flow!Next, Flow!End, Flow!GiveUp
    <3> QED BY <3>1, <3>3, <3>4
  <2> QED BY <1>15, <2>2, <2>3, <2>4
<1>16. e.type \in {"started", "completed", "failed", "inject", "upsert"}
  BY <1>1 DEF Issued
<1> QED BY <1>12, <1>13, <1>14, <1>15, <1>16

LEMMA FlowStep ==
  ASSUME TypeOK, QueueInv, RunsInv, ReadsInv, FlowInv, Steady, [Next]_vars
  PROVE  [Flow!Next]_(Flow!vars)
<1>1. CASE Drain
  <2>1. ~ DropEvents
    BY NothingThrows DEF DropEvents, RunsInv
  <2>2. ~ Reinvoke
    BY DEF Reinvoke, RunsInv, QueuesInv
  <2>3. CASE TakeEvents
    <3>1. /\ batch' = internal \o input /\ internal' = <<>> /\ input' = <<>> /\ batch = <<>>
          /\ UNCHANGED <<live, basis, flights>>
      BY <2>3 DEF TakeEvents, Taken, RunsInv, QueuesInv
    <3>2. ASSUME NEW u \in Handled PROVE Unanswered(u)' = Unanswered(u)
      <4>1. internal \in Seq(Event) /\ input \in Seq(Event)
        BY DEF TypeOK
      <4>2. Answers(internal \o input, u) = Answers(internal, u) \cup Answers(input, u)
        BY <4>1, AnswersMoved
      <4>3. Answers(<<>>, u) = {}
        BY DEF Answers
      <4>4. Unanswered(u)' = {flights'[u][i] : i \in DOMAIN flights'[u]}
                               \cup Answers(batch', u) \cup Answers(internal', u) \cup Answers(input', u)
        BY DEF Unanswered, Answers
      <4> QED BY <3>1, <4>2, <4>3, <4>4 DEF Unanswered
    <3> QED BY <3>1, <3>2, FlowStutters
  <2>4. CASE ApplyOne
    BY <2>4, ApplySimulates
  <2>5. CASE Schedule \/ EndPass
    <3>1. UNCHANGED <<live, input, internal, batch, basis, flights>>
      BY <2>5, Zenon DEF Schedule, EndPass
    <3> QED BY <3>1, FlowStutters DEF Unanswered, Answers
  <2>6. ASSUME NEW t \in todo, Dispatch(t) PROVE Flow!Next
    BY <2>6, DispatchStarts DEF Flow!Next
  <2> QED BY <1>1, <2>1, <2>2, <2>3, <2>4, <2>5, <2>6 DEF Drain
<1>2. CASE Runs
  BY <1>2, AnswerStutters
<1>3. CASE API
  <2>1. PICK e \in Issued : Push(e) /\ e.type \in {"completed", "inject", "upsert"}
                            /\ (e.type = "completed" => e.task \notin Handled)
    BY <1>3, IssuedCalls
  <2>2. input' = Append(input, e) /\ UNCHANGED <<live, internal, batch, basis, flights>>
    BY <2>1 DEF Push
  <2>3. ASSUME NEW u \in Handled PROVE Unanswered(u)' = Unanswered(u)
    <3>1. e \in Event /\ input \in Seq(Event)
      BY DEF Issued, TypeOK
    <3>2. Answers(Append(input, e), u) = Answers(input, u) \cup Carried(e, u)
      BY <3>1, AnswersMoved
    <3>3. Carried(e, u) = {}
      BY <2>1 DEF Carried, AnswersOf
    <3>4. Unanswered(u)' = {flights'[u][i] : i \in DOMAIN flights'[u]}
                             \cup Answers(batch', u) \cup Answers(internal', u) \cup Answers(input', u)
      BY DEF Unanswered, Answers
    <3> QED BY <2>2, <3>2, <3>3, <3>4 DEF Unanswered
  <2> QED BY <2>2, <2>3, FlowStutters
<1>4. CASE UNCHANGED vars
  <2>1. UNCHANGED <<live, input, internal, batch, basis, flights>>
    BY <1>4, Zenon DEF vars
  <2> QED BY <2>1, FlowStutters DEF Unanswered, Answers
<1> QED BY <1>1, <1>2, <1>3, <1>4 DEF Next

LEMMA FlowStart == Init => Flow!Init
<1> SUFFICES ASSUME Init PROVE Flow!Init
  OBVIOUS
<1>1. /\ live.out = {} /\ live.st = [t \in Tasks |-> FreshStore] /\ live.rank = Position
      /\ batch = <<>> /\ internal = <<>> /\ input = <<>>
      /\ flights = [t \in Tasks |-> <<>>] /\ basis = [t \in Tasks |-> NoInputs]
  BY DEF Init
<1>2. ASSUME NEW k \in Tokens PROVE Content(live, k) = NoData
  <2>1. live \in Graph
    BY InitType DEF TypeOK
  <2>2. Providers(live, k) # {} => LastProvider(live, k) \in Tasks
    BY <2>1, ExtremeProviders DEF Providers, Nodes
  <2> QED BY <1>1, <2>2 DEF Content, FreshStore
<1>3. ASSUME NEW t \in Handled PROVE ModeOf(t) = "new" /\ ReadBy(t) = NoInputs /\ basis[t] = NoInputs
  <2>1. t \in Tasks
    BY EngineAssumption
  <2>2. Unanswered(t) = {}
    BY <1>1, <2>1 DEF Unanswered, Answers
  <2>3. live.st[t].status = "not-started" /\ basis[t] = NoInputs
    BY <1>1, <2>1 DEF FreshStore
  <2> QED BY <2>2, <2>3, FreeMode
<1>4. Flow!Empty = NoInputs /\ Contents = NoInputs
  BY <1>2 DEF Contents, NoInputs, Flow!Empty
<1>5. Modes = [t \in Handled |-> "new"] /\ Readings = [t \in Handled |-> NoInputs] /\ Bases = [t \in Handled |-> NoInputs]
  BY <1>3 DEF Modes, Readings, Bases
<1> QED BY <1>1, <1>4, <1>5 DEF Flow!Init

(* Journals, drains, hashes and epochs add nothing an owner of a graph can *)
(* see: for any graph in which a token has one provider, whatever runs     *)
(* fail, as long as tasks are only published to, injected and added, every *)
(* step of the engine starts a task whose inputs are there and changed,    *)
(* ends a run with a result, a retry or a failure, publishes, or changes   *)
(* nothing (reactive.ts:327-486 with schedule.ts:21-191).  Left out are a  *)
(* task whose refresh goes by epochs, which may run again on the same data,*)
(* and a breaker that provides what a failure does not.                    *)
THEOREM EngineImplementsDataflow == Steady => (Spec => Flow!Safe)
<1> SUFFICES ASSUME Steady PROVE Spec => Flow!Safe
  OBVIOUS
<1>0. Undisturbed /\ NoInterference
  BY DEF Steady, Undisturbed, NoInterference, Tampering, Unexpected
<1>1. TypeOK /\ QueueInv /\ RunsInv /\ [Next]_vars => RunsInv'
  BY <1>0, RunsStay
<1>2. TypeOK /\ QueueInv /\ RunsInv /\ ReadsInv /\ [Next]_vars => ReadsInv'
  BY <1>0, ReadsStay
<1>3. TypeOK /\ QueueInv /\ RunsInv /\ FlowInv /\ [Next]_vars => FlowInv'
  BY FlowStays
<1>4. TypeOK /\ QueueInv /\ RunsInv /\ ReadsInv /\ FlowInv /\ [Next]_vars => [Flow!Next]_(Flow!vars)
  BY FlowStep
<1>5. Init => FlowInv
  BY FlowInit
<1> QED BY <1>1, <1>2, <1>3, <1>4, <1>5, FlowStart, RunsInit, ReadsInit, TypeCorrect, QueuesServed, PTL
     DEF Spec, Flow!Safe

=============================================================================
