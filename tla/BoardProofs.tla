---------------------------- MODULE BoardProofs ----------------------------
(***************************************************************************)
(* Theorems about BoardDrain, for every set of cards and processes, every  *)
(* wiring and every number of calls, failures, rejections and crashes.     *)
(***************************************************************************)
EXTENDS BoardDrain, LiveGraphProofs

----------------------------------------------------------------------------
(* The wake-up lane and the relay lock.                                    *)

Places == {"idle", "clear", "try", "continue"} \cup Holding

(* What the steps have in common: one process moves, or only the journal,  *)
(* the wake-ups and the bounds change.                                     *)
LaneOK == pc \in [Procs -> Places] /\ rejects \in Nat

LEMMA LaneStep ==
  ASSUME LaneOK, [Next]_vars
  PROVE  LaneOK'
<1>1. CASE Workers
  BY <1>1 DEF LaneOK, Workers, Fetched, FetchFailed, DispatchRejected, bounds
<1>2. CASE Users
  BY <1>2 DEF LaneOK, Users, Retrigger, TaskFailed, Call
<1>3. ASSUME NEW p \in Procs, Serve(p) PROVE LaneOK'
  <2>1. rejects' = rejects
    BY <1>3 DEF Serve, Drain, Lease, ClearWakeups, TryAcquire, Continue, Load, ApplyOne, Schedule, RunCard, RouteProgress, EndPass,
             CommitRuntime, CommitGraph, CommitCursor, KeyAfter, Writing, FlushOutputs, FlushSources, DispatchRequest, Release, bounds
  <2>2. \/ pc' = pc 
        \/ \E l \in Places : Goto(p, l)
    BY <1>3 DEF Serve, Drain, Lease, ClearWakeups, TryAcquire, Continue, Load, ApplyOne, Schedule, RunCard, RouteProgress, EndPass,
             CommitRuntime, CommitGraph, CommitCursor, KeyAfter, Writing, FlushOutputs, FlushSources, DispatchRequest, Release, Places, Holding, Inner
  <2> QED BY <2>1, <2>2 DEF LaneOK, Goto
<1>4. ASSUME NEW p \in Procs, Crash(p) PROVE LaneOK'
  BY <1>4 DEF LaneOK, Crash, Goto, Places
<1>5. CASE UNCHANGED vars
  BY <1>5 DEF LaneOK, vars, bounds
<1> QED BY <1>1, <1>2, <1>3, <1>4, <1>5 DEF Next

LEMMA LaneInvariant == Spec => []LaneOK
<1>1. Init => LaneOK
  BY DEF Init, LaneOK, Places
<1> QED BY <1>1, LaneStep, PTL DEF Spec

(* After a step of a process that serves its lane: it is still on its way, *)
(* or it has left the lock to somebody else, or looked at the journal.     *)
LEMMA ServeLeaves ==
  ASSUME LaneOK, NEW p \in Procs, Serve(p)
  PROVE  \/ pc'[p] # "idle"
         \/ \E q \in Procs : pc'[q] # "idle"
         \/ journal' = <<>>
         \/ wakeup'
<1>1. CASE Lease(p) \/ ClearWakeups(p)
  BY <1>1 DEF LaneOK, Lease, ClearWakeups, Goto
<1>2. CASE TryAcquire(p)
  <2>1. CASE LockFree
    BY <1>2, <2>1 DEF LaneOK, TryAcquire, Goto
  <2>2. CASE ~ LockFree
    <3>1. PICK q \in Procs : pc[q] \in Holding
      BY <2>2 DEF LockFree
    <3>2. q # p /\ pc[q] # "idle"
      BY <1>2, <3>1 DEF TryAcquire, Holding, Inner, Writing
    <3> QED BY <1>2, <3>2 DEF LaneOK, TryAcquire, Goto
  <2> QED BY <2>1, <2>2
<1>3. CASE Drain(p)
  <2>1. pc[p] # "idle" /\ pc[p] # "continue"
    BY <1>3 DEF Drain, Load, ApplyOne, Schedule, RunCard, RouteProgress, EndPass, CommitRuntime, CommitGraph,
             CommitCursor, KeyAfter, Writing, FlushOutputs, FlushSources, DispatchRequest, Release
  <2>2. pc' = pc \/ \E l \in Places \ {"idle"} : Goto(p, l)
    BY <1>3 DEF Drain, Load, ApplyOne, Schedule, RunCard, RouteProgress, EndPass, CommitRuntime, CommitGraph,
             CommitCursor, KeyAfter, Writing, FlushOutputs, FlushSources, DispatchRequest, Release, Places, Holding, Inner
  <2> QED BY <2>1, <2>2 DEF LaneOK, Goto
<1>4. CASE Continue(p)
  BY <1>4 DEF Continue
<1> QED BY <1>1, <1>2, <1>3, <1>4 DEF Serve

(* No wake-up is lost: whatever the interleaving of appends, busy locks,   *)
(* releases and crashes, an event that waits has a message in the queue or *)
(* a process on its way (board-live-cards-public.ts 806-851).              *)
THEOREM NoWakeupIsLost == Spec => []NoLostWakeup
<1>1. Init => NoLostWakeup
  BY DEF Init, NoLostWakeup, Awake
<1>2. ASSUME LaneOK, NoLostWakeup, [Next]_vars PROVE NoLostWakeup'
  <2>1. CASE Workers
    <3>1. wakeup' = TRUE \/ (rejects' = rejects + 1 /\ rejects \in Nat)
      BY <1>2, <2>1 DEF LaneOK, Workers, Fetched, FetchFailed, DispatchRejected, Notify
    <3> QED BY <3>1 DEF NoLostWakeup, Awake
  <2>2. CASE Users
    BY <2>2 DEF Users, Retrigger, TaskFailed, Call, Notify, NoLostWakeup, Awake
  <2>3. ASSUME NEW p \in Procs, Serve(p) PROVE NoLostWakeup'
    BY <1>2, <2>3, ServeLeaves DEF NoLostWakeup, Awake
  <2>4. ASSUME NEW p \in Procs, Crash(p) PROVE NoLostWakeup'
    BY <2>4 DEF Crash, NoLostWakeup, Awake
  <2>5. CASE UNCHANGED vars
    BY <1>2, <2>5 DEF vars, bounds, NoLostWakeup, Awake
  <2> QED BY <1>2, <2>1, <2>2, <2>3, <2>4, <2>5 DEF Next
<1> QED BY <1>1, <1>2, LaneInvariant, PTL DEF Spec

----------------------------------------------------------------------------
(* Types: the handler of a card.                                           *)

LEMMA WipedType ==
  ASSUME NEW r \in Runtime, NEW n \in Nat
  PROVE  Wiped(r, n) \in Runtime
BY SourceAssumption DEF Wiped, Runtime, NoSources, NoEntry, Entry, Token, NoToken

LEMMA QueuedType ==
  ASSUME NEW r \in Runtime, NEW c \in Tasks, NEW now \in Token
  PROVE  Queued(r, c, now) \in Runtime
<1> DEFINE f == [s \in Source |-> IF s \in Sources(c) THEN [r.src[s] EXCEPT !.queued = now] ELSE r.src[s]]
<1>1. f \in [Source -> Entry]
  BY DEF Runtime, Entry
<1> HIDE DEF f
<1>2. Queued(r, c, now) = [r EXCEPT !.src = f]
  BY DEF Queued, f
<1> QED BY <1>1, <1>2 DEF Runtime

LEMMA AnsweredType ==
  ASSUME NEW r \in Runtime, NEW u \in Update
  PROVE  Answered(r, u) \in Runtime
<1> DEFINE e == [r.src[u.source] EXCEPT !.completed = u.rqt,
                                        !.status = IF u.answer = "data" THEN "success" ELSE "failure"]
<1>1. CASE u.source \in Source
  <2>1. e \in Entry
    BY <1>1, ZenonT(30) DEF Runtime, Entry, Update
  <2>2. [r.src EXCEPT ![u.source] = e] \in [Source -> Entry]
    BY <2>1 DEF Runtime
  <2>3. Answered(r, u) = r \/ Answered(r, u) = [r EXCEPT !.src = [r.src EXCEPT ![u.source] = e]]
    BY <1>1 DEF Answered, Runtime, Entry
  <2> HIDE DEF e
  <2> QED BY <2>2, <2>3 DEF Runtime
<1>2. CASE u.source \notin Source
  BY <1>2 DEF Answered, Runtime
<1> QED BY <1>1, <1>2

LEMMA RequestedType ==
  ASSUME NEW r \in Runtime, NEW c \in Tasks, NEW now \in Token
  PROVE  Requested(r, c, now) \in Runtime
<1> DEFINE f == [s \in Source |-> IF s \in DueSources(r, c, now)
                                  THEN [r.src[s] EXCEPT !.requested = QueuedAt(r.src[s], now)] ELSE r.src[s]]
<1>1. ASSUME NEW s \in Source PROVE QueuedAt(r.src[s], now) \in Token
  BY DEF Runtime, Entry, QueuedAt
<1>2. f \in [Source -> Entry]
  BY <1>1 DEF Runtime, Entry
<1> HIDE DEF f
<1>3. Requested(r, c, now) = [r EXCEPT !.src = f]
  BY DEF Requested, f
<1> QED BY <1>2, <1>3 DEF Runtime

(* A set of sources that is not empty has a last one.                      *)
LEMMA LastSource ==
  ASSUME NEW S \in SUBSET Source, S # {}
  PROVE  \E s \in S : \A x \in S : x <= s
<1> DEFINE D == {MaxSource - s : s \in S}
<1>1. D \subseteq Nat /\ D # {}
  <2>1. ASSUME NEW s \in S PROVE MaxSource - s \in Nat
    <3>1. s \in Source /\ MaxSource \in Nat
      BY SourceAssumption
    <3> QED BY <3>1 DEF Source
  <2>2. PICK s \in S : TRUE
    OBVIOUS
  <2>3. MaxSource - s \in D
    BY <2>2
  <2> QED BY <2>1, <2>3
<1>2. PICK d \in D : \A y \in D : d <= y
  BY <1>1, LeastNumber
<1>3. PICK s \in S : d = MaxSource - s
  BY <1>2
<1>4. \A x \in S : MaxSource - s <= MaxSource - x
  BY <1>2, <1>3
<1> QED BY <1>3, <1>4, SourceAssumption DEF Source

LEMMA RequestTokenType ==
  ASSUME NEW r \in Runtime, NEW c \in Tasks, NEW now \in Token, DueSources(r, c, now) # {}
  PROVE  RequestToken(r, c, now) \in Token
<1> DEFINE due == DueSources(r, c, now)
           last == CHOOSE s \in due : \A x \in due : x <= s
<1>1. due \in SUBSET Source
  BY SourceAssumption DEF DueSources, Sources, Source
<1>2. last \in due
  BY <1>1, LastSource
<1>3. r.src[last] \in Entry
  BY <1>1, <1>2 DEF Runtime
<1> QED BY <1>3 DEF RequestToken, QueuedAt, Entry

----------------------------------------------------------------------------
(* Types: the memory of a drain.                                           *)

LEMMA EvType ==
  ASSUME NEW c \in Tasks, NEW t \in {"started", "completed", "failed", "restart", "progress", "upsert"}
  PROVE  Ev(t, c) \in Event
BY NoInputsType DEF Ev, Event, Payload

LEMMA PlainType ==
  ASSUME NEW e \in Event
  PROVE  Plain(e) \in JournalEntry /\ Plain(e).event = e
BY SourceAssumption DEF Plain, JournalEntry, NoUpdate, Update, Token, NoToken, Answers

LEMMA NoJobType == NoJob \in Job
<1>1. EmptyGraph \in Graph
  <2>1. [c \in Tasks |-> 0] \in Positions
    BY FS_CardinalityType, TasksAssumption DEF Positions
  <2>2. [c \in Tasks |-> FreshStore] \in [Tasks -> Store]
    BY NoInputsType
  <2> QED BY <2>1, <2>2, BoardAssumption DEF EmptyGraph, Graph
<1>2. [c \in Tasks |-> NoRuntime] \in [Tasks -> Runtime] /\ NoContents \in Contents /\ NoInputs \in Inputs
  BY NoInputsType DEF NoRuntime, Runtime, NoSources, NoEntry, Entry, Token, NoToken, NoContents, Contents
<1> QED BY <1>1, <1>2, EmptySeq DEF NoJob, Job

LEMMA ResultType ==
  ASSUME NEW j \in Job, NEW c \in Tasks
  PROVE  Result(j, c) \in Payload
BY DEF Result, Payload

LEMMA HandleType ==
  ASSUME NEW j \in Job, NEW c \in Tasks, NEW r \in Runtime, NEW now \in Token
  PROVE  Handle(j, c, r, now) \in Job
<1> DEFINE d == Result(j, c)
           e == Plain([Ev("completed", c) EXCEPT !.data = d])
           rt == [j.runtime EXCEPT ![c] = Requested(r, c, now)]
           rq == Requests(j, c, r, now)
           tx == IF Completes(r, c, now) THEN Append(j.tx, e) ELSE j.tx
           ou == IF Completes(r, c, now)
                 THEN [k \in Tokens |-> IF k \in Provides[c] THEN d ELSE j.outputs[k]] ELSE j.outputs
<1>1. rt \in [Tasks -> Runtime]
  BY RequestedType DEF Job
<1>2. rq \in Seq(Request)
  <2>1. CASE DueSources(r, c, now) = {}
    BY <2>1 DEF Requests, Job
  <2>2. CASE DueSources(r, c, now) # {}
    <3>1. [card |-> c, rqt |-> RequestToken(r, c, now)] \in Request
      BY <2>2, RequestTokenType DEF Request
    <3> QED BY <2>2, <3>1, AppendProperties DEF Requests, Job
  <2> QED BY <2>1, <2>2
<1>3. tx \in Seq(JournalEntry)
  <2>1. [Ev("completed", c) EXCEPT !.data = d] \in Event
    BY EvType, ResultType DEF Event
  <2> QED BY <2>1, PlainType, AppendProperties DEF Job
<1>4. ou \in Inputs
  BY ResultType DEF Inputs, Job
<1>5. Handle(j, c, r, now) = [j EXCEPT !.runtime = rt, !.requests = rq, !.tx = tx, !.outputs = ou]
  BY DEF Handle, Job
<1> HIDE DEF rt, rq, tx, ou
<1> QED BY <1>1, <1>2, <1>3, <1>4, <1>5 DEF Job

(* A delivery is a call of the handler after the answer is taken.          *)
LEMMA DeliverIsHandle ==
  ASSUME NEW j \in Job, NEW c \in Tasks, NEW u \in Update, job \in Job, clock \in [Tasks -> Token]
  PROVE  \E k \in Job, a \in Runtime, n \in Token :
           /\ Deliver(j, c, u) = Handle(k, c, a, n)
           /\ k.tx = j.tx /\ k.taken = j.taken /\ k.applied = j.applied
<1> DEFINE r == Wiped(j.runtime[c], Execs(c))
           x == IF Commits(r, u) THEN u.rqt ELSE j.sources[c][u.source]
           f == [j.sources EXCEPT ![c] = [j.sources[c] EXCEPT ![u.source] = x]]
<1>1. Execs(c) \in Nat /\ j.runtime[c] \in Runtime /\ clock[c] + 1 \in Token
  <2>1. job.graph.st[c] \in Store
    BY DEF Job, Graph
  <2>2. clock[c] \in Nat
    BY DEF Token
  <2> QED BY <2>1, <2>2 DEF Execs, Job, Store, Token
<1>2. r \in Runtime
  BY <1>1, WipedType
<1>3. f \in Contents
  <2>1. CASE u.source \in Source
    <3>1. x \in Token
      BY <2>1 DEF Job, Contents, Update
    <3> HIDE DEF x
    <3> QED BY <3>1 DEF Contents, Job
  <2>2. CASE u.source \notin Source
    BY <2>2, ZenonT(30) DEF Contents, Job
  <2> QED BY <2>1, <2>2
<1>4. [j EXCEPT !.sources = f] \in Job
  <2> HIDE DEF f
  <2> QED BY <1>3 DEF Job
<1>5. Answered(r, u) \in Runtime
  BY <1>2, AnsweredType
<1>6. [j EXCEPT !.sources[c][u.source] = IF Commits(r, u) THEN u.rqt ELSE @] = [j EXCEPT !.sources = f]
  BY DEF Job, Contents
<1>7. Deliver(j, c, u) = Handle([j EXCEPT !.sources = f], c, Answered(r, u), clock[c] + 1)
  <2> HIDE DEF x, f
  <2> QED BY <1>6 DEF Deliver
<1>8. LET k == [j EXCEPT !.sources = f] IN k.tx = j.tx /\ k.taken = j.taken /\ k.applied = j.applied
  BY DEF Job
<1> HIDE DEF r, f
<1> QED BY <1>1, <1>4, <1>5, <1>7, <1>8

LEMMA DeliverType ==
  ASSUME NEW j \in Job, NEW c \in Tasks, NEW u \in Update, job \in Job, clock \in [Tasks -> Token]
  PROVE  Deliver(j, c, u) \in Job
BY DeliverIsHandle, HandleType

LEMMA StartedType ==
  ASSUME NEW g \in Graph, NEW cs \in SUBSET Tasks
  PROVE  Started(g, cs) \in Graph
<1> DEFINE f == [c \in Tasks |-> IF c \in cs THEN TaskStart(g, c).st[c] ELSE g.st[c]]
<1>1. f \in [Tasks -> Store]
  BY StartType DEF Graph
<1>2. Started(g, cs) = [g EXCEPT !.st = f]
  BY DEF Started, Graph
<1> HIDE DEF f
<1> QED BY <1>1, <1>2 DEF Graph

LEMMA ProgressType ==
  ASSUME TypeOK, NEW c \in Tasks, NEW s \in Source, NEW i \in DOMAIN fetches[c][s], NEW a \in Answers
  PROVE  Progress(c, s, i, a) \in JournalEntry
<1>1. fetches[c][s][i] \in Token
  <2>1. fetches[c][s] \in Seq(Token)
    BY DEF TypeOK
  <2> QED BY <2>1, LenProperties, ElementOfSeq
<1>2. Ev("progress", c) \in Event
  BY EvType
<1>3. [source |-> s, rqt |-> fetches[c][s][i], answer |-> a] \in Update
  BY <1>1, SourceAssumption DEF Update, Source
<1> QED BY <1>2, <1>3 DEF Progress, JournalEntry

LEMMA FetchesType ==
  ASSUME TypeOK, NEW c \in Tasks, NEW s \in Source, NEW i, Drop(c, s, i)
  PROVE  fetches' \in [Tasks -> [Source -> Seq(Token)]]
<1>1. fetches[c][s] \in Seq(Token) /\ i \in DOMAIN fetches[c][s]
  BY DEF TypeOK, Drop
<1>2. Without(fetches[c][s], i) \in Seq(Token)
  BY <1>1, RemovedType DEF Without
<1>3. [fetches[c] EXCEPT ![s] = Without(fetches[c][s], i)] \in [Source -> Seq(Token)]
  BY <1>2 DEF TypeOK
<1>4. fetches' = [fetches EXCEPT ![c] = [fetches[c] EXCEPT ![s] = Without(fetches[c][s], i)]]
  BY DEF Drop, TypeOK
<1> QED BY <1>3, <1>4 DEF TypeOK

----------------------------------------------------------------------------
(* Types: the specification.                                               *)

LEMMA InitType == Init => TypeOK
<1> SUFFICES ASSUME Init PROVE TypeOK
  OBVIOUS
<1>1. journal \in Seq(JournalEntry)
  <2>1. Added \in Seq(Tasks) /\ DOMAIN Added = 1..Len(Added) /\ Len(Added) \in Nat
    BY BoardAssumption, LenProperties
  <2>2. ASSUME NEW i \in DOMAIN Added
        PROVE  Plain([Ev("upsert", Added[i]) EXCEPT !.tokens = Requires[Added[i]]]) \in JournalEntry
    <3>1. Added[i] \in Tasks
      BY <2>1, ElementOfSeq
    <3>2. Requires[Added[i]] \in SUBSET Tokens /\ Ev("upsert", Added[i]) \in Event
      BY <3>1, EvType, BoardAssumption
    <3>3. [Ev("upsert", Added[i]) EXCEPT !.tokens = Requires[Added[i]]] \in Event
      BY <3>2 DEF Event
    <3> QED BY <3>3, PlainType
  <2>3. journal \in [1..Len(Added) -> JournalEntry]
    BY <2>1, <2>2 DEF Init
  <2> QED BY <2>1, <2>3, SeqDef
<1>2. snap \in Snapshot /\ content \in Contents /\ published \in Inputs /\ job \in Job
  BY NoJobType, NoInputsType DEF Init, Snapshot, Job, NoJob, NoContents, Contents, Token, NoToken
<1>3. fetches \in [Tasks -> [Source -> Seq(Token)]]
  BY EmptySeq DEF Init
<1> QED BY <1>1, <1>2, <1>3 DEF Init, TypeOK, Token, NoToken

(* A run of a card is a call of the handler.                               *)
LEMMA RunIsHandle ==
  ASSUME TypeOK, NEW p \in Procs, NEW c \in Tasks, RunCard(p, c)
  PROVE  \E r \in Runtime, n \in Token :
           job' = [Handle(job, c, r, n) EXCEPT !.todo = @ \ {c}, !.ran = @ \cup {c}]
<1> DEFINE n == clock[c] + 1
           r == Queued(Wiped(job.runtime[c], Execs(c)), c, n)
<1>1. n \in Token
  <2>1. clock[c] \in Nat
    BY DEF TypeOK, Token
  <2> QED BY <2>1 DEF Token
<1>2. job.graph.st[c] \in Store /\ job.runtime[c] \in Runtime
  BY DEF TypeOK, Job, Graph
<1>3. r \in Runtime
  <2>1. Execs(c) \in Nat
    BY <1>2 DEF Execs, Store
  <2> HIDE DEF n
  <2> QED BY <1>1, <1>2, <2>1, WipedType, QueuedType
<1>4. job' = [Handle(job, c, r, n) EXCEPT !.todo = @ \ {c}, !.ran = @ \cup {c}]
  BY DEF RunCard
<1> HIDE DEF n, r
<1> QED BY <1>1, <1>3, <1>4

(* The steps of a drain that work on its memory.                           *)
LEMMA JobType ==
  ASSUME TypeOK, NEW p \in Procs,
         \/ Load(p) \/ ApplyOne(p) \/ Schedule(p) \/ (\E c \in Tasks : RunCard(p, c)) \/ RouteProgress(p)
         \/ EndPass(p) \/ DispatchRequest(p) \/ Release(p)
  PROVE  job' \in Job
<1>1. CASE Load(p)
  <2>1. Len(journal) \in Nat /\ journal \in Seq(JournalEntry)
    BY LenProperties DEF TypeOK
  <2> QED BY <1>1, <2>1, NoJobType DEF TypeOK, Load, Job, Snapshot
<1>2. CASE ApplyOne(p)
  <2> DEFINE e == Head(job.batch)
             g == ApplyEvent(job.graph, e.event)
             a == IF e.event.type = "completed" THEN job.applied ELSE job.applied + 1
             us == IF e.event.type = "progress" THEN Append(job.updates, e) ELSE job.updates
  <2>1. e \in JournalEntry /\ Tail(job.batch) \in Seq(JournalEntry)
    BY <1>2, HeadTailProperties DEF ApplyOne, TypeOK, Job
  <2>2. g \in Graph
    BY <2>1, ApplyEventType DEF TypeOK, Job, JournalEntry
  <2>3. a \in Nat
    BY DEF TypeOK, Job
  <2>4. us \in Seq(JournalEntry)
    BY <2>1, AppendProperties DEF TypeOK, Job
  <2>5. job' = [job EXCEPT !.graph = g, !.batch = Tail(job.batch), !.applied = a, !.updates = us]
    BY <1>2 DEF ApplyOne, TypeOK, Job
  <2> HIDE DEF g, a, us
  <2> QED BY <2>1, <2>2, <2>3, <2>4, <2>5 DEF TypeOK, Job
<1>3. CASE Schedule(p)
  BY <1>3 DEF Schedule, TypeOK, Job
<1>4. ASSUME NEW c \in Tasks, RunCard(p, c) PROVE job' \in Job
  <2>1. PICK r \in Runtime, n \in Token :
          job' = [Handle(job, c, r, n) EXCEPT !.todo = @ \ {c}, !.ran = @ \cup {c}]
    BY <1>4, RunIsHandle
  <2>2. Handle(job, c, r, n) \in Job
    BY HandleType DEF TypeOK
  <2> DEFINE j == Handle(job, c, r, n)
  <2>3. job' = [j EXCEPT !.todo = j.todo \ {c}, !.ran = j.ran \cup {c}]
    BY <2>1, <2>2 DEF Job
  <2> HIDE DEF j
  <2>4. j \in Job
    BY <2>2 DEF j
  <2> QED BY <2>3, <2>4 DEF Job
<1>5. CASE RouteProgress(p)
  <2> DEFINE c == Head(job.updates).event.task
             u == Head(job.updates).update
             j == [job EXCEPT !.updates = Tail(job.updates)]
  <2>1. Head(job.updates) \in JournalEntry /\ Tail(job.updates) \in Seq(JournalEntry)
    BY <1>5, HeadTailProperties DEF RouteProgress, TypeOK, Job
  <2>2. c \in Tasks /\ u \in Update
    BY <2>1 DEF JournalEntry, Event
  <2>3. j \in Job
    BY <2>1 DEF TypeOK, Job
  <2>4. Deliver(j, c, u) \in Job
    <3> HIDE DEF j, c, u
    <3> QED BY <2>2, <2>3, DeliverType DEF TypeOK
  <2>5. job' = j \/ job' = Deliver(j, c, u)
    BY <1>5 DEF RouteProgress
  <2> QED BY <2>3, <2>4, <2>5
<1>6. CASE EndPass(p)
  <2>1. Started(job.graph, job.ran) \in Graph
    BY StartedType DEF TypeOK, Job
  <2> QED BY <1>6, <2>1, EmptySeq DEF EndPass, TypeOK, Job
<1>7. CASE DispatchRequest(p)
  <2>1. Tail(job.requests) \in Seq(Request)
    BY <1>7, HeadTailProperties DEF DispatchRequest, TypeOK, Job
  <2> QED BY <1>7, <2>1 DEF DispatchRequest, TypeOK, Job
<1>8. CASE Release(p)
  BY <1>8, NoJobType DEF Release
<1> QED BY <1>1, <1>2, <1>3, <1>4, <1>5, <1>6, <1>7, <1>8

LEMMA DrainType ==
  ASSUME TypeOK, NEW p \in Procs, Drain(p)
  PROVE  TypeOK'
<1>1. pc' \in [Procs -> {"idle", "clear", "try", "continue"} \cup Holding]
  BY DEF TypeOK, Drain, Load, ApplyOne, Schedule, RunCard, RouteProgress, EndPass, CommitRuntime, CommitGraph,
         CommitCursor, KeyAfter, Writing, FlushOutputs, FlushSources, DispatchRequest, Release, Goto, Holding, Inner
<1>2. CASE Load(p) \/ ApplyOne(p) \/ Schedule(p) \/ RouteProgress(p) \/ EndPass(p) \/ Release(p)
  <2>1. job' \in Job
    BY <1>2, JobType
  <2> QED BY <1>1, <1>2, <2>1 DEF TypeOK, Load, ApplyOne, Schedule, RouteProgress, EndPass, Release, bounds
<1>3. ASSUME NEW c \in Tasks, RunCard(p, c) PROVE TypeOK'
  <2>1. job' \in Job
    BY <1>3, JobType
  <2>2. clock' \in [Tasks -> Token]
    BY <1>3 DEF RunCard, TypeOK, Token
  <2> QED BY <1>1, <1>3, <2>1, <2>2 DEF TypeOK, RunCard, bounds
<1>4. CASE CommitCursor(p)
  <2>1. snap' \in Snapshot
    <3>1. snap.cursor + job.taken \in Nat
      BY DEF TypeOK, Snapshot, Job
    <3> QED BY <1>4, <3>1 DEF CommitCursor, TypeOK, Snapshot
  <2>2. journal' \in Seq(JournalEntry)
    <3>1. /\ journal \in Seq(JournalEntry) /\ Len(journal) \in Nat /\ job.taken \in Nat
          /\ \A i \in 1..Len(journal) : journal[i] \in JournalEntry
      BY LenProperties, ElementOfSeq DEF TypeOK, Job
    <3>2. \A i \in (job.taken + 1)..Len(journal) : journal[i] \in JournalEntry
      BY <3>1
    <3> QED BY <1>4, <3>1, <3>2, SubSeqProperties DEF CommitCursor
  <2> QED BY <1>1, <1>4, <2>1, <2>2 DEF TypeOK, CommitCursor, bounds
<1>8. CASE CommitRuntime(p) \/ CommitGraph(p)
  <2>1. snap' \in Snapshot
    <3>1. CASE CommitRuntime(p)
      BY <3>1 DEF CommitRuntime, TypeOK, Snapshot, Job
    <3>2. CASE CommitGraph(p)
      <4>1. snap.applied + job.applied \in Nat /\ job.graph \in Graph
        BY DEF TypeOK, Snapshot, Job
      <4> QED BY <3>2, <4>1 DEF CommitGraph, TypeOK, Snapshot
    <3> QED BY <1>8, <3>1, <3>2
  <2> QED BY <1>1, <1>8, <2>1 DEF TypeOK, CommitRuntime, CommitGraph, bounds
<1>5. CASE FlushOutputs(p)
  <2>1. published' \in Inputs
    BY <1>5 DEF FlushOutputs, TypeOK, Inputs, Job
  <2> QED BY <1>1, <1>5, <2>1 DEF TypeOK, FlushOutputs, bounds
<1>6. CASE FlushSources(p)
  BY <1>1, <1>6 DEF TypeOK, FlushSources, Job, bounds
<1>7. CASE DispatchRequest(p)
  <2>1. job' \in Job
    BY <1>7, JobType
  <2>2. Head(job.requests) \in Request
    BY <1>7, HeadTailProperties DEF DispatchRequest, TypeOK, Job
  <2> DEFINE q == Head(job.requests)
             f == [s \in Source |-> IF s \in Sources(q.card) THEN Append(fetches[q.card][s], q.rqt) ELSE fetches[q.card][s]]
  <2>3. f \in [Source -> Seq(Token)]
    <3>1. ASSUME NEW s \in Source PROVE Append(fetches[q.card][s], q.rqt) \in Seq(Token) /\ fetches[q.card][s] \in Seq(Token)
      BY <2>2, AppendProperties DEF TypeOK, Request
    <3> QED BY <3>1
  <2>4. fetches' = [fetches EXCEPT ![q.card] = f]
    BY <1>7, <2>2 DEF DispatchRequest, TypeOK, Request
  <2>5. fetches' \in [Tasks -> [Source -> Seq(Token)]]
    <3> HIDE DEF f
    <3> QED BY <2>2, <2>3, <2>4 DEF TypeOK, Request
  <2> QED BY <1>1, <1>7, <2>1, <2>5 DEF TypeOK, DispatchRequest, bounds
<1> QED BY <1>2, <1>3, <1>4, <1>5, <1>6, <1>7, <1>8 DEF Drain

LEMMA WorkerType ==
  ASSUME TypeOK, Workers
  PROVE  TypeOK'
<1>0. PICK c \in Tasks : \E s \in Sources(c) : \E i \in DOMAIN fetches[c][s] :
        Fetched(c, s, i) \/ DispatchRejected(c, s, i) \/ \E a \in {"missing", "failure"} : FetchFailed(c, s, i, a)
  BY DEF Workers
<1>s. PICK s \in Sources(c) : \E i \in DOMAIN fetches[c][s] :
        Fetched(c, s, i) \/ DispatchRejected(c, s, i) \/ \E a \in {"missing", "failure"} : FetchFailed(c, s, i, a)
  BY <1>0
<1>1. PICK i \in DOMAIN fetches[c][s] :
        Fetched(c, s, i) \/ DispatchRejected(c, s, i) \/ \E a \in {"missing", "failure"} : FetchFailed(c, s, i, a)
  BY <1>s
<1>2. s \in Source
  BY SourceAssumption DEF Sources, Source
<1>3. Drop(c, s, i) /\ fetches' \in [Tasks -> [Source -> Seq(Token)]]
  <2>1. Drop(c, s, i)
    BY <1>1 DEF Fetched, DispatchRejected, FetchFailed
  <2> QED BY <1>2, <2>1, FetchesType
<1>4. \A a \in Answers : Append(journal, Progress(c, s, i, a)) \in Seq(JournalEntry)
  <2>1. i \in DOMAIN fetches[c][s]
    BY <1>3 DEF Drop
  <2> QED BY <1>2, <2>1, ProgressType, AppendProperties DEF TypeOK
<1>5. CASE Fetched(c, s, i)
  BY <1>3, <1>4, <1>5 DEF Fetched, Notify, TypeOK, bounds, Answers
<1>6. CASE DispatchRejected(c, s, i)
  <2>1. Append(journal, Plain(Ev("failed", c))) \in Seq(JournalEntry)
    BY EvType, PlainType, AppendProperties DEF TypeOK
  <2> QED BY <1>3, <1>6, <2>1 DEF DispatchRejected, TypeOK
<1>7. ASSUME NEW a \in {"missing", "failure"}, FetchFailed(c, s, i, a) PROVE TypeOK'
  BY <1>3, <1>4, <1>7 DEF FetchFailed, Notify, TypeOK, Answers
<1> QED BY <1>1, <1>5, <1>6, <1>7

LEMMA UserType ==
  ASSUME TypeOK, Users
  PROVE  TypeOK'
<1>1. PICK c \in Targets : Retrigger(c) \/ TaskFailed(c)
  BY DEF Users
<1>2. c \in Tasks
  BY BoardAssumption
<1>3. \A t \in {"restart", "failed"} : Append(journal, Plain(Ev(t, c))) \in Seq(JournalEntry)
  BY <1>2, EvType, PlainType, AppendProperties DEF TypeOK
<1>4. PICK t \in {"restart", "failed"}, name \in {"retrigger", "taskFailed"} : Call(name, Ev(t, c))
  BY <1>1 DEF Retrigger, TaskFailed
<1>5. journal' \in Seq(JournalEntry) /\ wakeup' = TRUE /\ calls' = calls + 1
  BY <1>3, <1>4 DEF Call, Notify
<1> QED BY <1>4, <1>5 DEF Call, TypeOK

(* The type invariant of the board: every event that it appends, every     *)
(* state that the handler leaves and every request that it makes is well   *)
(* formed (board-live-cards-lib.ts 1007-1225, -public.ts 549-1087).        *)
THEOREM BoardTypeCorrect == Spec => []TypeOK
<1>1. ASSUME TypeOK, [Next]_vars PROVE TypeOK'
  <2>1. ASSUME NEW p \in Procs, Lease(p) \/ ClearWakeups(p) \/ TryAcquire(p) \/ Continue(p) PROVE TypeOK'
    BY <1>1, <2>1 DEF Lease, ClearWakeups, TryAcquire, Continue, Goto, TypeOK, Holding, bounds
  <2>2. ASSUME NEW p \in Procs, Crash(p) PROVE TypeOK'
    BY <1>1, <2>2, NoJobType DEF Crash, Goto, TypeOK
  <2>3. CASE UNCHANGED vars
    BY <1>1, <2>3 DEF TypeOK, vars, bounds
  <2> QED BY <1>1, <2>1, <2>2, <2>3, DrainType, WorkerType, UserType DEF Next, Serve
<1> QED BY <1>1, InitType, PTL DEF Spec

----------------------------------------------------------------------------
(* Every event is drained once.  While a drain is under way its batch is   *)
(* either what is left of the events taken from the journal, or made of    *)
(* completions that its own cards have reported.                           *)

Open(s)   == \A i \in 1..Len(s) : s[i].event.type # "completed"
Closed(s) == \A i \in 1..Len(s) : s[i].event.type = "completed"

OneHolder == \A p, q \in Procs : pc[p] \in Holding /\ pc[q] \in Holding => p = q

Counted(p) ==
  /\ pc[p] \in {"apply", "run"} \cup Writing => job.taken <= Len(journal)
  /\ pc[p] = "apply" =>
       /\ job.tx = <<>>
       /\ \/ Open(job.batch) /\ job.applied + Len(job.batch) = job.taken
          \/ Closed(job.batch) /\ job.applied = job.taken
  /\ pc[p] = "run" => Closed(job.tx) /\ job.applied = job.taken
  /\ pc[p] \in Writing => job.applied = job.taken

(* What the stored graph has been through and the stored cursor, n events  *)
(* of which are still to be added to the cursor.                           *)
Tally(n) == snap.cursor + n <= snap.applied /\ (~torn => snap.cursor + n = snap.applied)

TallyInv ==
  /\ (\A p \in Procs : pc[p] # "cursor") => Tally(0)
  /\ \A p \in Procs : pc[p] = "cursor" => Tally(job.taken)

DrainInv == OneHolder /\ Open(journal) /\ (\A p \in Procs : Counted(p)) /\ TallyInv

(* Appending and removing the head.                                        *)
LEMMA OpenAppend ==
  ASSUME NEW s \in Seq(JournalEntry), NEW e \in JournalEntry
  PROVE  /\ Open(s) /\ e.event.type # "completed" => Open(Append(s, e))
         /\ Closed(s) /\ e.event.type = "completed" => Closed(Append(s, e))
BY AppendProperties, LenProperties DEF Open, Closed

LEMMA OpenTail ==
  ASSUME NEW s \in Seq(JournalEntry), s # <<>>
  PROVE  /\ Open(s) => Open(Tail(s)) /\ Head(s).event.type # "completed"
         /\ Closed(s) => Closed(Tail(s)) /\ Head(s).event.type = "completed"
         /\ Len(Tail(s)) = Len(s) - 1 /\ Len(s) \in Nat
<1>1. Len(s) \in Nat /\ Len(s) # 0 /\ Len(Tail(s)) = Len(s) - 1 /\ Head(s) = s[1]
  BY HeadTailProperties, LenProperties, EmptySeq
<1>2. \A i \in 1..Len(Tail(s)) : Tail(s)[i] = s[i + 1]
  BY HeadTailProperties, <1>1
<1>3. 1 \in 1..Len(s) /\ \A i \in 1..Len(Tail(s)) : i + 1 \in 1..Len(s)
  BY <1>1
<1> QED BY <1>1, <1>2, <1>3 DEF Open, Closed

(* The handler leaves the batch and its counts alone, and may report a     *)
(* completion.                                                             *)
LEMMA HandleCounts ==
  ASSUME NEW j \in Job, NEW c \in Tasks, NEW r \in Runtime, NEW now \in Token, Closed(j.tx)
  PROVE  LET h == Handle(j, c, r, now)
         IN  h.taken = j.taken /\ h.applied = j.applied /\ Closed(h.tx)
<1> DEFINE h == Handle(j, c, r, now)
           e == Plain([Ev("completed", c) EXCEPT !.data = Result(j, c)])
<1>1. h.taken = j.taken /\ h.applied = j.applied
  BY DEF Handle, Job
<1>2. h.tx = j.tx \/ h.tx = Append(j.tx, e)
  BY DEF Handle, Job
<1>3. e \in JournalEntry /\ e.event.type = "completed"
  <2>1. [Ev("completed", c) EXCEPT !.data = Result(j, c)] \in Event
    BY EvType, ResultType DEF Event
  <2>2. [Ev("completed", c) EXCEPT !.data = Result(j, c)].type = "completed"
    BY DEF Ev
  <2> QED BY <2>1, <2>2, PlainType
<1> HIDE DEF h, e
<1>4. Closed(h.tx)
  BY <1>2, <1>3, OpenAppend DEF Job
<1> QED BY <1>1, <1>4 DEF h

LEMMA DeliverCounts ==
  ASSUME NEW j \in Job, NEW c \in Tasks, NEW u \in Update, job \in Job, clock \in [Tasks -> Token], Closed(j.tx)
  PROVE  LET h == Deliver(j, c, u)
         IN  h.taken = j.taken /\ h.applied = j.applied /\ Closed(h.tx)
<1>1. PICK k \in Job, a \in Runtime, n \in Token :
        /\ Deliver(j, c, u) = Handle(k, c, a, n)
        /\ k.tx = j.tx /\ k.taken = j.taken /\ k.applied = j.applied
  BY DeliverIsHandle
<1> QED BY <1>1, HandleCounts

LEMMA HolderIsAlone ==
  ASSUME TypeOK, OneHolder, NEW p \in Procs, pc[p] \in Holding, NEW l, Goto(p, l) \/ pc' = pc
  PROVE  OneHolder' /\ \A q \in Procs : q # p => pc'[q] = pc[q] /\ pc'[q] \notin Holding
BY DEF TypeOK, OneHolder, Goto

(* What is left of a sequence once n of its elements are gone.             *)
LEMMA EntriesAfter ==
  ASSUME NEW S, NEW q \in Seq(S), NEW n \in Nat, n <= Len(q)
  PROVE  /\ Len(SubSeq(q, n + 1, Len(q))) = Len(q) - n
         /\ \A i \in 1..(Len(q) - n) : SubSeq(q, n + 1, Len(q))[i] = q[n + i]
<1>1. Len(q) \in Nat
  BY LenProperties
<1>2. Len(SubSeq(q, n + 1, Len(q))) = Len(q) - n
  BY <1>1
<1>3. \A i \in 1..(Len(q) - n) : SubSeq(q, n + 1, Len(q))[i] = q[n + i]
  BY <1>1
<1> QED BY <1>2, <1>3

(* Each step of a drain keeps the count.                                   *)
LEMMA DrainCounts ==
  ASSUME TypeOK, DrainInv, NEW p \in Procs, Drain(p)
  PROVE  DrainInv'
<1>1. pc[p] \in Holding
  BY DEF Drain, Load, ApplyOne, Schedule, RunCard, RouteProgress, EndPass, CommitRuntime, CommitGraph,
         CommitCursor, KeyAfter, Writing, FlushOutputs, FlushSources, DispatchRequest, Release, Holding, Inner
<1>2. PICK l : Goto(p, l) \/ pc' = pc
  BY DEF Drain, Load, ApplyOne, Schedule, RunCard, RouteProgress, EndPass, CommitRuntime, CommitGraph,
         CommitCursor, KeyAfter, Writing, FlushOutputs, FlushSources, DispatchRequest, Release
<1>3. OneHolder' /\ \A q \in Procs \ {p} : Counted(q)'
  BY <1>1, <1>2, HolderIsAlone DEF DrainInv, Counted, Holding, Inner, Writing
<1>t. /\ \A q \in Procs : q # p => pc[q] # "cursor" /\ pc'[q] # "cursor"
      /\ torn' = torn
  <2>1. torn' = torn
    BY DEF Drain, Load, ApplyOne, Schedule, RunCard, RouteProgress, EndPass, CommitRuntime, CommitGraph,
         CommitCursor, FlushOutputs, FlushSources, DispatchRequest, Release, bounds
  <2> QED BY <1>1, <1>2, <2>1, HolderIsAlone DEF DrainInv, Holding, Writing
<1>4. CASE journal' = journal /\ snap' = snap /\ Counted(p)' /\ pc[p] # "cursor" /\ pc'[p] # "cursor"
  <2>1. TallyInv'
    BY <1>t, <1>4 DEF DrainInv, TallyInv, Tally
  <2> QED BY <1>3, <1>4, <2>1 DEF DrainInv
<1>5. CASE Load(p)
  <2>1. Len(journal) \in Nat
    BY LenProperties DEF TypeOK
  <2>2. job'.taken = Len(journal) /\ job'.applied = 0 /\ job'.tx = <<>> /\ job'.batch = journal
    BY <1>5 DEF Load, NoJob
  <2>3. pc'[p] = IF journal = <<>> THEN "runtime" ELSE "apply"
    BY <1>5 DEF Load, Goto, TypeOK
  <2>4. journal = <<>> => Len(journal) = 0
    BY EmptySeq
  <2>5. Counted(p)'
    BY <1>5, <2>1, <2>2, <2>3, <2>4 DEF Load, DrainInv, Counted, Writing
  <2> QED BY <1>4, <1>5, <2>3, <2>5 DEF Load
<1>6. CASE ApplyOne(p)
  <2> DEFINE e == Head(job.batch)
  <2>1. /\ job'.taken = job.taken /\ job'.tx = job.tx /\ job'.batch = Tail(job.batch)
        /\ job'.applied = IF e.event.type = "completed" THEN job.applied ELSE job.applied + 1
    BY <1>6 DEF ApplyOne, TypeOK, Job
  <2>2. /\ Open(job.batch) => Open(Tail(job.batch)) /\ e.event.type # "completed"
        /\ Closed(job.batch) => Closed(Tail(job.batch)) /\ e.event.type = "completed"
        /\ Len(Tail(job.batch)) = Len(job.batch) - 1 /\ Len(job.batch) \in Nat
    BY <1>6, OpenTail DEF ApplyOne, TypeOK, Job
  <2>3. Counted(p) /\ pc[p] = "apply" /\ pc'[p] = "apply" /\ job.applied \in Nat /\ job.taken \in Nat
    BY <1>6 DEF ApplyOne, DrainInv, TypeOK, Job
  <2> HIDE DEF e
  <2>4. job'.taken <= Len(journal') /\ job'.tx = <<>>
    BY <1>6, <2>1, <2>3 DEF Counted, ApplyOne
  <2>5. \/ Open(job'.batch) /\ job'.applied + Len(job'.batch) = job'.taken
        \/ Closed(job'.batch) /\ job'.applied = job'.taken
    <3>1. CASE Open(job.batch) /\ job.applied + Len(job.batch) = job.taken
      BY <2>1, <2>2, <2>3, <3>1
    <3>2. CASE Closed(job.batch) /\ job.applied = job.taken
      BY <2>1, <2>2, <2>3, <3>2
    <3> QED BY <2>3, <3>1, <3>2 DEF Counted
  <2>6. Counted(p)'
    BY <2>3, <2>4, <2>5, Zenon DEF Counted, Open, Closed, Writing
  <2> QED BY <1>4, <1>6, <2>3, <2>6 DEF ApplyOne
<1>7. CASE Schedule(p)
  <2>1. /\ job'.taken = job.taken /\ job'.tx = job.tx /\ job'.applied = job.applied
        /\ job.batch = <<>> /\ pc[p] = "apply" /\ pc'[p] = "run"
    BY <1>7 DEF Schedule, Goto, TypeOK, Job
  <2>2. job.applied = job.taken /\ job.taken <= Len(journal) /\ Closed(job.tx)
    <3>1. Len(<<>>) = 0 /\ job.applied \in Nat /\ job.taken \in Nat
      BY EmptySeq DEF TypeOK, Job
    <3> QED BY <2>1, <3>1 DEF DrainInv, Counted, Closed
  <2>3. Counted(p)'
    BY <1>7, <2>1, <2>2 DEF Counted, Schedule, Writing
  <2> QED BY <1>4, <1>7, <2>1, <2>3 DEF Schedule
<1>8. ASSUME NEW c \in Tasks, RunCard(p, c) PROVE DrainInv'
  <2>1. PICK r \in Runtime, n \in Token :
          job' = [Handle(job, c, r, n) EXCEPT !.todo = @ \ {c}, !.ran = @ \cup {c}]
    BY <1>8, RunIsHandle
  <2> DEFINE j == Handle(job, c, r, n)
  <2>2. pc[p] = "run" /\ pc' = pc /\ Counted(p) /\ Closed(job.tx)
    BY <1>8 DEF RunCard, DrainInv, Counted
  <2>3. j \in Job /\ j.taken = job.taken /\ j.applied = job.applied /\ Closed(j.tx)
    BY <2>2, HandleType, HandleCounts DEF TypeOK
  <2>4. job' = [j EXCEPT !.todo = j.todo \ {c}, !.ran = j.ran \cup {c}]
    BY <2>1, <2>3 DEF Job
  <2> HIDE DEF j
  <2>5. job'.taken = job.taken /\ job'.applied = job.applied /\ Closed(job'.tx)
    BY <2>3, <2>4 DEF Job
  <2>6. Counted(p)'
    BY <1>8, <2>2, <2>5 DEF Counted, RunCard, Closed, Writing
  <2> QED BY <1>4, <1>8, <2>2, <2>6 DEF RunCard
<1>9. CASE RouteProgress(p)
  <2> DEFINE c == Head(job.updates).event.task
             u == Head(job.updates).update
             j == [job EXCEPT !.updates = Tail(job.updates)]
  <2>1. Head(job.updates) \in JournalEntry /\ Tail(job.updates) \in Seq(JournalEntry)
    BY <1>9, HeadTailProperties DEF RouteProgress, TypeOK, Job
  <2>2. c \in Tasks /\ u \in Update
    BY <2>1 DEF JournalEntry, Event
  <2>3. pc[p] = "run" /\ pc' = pc /\ Counted(p) /\ Closed(job.tx)
    BY <1>9 DEF RouteProgress, DrainInv, Counted
  <2>4. j \in Job /\ j.taken = job.taken /\ j.applied = job.applied /\ j.tx = job.tx
    BY <2>1 DEF TypeOK, Job
  <2>5. job' = j \/ job' = Deliver(j, c, u)
    BY <1>9 DEF RouteProgress
  <2> HIDE DEF j, c, u
  <2>6. LET h == Deliver(j, c, u) IN h.taken = j.taken /\ h.applied = j.applied /\ Closed(h.tx)
    BY <2>2, <2>3, <2>4, DeliverCounts DEF TypeOK
  <2>7. job'.taken = job.taken /\ job'.applied = job.applied /\ Closed(job'.tx)
    BY <2>3, <2>4, <2>5, <2>6
  <2>8. Counted(p)'
    BY <1>9, <2>3, <2>7 DEF Counted, RouteProgress, Closed, Writing
  <2> QED BY <1>4, <1>9, <2>3, <2>8 DEF RouteProgress
<1>10. CASE EndPass(p)
  <2>1. /\ job'.taken = job.taken /\ job'.applied = job.applied /\ job'.tx = <<>> /\ job'.batch = job.tx
        /\ pc[p] = "run" /\ pc'[p] \in {"runtime", "apply"} /\ Counted(p)
    BY <1>10 DEF EndPass, Goto, TypeOK, Job, DrainInv
  <2>2. Counted(p)'
    BY <1>10, <2>1 DEF Counted, EndPass, Closed, Writing
  <2> QED BY <1>4, <1>10, <2>1, <2>2 DEF EndPass
<1>10r. CASE CommitRuntime(p)
  <2>1. /\ pc[p] = "runtime" /\ pc'[p] = "graph" /\ journal' = journal /\ job' = job
        /\ snap'.cursor = snap.cursor /\ snap'.applied = snap.applied
    BY <1>10r DEF CommitRuntime, KeyAfter, Goto, TypeOK, Snapshot
  <2>2. Counted(p)'
    BY <2>1 DEF DrainInv, Counted, Writing
  <2>3. TallyInv'
    BY <1>t, <2>1 DEF DrainInv, TallyInv, Tally
  <2> QED BY <1>3, <2>1, <2>2, <2>3 DEF DrainInv
<1>10g. CASE CommitGraph(p)
  <2>1. /\ pc[p] = "graph" /\ pc'[p] = "cursor" /\ journal' = journal /\ job' = job
        /\ snap'.cursor = snap.cursor /\ snap'.applied = snap.applied + job.applied
    BY <1>10g DEF CommitGraph, KeyAfter, Goto, TypeOK, Snapshot
  <2>2. Counted(p)'
    BY <2>1 DEF DrainInv, Counted, Writing
  <2>3. Tally(0) /\ job.applied = job.taken
    BY <1>t, <2>1 DEF DrainInv, TallyInv, Counted, Writing
  <2>4. snap.cursor \in Nat /\ snap.applied \in Nat /\ job.taken \in Nat
    BY DEF TypeOK, Snapshot, Job
  <2>5. Tally(job.taken)'
    BY <1>t, <2>1, <2>3, <2>4 DEF Tally
  <2>6. TallyInv'
    BY <1>t, <2>1, <2>5 DEF TallyInv, Tally
  <2> QED BY <1>3, <2>1, <2>2, <2>6 DEF DrainInv
<1>11. CASE CommitCursor(p)
  <2>1. /\ journal \in Seq(JournalEntry) /\ Len(journal) \in Nat /\ job.taken \in Nat /\ job.taken <= Len(journal)
        /\ snap.cursor \in Nat /\ snap.applied \in Nat
    BY <1>11, LenProperties DEF CommitCursor, TypeOK, Job, Snapshot, DrainInv, Counted, Writing
  <2>2. Open(journal')
    <3>1. \A i \in 1..Len(journal) : journal[i].event.type # "completed"
      BY DEF DrainInv, Open
    <3>2. /\ Len(SubSeq(journal, job.taken + 1, Len(journal))) = Len(journal) - job.taken
          /\ \A i \in 1..(Len(journal) - job.taken) :
               SubSeq(journal, job.taken + 1, Len(journal))[i] = journal[job.taken + i]
      BY <2>1, EntriesAfter
    <3>3. \A i \in 1..(Len(journal) - job.taken) : job.taken + i \in 1..Len(journal)
      BY <2>1
    <3> QED BY <1>11, <3>1, <3>2, <3>3 DEF CommitCursor, Open
  <2>3. /\ pc[p] = "cursor" /\ pc'[p] = "outputs"
        /\ snap'.cursor = snap.cursor + job.taken /\ snap'.applied = snap.applied
    BY <1>11 DEF CommitCursor, KeyAfter, Goto, TypeOK, Snapshot
  <2>4. TallyInv'
    <3>1. Tally(job.taken)
      BY <2>3 DEF DrainInv, TallyInv
    <3>2. Tally(0)'
      BY <1>t, <2>1, <2>3, <3>1 DEF Tally
    <3> QED BY <1>t, <2>3, <3>2 DEF TallyInv
  <2>5. Counted(p)'
    BY <2>3 DEF Counted, Writing
  <2> QED BY <1>3, <2>2, <2>4, <2>5 DEF DrainInv
<1>12. CASE FlushOutputs(p) \/ FlushSources(p) \/ DispatchRequest(p) \/ Release(p)
  <2>1. journal' = journal /\ snap' = snap
    BY <1>12 DEF FlushOutputs, FlushSources, DispatchRequest, Release
  <2>2. pc[p] # "cursor" /\ pc'[p] \notin {"apply", "run"} \cup Writing
    BY <1>12 DEF FlushOutputs, FlushSources, DispatchRequest, Release, Goto, TypeOK, Writing
  <2> QED BY <1>4, <2>1, <2>2 DEF Counted, Writing
<1> QED BY <1>5, <1>6, <1>7, <1>8, <1>9, <1>10, <1>10r, <1>10g, <1>11, <1>12 DEF Drain

(* Appends made from outside are no completions, and the drain under way   *)
(* has taken a prefix of the journal.                                      *)
LEMMA AppendCounts ==
  ASSUME TypeOK, DrainInv, NEW e \in JournalEntry, e.event.type # "completed",
         journal' = Append(journal, e), UNCHANGED <<snap, pc, job, torn>>
  PROVE  DrainInv'
<1>1. Open(journal')
  BY OpenAppend DEF DrainInv, TypeOK
<1>2. Len(journal') = Len(journal) + 1 /\ Len(journal) \in Nat /\ job.taken \in Nat
  BY AppendProperties, LenProperties DEF TypeOK, Job
<1>3. ASSUME NEW p \in Procs PROVE Counted(p)'
  <2>1. Counted(p)
    BY DEF DrainInv
  <2>2. job.taken <= Len(journal) => job'.taken <= Len(journal')
    BY <1>2
  <2> QED BY <2>1, <2>2, Zenon DEF Counted, Open, Closed, Writing
<1> QED BY <1>1, <1>3 DEF DrainInv, OneHolder, TallyInv, Tally

(* What users and workers append.                                          *)
LEMMA OutsideAppends ==
  ASSUME TypeOK, Workers \/ Users
  PROVE  /\ \E e \in JournalEntry : e.event.type # "completed" /\ journal' = Append(journal, e)
         /\ UNCHANGED <<snap, pc, job, torn>>
<1>1. CASE Users
  <2>1. PICK c \in Targets : Retrigger(c) \/ TaskFailed(c)
    BY <1>1 DEF Users
  <2>2. c \in Tasks
    BY BoardAssumption
  <2>3. PICK t \in {"restart", "failed"}, name \in {"retrigger", "taskFailed"} : Call(name, Ev(t, c))
    BY <2>1 DEF Retrigger, TaskFailed
  <2>4. Plain(Ev(t, c)) \in JournalEntry /\ Plain(Ev(t, c)).event = Ev(t, c) /\ Ev(t, c).type = t
    BY <2>2, EvType, PlainType DEF Ev
  <2>5. journal' = Append(journal, Plain(Ev(t, c))) /\ UNCHANGED <<snap, pc, job, torn>>
    BY <2>3 DEF Call, Notify
  <2>6. Plain(Ev(t, c)).event.type # "completed"
    BY <2>4
  <2> QED BY <2>4, <2>5, <2>6
<1>2. CASE Workers
  <2>1. PICK c \in Tasks : \E s \in Sources(c) : \E i \in DOMAIN fetches[c][s] :
          Fetched(c, s, i) \/ DispatchRejected(c, s, i) \/ \E a \in {"missing", "failure"} : FetchFailed(c, s, i, a)
    BY <1>2 DEF Workers
  <2>s. PICK s \in Sources(c) : \E i \in DOMAIN fetches[c][s] :
          Fetched(c, s, i) \/ DispatchRejected(c, s, i) \/ \E a \in {"missing", "failure"} : FetchFailed(c, s, i, a)
    BY <2>1
  <2>2. PICK i \in DOMAIN fetches[c][s] :
          Fetched(c, s, i) \/ DispatchRejected(c, s, i) \/ \E a \in {"missing", "failure"} : FetchFailed(c, s, i, a)
    BY <2>s
  <2>3. s \in Source
    BY SourceAssumption DEF Sources, Source
  <2>4. ASSUME NEW a \in Answers
        PROVE  Progress(c, s, i, a) \in JournalEntry /\ Progress(c, s, i, a).event.type # "completed"
    BY <2>2, <2>3, ProgressType DEF Progress, Ev
  <2>5. Plain(Ev("failed", c)) \in JournalEntry /\ Plain(Ev("failed", c)).event.type # "completed"
    <3>1. Plain(Ev("failed", c)) \in JournalEntry /\ Plain(Ev("failed", c)).event = Ev("failed", c)
      BY EvType, PlainType
    <3> QED BY <3>1 DEF Ev
  <2>6. UNCHANGED <<snap, pc, job, torn>>
    BY <2>2 DEF Fetched, DispatchRejected, FetchFailed, bounds
  <2>7. \/ \E a \in Answers : journal' = Append(journal, Progress(c, s, i, a))
        \/ journal' = Append(journal, Plain(Ev("failed", c)))
    BY <2>2 DEF Fetched, DispatchRejected, FetchFailed, Notify, Answers
  <2> QED BY <2>4, <2>5, <2>6, <2>7
<1> QED BY <1>1, <1>2

LEMMA DrainInvStep ==
  ASSUME TypeOK, DrainInv, [Next]_vars
  PROVE  DrainInv'
<1>1. CASE Workers \/ Users
  BY <1>1, OutsideAppends, AppendCounts
<1>2. ASSUME NEW p \in Procs, Lease(p) \/ ClearWakeups(p) \/ Continue(p) PROVE DrainInv'
  <2>1. UNCHANGED <<journal, snap, job, torn>> /\ pc[p] \notin Holding /\ pc'[p] \notin Holding
        /\ \A q \in Procs : q # p => pc'[q] = pc[q]
    BY <1>2 DEF Lease, ClearWakeups, Continue, Goto, TypeOK, Holding, Inner, Writing, bounds
  <2> QED BY <2>1 DEF DrainInv, OneHolder, Counted, TallyInv, Tally, Holding, Inner, Writing
<1>3. ASSUME NEW p \in Procs, TryAcquire(p) PROVE DrainInv'
  <2>1. UNCHANGED <<journal, snap, job, torn>> /\ pc[p] = "try" /\ \A q \in Procs : q # p => pc'[q] = pc[q]
    BY <1>3 DEF TryAcquire, Goto, TypeOK, bounds
  <2>2. pc'[p] = IF LockFree THEN "load" ELSE "idle"
    BY <1>3 DEF TryAcquire, Goto, TypeOK
  <2>3. OneHolder'
    BY <2>1, <2>2 DEF DrainInv, OneHolder, LockFree, Holding, Inner, Writing
  <2> QED BY <2>1, <2>2, <2>3 DEF DrainInv, Counted, TallyInv, Tally, Writing
<1>4. ASSUME NEW p \in Procs, Crash(p) PROVE DrainInv'
  <2>1. UNCHANGED <<journal, snap>> /\ pc'[p] = "idle" /\ \A q \in Procs : q # p => pc'[q] = pc[q]
    BY <1>4 DEF Crash, Goto, TypeOK
  <2>2. OneHolder'
    BY <2>1 DEF DrainInv, OneHolder, Holding, Inner, Writing
  <2>3. pc[p] \notin Holding => job' = job
    BY <1>4 DEF Crash
  <2>4. ASSUME NEW q \in Procs PROVE Counted(q)'
    <3>1. CASE pc[p] \in Holding
      BY <2>1, <3>1 DEF DrainInv, OneHolder, Counted, Holding, Inner, Writing
    <3>2. CASE pc[p] \notin Holding
      BY <2>1, <2>3, <3>2 DEF DrainInv, Counted, Writing
    <3> QED BY <3>1, <3>2
  <2>5. TallyInv'
    <3>1. torn' = (torn \/ pc[p] = "cursor") /\ torn \in BOOLEAN
      BY <1>4 DEF Crash, TypeOK
    <3>2. CASE pc[p] = "cursor"
      <4>1. \A q \in Procs : pc'[q] # "cursor"
        BY <2>1, <3>2 DEF DrainInv, OneHolder, Holding, Writing
      <4>2. snap.cursor \in Nat /\ snap.applied \in Nat /\ job.taken \in Nat /\ Tally(job.taken)
        BY <3>2 DEF TypeOK, Snapshot, Job, DrainInv, TallyInv
      <4>3. Tally(0)'
        <5>1. torn' /\ snap' = snap
          BY <2>1, <3>1, <3>2
        <5>2. snap.cursor + 0 <= snap.applied
          BY <4>2 DEF Tally
        <5> QED BY <5>1, <5>2 DEF Tally
      <4> QED BY <4>1, <4>3 DEF TallyInv
    <3>3. CASE pc[p] # "cursor" /\ pc[p] \in Holding
      <4>1. \A q \in Procs : pc[q] # "cursor" /\ pc'[q] # "cursor"
        BY <2>1, <3>3 DEF DrainInv, OneHolder, Holding, Writing
      <4> QED BY <2>1, <3>1, <3>3, <4>1 DEF DrainInv, TallyInv, Tally
    <3>4. CASE pc[p] \notin Holding
      BY <2>1, <2>3, <3>1, <3>4 DEF DrainInv, TallyInv, Tally, Holding, Writing
    <3> QED BY <3>2, <3>3, <3>4
  <2> QED BY <2>1, <2>2, <2>4, <2>5 DEF DrainInv
<1>5. CASE UNCHANGED vars
  BY <1>5 DEF vars, bounds, DrainInv, OneHolder, Counted, TallyInv, Tally
<1> QED BY <1>1, <1>2, <1>3, <1>4, <1>5, DrainCounts DEF Next, Serve

LEMMA DrainInvariant == Spec => []DrainInv
<1>1. Init => DrainInv
  <2> SUFFICES ASSUME Init PROVE DrainInv
    OBVIOUS
  <2>1. journal \in Seq(JournalEntry) /\ DOMAIN journal = 1..Len(journal)
    BY InitType, LenProperties DEF TypeOK
  <2>2. DOMAIN journal = DOMAIN Added
    BY DEF Init
  <2>3. ASSUME NEW i \in DOMAIN Added PROVE journal[i].event.type # "completed"
    BY <2>3 DEF Init, Plain, Ev
  <2>4. Open(journal)
    BY <2>1, <2>2, <2>3 DEF Open
  <2> QED BY <2>4 DEF Init, DrainInv, OneHolder, Counted, TallyInv, Tally, Holding, Inner, Writing
<1> QED BY <1>1, DrainInvStep, BoardTypeCorrect, PTL DEF Spec

(* No event of the journal is skipped, and none goes through the graph     *)
(* twice unless a process dies between writing the graph and the cursor,   *)
(* wherever calls, answers and other crashes fall                          *)
(* (board-live-cards-public.ts 497-502, 549-690).                          *)
THEOREM EventsAreDrainedOnce == Spec => []DrainedOnce
<1>1. ASSUME TypeOK, DrainInv PROVE DrainedOnce
  <2>1. snap.cursor \in Nat /\ snap.applied \in Nat /\ job.taken \in Nat
    BY <1>1 DEF TypeOK, Snapshot, Job
  <2>2. CASE \A p \in Procs : pc[p] # "cursor"
    BY <1>1, <2>1, <2>2 DEF DrainInv, TallyInv, Tally, DrainedOnce
  <2>3. ASSUME NEW p \in Procs, pc[p] = "cursor" PROVE DrainedOnce
    <3>1. ~LockFree /\ Tally(job.taken)
      BY <1>1, <2>3 DEF LockFree, Holding, Writing, DrainInv, TallyInv
    <3> QED BY <2>1, <3>1 DEF Tally, DrainedOnce
  <2> QED BY <2>2, <2>3
<1> QED BY <1>1, DrainInvariant, BoardTypeCorrect, PTL

(* A board implements the safety of Relay: appends come one at a time, and *)
(* drains take what has been appended, serially and in order.              *)
THEOREM BoardImplementsRelay == Spec => RelaySafe
<1>1. Init => R!Init
  BY InitType, LenProperties DEF Init, R!Init, TypeOK
<1>2. ASSUME TypeOK, DrainInv, [Next]_vars
      PROVE  [R!Next]_<<snap.cursor + Len(journal), snap.cursor>>
  <2>1. Len(journal) \in Nat /\ snap.cursor \in Nat /\ snap.applied \in Nat
    BY <1>2, LenProperties DEF TypeOK, Snapshot
  <2>2. CASE Workers \/ Users
    <3>1. PICK e \in JournalEntry : journal' = Append(journal, e) /\ snap' = snap
      BY <1>2, <2>2, OutsideAppends
    <3>2. Len(journal') = Len(journal) + 1
      BY <1>2, <3>1, AppendProperties DEF TypeOK
    <3> QED BY <2>1, <3>1, <3>2 DEF R!Next, R!Report
  <2>3. ASSUME NEW p \in Procs, CommitCursor(p)
        PROVE  [R!Next]_<<snap.cursor + Len(journal), snap.cursor>>
    <3>1. job.taken \in 0..Len(journal)
      BY <1>2, <2>1, <2>3 DEF CommitCursor, DrainInv, Counted, TypeOK, Job, Writing
    <3>2. Len(journal') = Len(journal) - job.taken
      BY <2>1, <2>3, <3>1 DEF CommitCursor
    <3>3. snap'.cursor = snap.cursor + job.taken
      BY <1>2, <2>3 DEF CommitCursor, TypeOK, Snapshot
    <3>4. CASE job.taken = 0
      BY <2>1, <3>2, <3>3, <3>4
    <3>5. CASE job.taken # 0
      <4>1. snap'.cursor \in (snap.cursor + 1)..(snap.cursor + Len(journal))
        BY <2>1, <3>1, <3>3, <3>5
      <4>2. snap'.cursor + Len(journal') = snap.cursor + Len(journal)
        BY <2>1, <3>1, <3>2, <3>3
      <4> QED BY <4>1, <4>2 DEF R!Next, R!Take
    <3> QED BY <3>4, <3>5
  <2>4. ASSUME NEW p \in Procs, (Serve(p) /\ ~CommitCursor(p)) \/ Crash(p)
        PROVE  journal' = journal /\ snap'.cursor = snap.cursor
    BY <1>2, <2>4 DEF Serve, Drain, Lease, ClearWakeups, TryAcquire, Continue, Load, ApplyOne, Schedule, RunCard, RouteProgress,
             EndPass, CommitRuntime, CommitGraph, FlushOutputs, FlushSources, DispatchRequest, Release, Crash, TypeOK, Snapshot
  <2>5. CASE UNCHANGED vars
    BY <2>5 DEF vars
  <2> QED BY <1>2, <2>2, <2>3, <2>4, <2>5 DEF Next
<1> QED BY <1>1, <1>2, BoardTypeCorrect, DrainInvariant, PTL DEF Spec, RelaySafe, R!Safe

----------------------------------------------------------------------------
(* What is published.  A drain collects what its cards report and applies  *)
(* the reports to the graph one pass later: until then the last report of  *)
(* a card says what the outputs hold for it, afterwards the graph does.    *)

(* Results have content, and a data object is provided by one card.        *)
AlwaysContent == \A c \in Tasks, s \in [Source -> Token], i \in Inputs : Compute(c, s, i) \in Data
OneProvider   == \A c, d \in Tasks : Provides[c] \cap Provides[d] # {} => c = d

DoneIn(g, c)     == Has(g, c) /\ g.st[c].status = "completed"
Reports(e, c)    == e.event.type = "completed" /\ e.event.task = c
Reported(q, c)   == \E i \in 1..Len(q) : Reports(q[i], c)
LastOf(q, i, c)  == Reports(q[i], c) /\ \A n \in (i + 1)..Len(q) : ~Reports(q[n], c)

(* What the outputs hold once those of a drain, o, are written.            *)
Shown(o, k)    == IF o[k] # NoData THEN o[k] ELSE published[k]
Shows(o, c, d) == \A k \in Provides[c] : Shown(o, k) = d

Told(o, q, g) ==
  \A c \in Tasks :
    /\ \A i \in 1..Len(q) : LastOf(q, i, c) => Shows(o, c, q[i].event.data)
    /\ ~Reported(q, c) /\ DoneIn(g, c) => Shows(o, c, g.st[c].data)

Public(g) == \A c \in Tasks : DoneIn(g, c) => \A k \in Provides[c] : published[k] = g.st[c].data

Unpublished == Inner \cup Writing \cup {"outputs"}

TellsOf(p) ==
  /\ pc[p] = "apply" => Told(job.outputs, job.batch, job.graph)
  /\ pc[p] = "run" => Told(job.outputs, job.tx, job.graph)
  /\ pc[p] \in {"runtime", "graph"} => Told(job.outputs, <<>>, job.graph)
  /\ pc[p] \in {"cursor", "outputs"} => Told(job.outputs, <<>>, snap.graph)

PublishInv ==
  /\ \A p \in Procs : TellsOf(p)
  /\ (\A p \in Procs : pc[p] \notin Unpublished) => Public(snap.graph)

(* Only a completion completes a card or changes its data.                 *)
LEMMA DoneApplied ==
  ASSUME NEW g \in Graph, NEW e \in Event, NEW c \in Tasks, DoneIn(ApplyEvent(g, e), c)
  PROVE  IF e.type = "completed" /\ e.task = c
         THEN ApplyEvent(g, e).st[c].data = e.data
         ELSE DoneIn(g, c) /\ ApplyEvent(g, e).st[c].data = g.st[c].data
<1> DEFINE h == ApplyEvent(g, e)
           t == e.task
<1>0. t \in Tasks /\ g.st \in [Tasks -> Store] /\ g.rank \in Positions
  BY DEF Event, Graph
<1>1. CASE e.type = "completed" /\ Has(g, t)
  <2>1. h = TaskCompletion(g, t, e.data, e.routed)
    BY <1>1 DEF ApplyEvent
  <2> DEFINE s == [g.st[t] EXCEPT !.status = "completed", !.execs = g.st[t].execs + 1, !.epoch = g.st[t].execs + 1,
                                 !.hash = e.data, !.data = e.data, !.consumed = ConsumedHashes(g, t)]
  <2>2. h.rank = g.rank /\ h.st = [g.st EXCEPT ![t] = s]
    BY <2>1 DEF TaskCompletion, Graph
  <2>3. s.data = e.data
    BY <1>0 DEF Store
  <2> HIDE DEF h, s
  <2> QED BY <1>0, <1>1, <2>2, <2>3 DEF DoneIn, Has, h
<1>2. CASE e.type \in {"completed", "started", "failed", "restart", "remove", "requires-add", "requires-remove",
                       "provides-add", "provides-remove"} /\ ~Has(g, t)
  <2>1. h = g
    BY <1>2 DEF ApplyEvent
  <2> QED BY <1>2, <2>1 DEF DoneIn
<1>3. CASE e.type \in {"started", "failed", "restart"} /\ Has(g, t)
  <2>1. h.rank = g.rank /\ h.st = [g.st EXCEPT ![t] = h.st[t]] /\ h.st[t].status # "completed"
    BY <1>0, <1>3 DEF ApplyEvent, TaskStart, TaskFailure, TaskRetry, TaskGivesUp, TaskRestart, Graph, Store
  <2> HIDE DEF h
  <2> QED BY <1>0, <1>3, <2>1 DEF DoneIn, Has, h
<1>4. CASE e.type = "remove" /\ Has(g, t)
  <2>1. h = RemoveNode(g, t)
    BY <1>4 DEF ApplyEvent
  <2>2. \A u \in Tasks : g.rank[u] \in Nat
    BY <1>0, FS_CardinalityType, TasksAssumption DEF Positions
  <2>3. h.rank[t] = 0 /\ h.st = [g.st EXCEPT ![t] = FreshStore]
        /\ h.rank[c] = (IF c = t THEN 0 ELSE IF g.rank[c] > g.rank[t] THEN g.rank[c] - 1 ELSE g.rank[c])
    BY <1>0, <2>1 DEF RemoveNode, Graph, Positions
  <2>4. c # t /\ h.st[c] = g.st[c]
    BY <1>0, <2>3 DEF DoneIn, Has
  <2>5. g.rank[c] # 0
    BY <1>0, <2>2, <2>3, <2>4 DEF DoneIn, Has
  <2> HIDE DEF h
  <2> QED BY <1>4, <2>4, <2>5 DEF DoneIn, Has, h
<1>5. CASE e.type = "upsert"
  <2>1. h = AddNode(g, t, e.tokens, g.prov[t])
    BY <1>5 DEF ApplyEvent
  <2>2. h.st = [g.st EXCEPT ![t] = IF Has(g, t) THEN g.st[t] ELSE FreshStore]
        /\ h.rank = [g.rank EXCEPT ![t] = IF Has(g, t) THEN g.rank[t] ELSE Cardinality(Nodes(g)) + 1]
    BY <1>0, <2>1 DEF AddNode, Graph, Positions
  <2>3. FreshStore.status # "completed"
    BY DEF FreshStore
  <2> HIDE DEF h
  <2>4. c = t => Has(g, t) /\ h.st[c] = g.st[c]
    BY <1>0, <2>2, <2>3 DEF DoneIn, h
  <2>5. c # t => h.st[c] = g.st[c] /\ h.rank[c] = g.rank[c]
    BY <1>0, <2>2 DEF Positions
  <2> QED BY <1>5, <2>4, <2>5 DEF DoneIn, Has, h
<1>6. CASE e.type \in {"inject", "progress", "requires-add", "requires-remove", "provides-add", "provides-remove"}
  <2>1. h.rank = g.rank /\ h.st = g.st
    BY <1>0, <1>6 DEF ApplyEvent, Graph
  <2> HIDE DEF h
  <2> QED BY <1>6, <2>1 DEF DoneIn, Has, h
<1> QED BY <1>1, <1>2, <1>3, <1>4, <1>5, <1>6 DEF Event

(* Applying the head of the batch.                                         *)
LEMMA TellApplied ==
  ASSUME NEW o, NEW q \in Seq(JournalEntry), q # <<>>, NEW g \in Graph, Told(o, q, g)
  PROVE  Told(o, Tail(q), ApplyEvent(g, Head(q).event))
<1> DEFINE e == Head(q).event
           h == ApplyEvent(g, e)
<1>1. /\ Len(q) \in Nat /\ Len(Tail(q)) = Len(q) - 1 /\ 1 \in 1..Len(q) /\ Head(q) = q[1]
      /\ \A i \in 1..Len(Tail(q)) : i + 1 \in 1..Len(q) /\ Tail(q)[i] = q[i + 1]
  <2>1. Len(q) \in Nat /\ Len(q) # 0 /\ Len(Tail(q)) = Len(q) - 1 /\ Head(q) = q[1]
    BY HeadTailProperties, LenProperties, EmptySeq
  <2>2. \A i \in 1..Len(Tail(q)) : Tail(q)[i] = q[i + 1]
    BY HeadTailProperties, <2>1
  <2> QED BY <2>1, <2>2
<1>2. e \in Event
  <2>1. Head(q) \in JournalEntry
    BY HeadTailProperties
  <2> QED BY <2>1 DEF JournalEntry
<1>3. ASSUME NEW c \in Tasks, NEW i \in 1..Len(Tail(q)), LastOf(Tail(q), i, c)
      PROVE  Shows(o, c, Tail(q)[i].event.data)
  <2>1. Reports(q[i + 1], c) /\ i + 1 \in 1..Len(q)
    BY <1>1, <1>3 DEF LastOf
  <2>2. ASSUME NEW n \in (i + 2)..Len(q) PROVE ~Reports(q[n], c)
    <3>1. n - 1 \in (i + 1)..Len(Tail(q)) /\ n - 1 \in 1..Len(Tail(q)) /\ (n - 1) + 1 = n
      BY <1>1
    <3>2. Tail(q)[n - 1] = q[n]
      BY <1>1, <3>1
    <3> QED BY <1>3, <3>1, <3>2 DEF LastOf
  <2>3. LastOf(q, i + 1, c)
    <3>1. (i + 1) + 1 = i + 2
      OBVIOUS
    <3> QED BY <2>1, <2>2, <3>1 DEF LastOf
  <2> QED BY <1>1, <2>1, <2>3 DEF Told
<1>4. ASSUME NEW c \in Tasks, ~Reported(Tail(q), c), DoneIn(h, c)
      PROVE  Shows(o, c, h.st[c].data)
  <2>1. \A n \in 2..Len(q) : ~Reports(q[n], c)
    <3>1. ASSUME NEW n \in 2..Len(q) PROVE ~Reports(q[n], c)
      <4>1. n - 1 \in 1..Len(Tail(q)) /\ (n - 1) + 1 = n
        BY <1>1
      <4>2. Tail(q)[n - 1] = q[n]
        BY <1>1, <4>1
      <4> QED BY <1>4, <4>1, <4>2 DEF Reported
    <3> QED BY <3>1
  <2>2. CASE Reports(q[1], c)
    <3>1. LastOf(q, 1, c)
      BY <2>1, <2>2 DEF LastOf
    <3>2. h.st[c].data = e.data
      BY <1>1, <1>2, <1>4, <2>2, DoneApplied DEF Reports
    <3> QED BY <1>1, <3>1, <3>2 DEF Told
  <2>3. CASE ~Reports(q[1], c)
    <3>1. ~Reported(q, c)
      <4>1. \A i \in 1..Len(q) : i = 1 \/ i \in 2..Len(q)
        BY <1>1
      <4> QED BY <2>1, <2>3, <4>1 DEF Reported
    <3>2. DoneIn(g, c) /\ h.st[c].data = g.st[c].data
      BY <1>1, <1>2, <1>4, <2>3, DoneApplied DEF Reports
    <3> QED BY <3>1, <3>2 DEF Told
  <2> QED BY <2>2, <2>3
<1> HIDE DEF h
<1>5. Told(o, Tail(q), h)
  BY <1>3, <1>4 DEF Told
<1> QED BY <1>5 DEF h

(* The handler reports what it puts into the outputs.                      *)
LEMMA HandleTells ==
  ASSUME AlwaysContent, OneProvider,
         NEW j \in Job, NEW c \in Tasks, NEW r \in Runtime, NEW now \in Token, NEW g, Told(j.outputs, j.tx, g)
  PROVE  LET h == Handle(j, c, r, now) IN Told(h.outputs, h.tx, g)
<1> DEFINE h == Handle(j, c, r, now)
           d == Result(j, c)
           e == Plain([Ev("completed", c) EXCEPT !.data = d])
           o == [k \in Tokens |-> IF k \in Provides[c] THEN d ELSE j.outputs[k]]
<1>1. CASE ~Completes(r, c, now)
  <2>1. h.outputs = j.outputs /\ h.tx = j.tx
    BY <1>1 DEF Handle, Job
  <2> HIDE DEF h
  <2> QED BY <2>1 DEF h
<1>2. CASE Completes(r, c, now)
  <2>1. h.outputs = o /\ h.tx = Append(j.tx, e)
    BY <1>2 DEF Handle, Job
  <2>2. d \in Data /\ d # NoData
    <3>1. ReadInputs(j.graph, c) \in Inputs /\ j.sources[c] \in [Source -> Token]
      BY ReadInputsType DEF Job, Contents
    <3>2. Compute(c, j.sources[c], ReadInputs(j.graph, c)) \in Data
      BY <3>1 DEF AlwaysContent
    <3> QED BY <3>2, DataAssumption DEF Result
  <2>3. e.event.type = "completed" /\ e.event.task = c /\ e.event.data = d
    BY DEF Plain, Ev
  <2>4. j.tx \in Seq(JournalEntry) /\ e \in JournalEntry
    <3>1. [Ev("completed", c) EXCEPT !.data = d] \in Event
      BY EvType, ResultType DEF Event
    <3> QED BY <3>1, PlainType DEF Job
  <2> DEFINE q == Append(j.tx, e)
  <2>5. /\ Len(j.tx) \in Nat /\ Len(q) = Len(j.tx) + 1 /\ q[Len(j.tx) + 1] = e
        /\ \A i \in 1..Len(j.tx) : q[i] = j.tx[i]
    BY <2>4, AppendProperties, LenProperties
  <2>6. Shows(o, c, d)
    BY <2>2, BoardAssumption DEF Shows, Shown
  <2>7. ASSUME NEW b \in Tasks, b # c, NEW x, Shows(j.outputs, b, x) PROVE Shows(o, b, x)
    <3>1. Provides[b] \cap Provides[c] = {} /\ Provides[b] \subseteq Tokens
      BY <2>7, BoardAssumption DEF OneProvider
    <3>2. \A k \in Provides[b] : o[k] = j.outputs[k]
      BY <3>1
    <3> HIDE DEF o
    <3> QED BY <2>7, <3>2 DEF Shows, Shown
  <2> HIDE DEF o, d, e, q
  <2>8. ASSUME NEW b \in Tasks, NEW i \in 1..Len(q), LastOf(q, i, b) PROVE Shows(o, b, q[i].event.data)
    <3>1. CASE i = Len(j.tx) + 1
      BY <2>3, <2>5, <2>6, <2>8, <3>1 DEF LastOf, Reports
    <3>2. CASE i # Len(j.tx) + 1
      <4>1. i \in 1..Len(j.tx) /\ Len(q) \in (i + 1)..Len(q) /\ q[Len(q)] = e
        BY <2>5, <3>2
      <4>2. b # c
        BY <2>3, <2>8, <4>1 DEF LastOf, Reports
      <4>3. LastOf(j.tx, i, b)
        <5>1. \A n \in (i + 1)..Len(j.tx) : n \in (i + 1)..Len(q) /\ q[n] = j.tx[n]
          BY <2>5, <4>1
        <5> QED BY <2>5, <2>8, <4>1, <5>1 DEF LastOf
      <4>4. q[i] = j.tx[i]
        BY <2>5, <4>1
      <4> QED BY <2>7, <4>1, <4>2, <4>3, <4>4 DEF Told
    <3> QED BY <3>1, <3>2
  <2>9. ASSUME NEW b \in Tasks, ~Reported(q, b), DoneIn(g, b) PROVE Shows(o, b, g.st[b].data)
    <3>1. b # c
      <4>1. Len(q) \in 1..Len(q) /\ q[Len(q)] = e
        BY <2>5
      <4> QED BY <2>3, <2>9, <4>1 DEF Reported, Reports
    <3>2. ~Reported(j.tx, b)
      <4>1. \A i \in 1..Len(j.tx) : i \in 1..Len(q) /\ q[i] = j.tx[i]
        BY <2>5
      <4> QED BY <2>9, <4>1 DEF Reported
    <3> QED BY <2>7, <2>9, <3>1, <3>2 DEF Told
  <2>10. Told(o, q, g)
    BY <2>8, <2>9 DEF Told
  <2> HIDE DEF h
  <2> QED BY <2>1, <2>10 DEF h, q
<1> QED BY <1>1, <1>2

(* A delivery is a call of the handler once the content is staged and the  *)
(* answer is taken.                                                        *)
LEMMA DeliverForm ==
  ASSUME NEW j \in Job, NEW c \in Tasks, NEW u \in Update, job \in Job, clock \in [Tasks -> Token]
  PROVE  \E f \in Contents :
           LET r == Wiped(j.runtime[c], Execs(c)) IN
           /\ f = [j.sources EXCEPT ![c] = [j.sources[c] EXCEPT ![u.source] =
                     IF Commits(r, u) THEN u.rqt ELSE j.sources[c][u.source]]]
           /\ Deliver(j, c, u) = Handle([j EXCEPT !.sources = f], c, Answered(r, u), clock[c] + 1)
           /\ [j EXCEPT !.sources = f] \in Job /\ Answered(r, u) \in Runtime /\ r \in Runtime
           /\ clock[c] + 1 \in Token
<1> DEFINE r == Wiped(j.runtime[c], Execs(c))
           x == IF Commits(r, u) THEN u.rqt ELSE j.sources[c][u.source]
           f == [j.sources EXCEPT ![c] = [j.sources[c] EXCEPT ![u.source] = x]]
<1>1. Execs(c) \in Nat /\ j.runtime[c] \in Runtime /\ clock[c] + 1 \in Token
  <2>1. job.graph.st[c] \in Store
    BY DEF Job, Graph
  <2>2. clock[c] \in Nat
    BY DEF Token
  <2> QED BY <2>1, <2>2 DEF Execs, Job, Store, Token
<1>2. r \in Runtime
  BY <1>1, WipedType
<1>3. f \in Contents
  <2>1. CASE u.source \in Source
    <3>1. x \in Token
      BY <2>1 DEF Job, Contents, Update
    <3> HIDE DEF x
    <3> QED BY <3>1 DEF Contents, Job
  <2>2. CASE u.source \notin Source
    BY <2>2, ZenonT(30) DEF Contents, Job
  <2> QED BY <2>1, <2>2
<1>4. [j EXCEPT !.sources = f] \in Job
  <2> HIDE DEF f
  <2> QED BY <1>3 DEF Job
<1>5. Answered(r, u) \in Runtime
  BY <1>2, AnsweredType
<1>6. [j EXCEPT !.sources[c][u.source] = IF Commits(r, u) THEN u.rqt ELSE @] = [j EXCEPT !.sources = f]
  BY DEF Job, Contents
<1>7. Deliver(j, c, u) = Handle([j EXCEPT !.sources = f], c, Answered(r, u), clock[c] + 1)
  <2> HIDE DEF x, f
  <2> QED BY <1>6 DEF Deliver
<1>8. f = [j.sources EXCEPT ![c] = [j.sources[c] EXCEPT ![u.source] =
                     IF Commits(r, u) THEN u.rqt ELSE j.sources[c][u.source]]]
  OBVIOUS
<1> HIDE DEF f, x, r
<1>9. \E y \in Contents : /\ y = f
           /\ Deliver(j, c, u) = Handle([j EXCEPT !.sources = y], c, Answered(r, u), clock[c] + 1)
           /\ [j EXCEPT !.sources = y] \in Job /\ Answered(r, u) \in Runtime /\ r \in Runtime
           /\ clock[c] + 1 \in Token
  BY <1>1, <1>2, <1>3, <1>4, <1>5, <1>7
<1> QED BY <1>9 DEF f, x, r

LEMMA DoneStarted ==
  ASSUME NEW g \in Graph, NEW cs \in SUBSET Tasks, NEW c \in Tasks, DoneIn(Started(g, cs), c)
  PROVE  c \notin cs /\ DoneIn(g, c) /\ Started(g, cs).st[c] = g.st[c]
<1>1. /\ Started(g, cs).rank = g.rank
      /\ Started(g, cs).st[c] = IF c \in cs THEN TaskStart(g, c).st[c] ELSE g.st[c]
  BY DEF Started, Graph
<1>2. TaskStart(g, c).st[c].status = "running"
  BY DEF TaskStart, Graph, Store
<1> QED BY <1>1, <1>2 DEF DoneIn, Has

(* A drain that is not there says nothing.                                 *)
LEMMA OthersTell ==
  ASSUME NEW q, pc'[q] \notin Holding
  PROVE  TellsOf(q)' /\ pc'[q] \notin Unpublished
BY DEF TellsOf, Unpublished, Holding, Inner, Writing

LEMMA PublishDrain ==
  ASSUME AlwaysContent, OneProvider, TypeOK, DrainInv, PublishInv, NEW p \in Procs, Drain(p)
  PROVE  PublishInv'
<1>1. pc[p] \in Holding
  BY DEF Drain, Load, ApplyOne, Schedule, RunCard, RouteProgress, EndPass, CommitRuntime, CommitGraph,
         CommitCursor, KeyAfter, Writing, FlushOutputs, FlushSources, DispatchRequest, Release, Holding, Inner
<1>2. PICK l : Goto(p, l) \/ pc' = pc
  BY DEF Drain, Load, ApplyOne, Schedule, RunCard, RouteProgress, EndPass, CommitRuntime, CommitGraph,
         CommitCursor, KeyAfter, Writing, FlushOutputs, FlushSources, DispatchRequest, Release
<1>3. /\ \A q \in Procs : q # p => pc[q] \notin Holding /\ pc'[q] \notin Holding
      /\ \A q \in Procs : q # p => TellsOf(q)' /\ pc[q] \notin Unpublished /\ pc'[q] \notin Unpublished
  <2>1. \A q \in Procs : q # p => pc[q] \notin Holding /\ pc'[q] \notin Holding
    BY <1>1, <1>2, HolderIsAlone DEF DrainInv
  <2> QED BY <2>1, OthersTell DEF Unpublished, Holding, Inner, Writing
<1>4. ASSUME TellsOf(p)', pc'[p] \in Unpublished PROVE PublishInv'
  BY <1>3, <1>4 DEF PublishInv
<1>5. ASSUME pc'[p] \notin Unpublished, Public(snap.graph)' PROVE PublishInv'
  BY <1>3, <1>5 DEF PublishInv, TellsOf, Unpublished, Inner, Writing
<1>6. pc[p] \notin Unpublished => Public(snap.graph)
  BY <1>3 DEF PublishInv
<1>7. TellsOf(p) /\ Counted(p)
  BY DEF PublishInv, DrainInv
<1>8. /\ job.graph \in Graph /\ job.batch \in Seq(JournalEntry) /\ job.tx \in Seq(JournalEntry)
      /\ job.ran \in SUBSET Tasks /\ pc \in [Procs -> Places]
  BY DEF TypeOK, Job, Places
<1>9. CASE Load(p)
  <2>1. job'.outputs = NoInputs /\ job'.batch = journal /\ job'.graph = snap.graph
    BY <1>9 DEF Load, NoJob
  <2>2. pc[p] = "load" /\ pc'[p] = (IF journal = <<>> THEN "runtime" ELSE "apply")
        /\ UNCHANGED <<published, journal, snap>>
    BY <1>8, <1>9 DEF Load, Goto
  <2>3. Public(snap.graph)
    BY <1>6, <2>2 DEF Unpublished, Inner, Writing
  <2>4. \A q \in Seq(JournalEntry) : Open(q) => Told(NoInputs, q, snap.graph)'
    <3>1. ASSUME NEW k \in Tokens PROVE Shown(NoInputs, k)' = published[k]
      BY <2>2 DEF Shown, NoInputs
    <3>2. ASSUME NEW c \in Tasks, DoneIn(snap.graph, c) PROVE Shows(NoInputs, c, snap.graph.st[c].data)'
      BY <2>2, <2>3, <3>1, <3>2, BoardAssumption DEF Shows, Public
    <3> QED BY <2>2, <3>2 DEF Told, Open, LastOf, Reports, DoneIn
  <2>5. journal \in Seq(JournalEntry) /\ Open(journal)
    BY DEF TypeOK, DrainInv
  <2>6. Told(NoInputs, journal, snap.graph)'
    BY <2>2, <2>4, <2>5
  <2>7. TellsOf(p)' /\ pc'[p] \in Unpublished
    <3>1. Told(job.outputs, job.batch, job.graph)'
      BY <2>1, <2>2, <2>6
    <3>2. journal = <<>> => job'.batch = <<>>
      BY <2>1
    <3> QED BY <2>2, <3>1, <3>2 DEF TellsOf, Unpublished, Inner, Writing
  <2> QED BY <1>4, <2>7
<1>10. CASE ApplyOne(p)
  <2>1. /\ job'.outputs = job.outputs /\ job'.batch = Tail(job.batch)
        /\ job'.graph = ApplyEvent(job.graph, Head(job.batch).event)
    BY <1>10 DEF ApplyOne, TypeOK, Job
  <2>2. pc[p] = "apply" /\ pc'[p] = "apply" /\ job.batch # <<>> /\ published' = published
    BY <1>10 DEF ApplyOne
  <2>3. Told(job.outputs, Tail(job.batch), ApplyEvent(job.graph, Head(job.batch).event))
    BY <1>7, <1>8, <2>2, TellApplied DEF TellsOf
  <2>4. Told(job.outputs, job.batch, job.graph)'
    BY <2>1, <2>2, <2>3 DEF Told, Shows, Shown
  <2>5. TellsOf(p)' /\ pc'[p] \in Unpublished
    BY <2>2, <2>4 DEF TellsOf, Unpublished, Inner
  <2> QED BY <1>4, <2>5
<1>11. CASE Schedule(p)
  <2>1. /\ job'.outputs = job.outputs /\ job'.tx = job.tx /\ job'.graph = job.graph
        /\ pc[p] = "apply" /\ pc'[p] = "run" /\ job.batch = <<>> /\ published' = published
    BY <1>8, <1>11 DEF Schedule, TypeOK, Job, Goto
  <2>2. job.tx = <<>> /\ Told(job.outputs, job.tx, job.graph)
    BY <1>7, <2>1 DEF Counted, TellsOf
  <2>3. Told(job.outputs, job.tx, job.graph)'
    BY <2>1, <2>2 DEF Told, Shows, Shown
  <2>4. TellsOf(p)' /\ pc'[p] \in Unpublished
    BY <2>1, <2>3 DEF TellsOf, Unpublished, Inner
  <2> QED BY <1>4, <2>4
<1>12. ASSUME pc[p] = "run", pc' = pc, published' = published, NEW h \in Job,
              Told(h.outputs, h.tx, job.graph),
              job'.outputs = h.outputs, job'.tx = h.tx, job'.graph = job.graph
       PROVE  PublishInv'
  <2>1. Told(job.outputs, job.tx, job.graph)'
    BY <1>12 DEF Told, Shows, Shown
  <2>2. TellsOf(p)' /\ pc'[p] \in Unpublished
    BY <1>12, <2>1 DEF TellsOf, Unpublished, Inner
  <2> QED BY <1>4, <2>2
<1>13. ASSUME NEW c \in Tasks, RunCard(p, c) PROVE PublishInv'
  <2>1. PICK r \in Runtime, n \in Token :
          job' = [Handle(job, c, r, n) EXCEPT !.todo = @ \ {c}, !.ran = @ \cup {c}]
    BY <1>13, RunIsHandle
  <2> DEFINE h == Handle(job, c, r, n)
  <2>2. pc[p] = "run" /\ pc' = pc /\ published' = published /\ Told(job.outputs, job.tx, job.graph)
    BY <1>7, <1>13 DEF RunCard, TellsOf
  <2>3. h \in Job /\ h.graph = job.graph
    <3>1. h \in Job
      BY HandleType DEF TypeOK
    <3>2. h.graph = job.graph
      BY DEF Handle, TypeOK, Job
    <3> QED BY <3>1, <3>2
  <2>4. Told(h.outputs, h.tx, job.graph)
    BY <2>2, HandleTells DEF TypeOK
  <2>5. job' = [h EXCEPT !.todo = h.todo \ {c}, !.ran = h.ran \cup {c}]
    BY <2>1, <2>3 DEF Job
  <2> HIDE DEF h
  <2>6. job'.outputs = h.outputs /\ job'.tx = h.tx /\ job'.graph = job.graph
    BY <2>3, <2>5 DEF Job
  <2> QED BY <1>12, <2>2, <2>3, <2>4, <2>6
<1>14. CASE RouteProgress(p)
  <2> DEFINE c == Head(job.updates).event.task
             u == Head(job.updates).update
             j == [job EXCEPT !.updates = Tail(job.updates)]
  <2>1. Head(job.updates) \in JournalEntry /\ Tail(job.updates) \in Seq(JournalEntry)
    BY <1>14, HeadTailProperties DEF RouteProgress, TypeOK, Job
  <2>2. c \in Tasks /\ u \in Update
    BY <2>1 DEF JournalEntry, Event
  <2>3. pc[p] = "run" /\ pc' = pc /\ published' = published /\ Told(job.outputs, job.tx, job.graph)
    BY <1>7, <1>14 DEF RouteProgress, TellsOf
  <2>4. j \in Job /\ j.tx = job.tx /\ j.outputs = job.outputs /\ j.graph = job.graph
    BY <2>1 DEF TypeOK, Job
  <2>5. job' = j \/ job' = Deliver(j, c, u)
    BY <1>14 DEF RouteProgress
  <2> HIDE DEF j, c, u
  <2>6. CASE job' = j
    BY <1>12, <2>3, <2>4, <2>6
  <2>7. CASE job' = Deliver(j, c, u)
    <3>1. PICK f \in Contents :
            /\ Deliver(j, c, u) = Handle([j EXCEPT !.sources = f], c, Answered(Wiped(j.runtime[c], Execs(c)), u), clock[c] + 1)
            /\ [j EXCEPT !.sources = f] \in Job /\ Answered(Wiped(j.runtime[c], Execs(c)), u) \in Runtime
            /\ clock[c] + 1 \in Token
      BY <2>2, <2>4, DeliverForm DEF TypeOK
    <3> DEFINE a == Answered(Wiped(j.runtime[c], Execs(c)), u)
               i == [j EXCEPT !.sources = f]
               h == Handle(i, c, a, clock[c] + 1)
    <3>2. i.outputs = job.outputs /\ i.tx = job.tx /\ i.graph = job.graph
      BY <2>4 DEF Job
    <3>3. i \in Job /\ a \in Runtime /\ job' = h
      BY <2>7, <3>1
    <3> HIDE DEF a, i
    <3>4. h \in Job /\ h.graph = job.graph
      <4>1. h \in Job
        BY <2>2, <3>1, <3>3, HandleType
      <4>2. h.graph = i.graph
        BY <3>3 DEF Handle, Job
      <4> QED BY <3>2, <4>1, <4>2
    <3>5. Told(h.outputs, h.tx, job.graph)
      BY <2>2, <2>3, <3>1, <3>2, <3>3, HandleTells
    <3> HIDE DEF h
    <3> QED BY <1>12, <2>3, <3>3, <3>4, <3>5
  <2> QED BY <2>5, <2>6, <2>7
<1>15. CASE EndPass(p)
  <2>1. /\ job'.outputs = job.outputs /\ job'.batch = job.tx /\ job'.graph = Started(job.graph, job.ran)
        /\ pc[p] = "run" /\ pc'[p] = (IF job.tx = <<>> THEN "runtime" ELSE "apply") /\ published' = published
    BY <1>8, <1>15 DEF EndPass, TypeOK, Job, Goto
  <2>2. Told(job.outputs, job.tx, job.graph)
    BY <1>7, <2>1 DEF TellsOf
  <2>3. Told(job.outputs, job.tx, Started(job.graph, job.ran))
    BY <1>8, <2>2, DoneStarted DEF Told
  <2>4. Told(job.outputs, job.batch, job.graph)'
    BY <2>1, <2>3 DEF Told, Shows, Shown
  <2>5. TellsOf(p)' /\ pc'[p] \in Unpublished
    BY <2>1, <2>4 DEF TellsOf, Unpublished, Inner, Writing
  <2> QED BY <1>4, <2>5
<1>16. CASE CommitRuntime(p) \/ CommitGraph(p) \/ CommitCursor(p)
  <2>1. /\ job' = job /\ published' = published
        /\ \/ pc[p] = "runtime" /\ pc'[p] = "graph"
           \/ pc[p] = "graph" /\ pc'[p] = "cursor" /\ snap'.graph = job.graph
           \/ pc[p] = "cursor" /\ pc'[p] = "outputs" /\ snap'.graph = snap.graph
    BY <1>8, <1>16 DEF CommitRuntime, CommitGraph, CommitCursor, KeyAfter, Goto, TypeOK, Snapshot
  <2>2. CASE pc[p] = "runtime" /\ pc'[p] = "graph"
    <3>1. Told(job.outputs, <<>>, job.graph)'
      BY <1>7, <2>1, <2>2 DEF TellsOf, Told, Shows, Shown
    <3> QED BY <1>4, <2>2, <3>1 DEF TellsOf, Unpublished, Writing
  <2>3. CASE \/ pc[p] = "graph" /\ pc'[p] = "cursor" /\ snap'.graph = job.graph
             \/ pc[p] = "cursor" /\ pc'[p] = "outputs" /\ snap'.graph = snap.graph
    <3>1. Told(job.outputs, <<>>, snap'.graph)
      BY <1>7, <2>3 DEF TellsOf
    <3>2. Told(job.outputs, <<>>, snap.graph)'
      BY <2>1, <3>1 DEF Told, Shows, Shown
    <3> QED BY <1>4, <2>3, <3>2 DEF TellsOf, Unpublished, Writing
  <2> QED BY <2>1, <2>2, <2>3
<1>17. CASE FlushOutputs(p)
  <2>1. pc[p] = "outputs" /\ pc'[p] = "sources" /\ snap' = snap
        /\ \A k \in Tokens : published'[k] = Shown(job.outputs, k)
    BY <1>8, <1>17 DEF FlushOutputs, Goto, Shown
  <2>2. Told(job.outputs, <<>>, snap.graph)
    BY <1>7, <2>1 DEF TellsOf
  <2>3. \A c \in Tasks : ~Reported(<<>>, c)
    BY EmptySeq DEF Reported
  <2>4. Public(snap.graph)'
    BY <2>1, <2>2, <2>3, BoardAssumption DEF Told, Shows, Public
  <2> QED BY <1>5, <2>1, <2>4 DEF Unpublished, Inner, Writing
<1>18. CASE FlushSources(p) \/ DispatchRequest(p) \/ Release(p)
  <2>1. /\ pc[p] \in {"sources", "dispatch"} /\ pc'[p] \in {"dispatch", "continue"}
        /\ snap' = snap /\ published' = published
    BY <1>8, <1>18 DEF FlushSources, DispatchRequest, Release, Goto
  <2>2. Public(snap.graph)'
    BY <1>6, <2>1 DEF Unpublished, Inner, Writing, Public
  <2> QED BY <1>5, <2>1, <2>2 DEF Unpublished, Inner, Writing
<1> QED BY <1>9, <1>10, <1>11, <1>13, <1>14, <1>15, <1>16, <1>17, <1>18 DEF Drain

LEMMA PublishStep ==
  ASSUME AlwaysContent, OneProvider, TypeOK, DrainInv, crashes = 0 => PublishInv, [Next]_vars
  PROVE  crashes' = 0 => PublishInv'
<1>1. CASE UNCHANGED <<snap, pc, job, published, crashes>>
  BY <1>1 DEF PublishInv, TellsOf, Told, Shows, Shown, Public
<1>2. CASE Workers \/ Users
  <2>1. UNCHANGED <<snap, pc, job, published, crashes>>
    BY <1>2 DEF Workers, Users, Fetched, FetchFailed, DispatchRejected, Retrigger, TaskFailed, Call, bounds
  <2> QED BY <1>1, <2>1
<1>3. ASSUME NEW p \in Procs, Lease(p) \/ ClearWakeups(p) \/ TryAcquire(p) \/ Continue(p)
      PROVE  crashes' = 0 => PublishInv'
  <2>1. UNCHANGED <<snap, job, published, crashes>>
    BY <1>3 DEF Lease, ClearWakeups, TryAcquire, Continue, bounds
  <2>2. /\ pc[p] \notin Unpublished /\ pc'[p] \notin Unpublished
        /\ \A q \in Procs : q # p => pc'[q] = pc[q]
    BY <1>3 DEF Lease, ClearWakeups, TryAcquire, Continue, Goto, TypeOK, Unpublished, Inner, Writing
  <2>3. ASSUME PublishInv, NEW q \in Procs PROVE TellsOf(q)'
    <3>1. CASE q = p
      BY <2>2, <3>1 DEF TellsOf, Unpublished, Inner, Writing
    <3>2. CASE q # p
      <4>1. TellsOf(q) /\ pc'[q] = pc[q]
        BY <2>2, <2>3, <3>2 DEF PublishInv
      <4> QED BY <2>1, <4>1 DEF TellsOf, Told, Shows, Shown
    <3> QED BY <3>1, <3>2
  <2>4. (\A q \in Procs : pc'[q] \notin Unpublished) => \A q \in Procs : pc[q] \notin Unpublished
    BY <2>2
  <2>5. Public(snap.graph) => Public(snap.graph)'
    BY <2>1 DEF Public
  <2> QED BY <2>1, <2>3, <2>4, <2>5 DEF PublishInv
<1>4. ASSUME NEW p \in Procs, Drain(p) PROVE crashes' = 0 => PublishInv'
  <2>1. crashes' = crashes
    BY <1>4 DEF Drain, Load, ApplyOne, Schedule, RunCard, RouteProgress, EndPass, CommitRuntime, CommitGraph,
         CommitCursor, FlushOutputs, FlushSources, DispatchRequest, Release, bounds
  <2> QED BY <1>4, <2>1, PublishDrain
<1>5. ASSUME NEW p \in Procs, Crash(p) PROVE crashes' # 0
  BY <1>5 DEF Crash, TypeOK
<1>6. CASE UNCHANGED vars
  BY <1>1, <1>6 DEF vars, bounds
<1> QED BY <1>2, <1>3, <1>4, <1>5, <1>6 DEF Next, Serve

(* At rest what is published is what the completed cards hold, whichever   *)
(* drain computed it and wherever answers, calls and other processes fall, *)
(* as long as no process has died (board-live-cards-public.ts 640-690).    *)
THEOREM OutputsAreCurrent ==
  AlwaysContent /\ OneProvider => (Spec => [](crashes = 0 => PublishedIsCurrent))
<1> SUFFICES ASSUME AlwaysContent, OneProvider PROVE Spec => [](crashes = 0 => PublishedIsCurrent)
  OBVIOUS
<1>1. Init => (crashes = 0 => PublishInv)
  <2> SUFFICES ASSUME Init PROVE PublishInv
    OBVIOUS
  <2>1. \A c \in Tasks : ~DoneIn(snap.graph, c)
    BY DEF Init, EmptyGraph, DoneIn, FreshStore
  <2> QED BY <2>1 DEF Init, PublishInv, TellsOf, Public
<1>2. ASSUME crashes = 0 => PublishInv PROVE crashes = 0 => PublishedIsCurrent
  <2> SUFFICES ASSUME PublishInv, AtRest PROVE PublishedIsCurrent
    BY <1>2 DEF PublishedIsCurrent
  <2>1. \A p \in Procs : pc[p] \notin Unpublished
    BY DEF AtRest, LockFree, Unpublished, Holding
  <2>2. Public(snap.graph)
    BY <2>1 DEF PublishInv
  <2> QED BY <2>2 DEF PublishedIsCurrent, Public, Completed, DoneIn
<1>3. TypeOK /\ DrainInv /\ (crashes = 0 => PublishInv) /\ [Next]_vars => (crashes = 0 => PublishInv)'
  BY PublishStep, Zenon
<1> QED BY <1>1, <1>2, <1>3, BoardTypeCorrect, DrainInvariant, PTL DEF Spec

----------------------------------------------------------------------------
(* Cards complete when they are settled.                                   *)

(* No failure answers an older run than the last one of its card.          *)
FailuresAreTimely ==
  \A c \in Tasks : \A s \in Sources(c) : \A i \in DOMAIN fetches[c][s] :
    FetchFailed(c, s, i, "failure") => fetches[c][s][i] = clock[c]

RunningIn(g, c) == Has(g, c) /\ g.st[c].status = "running"

(* The runtime r of card c, whose last run was at time n.                  *)
Settled(n, r, c) ==
  n # NoToken /\ \A s \in Sources(c) :
    r.src[s].queued = n /\ r.src[s].requested = n /\ r.src[s].completed = n

Ready(n, r, c, execs) == n # NoToken /\ r.execs = execs /\ \A s \in Sources(c) : r.src[s].queued = n

Bounded(n, r, c) ==
  \A s \in Sources(c) : r.src[s].queued <= n /\ r.src[s].requested <= n /\ r.src[s].completed <= n

(* The graph g knows what its cards have become but for the reports in q   *)
(* and the cards that have just run.                                       *)
Card(n, r, c, g, q, ran) ==
  /\ Bounded(n, r, c)
  /\ DoneIn(g, c) /\ c \notin ran => Settled(n, r, c)
  /\ RunningIn(g, c) \/ c \in ran => Ready(n, r, c, g.st[c].execs)
  /\ Reported(q, c) => Settled(n, r, c)

Cards(k, g, rt, q, ran) == \A c \in Tasks : Card(k[c], rt[c], c, g, q, ran)

(* Answers on their way.                                                   *)
Answer(x)    == x.event.type = "progress"
Failed(x)    == Answer(x) /\ x.update.answer = "failure"
Within(k, x) == x.event.type # "started" /\ (Answer(x) => x.update.rqt <= k[x.event.task])
Timely(k, x) == Failed(x) => x.update.rqt = k[x.event.task]

Fetching(k, f) == \A c \in Tasks : \A s \in Source : \A i \in 1..Len(f[c][s]) : f[c][s][i] <= k[c]
Asked(k, q)    == \A i \in 1..Len(q) : q[i].rqt <= k[q[i].card]

Sent(k) ==
  /\ Fetching(k, fetches) /\ Asked(k, job.requests)
  /\ \A i \in 1..Len(journal) : Within(k, journal[i])

Unread(n) == \A i \in (n + 1)..Len(journal) : Timely(clock, journal[i])

Updates(ran) ==
  \A i \in 1..Len(job.updates) :
    LET x == job.updates[i]
    IN  Answer(x) /\ Within(clock, x) /\ (Timely(clock, x) \/ x.event.task \in ran)

Applies ==
  /\ job.ran = {} /\ Updates({}) /\ Cards(clock, job.graph, job.runtime, job.batch, {})
  /\ \A i \in 1..Len(job.batch) : Within(clock, job.batch[i]) /\ Timely(clock, job.batch[i])

Runs ==
  /\ Updates(job.ran) /\ Cards(clock, job.graph, job.runtime, job.tx, job.ran)
  /\ \A c \in job.todo : ~RunningIn(job.graph, c) /\ ~Reported(job.tx, c)
  /\ \A c \in job.ran : ~RunningIn(job.graph, c)

Drained(p) ==
  /\ pc[p] \in Inner \cup Writing => Unread(job.taken)
  /\ pc[p] \in Inner => job.taken = Len(journal)
  /\ pc[p] = "apply" => Applies
  /\ pc[p] = "run" => Runs
  /\ pc[p] = "runtime" => Cards(clock, job.graph, job.runtime, <<>>, {})
  /\ pc[p] = "graph" => Cards(clock, job.graph, snap.runtime, <<>>, {})

SettleInv ==
  /\ Sent(clock)
  /\ \A p \in Procs : Drained(p)
  /\ (\A p \in Procs : pc[p] \notin Inner \cup Writing) => Unread(0)
  /\ (\A p \in Procs : pc[p] \notin Inner \cup {"runtime", "graph"}) => Cards(clock, snap.graph, snap.runtime, <<>>, {})

(* Only a start makes a card run.                                          *)
LEMMA RunningApplied ==
  ASSUME NEW g \in Graph, NEW e \in Event, e.type # "started", NEW c \in Tasks, RunningIn(ApplyEvent(g, e), c)
  PROVE  RunningIn(g, c) /\ ApplyEvent(g, e).st[c].execs = g.st[c].execs
<1> DEFINE h == ApplyEvent(g, e)
           t == e.task
<1>0. t \in Tasks /\ g.st \in [Tasks -> Store] /\ g.rank \in Positions
  BY DEF Event, Graph
<1>1. CASE e.type \in {"completed", "failed", "restart", "remove", "requires-add", "requires-remove",
                       "provides-add", "provides-remove"} /\ ~Has(g, t)
  <2>1. h = g
    BY <1>1 DEF ApplyEvent
  <2> QED BY <1>1, <2>1
<1>2. CASE e.type \in {"completed", "failed", "restart"} /\ Has(g, t)
  <2>1. h.rank = g.rank /\ h.st = [g.st EXCEPT ![t] = h.st[t]] /\ h.st[t].status # "running"
    <3>1. CASE e.type = "completed"
      <4>1. h = TaskCompletion(g, t, e.data, e.routed)
        BY <1>2, <3>1 DEF ApplyEvent
      <4> DEFINE s == [g.st[t] EXCEPT !.status = "completed", !.execs = g.st[t].execs + 1, !.epoch = g.st[t].execs + 1,
                                     !.hash = e.data, !.data = e.data, !.consumed = ConsumedHashes(g, t)]
      <4>2. h.rank = g.rank /\ h.st = [g.st EXCEPT ![t] = s]
        BY <4>1 DEF TaskCompletion, Graph
      <4>3. s.status = "completed"
        BY <1>0 DEF Store
      <4> HIDE DEF h, s
      <4> QED BY <1>0, <4>2, <4>3
    <3>2. CASE e.type \in {"failed", "restart"}
      BY <1>0, <1>2, <3>2 DEF ApplyEvent, TaskFailure, TaskRetry, TaskGivesUp, TaskRestart, Graph, Store
    <3> QED BY <1>2, <3>1, <3>2
  <2> HIDE DEF h
  <2> QED BY <1>0, <1>2, <2>1 DEF RunningIn, Has, h
<1>3. CASE e.type = "remove" /\ Has(g, t)
  <2>1. h = RemoveNode(g, t)
    BY <1>3 DEF ApplyEvent
  <2>2. \A u \in Tasks : g.rank[u] \in Nat
    BY <1>0, FS_CardinalityType, TasksAssumption DEF Positions
  <2>3. h.rank[t] = 0 /\ h.st = [g.st EXCEPT ![t] = FreshStore]
        /\ h.rank[c] = (IF c = t THEN 0 ELSE IF g.rank[c] > g.rank[t] THEN g.rank[c] - 1 ELSE g.rank[c])
    BY <1>0, <2>1 DEF RemoveNode, Graph, Positions
  <2>4. c # t /\ h.st[c] = g.st[c]
    BY <1>0, <2>3 DEF RunningIn, Has
  <2>5. g.rank[c] # 0
    BY <1>0, <2>2, <2>3, <2>4 DEF RunningIn, Has
  <2> HIDE DEF h
  <2> QED BY <1>3, <2>4, <2>5 DEF RunningIn, Has, h
<1>4. CASE e.type = "upsert"
  <2>1. h = AddNode(g, t, e.tokens, g.prov[t])
    BY <1>4 DEF ApplyEvent
  <2>2. h.st = [g.st EXCEPT ![t] = IF Has(g, t) THEN g.st[t] ELSE FreshStore]
        /\ h.rank = [g.rank EXCEPT ![t] = IF Has(g, t) THEN g.rank[t] ELSE Cardinality(Nodes(g)) + 1]
    BY <1>0, <2>1 DEF AddNode, Graph, Positions
  <2>3. FreshStore.status # "running"
    BY DEF FreshStore
  <2> HIDE DEF h
  <2>4. c = t => Has(g, t) /\ h.st[c] = g.st[c]
    BY <1>0, <2>2, <2>3 DEF RunningIn, h
  <2>5. c # t => h.st[c] = g.st[c] /\ h.rank[c] = g.rank[c]
    BY <1>0, <2>2 DEF Positions
  <2> QED BY <1>4, <2>4, <2>5 DEF RunningIn, Has, h
<1>5. CASE e.type \in {"inject", "progress", "requires-add", "requires-remove", "provides-add", "provides-remove"}
  <2>1. h.rank = g.rank /\ h.st = g.st
    BY <1>0, <1>5 DEF ApplyEvent, Graph
  <2> HIDE DEF h
  <2> QED BY <1>5, <2>1 DEF RunningIn, Has, h
<1> QED BY <1>1, <1>2, <1>3, <1>4, <1>5 DEF Event

----------------------------------------------------------------------------
(* The handler on a card that has queued its sources at time n.            *)

LEMMA SourcesOf ==
  ASSUME NEW c \in Tasks
  PROVE  Sources(c) \subseteq Source /\ \A r \in Runtime : \A s \in Sources(c) : r.src[s] \in Entry
<1>1. Sources(c) \subseteq Source
  BY SourceAssumption DEF Sources, Source
<1> QED BY <1>1 DEF Runtime

LEMMA RequestedEntries ==
  ASSUME NEW c \in Tasks, NEW r \in Runtime, NEW now \in Token, NEW s \in Sources(c)
  PROVE  /\ Requested(r, c, now).execs = r.execs
         /\ LET e == Requested(r, c, now).src[s]
            IN  /\ e.queued = r.src[s].queued /\ e.completed = r.src[s].completed
                /\ \/ e.requested = r.src[s].requested
                   \/ s \in DueSources(r, c, now) /\ e.requested = QueuedAt(r.src[s], now)
<1>1. s \in Source /\ r.src[s] \in Entry
  BY SourcesOf
<1>2. /\ Requested(r, c, now).execs = r.execs
      /\ Requested(r, c, now).src[s] = IF s \in DueSources(r, c, now)
                                       THEN [r.src[s] EXCEPT !.requested = QueuedAt(r.src[s], now)] ELSE r.src[s]
  BY <1>1 DEF Requested, Runtime
<1> QED BY <1>1, <1>2 DEF Entry

(* It completes the card when every source has the answer to that run.     *)
LEMMA CompletesSettled ==
  ASSUME NEW c \in Tasks, NEW r \in Runtime, NEW now \in Token, NEW n \in Token, NEW x,
         Ready(n, r, c, x), Bounded(n, r, c), Completes(r, c, now)
  PROVE  Settled(n, r, c)
<1> SUFFICES ASSUME NEW s \in Sources(c)
             PROVE  r.src[s].queued = n /\ r.src[s].requested = n /\ r.src[s].completed = n
  BY DEF Settled, Ready
<1> DEFINE e == r.src[s]
<1>1. e \in Entry
  BY SourcesOf
<1>2. ~InFlight(e) /\ ~Due(e, Wanted(e, now))
  BY DEF Completes, DueSources
<1>3. e.queued = n /\ n # NoToken /\ e.requested <= n
  BY DEF Ready, Bounded
<1> HIDE DEF e
<1>4. Idle(e, n)
  BY <1>2, <1>3 DEF Due, Wanted
<1> QED BY <1>1, <1>3, <1>4 DEF Idle, Entry, Token, e

(* It leaves a settled card alone.                                         *)
LEMMA SettledRests ==
  ASSUME NEW c \in Tasks, NEW r \in Runtime, NEW now \in Token, NEW n \in Token, Settled(n, r, c)
  PROVE  DueSources(r, c, now) = {} /\ Settled(n, Requested(r, c, now), c)
<1>1. ASSUME NEW s \in Sources(c) PROVE ~Due(r.src[s], Wanted(r.src[s], now))
  <2>1. r.src[s] \in Entry /\ n \in Nat
    BY SourcesOf DEF Token
  <2> QED BY <2>1 DEF Settled, Due, InFlight, Idle, Wanted
<1>2. DueSources(r, c, now) = {}
  BY <1>1 DEF DueSources
<1> QED BY <1>2, RequestedEntries DEF Settled

LEMMA HandledBounds ==
  ASSUME NEW c \in Tasks, NEW r \in Runtime, NEW now \in Token, NEW n \in Token, NEW x,
         Ready(n, r, c, x), Bounded(n, r, c)
  PROVE  /\ Ready(n, Requested(r, c, now), c, x) /\ Bounded(n, Requested(r, c, now), c)
         /\ DueSources(r, c, now) # {} => RequestToken(r, c, now) = n
<1>1. \A s \in Sources(c) : QueuedAt(r.src[s], now) = n
  BY DEF Ready, QueuedAt
<1>2. Requested(r, c, now).execs = r.execs
  BY DEF Requested, Runtime
<1>3. ASSUME DueSources(r, c, now) # {} PROVE RequestToken(r, c, now) = n
  <2> DEFINE due == DueSources(r, c, now)
             last == CHOOSE s \in due : \A y \in due : y <= s
  <2>1. due \in SUBSET Source /\ due \subseteq Sources(c)
    BY SourceAssumption DEF DueSources, Sources, Source
  <2>2. last \in due
    BY <1>3, <2>1, LastSource
  <2> QED BY <1>1, <2>1, <2>2 DEF RequestToken
<1>4. n \in Nat
  BY DEF Token
<1> QED BY <1>1, <1>2, <1>3, <1>4, RequestedEntries DEF Ready, Bounded

(* What an answer does.                                                    *)
LEMMA AnsweredEntries ==
  ASSUME NEW c \in Tasks, NEW r \in Runtime, NEW u \in Update, NEW s \in Sources(c)
  PROVE  /\ Answered(r, u).execs = r.execs
         /\ LET e == Answered(r, u).src[s]
            IN  /\ e.queued = r.src[s].queued /\ e.requested = r.src[s].requested
                /\ \/ e.completed = r.src[s].completed
                   \/ s = u.source /\ e.completed = u.rqt /\ (Accepts(r, u) \/ u.answer = "failure")
<1>1. s \in Source /\ r.src[s] \in Entry /\ r.src \in [Source -> Entry]
  BY SourcesOf DEF Runtime
<1>2. CASE Accepts(r, u) \/ u.answer = "failure"
  <2> DEFINE e == [r.src[u.source] EXCEPT !.completed = u.rqt,
                     !.status = IF u.answer = "data" THEN "success" ELSE "failure"]
  <2>1. Answered(r, u).execs = r.execs /\ Answered(r, u).src = [r.src EXCEPT ![u.source] = e]
    BY <1>2 DEF Answered, Runtime
  <2>2. s = u.source => e.queued = r.src[s].queued /\ e.requested = r.src[s].requested /\ e.completed = u.rqt
    BY <1>1 DEF Entry
  <2>3. Answered(r, u).src[s] = IF s = u.source THEN e ELSE r.src[s]
    BY <1>1, <2>1
  <2> HIDE DEF e
  <2> QED BY <1>2, <2>1, <2>2, <2>3
<1>3. CASE ~(Accepts(r, u) \/ u.answer = "failure")
  BY <1>3 DEF Answered
<1> QED BY <1>2, <1>3

LEMMA AnsweredBounds ==
  ASSUME NEW c \in Tasks, NEW r \in Runtime, NEW u \in Update, NEW n \in Token, NEW x,
         Ready(n, r, c, x), Bounded(n, r, c), u.rqt <= n
  PROVE  Ready(n, Answered(r, u), c, x) /\ Bounded(n, Answered(r, u), c)
<1>1. Answered(r, u).execs = r.execs
  BY DEF Answered, Runtime
<1> QED BY <1>1, AnsweredEntries DEF Ready, Bounded

(* A settled card takes no older data, and no failure but of its last run. *)
LEMMA AnsweredSettled ==
  ASSUME NEW c \in Tasks, NEW r \in Runtime, NEW u \in Update, NEW n \in Token,
         Settled(n, r, c), u.rqt <= n, u.answer = "failure" => u.rqt = n
  PROVE  Settled(n, Answered(r, u), c)
<1>1. ASSUME NEW s \in Sources(c) PROVE Answered(r, u).src[s].completed = n
  <2>1. r.src[s].completed = n /\ n # NoToken /\ n \in Nat /\ u.rqt \in Nat
    BY DEF Settled, Token, Update
  <2>2. CASE Answered(r, u).src[s].completed = r.src[s].completed
    BY <2>1, <2>2
  <2>3. CASE s = u.source /\ Answered(r, u).src[s].completed = u.rqt /\ (Accepts(r, u) \/ u.answer = "failure")
    BY <2>1, <2>3 DEF Accepts
  <2> QED BY <2>2, <2>3, AnsweredEntries
<1> QED BY <1>1, AnsweredEntries DEF Settled

(* The handler leaves a card that is ready as it should be.                *)
LEMMA HandleCards ==
  ASSUME NEW j \in Job, NEW c \in Tasks, NEW r \in Runtime, NEW now \in Token, NEW k \in [Tasks -> Token], NEW g, NEW ran,
         \A d \in Tasks : d # c => Card(k[d], j.runtime[d], d, g, j.tx, ran),
         Ready(k[c], r, c, g.st[c].execs), Bounded(k[c], r, c), Reported(j.tx, c) => Settled(k[c], r, c),
         DoneIn(g, c) => c \in ran, Asked(k, j.requests)
  PROVE  LET h == Handle(j, c, r, now)
         IN  /\ Cards(k, g, h.runtime, h.tx, ran) /\ Asked(k, h.requests)
             /\ \A d \in Tasks : d # c => (Reported(h.tx, d) => Reported(j.tx, d))
<1> DEFINE h == Handle(j, c, r, now)
           e == Plain([Ev("completed", c) EXCEPT !.data = Result(j, c)])
           a == Requested(r, c, now)
           n == k[c]
<1>1. /\ h.runtime = [j.runtime EXCEPT ![c] = a] /\ h.requests = Requests(j, c, r, now)
      /\ h.tx = IF Completes(r, c, now) THEN Append(j.tx, e) ELSE j.tx
  BY DEF Handle, Job
<1>2. e.event.type = "completed" /\ e.event.task = c /\ n \in Token
  BY DEF Plain, Ev
<1>3. Ready(n, a, c, g.st[c].execs) /\ Bounded(n, a, c)
  BY <1>2, HandledBounds
<1>4. j.tx \in Seq(JournalEntry) /\ e \in JournalEntry /\ j.requests \in Seq(Request)
  <2>1. [Ev("completed", c) EXCEPT !.data = Result(j, c)] \in Event
    BY EvType, ResultType DEF Event
  <2> QED BY <2>1, PlainType DEF Job
<1> HIDE DEF e, h
<1>5. \A d \in Tasks : Reported(h.tx, d) => Reported(j.tx, d) \/ (d = c /\ Completes(r, c, now))
  <2>1. CASE Completes(r, c, now)
    <3>1. /\ Len(j.tx) \in Nat /\ Len(h.tx) = Len(j.tx) + 1 /\ h.tx[Len(j.tx) + 1] = e
          /\ \A i \in 1..Len(j.tx) : h.tx[i] = j.tx[i]
      BY <1>1, <1>4, <2>1, AppendProperties, LenProperties
    <3>2. \A i \in 1..Len(h.tx) : i \in 1..Len(j.tx) \/ i = Len(j.tx) + 1
      BY <3>1
    <3> QED BY <1>2, <2>1, <3>1, <3>2 DEF Reported, Reports
  <2>2. CASE ~Completes(r, c, now)
    BY <1>1, <2>2
  <2> QED BY <2>1, <2>2
<1>6. Reported(h.tx, c) => Settled(n, a, c)
  <2>1. Completes(r, c, now) => Settled(n, r, c)
    BY <1>2, CompletesSettled
  <2>2. Settled(n, r, c) => Settled(n, a, c)
    BY <1>2, SettledRests
  <2> QED BY <1>5, <2>1, <2>2
<1>7. Card(n, a, c, g, h.tx, ran)
  BY <1>3, <1>6 DEF Card
<1>8. ASSUME NEW d \in Tasks, d # c PROVE Card(k[d], j.runtime[d], d, g, h.tx, ran)
  <2>1. Card(k[d], j.runtime[d], d, g, j.tx, ran) /\ (Reported(h.tx, d) => Reported(j.tx, d))
    BY <1>5, <1>8
  <2> QED BY <2>1 DEF Card
<1>9. Cards(k, g, h.runtime, h.tx, ran)
  <2>1. h.runtime[c] = a /\ \A d \in Tasks : d # c => h.runtime[d] = j.runtime[d]
    BY <1>1 DEF Job
  <2> QED BY <1>7, <1>8, <2>1 DEF Cards
<1>10. Asked(k, h.requests)
  <2>1. CASE DueSources(r, c, now) = {}
    BY <1>1, <2>1 DEF Requests
  <2>2. CASE DueSources(r, c, now) # {}
    <3> DEFINE q == [card |-> c, rqt |-> RequestToken(r, c, now)]
    <3>1. q.card = c /\ q.rqt = n
      BY <1>2, <2>2, HandledBounds
    <3>2. h.requests = Append(j.requests, q)
      BY <1>1, <2>2 DEF Requests
    <3>3. q \in Request
      BY <2>2, RequestTokenType DEF Request
    <3> HIDE DEF q
    <3>4. /\ Len(j.requests) \in Nat /\ Len(h.requests) = Len(j.requests) + 1 /\ h.requests[Len(j.requests) + 1] = q
          /\ \A i \in 1..Len(j.requests) : h.requests[i] = j.requests[i]
      BY <1>4, <3>2, <3>3, AppendProperties, LenProperties
    <3>5. \A i \in 1..Len(h.requests) : i \in 1..Len(j.requests) \/ i = Len(j.requests) + 1
      BY <3>4
    <3>6. q.rqt <= k[q.card]
      BY <1>2, <3>1 DEF Token
    <3> QED BY <3>4, <3>5, <3>6 DEF Asked
  <2> QED BY <2>1, <2>2
<1> QED BY <1>5, <1>9, <1>10 DEF h

(* Appending an event, and dropping the head.                              *)
LEMMA TailEntries ==
  ASSUME NEW S, NEW q \in Seq(S), q # <<>>
  PROVE  /\ Len(q) \in Nat /\ 1 \in 1..Len(q) /\ Head(q) = q[1]
         /\ \A i \in 1..Len(Tail(q)) : i + 1 \in 1..Len(q) /\ Tail(q)[i] = q[i + 1]
<1>1. Len(q) \in Nat /\ Len(q) # 0 /\ Len(Tail(q)) = Len(q) - 1 /\ Head(q) = q[1]
  BY HeadTailProperties, LenProperties, EmptySeq
<1>2. \A i \in 1..Len(Tail(q)) : Tail(q)[i] = q[i + 1]
  BY HeadTailProperties, <1>1
<1> QED BY <1>1, <1>2

LEMMA AppendEntries ==
  ASSUME NEW S, NEW q \in Seq(S), NEW x \in S
  PROVE  /\ Len(q) \in Nat /\ Len(Append(q, x)) = Len(q) + 1
         /\ \A i \in 1..Len(Append(q, x)) :
              (i \in 1..Len(q) /\ Append(q, x)[i] = q[i]) \/ (i = Len(q) + 1 /\ Append(q, x)[i] = x)
<1>1. /\ Len(q) \in Nat /\ Len(Append(q, x)) = Len(q) + 1 /\ Append(q, x)[Len(q) + 1] = x
      /\ \A i \in 1..Len(q) : Append(q, x)[i] = q[i]
  BY AppendProperties, LenProperties
<1>2. \A i \in 1..Len(Append(q, x)) : i \in 1..Len(q) \/ i = Len(q) + 1
  BY <1>1
<1> QED BY <1>1, <1>2

(* What a step on the head of the batch does to the cards.                 *)
LEMMA CardsApplied ==
  ASSUME NEW g \in Graph, NEW q \in Seq(JournalEntry), q # <<>>, NEW k, NEW rt,
         Head(q).event.type # "started", Cards(k, g, rt, q, {})
  PROVE  Cards(k, ApplyEvent(g, Head(q).event), rt, Tail(q), {})
<1> DEFINE e == Head(q).event
           h == ApplyEvent(g, e)
<1>1. e \in Event
  <2>1. Head(q) \in JournalEntry
    BY HeadTailProperties
  <2> QED BY <2>1 DEF JournalEntry
<1>2. /\ Len(q) \in Nat /\ 1 \in 1..Len(q) /\ Head(q) = q[1]
      /\ \A i \in 1..Len(Tail(q)) : i + 1 \in 1..Len(q) /\ Tail(q)[i] = q[i + 1]
  BY TailEntries
<1>3. ASSUME NEW c \in Tasks PROVE Card(k[c], rt[c], c, h, Tail(q), {})
  <2>1. Card(k[c], rt[c], c, g, q, {})
    BY DEF Cards
  <2>2. Reported(Tail(q), c) => Reported(q, c)
    BY <1>2 DEF Reported
  <2>3. DoneIn(h, c) => DoneIn(g, c) \/ Reported(q, c)
    <3>1. Reports(Head(q), c) => Reported(q, c)
      BY <1>2 DEF Reported
    <3> QED BY <1>1, <3>1, DoneApplied DEF Reports
  <2>4. RunningIn(h, c) => RunningIn(g, c) /\ h.st[c].execs = g.st[c].execs
    BY <1>1, RunningApplied
  <2> HIDE DEF h
  <2> QED BY <2>1, <2>2, <2>3, <2>4 DEF Card
<1> HIDE DEF h
<1>4. Cards(k, h, rt, Tail(q), {})
  BY <1>3 DEF Cards
<1> QED BY <1>4 DEF h

(* The cards that have run are running in the graph.                       *)
LEMMA CardsStarted ==
  ASSUME NEW g \in Graph, NEW q, NEW k, NEW rt, NEW ran \in SUBSET Tasks, Cards(k, g, rt, q, ran)
  PROVE  Cards(k, Started(g, ran), rt, q, {})
<1>1. ASSUME NEW c \in Tasks PROVE Card(k[c], rt[c], c, Started(g, ran), q, {})
  <2>1. Card(k[c], rt[c], c, g, q, ran)
    BY DEF Cards
  <2>2. DoneIn(Started(g, ran), c) => c \notin ran /\ DoneIn(g, c)
    BY DoneStarted
  <2>3. /\ Started(g, ran).rank = g.rank
        /\ Started(g, ran).st[c] = IF c \in ran THEN TaskStart(g, c).st[c] ELSE g.st[c]
    BY DEF Started, Graph
  <2>4. TaskStart(g, c).st[c].execs = g.st[c].execs
    BY DEF TaskStart, Graph, Store
  <2>5. RunningIn(Started(g, ran), c) => (RunningIn(g, c) \/ c \in ran)
    BY <2>3 DEF RunningIn, Has
  <2>6. Started(g, ran).st[c].execs = g.st[c].execs
    BY <2>3, <2>4
  <2> QED BY <2>1, <2>2, <2>5, <2>6 DEF Card
<1> QED BY <1>1 DEF Cards

(* A run makes the card ready.                                             *)
LEMMA QueuedReady ==
  ASSUME NEW c \in Tasks, NEW r \in Runtime, NEW m \in Token, NEW x \in Nat, Bounded(m, r, c)
  PROVE  LET a == Queued(Wiped(r, x), c, m + 1)
         IN  a \in Runtime /\ Ready(m + 1, a, c, x) /\ Bounded(m + 1, a, c)
<1> DEFINE w == Wiped(r, x)
           a == Queued(w, c, m + 1)
<1>1. m \in Nat /\ m + 1 \in Token /\ m + 1 # NoToken
  BY DEF Token, NoToken
<1>2. w \in Runtime /\ w.execs = x
  <2>1. w \in Runtime
    BY WipedType
  <2>2. w.execs = x
    BY DEF Wiped, Runtime
  <2> QED BY <2>1, <2>2
<1>3. \A s \in Sources(c) : s \in Source /\ w.src[s] \in Entry /\ r.src[s] \in Entry
  BY <1>2, SourcesOf
<1>4. \A s \in Sources(c) : w.src[s].requested <= m + 1 /\ w.src[s].completed <= m + 1
  <2>1. CASE w = r
    BY <1>1, <1>3, <2>1 DEF Bounded, Entry, Token
  <2>2. CASE w = [execs |-> x, src |-> NoSources]
    <3>1. \A s \in Sources(c) : w.src[s] = NoEntry
      BY <1>3, <2>2 DEF NoSources
    <3> QED BY <1>1, <3>1 DEF NoEntry, NoToken
  <2> QED BY <2>1, <2>2 DEF Wiped
<1>5. a \in Runtime
  BY <1>1, <1>2, QueuedType
<1> HIDE DEF w
<1>6. a.execs = x /\ \A s \in Sources(c) : a.src[s] = [w.src[s] EXCEPT !.queued = m + 1]
  BY <1>2, <1>3 DEF Queued, Runtime
<1> HIDE DEF a
<1>7. \A s \in Sources(c) : /\ a.src[s].queued = m + 1 /\ a.src[s].requested = w.src[s].requested
                            /\ a.src[s].completed = w.src[s].completed
  BY <1>3, <1>6 DEF Entry
<1>8. Ready(m + 1, a, c, x)
  BY <1>1, <1>6, <1>7 DEF Ready
<1>9. Bounded(m + 1, a, c)
  BY <1>1, <1>4, <1>7 DEF Bounded
<1> QED BY <1>5, <1>8, <1>9 DEF a, w

LEMMA SettleDrain ==
  ASSUME TypeOK, DrainInv, SettleInv, NEW p \in Procs, Drain(p)
  PROVE  SettleInv'
<1>1. pc[p] \in Holding
  BY DEF Drain, Load, ApplyOne, Schedule, RunCard, RouteProgress, EndPass, CommitRuntime, CommitGraph,
         CommitCursor, KeyAfter, Writing, FlushOutputs, FlushSources, DispatchRequest, Release, Holding, Inner
<1>2. PICK l : Goto(p, l) \/ pc' = pc
  BY DEF Drain, Load, ApplyOne, Schedule, RunCard, RouteProgress, EndPass, CommitRuntime, CommitGraph,
         CommitCursor, KeyAfter, Writing, FlushOutputs, FlushSources, DispatchRequest, Release
<1>3. \A q \in Procs : q # p => /\ pc[q] \notin Inner \cup Writing /\ pc'[q] \notin Inner \cup Writing
                                /\ Drained(q)'
  <2>1. \A q \in Procs : q # p => pc[q] \notin Holding /\ pc'[q] \notin Holding
    BY <1>1, <1>2, HolderIsAlone DEF DrainInv
  <2> QED BY <2>1 DEF Drained, Holding, Inner, Writing
<1>4. ASSUME Sent(clock)', Drained(p)', pc'[p] \notin Inner \cup Writing => Unread(0)',
             pc'[p] \notin Inner \cup {"runtime", "graph"} => Cards(clock, snap.graph, snap.runtime, <<>>, {})'
      PROVE  SettleInv'
  BY <1>3, <1>4 DEF SettleInv, Writing
<1>5. /\ pc[p] \notin Inner \cup Writing => Unread(0)
      /\ pc[p] \notin Inner \cup {"runtime", "graph"} => Cards(clock, snap.graph, snap.runtime, <<>>, {})
  BY <1>3 DEF SettleInv, Writing
<1>6. /\ Sent(clock) /\ Drained(p) /\ Counted(p)
      /\ Fetching(clock, fetches) /\ Asked(clock, job.requests)
      /\ \A i \in 1..Len(journal) : Within(clock, journal[i])
  BY DEF SettleInv, DrainInv, Sent
<1>7. /\ job.graph \in Graph /\ job.batch \in Seq(JournalEntry) /\ job.tx \in Seq(JournalEntry)
      /\ job.updates \in Seq(JournalEntry) /\ job.requests \in Seq(Request) /\ job.runtime \in [Tasks -> Runtime]
      /\ job.ran \in SUBSET Tasks /\ job.todo \in SUBSET Tasks /\ pc \in [Procs -> Places]
      /\ clock \in [Tasks -> Token] /\ journal \in Seq(JournalEntry) /\ job.taken \in Nat /\ Len(journal) \in Nat
  BY LenProperties DEF TypeOK, Job, Places
(* A step within the memory of the drain.                                  *)
<1>8. ASSUME pc'[p] \in Inner, job'.taken = Len(journal), journal' = journal, Sent(clock)',
             pc'[p] = "apply" => Applies', pc'[p] = "run" => Runs'
      PROVE  SettleInv'
  <2>1. Unread(job.taken)'
    BY <1>7, <1>8 DEF Unread
  <2>2. Drained(p)'
    BY <1>8, <2>1 DEF Drained, Inner
  <2> QED BY <1>4, <1>8, <2>2
<1>9. CASE Load(p)
  <2>1. /\ pc[p] = "load" /\ pc'[p] = (IF journal = <<>> THEN "runtime" ELSE "apply")
        /\ UNCHANGED <<journal, snap, clock, fetches>>
    BY <1>7, <1>9 DEF Load, Goto
  <2>2. /\ job'.graph = snap.graph /\ job'.runtime = snap.runtime /\ job'.batch = journal /\ job'.taken = Len(journal)
        /\ job'.ran = {} /\ job'.updates = <<>> /\ job'.requests = <<>>
    BY <1>9 DEF Load, NoJob
  <2>3. Sent(clock)'
    BY <1>6, <2>1, <2>2, EmptySeq DEF Sent, Asked, Fetching, Within, Answer
  <2>4. Unread(0) /\ Cards(clock, snap.graph, snap.runtime, <<>>, {})
    BY <1>5, <2>1 DEF Inner, Writing
  <2>5. CASE journal = <<>>
    <3>1. Cards(clock, job.graph, job.runtime, <<>>, {})'
      BY <2>1, <2>2, <2>4
    <3>2. Unread(job.taken)'
      BY <1>7, <2>1, <2>2 DEF Unread
    <3>3. Drained(p)' /\ pc'[p] = "runtime"
      BY <2>1, <2>5, <3>1, <3>2 DEF Drained, Inner
    <3> QED BY <1>4, <2>3, <3>3 DEF Writing
  <2>6. CASE journal # <<>>
    <3>1. \A c \in Tasks : ~Reported(journal, c) /\ ~Reported(<<>>, c)
      BY EmptySeq DEF DrainInv, Open, Reported, Reports
    <3>2. Cards(clock, snap.graph, snap.runtime, journal, {})
      BY <2>4, <3>1 DEF Cards, Card
    <3>3. Cards(clock, job.graph, job.runtime, job.batch, {})'
      BY <2>1, <2>2, <3>2
    <3>4. \A i \in 1..Len(job'.batch) : Within(clock', job'.batch[i]) /\ Timely(clock', job'.batch[i])
      BY <1>6, <2>1, <2>2, <2>4 DEF Unread
    <3>5. Updates({})'
      BY <2>2, EmptySeq DEF Updates
    <3>6. Applies'
      BY <2>2, <3>3, <3>4, <3>5 DEF Applies
    <3> QED BY <1>8, <2>1, <2>2, <2>3, <2>6, <3>6 DEF Inner
  <2> QED BY <2>5, <2>6
<1>10. CASE ApplyOne(p)
  <2> DEFINE e == Head(job.batch)
  <2>1. /\ pc[p] = "apply" /\ pc' = pc /\ job.batch # <<>> /\ UNCHANGED <<journal, snap, clock, fetches>>
        /\ job'.graph = ApplyEvent(job.graph, e.event) /\ job'.batch = Tail(job.batch)
        /\ job'.updates = (IF e.event.type = "progress" THEN Append(job.updates, e) ELSE job.updates)
        /\ job'.runtime = job.runtime /\ job'.ran = job.ran /\ job'.requests = job.requests /\ job'.taken = job.taken
    BY <1>10 DEF ApplyOne, TypeOK, Job
  <2>2. Applies /\ job.taken = Len(journal)
    BY <1>6, <2>1 DEF Drained, Inner
  <2>3. /\ 1 \in 1..Len(job.batch) /\ e = job.batch[1] /\ e \in JournalEntry
        /\ \A i \in 1..Len(Tail(job.batch)) : i + 1 \in 1..Len(job.batch) /\ Tail(job.batch)[i] = job.batch[i + 1]
    BY <1>7, <2>1, TailEntries, HeadTailProperties
  <2>4. Within(clock, e) /\ Timely(clock, e)
    BY <2>2, <2>3 DEF Applies
  <2>5. Cards(clock, ApplyEvent(job.graph, e.event), job.runtime, Tail(job.batch), {})
    BY <1>7, <2>1, <2>2, <2>4, CardsApplied DEF Applies, Within
  <2>6. \A i \in 1..Len(Tail(job.batch)) : Within(clock, Tail(job.batch)[i]) /\ Timely(clock, Tail(job.batch)[i])
    BY <2>2, <2>3 DEF Applies
  <2> HIDE DEF e
  <2>7. Updates({})'
    <3>1. CASE e.event.type # "progress"
      BY <2>1, <2>2, <3>1 DEF Applies, Updates, Answer, Within, Timely, Failed
    <3>2. CASE e.event.type = "progress"
      <4>1. Answer(e)
        BY <3>2 DEF Answer
      <4>2. \A i \in 1..Len(job'.updates) :
              (i \in 1..Len(job.updates) /\ job'.updates[i] = job.updates[i]) \/ job'.updates[i] = e
        BY <1>7, <2>1, <2>3, <3>2, AppendEntries
      <4> QED BY <2>1, <2>2, <2>4, <4>1, <4>2 DEF Applies, Updates, Answer, Within, Timely, Failed
    <3> QED BY <3>1, <3>2
  <2>8. Applies'
    <3>1. Cards(clock, job.graph, job.runtime, job.batch, {})'
      BY <2>1, <2>5
    <3>2. \A i \in 1..Len(job'.batch) : Within(clock', job'.batch[i]) /\ Timely(clock', job'.batch[i])
      BY <2>1, <2>6
    <3> QED BY <2>1, <2>2, <2>7, <3>1, <3>2 DEF Applies
  <2>9. Sent(clock)'
    BY <1>6, <2>1 DEF Sent
  <2> QED BY <1>8, <2>1, <2>2, <2>8, <2>9 DEF Inner
<1>11. CASE Schedule(p)
  <2>1. /\ pc[p] = "apply" /\ pc'[p] = "run" /\ job.batch = <<>> /\ UNCHANGED <<journal, snap, clock, fetches>>
        /\ job'.graph = job.graph /\ job'.runtime = job.runtime /\ job'.ran = job.ran /\ job'.requests = job.requests
        /\ job'.taken = job.taken /\ job'.updates = job.updates /\ job'.tx = job.tx
        /\ job'.todo = {c \in Tasks : Eligible(job.graph, c)}
    BY <1>7, <1>11 DEF Schedule, TypeOK, Job, Goto
  <2>2. Applies /\ job.taken = Len(journal) /\ job.tx = <<>>
    BY <1>6, <2>1 DEF Drained, Inner, Counted
  <2>3. Updates(job.ran)' /\ job'.ran = {}
    BY <2>1, <2>2 DEF Applies, Updates
  <2>4. Cards(clock, job.graph, job.runtime, job.tx, job.ran)'
    BY <2>1, <2>2, <2>3 DEF Applies
  <2>5. \A c \in Tasks : Eligible(job.graph, c) => ~RunningIn(job.graph, c)
    BY DEF Eligible, RunningIn
  <2>6. \A c \in Tasks : ~Reported(<<>>, c)
    BY EmptySeq DEF Reported
  <2>7. Runs'
    BY <2>1, <2>2, <2>3, <2>4, <2>5, <2>6 DEF Runs
  <2>8. Sent(clock)'
    BY <1>6, <2>1 DEF Sent
  <2> QED BY <1>8, <2>1, <2>2, <2>7, <2>8 DEF Inner
<1>12. ASSUME NEW c \in Tasks, RunCard(p, c) PROVE SettleInv'
  <2> DEFINE m == clock[c]
             a == Queued(Wiped(job.runtime[c], Execs(c)), c, m + 1)
             h == Handle(job, c, a, m + 1)
  <2>1. /\ pc[p] = "run" /\ pc' = pc /\ UNCHANGED <<journal, snap, fetches>> /\ c \in job.todo
        /\ clock' = [clock EXCEPT ![c] = m + 1]
        /\ job' = [h EXCEPT !.todo = h.todo \ {c}, !.ran = h.ran \cup {c}]
    BY <1>12 DEF RunCard, IsNext
  <2>2. Runs /\ job.taken = Len(journal)
    BY <1>6, <2>1 DEF Drained, Inner
  <2>3. m \in Token /\ m + 1 \in Token /\ Execs(c) \in Nat /\ Execs(c) = job.graph.st[c].execs
    <3>1. job.graph.st[c] \in Store
      BY <1>7 DEF Graph
    <3> QED BY <1>7, <3>1 DEF Token, Execs, Store
  <2>4. Card(m, job.runtime[c], c, job.graph, job.tx, job.ran)
    BY <2>2 DEF Runs, Cards
  <2>5. a \in Runtime /\ Ready(m + 1, a, c, Execs(c)) /\ Bounded(m + 1, a, c)
    BY <1>7, <2>3, <2>4, QueuedReady DEF Card
  <2>6. clock' \in [Tasks -> Token] /\ clock'[c] = m + 1 /\ \A d \in Tasks : d # c => clock'[d] = clock[d]
    BY <1>7, <2>1, <2>3
  <2>7. \A d \in Tasks : clock[d] <= clock'[d] /\ clock[d] \in Nat /\ clock'[d] \in Nat
    <3>1. ASSUME NEW d \in Tasks PROVE clock[d] <= clock'[d] /\ clock[d] \in Nat /\ clock'[d] \in Nat
      <4>1. clock[d] \in Nat
        BY <1>7 DEF Token
      <4>2. clock'[d] = clock[d] \/ clock'[d] = clock[d] + 1
        BY <2>6
      <4> QED BY <4>1, <4>2
    <3> QED BY <3>1
  <2> DEFINE ran == job.ran \cup {c}
  <2>8. ASSUME NEW d \in Tasks, d # c PROVE Card(clock'[d], job.runtime[d], d, job.graph, job.tx, ran)
    BY <2>2, <2>6, <2>8 DEF Runs, Cards, Card
  <2>9. ~Reported(job.tx, c) /\ ~RunningIn(job.graph, c)
    BY <2>1, <2>2 DEF Runs
  <2>10. Asked(clock', job.requests)
    <3>1. \A i \in 1..Len(job.requests) : job.requests[i] \in Request
      BY <1>7, ElementOfSeq
    <3> QED BY <1>6, <2>7, <3>1 DEF Asked, Request, Token
  <2>11. h \in Job /\ h.graph = job.graph /\ h.ran = job.ran /\ h.todo = job.todo /\ h.updates = job.updates /\ h.taken = job.taken
    <3>1. h \in Job
      BY <2>3, <2>5, HandleType DEF TypeOK
    <3>2. /\ h.graph = job.graph /\ h.ran = job.ran /\ h.todo = job.todo /\ h.updates = job.updates /\ h.taken = job.taken
      BY DEF Handle, TypeOK, Job
    <3> QED BY <3>1, <3>2
  <2>12. /\ Cards(clock', job.graph, h.runtime, h.tx, ran) /\ Asked(clock', h.requests)
         /\ \A d \in Tasks : d # c => (Reported(h.tx, d) => Reported(job.tx, d))
    <3> HIDE DEF a, m
    <3>1. job \in Job /\ (DoneIn(job.graph, c) => c \in ran)
      BY DEF TypeOK
    <3>2. Ready(clock'[c], a, c, job.graph.st[c].execs) /\ Bounded(clock'[c], a, c)
      BY <2>3, <2>5, <2>6
    <3> HIDE DEF ran
    <3>3. \A d \in Tasks : d # c => Card(clock'[d], job.runtime[d], d, job.graph, job.tx, ran)
      BY <2>8
    <3>4. Reported(job.tx, c) => Settled(clock'[c], a, c)
      BY <2>9
    <3> QED BY <2>3, <2>5, <2>6, <2>10, <3>1, <3>2, <3>3, <3>4, HandleCards
  <2> HIDE DEF h, a, m
  <2>13. /\ job'.graph = job.graph /\ job'.runtime = h.runtime /\ job'.tx = h.tx /\ job'.requests = h.requests
         /\ job'.ran = ran /\ job'.todo = job.todo \ {c} /\ job'.updates = job.updates /\ job'.taken = job.taken
    BY <2>1, <2>11 DEF Job
  <2>14. \A x \in JournalEntry : Within(clock, x) => Within(clock', x)
    <3>1. ASSUME NEW x \in JournalEntry, Within(clock, x) PROVE Within(clock', x)
      <4>1. x.event.task \in Tasks /\ x.update.rqt \in Nat
        BY DEF JournalEntry, Event, Update, Token
      <4> QED BY <2>7, <3>1, <4>1 DEF Within
    <3> QED BY <3>1
  <2>15. Updates(job.ran)'
    <3>1. ASSUME NEW i \in 1..Len(job.updates)
          PROVE  LET x == job.updates[i] IN Answer(x) /\ Within(clock', x) /\ (Timely(clock', x) \/ x.event.task \in ran)
      <4> DEFINE x == job.updates[i]
      <4>1. x \in JournalEntry
        BY <1>7, ElementOfSeq
      <4>2. Answer(x) /\ Within(clock, x) /\ (Timely(clock, x) \/ x.event.task \in job.ran)
        BY <2>2 DEF Runs, Updates
      <4>3. x.event.task \in Tasks
        BY <4>1 DEF JournalEntry, Event
      <4> HIDE DEF x
      <4>4. Timely(clock, x) => Timely(clock', x) \/ x.event.task = c
        BY <2>6, <4>3 DEF Timely
      <4>5. Answer(x) /\ Within(clock', x) /\ (Timely(clock', x) \/ x.event.task \in ran)
        BY <2>14, <4>1, <4>2, <4>4
      <4> QED BY <4>5 DEF x
    <3> HIDE DEF ran
    <3> QED BY <2>13, <3>1 DEF Updates, Answer, Within, Timely, Failed
  <2>16. /\ \A d \in job'.todo : ~RunningIn(job.graph, d) /\ ~Reported(h.tx, d)
         /\ \A d \in ran : ~RunningIn(job.graph, d)
    BY <1>7, <2>2, <2>9, <2>12, <2>13 DEF Runs
  <2>17. Runs'
    <3>1. Cards(clock, job.graph, job.runtime, job.tx, job.ran)'
      BY <2>12, <2>13
    <3>2. /\ \A d \in job'.todo : ~RunningIn(job'.graph, d) /\ ~Reported(job'.tx, d)
          /\ \A d \in job'.ran : ~RunningIn(job'.graph, d)
      BY <2>13, <2>16
    <3> QED BY <2>15, <3>1, <3>2 DEF Runs
  <2>18. Sent(clock)'
    <3>1. Fetching(clock', fetches)
      <4>1. ASSUME NEW d \in Tasks, NEW s \in Source, NEW i \in 1..Len(fetches[d][s])
            PROVE  fetches[d][s][i] <= clock'[d]
        <5>1. fetches[d][s] \in Seq(Token)
          BY DEF TypeOK
        <5>2. fetches[d][s][i] \in Nat
          BY <5>1, ElementOfSeq DEF Token
        <5>3. fetches[d][s][i] <= clock[d]
          BY <1>6 DEF Fetching
        <5> QED BY <2>7, <5>2, <5>3
      <4> QED BY <4>1 DEF Fetching
    <3>2. \A i \in 1..Len(journal) : Within(clock', journal[i])
      BY <1>6, <1>7, <2>14, ElementOfSeq
    <3>3. Fetching(clock', fetches') /\ Asked(clock', job'.requests) /\ \A i \in 1..Len(journal') : Within(clock', journal'[i])
      BY <2>1, <2>12, <2>13, <3>1, <3>2
    <3> QED BY <3>3 DEF Sent
  <2> QED BY <1>8, <2>1, <2>2, <2>13, <2>17, <2>18 DEF Inner
<1>13. CASE RouteProgress(p)
  <2> DEFINE x == Head(job.updates)
             c == x.event.task
             u == x.update
             j == [job EXCEPT !.updates = Tail(job.updates)]
  <2>1. /\ pc[p] = "run" /\ pc' = pc /\ UNCHANGED <<journal, snap, fetches, clock>> /\ job.updates # <<>> /\ job.todo = {}
        /\ job' = IF RunningIn(job.graph, c) THEN Deliver(j, c, u) ELSE j
    BY <1>13 DEF RouteProgress, RunningIn
  <2>2. Runs /\ job.taken = Len(journal)
    BY <1>6, <2>1 DEF Drained, Inner
  <2>3. /\ 1 \in 1..Len(job.updates) /\ x = job.updates[1] /\ x \in JournalEntry /\ Tail(job.updates) \in Seq(JournalEntry)
        /\ \A i \in 1..Len(Tail(job.updates)) : i + 1 \in 1..Len(job.updates) /\ Tail(job.updates)[i] = job.updates[i + 1]
    BY <1>7, <2>1, TailEntries, HeadTailProperties
  <2>4. c \in Tasks /\ u \in Update
    BY <2>3 DEF JournalEntry, Event
  <2>5. Answer(x) /\ Within(clock, x) /\ (Timely(clock, x) \/ c \in job.ran)
    BY <2>2, <2>3 DEF Runs, Updates
  <2>6. /\ j \in Job /\ j.tx = job.tx /\ j.graph = job.graph /\ j.runtime = job.runtime /\ j.requests = job.requests
        /\ j.ran = job.ran /\ j.todo = job.todo /\ j.taken = job.taken /\ j.updates = Tail(job.updates)
    BY <2>3 DEF TypeOK, Job
  <2>7. \A i \in 1..Len(Tail(job.updates)) :
          LET y == Tail(job.updates)[i] IN Answer(y) /\ Within(clock, y) /\ (Timely(clock, y) \/ y.event.task \in job.ran)
    BY <2>2, <2>3 DEF Runs, Updates
  <2> HIDE DEF j, x
  <2>8. ASSUME NEW h, job' = h, h.graph = job.graph, h.ran = job.ran, h.todo = job.todo, h.taken = job.taken,
               h.updates = Tail(job.updates), Cards(clock, job.graph, h.runtime, h.tx, job.ran), Asked(clock, h.requests)
        PROVE  SettleInv'
    <3>0. job'.updates = Tail(job.updates) /\ job'.ran = job.ran /\ clock' = clock
      BY <2>1, <2>8
    <3>1. Updates(job.ran)'
      BY <2>7, <3>0 DEF Updates, Answer, Within, Timely, Failed
    <3>2. Cards(clock, job.graph, job.runtime, job.tx, job.ran)'
      BY <2>1, <2>8
    <3>3. Runs'
      BY <2>1, <2>2, <2>8, <3>1, <3>2 DEF Runs
    <3>4. Sent(clock)'
      BY <1>6, <2>1, <2>8 DEF Sent
    <3> QED BY <1>8, <2>1, <2>2, <2>8, <3>3, <3>4 DEF Inner
  <2>9. CASE ~RunningIn(job.graph, c)
    <3>1. Cards(clock, job.graph, j.runtime, j.tx, job.ran) /\ Asked(clock, j.requests)
      BY <1>6, <2>2, <2>6 DEF Runs
    <3> QED BY <2>1, <2>6, <2>8, <2>9, <3>1
  <2>10. CASE RunningIn(job.graph, c)
    <3> HIDE DEF c, u
    <3>0. j \in Job
      BY <2>6
    <3>1. PICK f \in Contents :
            /\ Deliver(j, c, u) = Handle([j EXCEPT !.sources = f], c, Answered(Wiped(j.runtime[c], Execs(c)), u), clock[c] + 1)
            /\ [j EXCEPT !.sources = f] \in Job /\ Answered(Wiped(j.runtime[c], Execs(c)), u) \in Runtime
            /\ clock[c] + 1 \in Token
      BY <2>4, <3>0, DeliverForm DEF TypeOK
    <3> DEFINE n == clock[c]
               r == Wiped(job.runtime[c], Execs(c))
               i == [j EXCEPT !.sources = f]
               a == Answered(r, u)
               h == Handle(i, c, a, n + 1)
    <3>2. /\ i \in Job /\ i.tx = job.tx /\ i.graph = job.graph /\ i.runtime = job.runtime /\ i.requests = job.requests
          /\ i.ran = job.ran /\ i.todo = job.todo /\ i.taken = job.taken /\ i.updates = Tail(job.updates)
      BY <2>6, <3>1 DEF Job
    <3>3. a \in Runtime /\ n + 1 \in Token /\ job' = h
      BY <2>1, <2>6, <2>10, <3>1
    <3>4. c \notin job.ran /\ Card(n, job.runtime[c], c, job.graph, job.tx, job.ran)
      BY <2>2, <2>4, <2>10 DEF Runs, Cards
    <3>5. Ready(n, job.runtime[c], c, job.graph.st[c].execs) /\ r = job.runtime[c]
      <4>1. Ready(n, job.runtime[c], c, job.graph.st[c].execs)
        BY <2>10, <3>4 DEF Card
      <4> QED BY <4>1 DEF Ready, Wiped, Execs
    <3>6. n \in Token /\ r \in Runtime /\ u.rqt <= n /\ (u.answer = "failure" => u.rqt = n)
      <4>1. u.rqt <= n /\ (u.answer = "failure" => u.rqt = n)
        BY <2>5, <3>4 DEF Within, Timely, Failed, c, u
      <4> QED BY <1>7, <2>4, <3>5, <4>1
    <3> HIDE DEF i, r, n
    <3>7. Ready(n, a, c, job.graph.st[c].execs) /\ Bounded(n, a, c)
      BY <2>4, <3>4, <3>5, <3>6, AnsweredBounds DEF Card
    <3>8. Reported(job.tx, c) => Settled(n, a, c)
      BY <2>4, <3>4, <3>5, <3>6, AnsweredSettled DEF Card
    <3>9. ~DoneIn(job.graph, c)
      BY <2>10 DEF DoneIn, RunningIn
    <3> HIDE DEF a
    <3>10. \A d \in Tasks : d # c => Card(clock[d], i.runtime[d], d, job.graph, i.tx, job.ran)
      BY <2>2, <3>2 DEF Runs, Cards
    <3>11. Cards(clock, job.graph, h.runtime, h.tx, job.ran) /\ Asked(clock, h.requests)
      <4>1. /\ Ready(clock[c], a, c, job.graph.st[c].execs) /\ Bounded(clock[c], a, c)
            /\ (Reported(i.tx, c) => Settled(clock[c], a, c)) /\ Asked(clock, i.requests)
        BY <1>6, <3>2, <3>7, <3>8 DEF n
      <4> QED BY <1>7, <2>4, <3>2, <3>3, <3>9, <3>10, <4>1, HandleCards
    <3>12. /\ h.graph = job.graph /\ h.ran = job.ran /\ h.todo = job.todo /\ h.taken = job.taken
           /\ h.updates = Tail(job.updates)
      BY <3>2 DEF Handle, Job
    <3> HIDE DEF h
    <3> QED BY <2>8, <3>3, <3>11, <3>12
  <2> QED BY <2>9, <2>10
<1>14. CASE EndPass(p)
  <2>1. /\ pc[p] = "run" /\ pc'[p] = (IF job.tx = <<>> THEN "runtime" ELSE "apply")
        /\ UNCHANGED <<journal, snap, fetches, clock>> /\ job.updates = <<>>
        /\ job'.graph = Started(job.graph, job.ran) /\ job'.ran = {} /\ job'.batch = job.tx /\ job'.tx = <<>>
        /\ job'.runtime = job.runtime /\ job'.requests = job.requests /\ job'.taken = job.taken /\ job'.updates = job.updates
    BY <1>7, <1>14 DEF EndPass, TypeOK, Job, Goto
  <2>2. Runs /\ job.taken = Len(journal) /\ Closed(job.tx)
    BY <1>6, <2>1 DEF Drained, Inner, Counted
  <2>3. Cards(clock, Started(job.graph, job.ran), job.runtime, job.tx, {})
    BY <1>7, <2>2, CardsStarted DEF Runs
  <2>4. Sent(clock)'
    BY <1>6, <2>1 DEF Sent
  <2>5. CASE job.tx = <<>>
    <3>1. Cards(clock, job.graph, job.runtime, <<>>, {})'
      BY <2>1, <2>3, <2>5
    <3>2. Unread(job.taken)'
      BY <1>7, <2>1, <2>2 DEF Unread
    <3>3. Drained(p)' /\ pc'[p] = "runtime"
      BY <2>1, <2>5, <3>1, <3>2 DEF Drained, Inner
    <3> QED BY <1>4, <2>4, <3>3 DEF Writing
  <2>6. CASE job.tx # <<>>
    <3>1. Cards(clock, job.graph, job.runtime, job.batch, {})'
      BY <2>1, <2>3
    <3>2. \A i \in 1..Len(job'.batch) : Within(clock', job'.batch[i]) /\ Timely(clock', job'.batch[i])
      BY <2>1, <2>2 DEF Closed, Within, Timely, Failed, Answer
    <3>3. Updates({})'
      BY <2>1, EmptySeq DEF Updates
    <3>4. Applies'
      BY <2>1, <3>1, <3>2, <3>3 DEF Applies
    <3> QED BY <1>8, <2>1, <2>2, <2>4, <2>6, <3>4 DEF Inner
  <2> QED BY <2>5, <2>6
<1>15. CASE CommitRuntime(p) \/ CommitGraph(p)
  <2>1. /\ UNCHANGED <<journal, fetches, clock, job>>
        /\ \/ pc[p] = "runtime" /\ pc'[p] = "graph" /\ snap'.runtime = job.runtime
           \/ pc[p] = "graph" /\ pc'[p] = "cursor" /\ snap'.runtime = snap.runtime /\ snap'.graph = job.graph
    BY <1>7, <1>15 DEF CommitRuntime, CommitGraph, KeyAfter, Goto, TypeOK, Snapshot
  <2>2. Sent(clock)'
    BY <1>6, <2>1 DEF Sent
  <2>3. Unread(job.taken)'
    <3>1. Unread(job.taken)
      BY <1>6, <2>1 DEF Drained, Writing
    <3> QED BY <2>1, <3>1 DEF Unread
  <2>4. CASE pc[p] = "runtime" /\ pc'[p] = "graph" /\ snap'.runtime = job.runtime
    <3>1. Cards(clock, job.graph, job.runtime, <<>>, {})
      BY <1>6, <2>4 DEF Drained
    <3>2. Cards(clock, job.graph, snap.runtime, <<>>, {})'
      BY <2>1, <2>4, <3>1
    <3>3. Drained(p)'
      BY <2>3, <2>4, <3>2 DEF Drained, Inner
    <3> QED BY <1>4, <2>2, <2>4, <3>3 DEF Writing
  <2>5. CASE pc[p] = "graph" /\ pc'[p] = "cursor" /\ snap'.runtime = snap.runtime /\ snap'.graph = job.graph
    <3>1. Cards(clock, job.graph, snap.runtime, <<>>, {})
      BY <1>6, <2>5 DEF Drained
    <3>2. Cards(clock, snap.graph, snap.runtime, <<>>, {})'
      BY <2>1, <2>5, <3>1
    <3>3. Drained(p)'
      BY <2>3, <2>5 DEF Drained, Inner
    <3> QED BY <1>4, <2>2, <2>5, <3>2, <3>3 DEF Writing
  <2> QED BY <2>1, <2>4, <2>5
<1>16. CASE CommitCursor(p)
  <2>1. /\ UNCHANGED <<fetches, clock, job>> /\ pc[p] = "cursor" /\ pc'[p] = "outputs"
        /\ snap'.runtime = snap.runtime /\ snap'.graph = snap.graph
        /\ journal' = SubSeq(journal, job.taken + 1, Len(journal)) /\ job.taken <= Len(journal)
    BY <1>6, <1>7, <1>16 DEF CommitCursor, KeyAfter, Goto, TypeOK, Snapshot, Counted, Writing
  <2>2. Unread(job.taken) /\ Cards(clock, snap.graph, snap.runtime, <<>>, {})
    BY <1>5, <1>6, <2>1 DEF Drained, Inner, Writing
  <2>3. /\ Len(journal') = Len(journal) - job.taken
        /\ \A i \in 1..Len(journal') : journal'[i] = journal[job.taken + i] /\ job.taken + i \in (job.taken + 1)..Len(journal)
                                       /\ job.taken + i \in 1..Len(journal)
    <3> DEFINE q == SubSeq(journal, job.taken + 1, Len(journal))
    <3>1. Len(q) = Len(journal) - job.taken /\ \A i \in 1..(Len(journal) - job.taken) : q[i] = journal[job.taken + i]
      BY <1>7, <2>1, EntriesAfter
    <3>2. \A i \in 1..(Len(journal) - job.taken) :
            job.taken + i \in (job.taken + 1)..Len(journal) /\ job.taken + i \in 1..Len(journal)
      BY <1>7, <2>1, SMTT(20)
    <3> HIDE DEF q
    <3> QED BY <2>1, <3>1, <3>2 DEF q
  <2>4. Sent(clock)'
    BY <1>6, <2>1, <2>3 DEF Sent, Within, Answer
  <2>5. Unread(0)'
    <3>1. \A i \in 1..Len(journal') : Timely(clock', journal'[i])
      BY <2>1, <2>2, <2>3 DEF Unread
    <3> QED BY <3>1 DEF Unread
  <2>6. Cards(clock, snap.graph, snap.runtime, <<>>, {})'
    BY <2>1, <2>2
  <2>7. Drained(p)'
    BY <2>1 DEF Drained, Inner, Writing
  <2> QED BY <1>4, <2>4, <2>5, <2>6, <2>7
<1>17. CASE FlushOutputs(p) \/ FlushSources(p) \/ DispatchRequest(p) \/ Release(p)
  <2>1. /\ UNCHANGED <<journal, snap, clock>> /\ pc[p] \in {"outputs", "sources", "dispatch"}
        /\ pc'[p] \notin Inner \cup Writing
    BY <1>7, <1>17 DEF FlushOutputs, FlushSources, DispatchRequest, Release, Goto, Inner, Writing
  <2>2. Unread(0) /\ Cards(clock, snap.graph, snap.runtime, <<>>, {})
    BY <1>5, <2>1 DEF Inner, Writing
  <2>3. Unread(0)' /\ Cards(clock, snap.graph, snap.runtime, <<>>, {})' /\ Drained(p)'
    BY <2>1, <2>2 DEF Unread, Drained, Inner, Writing
  <2>4. Fetching(clock, fetches') /\ Asked(clock, job'.requests)
    <3>1. CASE FlushOutputs(p) \/ FlushSources(p)
      BY <1>6, <3>1 DEF FlushOutputs, FlushSources
    <3>2. CASE Release(p)
      BY <1>6, <3>2, EmptySeq DEF Release, NoJob, Asked
    <3>3. CASE DispatchRequest(p)
      <4> DEFINE q == Head(job.requests)
                 f == [s \in Source |-> IF s \in Sources(q.card) THEN Append(fetches[q.card][s], q.rqt) ELSE fetches[q.card][s]]
      <4>1. job.requests # <<>> /\ q \in Request
        BY <1>7, <3>3, HeadTailProperties DEF DispatchRequest
      <4>2. /\ 1 \in 1..Len(job.requests) /\ q = job.requests[1]
            /\ \A i \in 1..Len(Tail(job.requests)) :
                 i + 1 \in 1..Len(job.requests) /\ Tail(job.requests)[i] = job.requests[i + 1]
        BY <1>7, <4>1, TailEntries
      <4>3. q.rqt <= clock[q.card]
        BY <1>6, <4>2 DEF Asked
      <4>4. fetches' = [fetches EXCEPT ![q.card] = f] /\ job'.requests = Tail(job.requests)
        BY <3>3, <4>1 DEF DispatchRequest, TypeOK, Request, Job
      <4>5. Asked(clock, job'.requests)
        BY <1>6, <4>2, <4>4 DEF Asked
      <4>6. ASSUME NEW s \in Source, NEW i \in 1..Len(f[s]) PROVE f[s][i] <= clock[q.card]
        <5>1. fetches[q.card][s] \in Seq(Token) /\ q.rqt \in Token
          BY <4>1 DEF Request, TypeOK
        <5>2. \A n \in 1..Len(fetches[q.card][s]) : fetches[q.card][s][n] <= clock[q.card]
          BY <1>6, <4>1 DEF Fetching, Request
        <5>3. f[s] = fetches[q.card][s] \/ f[s] = Append(fetches[q.card][s], q.rqt)
          OBVIOUS
        <5> HIDE DEF f, q
        <5> QED BY <4>3, <4>6, <5>1, <5>2, <5>3, AppendEntries
      <4> HIDE DEF f, q
      <4>7. Fetching(clock, fetches')
        BY <1>6, <4>1, <4>4, <4>6 DEF Fetching, TypeOK, Request
      <4> QED BY <4>5, <4>7
    <3> QED BY <1>17, <3>1, <3>2, <3>3
  <2>5. Sent(clock)'
    <3>1. Fetching(clock', fetches') /\ Asked(clock', job'.requests) /\ \A i \in 1..Len(journal') : Within(clock', journal'[i])
      BY <1>6, <2>1, <2>4
    <3> QED BY <3>1 DEF Sent
  <2> QED BY <1>4, <2>1, <2>3, <2>5
<1> QED BY <1>9, <1>10, <1>11, <1>12, <1>13, <1>14, <1>15, <1>16, <1>17 DEF Drain

LEMMA WithoutEntries ==
  ASSUME NEW S, NEW q \in Seq(S), NEW i \in DOMAIN q
  PROVE  \A n \in 1..Len(Without(q, i)) : \E m \in 1..Len(q) : Without(q, i)[n] = q[m]
<1>1. i \in 1..Len(q) /\ Len(q) \in Nat /\ \A j \in 1..Len(q) : q[j] \in S
  BY LenProperties, ElementOfSeq
<1> DEFINE a == SubSeq(q, 1, i - 1)
           b == SubSeq(q, i + 1, Len(q))
<1>2. /\ a \in Seq(S) /\ Len(a) = i - 1 /\ \A n \in 1..(i - 1) : a[n] = q[n]
      /\ b \in Seq(S) /\ Len(b) = Len(q) - i /\ \A n \in 1..(Len(q) - i) : b[n] = q[i + n]
  <2>1. /\ \A n \in 1..(i - 1) : q[n] \in S
        /\ \A n \in (i + 1)..Len(q) : q[n] \in S
    BY <1>1
  <2>2. a \in Seq(S) /\ b \in Seq(S)
    BY <1>1, <2>1, SubSeqProperties
  <2>3. Len(a) = i - 1 /\ \A n \in 1..(i - 1) : a[n] = q[n]
    BY <1>1
  <2>4. Len(b) = Len(q) - i /\ \A n \in 1..(Len(q) - i) : b[n] = q[i + n]
    BY <1>1
  <2> QED BY <2>2, <2>3, <2>4
<1> HIDE DEF a, b
<1>3. Len(a \o b) = Len(a) + Len(b) /\ \A n \in 1..(Len(a) + Len(b)) : (a \o b)[n] = IF n <= Len(a) THEN a[n] ELSE b[n - Len(a)]
  BY <1>2, ConcatProperties
<1>4. ASSUME NEW n \in 1..Len(a \o b) PROVE \E m \in 1..Len(q) : (a \o b)[n] = q[m]
  <2>1. CASE n <= i - 1
    <3>1. n \in 1..(i - 1) /\ n \in 1..Len(q) /\ (a \o b)[n] = a[n]
      BY <1>1, <1>2, <1>3, <2>1
    <3> QED BY <1>2, <3>1
  <2>2. CASE ~(n <= i - 1)
    <3>1. n - (i - 1) \in 1..(Len(q) - i) /\ i + (n - (i - 1)) \in 1..Len(q) /\ (a \o b)[n] = b[n - (i - 1)]
        <4>1. i \in Nat /\ Len(a) = i - 1 /\ Len(b) = Len(q) - i /\ Len(a \o b) = Len(q) - 1
        BY <1>1, <1>2, <1>3
      <4>2. n \in Nat /\ i <= n /\ n <= Len(q) - 1
        BY <1>1, <2>2, <4>1
      <4>3. (a \o b)[n] = b[n - (i - 1)]
        BY <1>1, <1>3, <4>1, <4>2
      <4> QED BY <1>1, <4>1, <4>2, <4>3
    <3> QED BY <1>2, <3>1
  <2> QED BY <2>1, <2>2
<1> QED BY <1>4 DEF Without, a, b

(* What users and workers send.                                            *)
LEMMA OutsideSends ==
  ASSUME TypeOK, Sent(clock), Workers \/ Users, FailuresAreTimely
  PROVE  /\ ~Draining /\ UNCHANGED <<snap, pc, job, clock, crashes>> /\ Fetching(clock, fetches')
         /\ \E x \in JournalEntry : journal' = Append(journal, x) /\ Within(clock, x) /\ Timely(clock, x)
<1>1. Fetching(clock, fetches)
  BY DEF Sent
<1>2. ASSUME NEW c \in Tasks, NEW t \in {"restart", "failed"}
      PROVE  LET x == Plain(Ev(t, c)) IN x \in JournalEntry /\ Within(clock, x) /\ Timely(clock, x)
  <2>1. Plain(Ev(t, c)) \in JournalEntry /\ Plain(Ev(t, c)).event = Ev(t, c)
    BY EvType, PlainType
  <2> QED BY <2>1 DEF Ev, Within, Timely, Failed, Answer
<1>3. CASE Users
  <2>1. PICK c \in Targets : Retrigger(c) \/ TaskFailed(c)
    BY <1>3 DEF Users
  <2>2. c \in Tasks
    BY BoardAssumption
  <2>3. PICK t \in {"restart", "failed"}, name \in {"retrigger", "taskFailed"} : Call(name, Ev(t, c))
    BY <2>1 DEF Retrigger, TaskFailed
  <2>4. ~Draining /\ UNCHANGED <<snap, pc, job, clock, crashes, fetches>> /\ journal' = Append(journal, Plain(Ev(t, c)))
    BY <2>3 DEF Call, Notify
  <2> QED BY <1>1, <1>2, <2>2, <2>4
<1>4. CASE Workers
  <2>1. PICK c \in Tasks : \E s \in Sources(c) : \E i \in DOMAIN fetches[c][s] :
          Fetched(c, s, i) \/ DispatchRejected(c, s, i) \/ \E a \in {"missing", "failure"} : FetchFailed(c, s, i, a)
    BY <1>4 DEF Workers
  <2>2. PICK s \in Sources(c) : \E i \in DOMAIN fetches[c][s] :
          Fetched(c, s, i) \/ DispatchRejected(c, s, i) \/ \E a \in {"missing", "failure"} : FetchFailed(c, s, i, a)
    BY <2>1
  <2>3. PICK i \in DOMAIN fetches[c][s] :
          Fetched(c, s, i) \/ DispatchRejected(c, s, i) \/ \E a \in {"missing", "failure"} : FetchFailed(c, s, i, a)
    BY <2>2
  <2>4. s \in Source /\ fetches[c][s] \in Seq(Token)
    <3>1. s \in Source
      BY SourceAssumption DEF Sources, Source
    <3> QED BY <3>1 DEF TypeOK
  <2>5. fetches[c][s][i] <= clock[c]
    <3>1. i \in 1..Len(fetches[c][s])
      BY <2>4, LenProperties
    <3> QED BY <1>1, <2>4, <3>1 DEF Fetching
  <2>6. ASSUME NEW a \in Answers, a = "failure" => fetches[c][s][i] = clock[c]
        PROVE  LET x == Progress(c, s, i, a) IN x \in JournalEntry /\ Within(clock, x) /\ Timely(clock, x)
    <3>1. Progress(c, s, i, a) \in JournalEntry
      BY <2>4, ProgressType
    <3> QED BY <2>5, <2>6, <3>1 DEF Progress, Ev, Within, Timely, Failed, Answer
  <2>7. Fetching(clock, fetches')
    <3> DEFINE w == Without(fetches[c][s], i)
    <3>1. fetches' = [fetches EXCEPT ![c] = [fetches[c] EXCEPT ![s] = w]]
      BY <2>3 DEF Fetched, DispatchRejected, FetchFailed, Drop, TypeOK
    <3>2. \A n \in 1..Len(w) : \E m \in 1..Len(fetches[c][s]) : w[n] = fetches[c][s][m]
      BY <2>4, WithoutEntries
    <3> HIDE DEF w
    <3>3. \A n \in 1..Len(w) : w[n] <= clock[c]
      BY <1>1, <2>4, <3>2 DEF Fetching
    <3>4. ASSUME NEW d \in Tasks, NEW x \in Source, NEW n \in 1..Len(fetches'[d][x]) PROVE fetches'[d][x][n] <= clock[d]
      <4>1. fetches'[d][x] = IF d = c /\ x = s THEN w ELSE fetches[d][x]
        BY <2>4, <3>1 DEF TypeOK
      <4> QED BY <1>1, <3>3, <3>4, <4>1 DEF Fetching
    <3> QED BY <3>4 DEF Fetching
  <2>8. ~Draining /\ UNCHANGED <<snap, pc, job, clock, crashes>>
    BY <2>3 DEF Fetched, DispatchRejected, FetchFailed, bounds
  <2>9. CASE Fetched(c, s, i)
    <3>1. journal' = Append(journal, Progress(c, s, i, "data"))
      BY <2>9 DEF Fetched, Notify
    <3>2. "data" \in Answers /\ "data" # "failure"
      BY DEF Answers
    <3> QED BY <2>6, <2>7, <2>8, <3>1, <3>2
  <2>10. CASE DispatchRejected(c, s, i)
    <3>1. journal' = Append(journal, Plain(Ev("failed", c)))
      BY <2>10 DEF DispatchRejected
    <3> QED BY <1>2, <2>7, <2>8, <3>1
  <2>11. ASSUME NEW a \in {"missing", "failure"}, FetchFailed(c, s, i, a)
         PROVE  \E x \in JournalEntry : journal' = Append(journal, x) /\ Within(clock, x) /\ Timely(clock, x)
    <3>1. journal' = Append(journal, Progress(c, s, i, a))
      BY <2>11 DEF FetchFailed, Notify
    <3>2. a \in Answers /\ (a = "failure" => fetches[c][s][i] = clock[c])
      BY <2>11 DEF Answers, FailuresAreTimely
    <3> QED BY <2>6, <3>1, <3>2
  <2> QED BY <2>3, <2>7, <2>8, <2>9, <2>10, <2>11
<1> QED BY <1>3, <1>4

LEMMA SettleStep ==
  ASSUME TypeOK, DrainInv, crashes = 0 => SettleInv, [Next]_vars, [FailuresAreTimely]_vars
  PROVE  crashes' = 0 => SettleInv'
<1>1. CASE UNCHANGED <<journal, snap, fetches, pc, job, clock, crashes>>
  <2>1. ASSUME SettleInv PROVE SettleInv'
    <3>1. Sent(clock)'
      BY <1>1, <2>1 DEF SettleInv, Sent
    <3>2. ASSUME NEW p \in Procs PROVE Drained(p)'
      <4>1. Drained(p)
        BY <2>1 DEF SettleInv
      <4>2. (Unread(job.taken) => Unread(job.taken)') /\ (Applies => Applies') /\ (Runs => Runs')
        BY <1>1 DEF Unread, Applies, Runs, Updates
      <4> QED BY <1>1, <4>1, <4>2 DEF Drained
    <3>3. (Unread(0) => Unread(0)')
          /\ (Cards(clock, snap.graph, snap.runtime, <<>>, {}) => Cards(clock, snap.graph, snap.runtime, <<>>, {})')
      BY <1>1 DEF Unread
    <3> QED BY <1>1, <2>1, <3>1, <3>2, <3>3 DEF SettleInv
  <2> QED BY <1>1, <2>1
<1>2. CASE (Workers \/ Users) /\ FailuresAreTimely
  <2> SUFFICES ASSUME crashes' = 0 PROVE SettleInv'
    OBVIOUS
  <2>0. Sent(clock) /\ SettleInv
    <3>1. crashes' = crashes
      BY <1>2 DEF Workers, Users, Fetched, FetchFailed, DispatchRejected, Retrigger, TaskFailed, Call, bounds
    <3> QED BY <3>1 DEF SettleInv
  <2>1. /\ ~Draining /\ UNCHANGED <<snap, pc, job, clock, crashes>> /\ Fetching(clock, fetches')
        /\ \E x \in JournalEntry : journal' = Append(journal, x) /\ Within(clock, x) /\ Timely(clock, x)
    BY <1>2, <2>0, OutsideSends
  <2>2. PICK x \in JournalEntry : journal' = Append(journal, x) /\ Within(clock, x) /\ Timely(clock, x)
    BY <2>1
  <2>3. /\ Len(journal) \in Nat /\ Len(journal') = Len(journal) + 1
        /\ \A i \in 1..Len(journal') :
             (i \in 1..Len(journal) /\ journal'[i] = journal[i]) \/ (i = Len(journal) + 1 /\ journal'[i] = x)
    BY <2>2, AppendEntries DEF TypeOK
  <2>4. Sent(clock)'
    <3>1. \A i \in 1..Len(journal') : Within(clock, journal'[i])
      BY <2>0, <2>2, <2>3 DEF Sent
    <3> QED BY <2>0, <2>1, <3>1 DEF Sent
  <2>5. ASSUME NEW n \in Nat, Unread(n) PROVE Unread(n)'
    <3>1. ASSUME NEW i \in (n + 1)..Len(journal') PROVE Timely(clock, journal'[i])
      <4>1. i \in 1..Len(journal')
        BY <2>3
      <4>2. CASE i \in 1..Len(journal) /\ journal'[i] = journal[i]
        <5>1. i \in (n + 1)..Len(journal)
          BY <2>3, <4>2
        <5> QED BY <2>5, <4>2, <5>1 DEF Unread
      <4> QED BY <2>2, <2>3, <4>1, <4>2
    <3> QED BY <2>1, <3>1 DEF Unread
  <2>6. ASSUME NEW p \in Procs PROVE Drained(p)'
    <3>1. Drained(p) /\ pc[p] \notin Inner /\ job.taken \in Nat
      BY <2>0, <2>1 DEF SettleInv, Draining, TypeOK, Job
    <3>2. Unread(job.taken) => Unread(job.taken)'
      BY <2>1, <2>5, <3>1
    <3> QED BY <2>1, <3>1, <3>2 DEF Drained, Inner
  <2>7. (Unread(0) => Unread(0)')
        /\ (Cards(clock, snap.graph, snap.runtime, <<>>, {}) => Cards(clock, snap.graph, snap.runtime, <<>>, {})')
    BY <2>1, <2>5
  <2> QED BY <2>0, <2>1, <2>4, <2>6, <2>7 DEF SettleInv
<1>3. ASSUME NEW p \in Procs, Lease(p) \/ ClearWakeups(p) \/ TryAcquire(p) \/ Continue(p)
      PROVE  crashes' = 0 => SettleInv'
  <2>1. UNCHANGED <<journal, snap, fetches, job, clock, crashes>>
    BY <1>3 DEF Lease, ClearWakeups, TryAcquire, Continue, bounds
  <2>2. /\ pc[p] \notin Inner \cup Writing /\ pc'[p] \notin Inner \cup Writing
        /\ \A q \in Procs : q # p => pc'[q] = pc[q]
    BY <1>3 DEF Lease, ClearWakeups, TryAcquire, Continue, Goto, TypeOK, Inner, Writing
  <2>3. ASSUME SettleInv PROVE SettleInv'
    <3>1. Sent(clock)'
      BY <2>1, <2>3 DEF SettleInv, Sent
    <3>2. (Unread(job.taken) => Unread(job.taken)') /\ (Applies => Applies') /\ (Runs => Runs')
      BY <2>1 DEF Unread, Applies, Runs, Updates
    <3>3. ASSUME NEW q \in Procs PROVE Drained(q)'
      <4>1. CASE q = p
        BY <2>2, <4>1 DEF Drained, Inner, Writing
      <4>2. CASE q # p
        <5>1. Drained(q) /\ pc'[q] = pc[q]
          BY <2>2, <2>3, <4>2 DEF SettleInv
        <5> QED BY <2>1, <3>2, <5>1 DEF Drained
      <4> QED BY <4>1, <4>2
    <3>4. (Unread(0) => Unread(0)')
          /\ (Cards(clock, snap.graph, snap.runtime, <<>>, {}) => Cards(clock, snap.graph, snap.runtime, <<>>, {})')
      BY <2>1 DEF Unread
    <3>5. /\ (\A q \in Procs : pc'[q] \notin Inner \cup Writing) => \A q \in Procs : pc[q] \notin Inner \cup Writing
          /\ (\A q \in Procs : pc'[q] \notin Inner \cup {"runtime", "graph"})
               => \A q \in Procs : pc[q] \notin Inner \cup {"runtime", "graph"}
      BY <2>2 DEF Inner, Writing
    <3> QED BY <2>3, <3>1, <3>3, <3>4, <3>5 DEF SettleInv
  <2> QED BY <2>1, <2>3
<1>4. ASSUME NEW p \in Procs, Drain(p) PROVE crashes' = 0 => SettleInv'
  <2>1. crashes' = crashes
    BY <1>4 DEF Drain, Load, ApplyOne, Schedule, RunCard, RouteProgress, EndPass, CommitRuntime, CommitGraph,
         CommitCursor, FlushOutputs, FlushSources, DispatchRequest, Release, bounds
  <2> QED BY <1>4, <2>1, SettleDrain
<1>5. ASSUME NEW p \in Procs, Crash(p) PROVE crashes' # 0
  BY <1>5 DEF Crash, TypeOK
<1>6. CASE UNCHANGED vars
  BY <1>1, <1>6 DEF vars, bounds
<1>7. CASE Next /\ FailuresAreTimely
  BY <1>2, <1>3, <1>4, <1>5, <1>7, Zenon DEF Next, Serve
<1> QED BY <1>6, <1>7

LEMMA SettleInit == Init => SettleInv
<1> SUFFICES ASSUME Init PROVE SettleInv
  OBVIOUS
<1>1. TypeOK
  BY InitType
<1>2. ASSUME NEW i \in 1..Len(journal) PROVE journal[i].event.type = "upsert"
  <2>1. i \in DOMAIN Added
    <3>1. DOMAIN journal = DOMAIN Added /\ journal \in Seq(JournalEntry)
      BY <1>1 DEF Init, TypeOK
    <3> QED BY <3>1, LenProperties
  <2> QED BY <2>1 DEF Init, Plain, Ev
<1>3. \A i \in 1..Len(journal) : Within(clock, journal[i]) /\ Timely(clock, journal[i])
  BY <1>2 DEF Within, Timely, Failed, Answer
<1>4. Fetching(clock, fetches) /\ Asked(clock, job.requests)
  BY EmptySeq DEF Init, NoJob, Fetching, Asked
<1>5. Cards(clock, snap.graph, snap.runtime, <<>>, {})
  <2>1. ASSUME NEW c \in Tasks PROVE Card(clock[c], snap.runtime[c], c, snap.graph, <<>>, {})
    <3>1. ~DoneIn(snap.graph, c) /\ ~RunningIn(snap.graph, c) /\ ~Reported(<<>>, c)
      BY EmptySeq DEF Init, EmptyGraph, DoneIn, RunningIn, FreshStore, Reported
    <3>2. Bounded(clock[c], snap.runtime[c], c)
      BY SourcesOf DEF Init, NoJob, NoRuntime, NoSources, NoEntry, NoToken, Bounded
    <3> QED BY <3>1, <3>2 DEF Card
  <2> QED BY <2>1 DEF Cards
<1>6. \A p \in Procs : Drained(p)
  BY DEF Init, Drained, Inner, Writing
<1>7. Unread(0)
  BY <1>3 DEF Unread
<1> QED BY <1>3, <1>4, <1>5, <1>6, <1>7 DEF SettleInv, Sent

(* Whenever no drain is under way, the graph and the runtime state of the  *)
(* snapshot agree: a completed card has an answer to the last request of   *)
(* each of its sources and nothing in flight, wherever answers and         *)
(* retriggers fall, as long as no process has died and no failure is       *)
(* reported for a request older than the last run of its card              *)
(* (board-live-cards-lib.ts, createCardHandlerFn; core-logic.md).          *)
THEOREM CompletionsAreSettled ==
  Spec /\ [][FailuresAreTimely]_vars => [](crashes = 0 => CompletedIsSettled)
<1>1. Init => (crashes = 0 => SettleInv)
  BY SettleInit
<1>2. (crashes = 0 => SettleInv) => (crashes = 0 => CompletedIsSettled)
  <2> SUFFICES ASSUME SettleInv, LockFree PROVE CompletedIsSettled
    BY DEF CompletedIsSettled
  <2>1. \A p \in Procs : pc[p] \notin Inner \cup {"runtime", "graph"}
    BY DEF LockFree, Holding, Writing
  <2>2. Cards(clock, snap.graph, snap.runtime, <<>>, {})
    BY <2>1 DEF SettleInv
  <2>3. ASSUME NEW c \in Tasks, Completed(c) PROVE Settled(clock[c], snap.runtime[c], c)
    BY <2>2, <2>3 DEF Cards, Card, Completed, DoneIn
  <2> QED BY <2>3 DEF CompletedIsSettled, Settled
<1>3. TypeOK /\ DrainInv /\ (crashes = 0 => SettleInv) /\ [Next]_vars /\ [FailuresAreTimely]_vars
        => (crashes = 0 => SettleInv)'
  BY SettleStep, Zenon
<1> QED BY <1>1, <1>2, <1>3, BoardTypeCorrect, DrainInvariant, PTL DEF Spec

----------------------------------------------------------------------------
(* Completed cards are current.                                            *)

(* What c makes of what its sources have stored and of its inputs.         *)
Value(c, src, i) == LET d == Compute(c, src[c], i) IN IF d \in Data THEN d ELSE NoData

Feeds(p, c) == Provides[p] \cap Requires[c] # {}

(* The boards the theorem is about.  A card with requires has no sources   *)
(* and runs whenever they change; what reads a card that users retrigger   *)
(* reads nothing else, and is not retriggered itself.                      *)
Layered ==
  /\ \A c \in Tasks : Requires[c] # {} => /\ SourceCount[c] = 0 /\ Strategy[c] = "data-changed"
                                          /\ Cap[c] = NoLimit /\ Breaker[c] = NoLimit
  /\ \A t \in Targets, c \in Tasks : Feeds(t, c) => Requires[c] \subseteq Provides[t] /\ c \notin Targets

(* A card without the data that its hash speaks of has been retriggered.   *)
Wired(g) ==
  /\ g.req = Requires /\ g.prov = Provides
  /\ \A t \in Tasks :
       /\ DoneIn(g, t) => g.st[t].data = g.st[t].hash
       /\ g.st[t].data # g.st[t].hash => t \in Targets /\ g.st[t].data = NoData
       /\ g.st[t].hash # NoData => Has(g, t) /\ Provides[t] \subseteq g.out

Current(g, c) == g.st[c].consumed = StartHashes(g, c)

Awaits(g, c) == \E p \in Tasks : Feeds(p, c) /\ g.st[p].data # g.st[p].hash

(* What g and the reports in q say of a card with requires, given that src *)
(* is stored and that the cards in ran have just run: it reports as it     *)
(* runs, from the data whose hashes it will record as consumed.  While a   *)
(* card that it reads is retriggered, it rests.                            *)
Reader(c, g, src, q, ran) ==
  /\ g.st[c].status = "failed" => c \in Targets
  /\ RunningIn(g, c) \/ c \in ran => Reported(q, c)
  /\ DoneIn(g, c) \/ Reported(q, c) => Requires[c] \subseteq g.out
  /\ DoneIn(g, c) => g.st[c].data = Value(c, src, g.st[c].consumed)
  /\ \A i \in 1..Len(q) : Reports(q[i], c) =>
       IF c \in ran THEN q[i].event.data = Value(c, src, StartHashes(g, c))
       ELSE g.st[c].hasStart /\ q[i].event.data = Value(c, src, g.st[c].started)
  /\ \A k \in Tokens : g.st[c].consumed[k] # NoData \/ g.st[c].started[k] # NoData => StartHashes(g, c)[k] # NoData
  /\ Awaits(g, c) /\ Has(g, c) => DoneIn(g, c) /\ Current(g, c) /\ ~Reported(q, c) /\ c \notin ran

(* The same of a card without.                                             *)
Fetcher(c, g, src, q) ==
  /\ DoneIn(g, c) => g.st[c].data = Value(c, src, NoInputs)
  /\ \A i \in 1..Len(q) : Reports(q[i], c) => q[i].event.data = Value(c, src, NoInputs)

Fit(g, src, q, ran) ==
  /\ Wired(g)
  /\ \A i \in 1..Len(q) : ~q[i].event.routed
  /\ \A c \in Tasks : IF Requires[c] = {} THEN Fetcher(c, g, src, q) ELSE Reader(c, g, src, q, ran)

(* Nothing is left to be read.                                             *)
Quiet(g) ==
  \A c \in Tasks : Requires[c] # {} =>
    /\ DoneIn(g, c) => Current(g, c)
    /\ Has(g, c) /\ (\E t \in Targets : Feeds(t, c) /\ g.st[t].hash # NoData) => DoneIn(g, c)

Rests(g, src) == Fit(g, src, <<>>, {}) /\ Quiet(g)

(* What the journal brings.                                                *)
Sourced(x) == x.event.type = "progress" => x.update.source \in Sources(x.event.task)

Lawful(x) ==
  /\ Sourced(x) /\ ~x.event.routed
  /\ x.event.type \in {"upsert", "restart", "failed", "progress"}
  /\ x.event.type = "upsert" => x.event.tokens = Requires[x.event.task]
  /\ x.event.type = "restart" => x.event.task \in Targets
  /\ x.event.type = "failed" => x.event.task \in Targets \/ Requires[x.event.task] = {}

(* Cards are added before any has completed.                               *)
Adds(q)  == \E i \in 1..Len(q) : q[i].event.type = "upsert"
Blank(g) == \A t \in Tasks : g.st[t].hash = NoData

(* The first batch of a drain finds a graph in which nothing is left to be *)
(* read; the others are made of completions.                               *)
Drains(p) ==
  /\ pc[p] \in Inner => \A i \in 1..Len(job.updates) : Sourced(job.updates[i])
  /\ pc[p] \in Inner \cup Writing => \A i \in (job.taken + 1)..Len(journal) : journal[i].event.type # "upsert"
  /\ pc[p] = "apply" =>
       /\ Fit(job.graph, job.sources, job.batch, {})
       /\ \/ Closed(job.batch)
          \/ /\ \A i \in 1..Len(job.batch) : Lawful(job.batch[i])
             /\ Quiet(job.graph) /\ (Adds(job.batch) => Blank(job.graph))
  /\ pc[p] = "run" =>
       /\ Fit(job.graph, job.sources, job.tx, job.ran)
       /\ \A c \in Tasks : /\ c \in job.todo => Eligible(job.graph, c)
                           /\ Eligible(job.graph, c) => c \in job.todo \cup job.ran
                           /\ Requires[c] # {} => ~RunningIn(job.graph, c)
  /\ pc[p] \in {"runtime", "graph"} => Rests(job.graph, job.sources)
  /\ pc[p] \in {"cursor", "outputs", "sources"} => Rests(snap.graph, job.sources)

CurrentInv ==
  /\ \A i \in 1..Len(journal) : Lawful(journal[i])
  /\ \A p \in Procs : Drains(p)
  /\ (\A p \in Procs : pc[p] \notin Unpublished \cup {"sources"}) => Rests(snap.graph, content)
  /\ (\A p \in Procs : pc[p] \notin Inner \cup Writing) => (Adds(journal) => Blank(snap.graph))

(* What the events of a board do to the graph.                             *)
BoardEvents == {"upsert", "restart", "failed", "progress", "completed"}

(* What a transition of t leaves alone.                                    *)
LEMMA EventSpares ==
  ASSUME NEW g \in Graph, NEW e \in Event, e.type \in BoardEvents, NEW h, h = ApplyEvent(g, e)
  PROVE  /\ h \in Graph /\ h.prov = g.prov /\ g.out \subseteq h.out
         /\ \A u \in Tasks : u # e.task => h.st[u] = g.st[u] /\ h.rank[u] = g.rank[u] /\ h.req[u] = g.req[u]
         /\ \A u \in Tasks : Has(g, u) => h.rank[u] = g.rank[u]
         /\ e.type # "upsert" => h.rank = g.rank /\ h.req = g.req
         /\ e.type = "progress" => h = g
<1> DEFINE t == e.task
<1>0. t \in Tasks /\ e.tokens \in SUBSET Tokens
  BY DEF Event
<1>1. h \in Graph
  BY ApplyEventType
<1>2. CASE e.type = "upsert"
  <2>1. h = AddNode(g, t, e.tokens, g.prov[t])
    BY <1>2 DEF ApplyEvent
  <2> DEFINE n == IF Has(g, t) THEN g.rank[t] ELSE Cardinality(Nodes(g)) + 1
             s == IF Has(g, t) THEN g.st[t] ELSE FreshStore
  <2>2. AddNode(g, t, e.tokens, g.prov[t]) = [g EXCEPT !.rank[t] = n, !.req[t] = e.tokens, !.prov[t] = g.prov[t], !.st[t] = s]
    BY DEF AddNode, Graph
  <2>3. Has(g, t) => n = g.rank[t]
    OBVIOUS
  <2> HIDE DEF n, s
  <2>4. h.prov = g.prov /\ h.out = g.out
    BY <1>0, <2>1, <2>2 DEF Graph
  <2>5. \A u \in Tasks : u # t => h.st[u] = g.st[u] /\ h.rank[u] = g.rank[u] /\ h.req[u] = g.req[u]
    BY <2>1, <2>2 DEF Graph, Positions
  <2>6. h.rank[t] = n
    BY <1>0, <2>1, <2>2 DEF Graph, Positions
  <2> QED BY <1>1, <1>2, <2>3, <2>4, <2>5, <2>6
<1>3. CASE e.type # "upsert" /\ (e.type = "progress" \/ ~Has(g, t))
  <2>1. h = g
    BY <1>3 DEF ApplyEvent, BoardEvents
  <2> QED BY <1>1, <1>3, <2>1
<1>4. CASE e.type = "completed" /\ Has(g, t)
  BY <1>1, <1>4 DEF ApplyEvent, TaskCompletion, Graph
<1>5. CASE e.type = "restart" /\ Has(g, t)
  BY <1>1, <1>5 DEF ApplyEvent, TaskRestart, Graph
<1>6. CASE e.type = "failed" /\ Has(g, t)
  BY <1>1, <1>6 DEF ApplyEvent, TaskFailure, TaskRetry, TaskGivesUp, Graph
<1> QED BY <1>2, <1>3, <1>4, <1>5, <1>6 DEF BoardEvents

LEMMA CompletionEffect ==
  ASSUME NEW g \in Graph, NEW e \in Event, e.type = "completed", Has(g, e.task), ~e.routed, NEW h, h = ApplyEvent(g, e)
  PROVE  /\ h.st[e.task].status = "completed" /\ h.st[e.task].hash = e.data /\ h.st[e.task].data = e.data
         /\ h.st[e.task].consumed = ConsumedHashes(g, e.task)
         /\ h.st[e.task].started = g.st[e.task].started /\ h.st[e.task].hasStart = g.st[e.task].hasStart
         /\ h.out = g.out \cup g.prov[e.task]
<1> DEFINE t == e.task
           c == ConsumedHashes(g, t)
           n == g.st[t].execs + 1
           s == [g.st[t] EXCEPT !.status = "completed", !.execs = n, !.epoch = n,
                                !.hash = e.data, !.data = e.data, !.consumed = c]
<1>0. t \in Tasks
  BY DEF Event
<1>1. h = [g EXCEPT !.st[t] = s, !.out = g.out \cup g.prov[t]]
  BY <1>0 DEF ApplyEvent, TaskCompletion, Graph, Produced
<1>2. /\ s.status = "completed" /\ s.hash = e.data /\ s.data = e.data /\ s.consumed = c
      /\ s.started = g.st[t].started /\ s.hasStart = g.st[t].hasStart
  <2>1. g.st[t] \in Store
    BY <1>0 DEF Graph
  <2> HIDE DEF c, n
  <2> QED BY <2>1 DEF Store
<1> HIDE DEF s
<1> QED BY <1>0, <1>1, <1>2 DEF Graph

LEMMA FailureEffect ==
  ASSUME NEW g \in Graph, NEW e \in Event, e.type = "failed", Has(g, e.task), NEW h, h = ApplyEvent(g, e)
  PROVE  /\ h.st[e.task].status \in {"not-started", "failed"}
         /\ h.st[e.task].hash = g.st[e.task].hash /\ h.st[e.task].data = g.st[e.task].data
         /\ h.st[e.task].consumed = g.st[e.task].consumed /\ h.st[e.task].started = g.st[e.task].started
         /\ h.st[e.task].hasStart = g.st[e.task].hasStart
<1> DEFINE t == e.task
           n == g.st[t].execs + 1
           m == g.st[t].retry + 1
           s == [g.st[t] EXCEPT !.status = "failed", !.execs = n]
           r == [g.st[t] EXCEPT !.status = "not-started", !.retry = m]
<1>0. t \in Tasks /\ g.st[t] \in Store
  BY DEF Graph, Event
<1>1. /\ s.status = "failed" /\ s.hash = g.st[t].hash /\ s.data = g.st[t].data
      /\ s.consumed = g.st[t].consumed /\ s.started = g.st[t].started /\ s.hasStart = g.st[t].hasStart
      /\ r.status = "not-started" /\ r.hash = g.st[t].hash /\ r.data = g.st[t].data
      /\ r.consumed = g.st[t].consumed /\ r.started = g.st[t].started /\ r.hasStart = g.st[t].hasStart
  <2> HIDE DEF n, m
  <2> QED BY <1>0 DEF Store
<1>2. TaskGivesUp(g, t) =
        [g EXCEPT !.st[t] = s, !.out = g.out \cup OnFailure[t] \cup (IF Tripped(n, t) THEN OnBreak[t] ELSE {})]
  BY <1>0 DEF TaskGivesUp, Graph
<1>3. TaskRetry(g, t) = [g EXCEPT !.st[t] = r]
  BY <1>0 DEF TaskRetry, Graph
<1>4. h = TaskGivesUp(g, t) \/ h = TaskRetry(g, t)
  BY DEF ApplyEvent, TaskFailure
<1> HIDE DEF s, r
<1>5. TaskGivesUp(g, t).st[t] = s
  BY <1>0, <1>2 DEF Graph
<1>6. TaskRetry(g, t).st[t] = r
  BY <1>0, <1>3 DEF Graph
<1> QED BY <1>1, <1>4, <1>5, <1>6

LEMMA RestartEffect ==
  ASSUME NEW g \in Graph, NEW e \in Event, e.type = "restart", Has(g, e.task), NEW h, h = ApplyEvent(g, e)
  PROVE  /\ h.st[e.task].status = "not-started"
         /\ h.st[e.task].hash = g.st[e.task].hash /\ h.st[e.task].data = NoData
         /\ h.st[e.task].consumed = g.st[e.task].consumed /\ h.st[e.task].started = g.st[e.task].started
         /\ h.st[e.task].hasStart = g.st[e.task].hasStart
<1>1. e.task \in Tasks /\ g.st[e.task] \in Store
  BY DEF Graph, Event
<1> QED BY <1>1 DEF ApplyEvent, TaskRestart, Graph, Store

LEMMA AdditionEffect ==
  ASSUME NEW g \in Graph, NEW e \in Event, e.type = "upsert", NEW h, h = ApplyEvent(g, e)
  PROVE  /\ Has(h, e.task) /\ h.req[e.task] = e.tokens
         /\ h.st[e.task] = IF Has(g, e.task) THEN g.st[e.task] ELSE FreshStore
         /\ h.out = g.out
<1> DEFINE t == e.task
           n == IF Has(g, t) THEN g.rank[t] ELSE Cardinality(Nodes(g)) + 1
           s == IF Has(g, t) THEN g.st[t] ELSE FreshStore
<1>0. t \in Tasks
  BY DEF Event
<1>1. h = AddNode(g, t, e.tokens, g.prov[t])
  BY DEF ApplyEvent
<1>2. AddNode(g, t, e.tokens, g.prov[t]) = [g EXCEPT !.rank[t] = n, !.req[t] = e.tokens, !.prov[t] = g.prov[t], !.st[t] = s]
  BY DEF AddNode, Graph
<1>3. n # 0
  <2>1. Cardinality(Nodes(g)) \in Nat
    BY FS_CardinalityType, FS_Subset, TasksAssumption DEF Nodes
  <2> QED BY <2>1 DEF Has
<1> HIDE DEF n
<1>4. h.rank[t] = n /\ h.req[t] = e.tokens /\ h.st[t] = s /\ h.out = g.out
  BY <1>0, <1>1, <1>2 DEF Graph, Positions
<1> QED BY <1>3, <1>4 DEF Has

(* With one provider for each token, what a card has consumed and what it  *)
(* would read are the hash and the data of that provider.                  *)
LEMMA ProviderOf ==
  ASSUME OneProvider, NEW g \in Graph, g.req = Requires, g.prov = Provides,
         NEW c \in Tasks, NEW p \in Tasks, NEW k \in Tokens, Has(g, p), k \in Provides[p], k \in Requires[c]
  PROVE  /\ Providers(g, k) # {} /\ FirstProvider(g, k) = p
         /\ StartHashes(g, c)[k] = g.st[p].hash /\ ReadInputs(g, c)[k] = g.st[p].data
<1>1. p \in Providers(g, k)
  BY DEF Providers, Nodes
<1>2. FirstProvider(g, k) \in Providers(g, k) /\ LastProvider(g, k) \in Providers(g, k)
  BY <1>1, ExtremeProviders
<1>3. ASSUME NEW q \in Providers(g, k) PROVE q = p
  <2>1. q \in Tasks /\ k \in Provides[q]
    BY DEF Providers, Nodes
  <2> QED BY <2>1 DEF OneProvider
<1>4. FirstProvider(g, k) = p /\ LastProvider(g, k) = p
  BY <1>2, <1>3
<1> QED BY <1>1, <1>4 DEF StartHashes, ReadInputs

LEMMA NoProviderOf ==
  ASSUME NEW g \in Graph, g.req = Requires, NEW c \in Tasks, NEW k \in Tokens,
         k \notin Requires[c] \/ Providers(g, k) = {}
  PROVE  StartHashes(g, c)[k] = NoData /\ ReadInputs(g, c)[k] = NoData
BY DEF StartHashes, ReadInputs

(* A token has no provider, or one.                                        *)
LEMMA SomeProvider ==
  ASSUME NEW g \in Graph, g.prov = Provides, NEW k, Providers(g, k) # {}
  PROVE  \E p \in Tasks : Has(g, p) /\ k \in Provides[p]
BY DEF Providers, Nodes

(* A card that awaits a retriggered one reads nothing else.                *)
LEMMA AwaitsOne ==
  ASSUME OneProvider, Layered, NEW g \in Graph, Wired(g), NEW c \in Tasks, Requires[c] # {}, Awaits(g, c)
  PROVE  \E p \in Targets : /\ Feeds(p, c) /\ Requires[c] \subseteq Provides[p] /\ c \notin Targets
                            /\ g.st[p].data # g.st[p].hash /\ g.st[p].data = NoData
                            /\ Has(g, p) /\ Provides[p] \subseteq g.out
                            /\ \A u \in Tasks : Feeds(u, c) => u = p
<1>1. PICK p \in Tasks : Feeds(p, c) /\ g.st[p].data # g.st[p].hash
  BY DEF Awaits
<1>2. p \in Targets /\ g.st[p].data = NoData /\ g.st[p].hash # NoData
  BY <1>1 DEF Wired
<1>3. Has(g, p) /\ Provides[p] \subseteq g.out
  BY <1>2 DEF Wired
<1>4. Requires[c] \subseteq Provides[p] /\ c \notin Targets
  BY <1>1, <1>2 DEF Layered
<1>5. ASSUME NEW u \in Tasks, Feeds(u, c) PROVE u = p
  BY <1>4, <1>5 DEF Feeds, OneProvider
<1> QED BY <1>1, <1>2, <1>3, <1>4, <1>5

(* It is done and nothing that it requires has changed: it does not run.   *)
LEMMA AwaitingRests ==
  ASSUME OneProvider, Layered, NEW g \in Graph, Wired(g), NEW c \in Tasks, Requires[c] # {}, Awaits(g, c),
         DoneIn(g, c), Current(g, c)
  PROVE  ~Eligible(g, c)
<1>1. PICK p \in Targets : /\ Feeds(p, c) /\ Requires[c] \subseteq Provides[p]
                           /\ g.st[p].data # g.st[p].hash /\ g.st[p].data = NoData /\ Has(g, p)
  BY AwaitsOne
<1>2. p \in Tasks /\ g.req = Requires /\ g.prov = Provides /\ Strategy[c] = "data-changed"
  BY BoardAssumption DEF Wired, Layered
<1>3. ASSUME NEW k \in Requires[c] PROVE ~DataChanged(g, c, k)
  <2>1. k \in Tokens /\ k \in Provides[p]
    BY <1>1, BoardAssumption
  <2>2. FirstProvider(g, k) = p /\ StartHashes(g, c)[k] = g.st[p].hash
    BY <1>1, <1>2, <2>1, ProviderOf
  <2>3. g.st[p].hash = g.st[c].consumed[k]
    BY <2>2 DEF Current
  <2> QED BY <1>1, <2>2, <2>3 DEF DataChanged
<1>4. ~MayRefresh(g, c)
  BY <1>2, <1>3 DEF MayRefresh
<1> QED BY <1>4 DEF Eligible, DoneIn

(* A card that does not await has read what it records as consumed.        *)
LEMMA ReadsHashes ==
  ASSUME OneProvider, NEW g \in Graph, Wired(g), NEW c \in Tasks, ~Awaits(g, c)
  PROVE  ReadInputs(g, c) = StartHashes(g, c)
<1>1. g.req = Requires /\ g.prov = Provides
  BY DEF Wired
<1>2. ASSUME NEW k \in Tokens PROVE ReadInputs(g, c)[k] = StartHashes(g, c)[k]
  <2>1. CASE k \notin Requires[c] \/ Providers(g, k) = {}
    BY <1>1, <2>1, NoProviderOf
  <2>2. CASE k \in Requires[c] /\ Providers(g, k) # {}
    <3>1. PICK p \in Tasks : Has(g, p) /\ k \in Provides[p]
      BY <1>1, <2>2, SomeProvider
    <3>2. StartHashes(g, c)[k] = g.st[p].hash /\ ReadInputs(g, c)[k] = g.st[p].data
      BY <1>1, <2>2, <3>1, ProviderOf
    <3>3. g.st[p].data = g.st[p].hash
      BY <2>2, <3>1 DEF Awaits, Feeds
    <3> QED BY <3>2, <3>3
  <2> QED BY <2>1, <2>2
<1>3. ReadInputs(g, c) \in Inputs /\ StartHashes(g, c) \in Inputs
  BY ReadInputsType, StartHashesType
<1> QED BY <1>2, <1>3 DEF Inputs

(* The hashes of a card depend on those of the cards that feed it.         *)
LEMMA SameHashes ==
  ASSUME OneProvider, NEW g \in Graph, NEW h \in Graph, g.req = Requires, g.prov = Provides, h.req = Requires, h.prov = Provides,
         NEW c \in Tasks,
         \A p \in Tasks : Feeds(p, c) => h.st[p].hash = g.st[p].hash,
         h.rank = g.rank \/ \A p \in Tasks : g.st[p].hash = NoData
  PROVE  StartHashes(h, c) = StartHashes(g, c)
<1>1. ASSUME NEW k \in Tokens PROVE StartHashes(h, c)[k] = StartHashes(g, c)[k]
  <2>1. CASE k \notin Requires[c]
    BY <2>1, NoProviderOf
  <2>2. CASE k \in Requires[c]
    <3>1. StartHashes(g, c)[k] = NoData \/ \E p \in Tasks : k \in Provides[p] /\ Has(g, p) /\ StartHashes(g, c)[k] = g.st[p].hash
      BY <2>2, NoProviderOf, SomeProvider, ProviderOf
    <3>2. StartHashes(h, c)[k] = NoData \/ \E p \in Tasks : k \in Provides[p] /\ Has(h, p) /\ StartHashes(h, c)[k] = h.st[p].hash
      BY <2>2, NoProviderOf, SomeProvider, ProviderOf
    <3>3. \A p \in Tasks : k \in Provides[p] => h.st[p].hash = g.st[p].hash
      BY <2>2 DEF Feeds
    <3>4. CASE \A p \in Tasks : g.st[p].hash = NoData
      BY <3>1, <3>2, <3>3, <3>4
    <3>5. CASE h.rank = g.rank
      <4>1. Providers(h, k) = Providers(g, k)
        BY <3>5 DEF Providers, Nodes, Has
      <4>2. CASE Providers(g, k) = {}
        BY <4>1, <4>2, NoProviderOf
      <4>3. CASE Providers(g, k) # {}
        <5>1. PICK p \in Tasks : Has(g, p) /\ k \in Provides[p]
          BY <4>3, SomeProvider
        <5>2. Has(h, p)
          BY <3>5, <5>1 DEF Has
        <5> QED BY <2>2, <3>3, <5>1, <5>2, ProviderOf
      <4> QED BY <4>2, <4>3
    <3> QED BY <3>4, <3>5
  <2> QED BY <2>1, <2>2
<1>2. StartHashes(h, c) \in Inputs /\ StartHashes(g, c) \in Inputs
  BY StartHashesType
<1> QED BY <1>1, <1>2 DEF Inputs

(* A hash that is known stays known.                                       *)
LEMMA KnownHashes ==
  ASSUME OneProvider, NEW g \in Graph, NEW h \in Graph, g.req = Requires, g.prov = Provides, h.req = Requires, h.prov = Provides,
         NEW c \in Tasks, NEW k \in Tokens,
         \A p \in Tasks : g.st[p].hash # NoData => h.st[p].hash # NoData,
         \A p \in Tasks : Has(g, p) => Has(h, p),
         StartHashes(g, c)[k] # NoData
  PROVE  StartHashes(h, c)[k] # NoData
<1>1. k \in Requires[c] /\ Providers(g, k) # {}
  BY NoProviderOf
<1>2. PICK p \in Tasks : Has(g, p) /\ k \in Provides[p]
  BY <1>1, SomeProvider
<1>3. StartHashes(g, c)[k] = g.st[p].hash /\ StartHashes(h, c)[k] = h.st[p].hash
  BY <1>1, <1>2, ProviderOf
<1> QED BY <1>2, <1>3

LEMMA ValueIsData ==
  ASSUME AlwaysContent, NEW c \in Tasks, NEW src \in Contents, NEW i \in Inputs
  PROVE  Value(c, src, i) \in Data /\ Value(c, src, i) # NoData
<1>1. src[c] \in [Source -> Token]
  BY DEF Contents
<1>2. Compute(c, src[c], i) \in Data
  BY <1>1 DEF AlwaysContent
<1> QED BY <1>2, DataAssumption DEF Value

(* A completed card has content, and what it provides is available.        *)
LEMMA DoneHasContent ==
  ASSUME AlwaysContent, NEW g \in Graph, NEW src \in Contents, NEW q, NEW ran, Fit(g, src, q, ran),
         NEW c \in Tasks, DoneIn(g, c)
  PROVE  g.st[c].hash # NoData /\ g.st[c].data = g.st[c].hash /\ Provides[c] \subseteq g.out
<1>1. Wired(g) /\ IF Requires[c] = {} THEN Fetcher(c, g, src, q) ELSE Reader(c, g, src, q, ran)
  BY DEF Fit
<1>2. g.st[c].consumed \in Inputs /\ NoInputs \in Inputs
  BY NoInputsType DEF Graph, Store
<1>3. \E i \in Inputs : g.st[c].data = Value(c, src, i)
  BY <1>1, <1>2 DEF Fetcher, Reader
<1>4. g.st[c].data # NoData
  BY <1>3, ValueIsData
<1> QED BY <1>1, <1>4 DEF Wired

LEMMA AvailableIsOut ==
  ASSUME AlwaysContent, NEW g \in Graph, NEW src \in Contents, NEW q, NEW ran, Fit(g, src, q, ran)
  PROVE  Available(g) = g.out
<1>1. ASSUME NEW u \in Nodes(g), g.st[u].status = "completed" PROVE g.prov[u] \subseteq g.out
  <2>1. u \in Tasks /\ DoneIn(g, u) /\ g.prov = Provides
    BY <1>1 DEF Nodes, DoneIn, Fit, Wired
  <2> QED BY <2>1, DoneHasContent
<1> QED BY <1>1 DEF Available

(* What a report says, and that it has content.                            *)
LEMMA ReportHasContent ==
  ASSUME AlwaysContent, NEW g \in Graph, NEW src \in Contents, NEW q, Fit(g, src, q, {}),
         NEW c \in Tasks, NEW i \in 1..Len(q), Reports(q[i], c)
  PROVE  /\ q[i].event.data # NoData
         /\ Requires[c] = {} => q[i].event.data = Value(c, src, NoInputs)
         /\ Requires[c] # {} => g.st[c].hasStart /\ q[i].event.data = Value(c, src, g.st[c].started)
<1>1. IF Requires[c] = {} THEN Fetcher(c, g, src, q) ELSE Reader(c, g, src, q, {})
  BY DEF Fit
<1>2. g.st[c].started \in Inputs /\ NoInputs \in Inputs
  BY NoInputsType DEF Graph, Store
<1>3. /\ Requires[c] = {} => q[i].event.data = Value(c, src, NoInputs)
      /\ Requires[c] # {} => g.st[c].hasStart /\ q[i].event.data = Value(c, src, g.st[c].started)
  BY <1>1 DEF Fetcher, Reader
<1> QED BY <1>2, <1>3, ValueIsData

(* What is left of the events says no more than they did.                  *)
Remains(a, q) == \A i \in 1..Len(a) : \E n \in 1..Len(q) : a[i] = q[n]

LEMMA FetcherKept ==
  ASSUME NEW c, NEW g, NEW h, NEW src, NEW q, NEW a, Fetcher(c, g, src, q), Remains(a, q),
         DoneIn(h, c) => DoneIn(g, c) /\ h.st[c].data = g.st[c].data
  PROVE  Fetcher(c, h, src, a)
BY DEF Fetcher, Remains

LEMMA ReaderKept ==
  ASSUME NEW c \in Tasks, NEW g, NEW h, NEW src, NEW q, NEW a, Reader(c, g, src, q, {}), Remains(a, q),
         g.out \subseteq h.out,
         DoneIn(h, c) => DoneIn(g, c) /\ h.st[c].data = g.st[c].data,
         RunningIn(h, c) => Reported(a, c),
         h.st[c].status = "failed" => c \in Targets,
         h.st[c].hasStart = g.st[c].hasStart, h.st[c].started = g.st[c].started, h.st[c].consumed = g.st[c].consumed,
         \A k \in Tokens : StartHashes(g, c)[k] # NoData => StartHashes(h, c)[k] # NoData,
         Awaits(h, c) /\ Has(h, c) => DoneIn(h, c) /\ Current(h, c) /\ ~Reported(q, c)
  PROVE  Reader(c, h, src, a, {})
<1>1. Reported(a, c) => Reported(q, c)
  BY DEF Reported, Remains
<1>2. \A i \in 1..Len(a) : Reports(a[i], c) => h.st[c].hasStart /\ a[i].event.data = Value(c, src, h.st[c].started)
  BY DEF Reader, Remains
<1>3. DoneIn(h, c) => h.st[c].data = Value(c, src, h.st[c].consumed)
  BY DEF Reader
<1>4. \A k \in Tokens : h.st[c].consumed[k] # NoData \/ h.st[c].started[k] # NoData => StartHashes(h, c)[k] # NoData
  BY DEF Reader
<1>5. DoneIn(h, c) \/ Reported(a, c) => Requires[c] \subseteq h.out
  BY <1>1 DEF Reader
<1> QED BY <1>1, <1>2, <1>3, <1>4, <1>5 DEF Reader

LEMMA TailRemains ==
  ASSUME NEW q \in Seq(JournalEntry), q # <<>>
  PROVE  /\ Remains(Tail(q), q)
         /\ \A c : Reported(q, c) /\ ~Reports(Head(q), c) => Reported(Tail(q), c)
<1>1. \A i \in 1..Len(Tail(q)) : i + 1 \in 1..Len(q) /\ Tail(q)[i] = q[i + 1]
  BY TailEntries
<1>2. Head(q) = q[1] /\ Len(q) \in Nat /\ Len(Tail(q)) = Len(q) - 1
  BY OpenTail
<1>3. ASSUME NEW c, Reported(q, c), ~Reports(Head(q), c) PROVE Reported(Tail(q), c)
  <2>1. PICK i \in 1..Len(q) : Reports(q[i], c)
    BY <1>3 DEF Reported
  <2>2. i # 1
    BY <1>2, <1>3, <2>1
  <2>3. i - 1 \in 1..Len(Tail(q)) /\ Tail(q)[i - 1] = q[i]
    <3>1. i - 1 \in 1..Len(Tail(q))
      BY <1>2, <2>2
    <3> QED BY <1>1, <3>1
  <2> QED BY <2>1, <2>3 DEF Reported
<1> QED BY <1>1, <1>3 DEF Remains

(* A report is applied.                                                    *)
LEMMA FitCompleted ==
  ASSUME AlwaysContent, OneProvider, Layered,
         NEW g \in Graph, NEW src \in Contents, NEW q \in Seq(JournalEntry), q # <<>>,
         Head(q).event.type = "completed", Fit(g, src, q, {})
  PROVE  Fit(ApplyEvent(g, Head(q).event), src, Tail(q), {})
<1> DEFINE e == Head(q).event
           t == e.task
           a == Tail(q)
           h == ApplyEvent(g, e)
<1>0. /\ Head(q) = q[1] /\ 1 \in 1..Len(q) /\ Head(q) \in JournalEntry /\ ~e.routed
  BY TailEntries, HeadTailProperties DEF Fit
<1>1. e \in Event /\ t \in Tasks /\ e.type \in BoardEvents
  BY <1>0 DEF JournalEntry, Event, BoardEvents
<1>2. Remains(a, q) /\ \A c : Reported(q, c) /\ c # t => Reported(a, c)
  BY TailRemains DEF Reports
<1>3. Reported(q, t) /\ Reports(q[1], t)
  BY <1>0 DEF Reported, Reports
<1>4. /\ h \in Graph /\ h.prov = g.prov /\ g.out \subseteq h.out
      /\ \A u \in Tasks : u # t => h.st[u] = g.st[u] /\ h.rank[u] = g.rank[u] /\ h.req[u] = g.req[u]
      /\ h.rank = g.rank /\ h.req = g.req
  BY <1>1, EventSpares
<1>5. \A i \in 1..Len(a) : ~a[i].event.routed
  BY <1>2 DEF Remains, Fit
<1>6. Wired(g) /\ g.req = Requires /\ g.prov = Provides
  BY DEF Fit, Wired
<1> HIDE DEF h, a
<1>7. CASE ~Has(g, t)
  <2>1. h = g
    BY <1>7 DEF ApplyEvent, h
  <2>2. ASSUME NEW c \in Tasks, Requires[c] = {} PROVE Fetcher(c, h, src, a)
    <3>1. Fetcher(c, g, src, q)
      BY <2>2 DEF Fit
    <3> QED BY <1>2, <2>1, <3>1, FetcherKept
  <2>3. ASSUME NEW c \in Tasks, Requires[c] # {} PROVE Reader(c, h, src, a, {})
    <3>1. Reader(c, g, src, q, {})
      BY <2>3 DEF Fit
    <3>2. RunningIn(g, c) => Reported(a, c)
      BY <1>2, <1>7, <3>1 DEF Reader, RunningIn
    <3>3. /\ g.st[c].status = "failed" => c \in Targets
          /\ Awaits(g, c) /\ Has(g, c) => DoneIn(g, c) /\ Current(g, c) /\ ~Reported(q, c)
      BY <3>1 DEF Reader
    <3> QED BY <1>2, <2>1, <3>1, <3>2, <3>3, ReaderKept
  <2> QED BY <1>5, <1>6, <2>1, <2>2, <2>3 DEF Fit, a, h
<1>8. CASE Has(g, t)
  <2>1. /\ h.st[t].status = "completed" /\ h.st[t].hash = e.data /\ h.st[t].data = e.data
        /\ h.st[t].consumed = ConsumedHashes(g, t)
        /\ h.st[t].started = g.st[t].started /\ h.st[t].hasStart = g.st[t].hasStart
        /\ h.out = g.out \cup Provides[t]
    BY <1>0, <1>1, <1>6, <1>8, CompletionEffect DEF h
  <2>2. /\ e.data # NoData
        /\ Requires[t] = {} => e.data = Value(t, src, NoInputs)
        /\ Requires[t] # {} => g.st[t].hasStart /\ e.data = Value(t, src, g.st[t].started)
    BY <1>0, <1>1, <1>3, ReportHasContent
  <2>3. \A u \in Tasks : Has(h, u) <=> Has(g, u)
    BY <1>4 DEF Has
  <2>4. \A u \in Tasks : u # t => (DoneIn(h, u) <=> DoneIn(g, u)) /\ (RunningIn(h, u) <=> RunningIn(g, u))
    BY <1>4 DEF DoneIn, RunningIn, Has
  <2>5. Wired(h)
    <3>1. ASSUME NEW u \in Tasks
          PROVE  /\ DoneIn(h, u) => h.st[u].data = h.st[u].hash
                 /\ h.st[u].data # h.st[u].hash => u \in Targets /\ h.st[u].data = NoData
                 /\ h.st[u].hash # NoData => Has(h, u) /\ Provides[u] \subseteq h.out
      <4>1. CASE u = t
        BY <1>8, <2>1, <2>3, <4>1
      <4>2. CASE u # t
        BY <1>4, <1>6, <2>3, <2>4, <4>2 DEF Wired
      <4> QED BY <4>1, <4>2
    <3> QED BY <1>4, <1>6, <3>1 DEF Wired
  <2>6. ASSUME NEW c \in Tasks, NEW k \in Tokens, StartHashes(g, c)[k] # NoData PROVE StartHashes(h, c)[k] # NoData
    <3>1. \A p \in Tasks : g.st[p].hash # NoData => h.st[p].hash # NoData
      BY <1>4, <2>1, <2>2
    <3> QED BY <1>4, <1>6, <2>3, <2>6, <3>1, KnownHashes
  <2>7. \A c \in Tasks : Awaits(h, c) => Awaits(g, c)
    <3>1. \A p \in Tasks : h.st[p].data # h.st[p].hash => g.st[p].data # g.st[p].hash
      BY <1>4, <2>1
    <3> QED BY <3>1 DEF Awaits
  <2>8. ASSUME NEW c \in Tasks, Requires[c] = {} PROVE Fetcher(c, h, src, a)
    <3>1. Fetcher(c, g, src, q)
      BY <2>8 DEF Fit
    <3>2. CASE c = t
      <4>1. h.st[c].data = Value(c, src, NoInputs)
        BY <2>1, <2>2, <2>8, <3>2
      <4> QED BY <1>2, <3>1, <4>1 DEF Fetcher, Remains
    <3>3. CASE c # t
      BY <1>2, <1>4, <2>4, <3>1, <3>3, FetcherKept
    <3> QED BY <3>2, <3>3
  <2>9. ASSUME NEW c \in Tasks, Requires[c] # {} PROVE Reader(c, h, src, a, {})
    <3>1. Reader(c, g, src, q, {})
      BY <2>9 DEF Fit
    <3>2. CASE c = t
      <4>1. /\ ~RunningIn(h, c) /\ h.st[c].status # "failed"
            /\ h.st[c].consumed = g.st[c].started /\ h.st[c].started = g.st[c].started /\ h.st[c].hasStart
            /\ h.st[c].data = Value(c, src, h.st[c].consumed)
        BY <2>1, <2>2, <2>9, <3>2 DEF RunningIn, ConsumedHashes
      <4>2. Requires[c] \subseteq h.out
        BY <1>3, <1>4, <3>1, <3>2 DEF Reader
      <4>3. ~Awaits(h, c)
        BY <1>3, <1>8, <2>7, <3>1, <3>2 DEF Reader
      <4>4. \A i \in 1..Len(a) : Reports(a[i], c) => h.st[c].hasStart /\ a[i].event.data = Value(c, src, h.st[c].started)
        BY <1>2, <3>1, <4>1 DEF Reader, Remains
      <4>5. \A k \in Tokens : h.st[c].consumed[k] # NoData \/ h.st[c].started[k] # NoData => StartHashes(h, c)[k] # NoData
        BY <2>6, <3>1, <4>1 DEF Reader
      <4> QED BY <4>1, <4>2, <4>3, <4>4, <4>5 DEF Reader
    <3>3. CASE c # t
      <4>1. h.st[c] = g.st[c]
        BY <1>4, <3>3
      <4>2. RunningIn(h, c) => Reported(a, c)
        BY <1>2, <2>4, <3>1, <3>3 DEF Reader
      <4>3. h.st[c].status = "failed" => c \in Targets
        BY <3>1, <4>1 DEF Reader
      <4>4. ASSUME Awaits(h, c), Has(h, c) PROVE DoneIn(h, c) /\ Current(h, c) /\ ~Reported(q, c)
        <5>1. Awaits(g, c) /\ Has(g, c)
          BY <2>3, <2>7, <4>4
        <5>2. DoneIn(g, c) /\ Current(g, c) /\ ~Reported(q, c)
          BY <3>1, <5>1 DEF Reader
        <5>3. StartHashes(h, c) = StartHashes(g, c)
          <6>1. PICK p \in Tasks : Feeds(p, c) /\ h.st[p].data # h.st[p].hash
            BY <4>4 DEF Awaits
          <6>2. p # t
            BY <2>1, <6>1
          <6>3. g.st[p].data # g.st[p].hash
            BY <1>4, <6>1, <6>2
          <6>4. \A u \in Tasks : Feeds(u, c) => u = p
            <7>1. \E z \in Targets : g.st[z].data # g.st[z].hash /\ \A u \in Tasks : Feeds(u, c) => u = z
              BY <1>6, <2>9, <5>1, AwaitsOne
            <7> QED BY <6>1, <7>1
          <6>5. \A u \in Tasks : Feeds(u, c) => h.st[u].hash = g.st[u].hash
            BY <1>4, <6>2, <6>4
          <6> QED BY <1>4, <1>6, <6>5, SameHashes
        <5> QED BY <2>4, <3>3, <4>1, <5>2, <5>3 DEF Current
      <4> QED BY <1>2, <1>4, <2>4, <2>6, <3>1, <3>3, <4>1, <4>2, <4>3, <4>4, ReaderKept
    <3> QED BY <3>2, <3>3
  <2> QED BY <1>5, <2>5, <2>8, <2>9 DEF Fit, a, h
<1> QED BY <1>7, <1>8

(* What the calls of users and the failures of fetches do to the graph.    *)
Calmly(g, h) ==
  /\ h.rank = g.rank /\ h.req = g.req /\ h.prov = g.prov /\ g.out \subseteq h.out
  /\ \A u \in Tasks :
       /\ DoneIn(h, u) => DoneIn(g, u) /\ h.st[u].data = g.st[u].data
       /\ RunningIn(h, u) => RunningIn(g, u)
       /\ h.st[u].hash = g.st[u].hash /\ h.st[u].consumed = g.st[u].consumed
       /\ h.st[u].started = g.st[u].started /\ h.st[u].hasStart = g.st[u].hasStart
       /\ h.st[u].data = g.st[u].data \/ (u \in Targets /\ h.st[u].data = NoData)
       /\ h.st[u].status = "failed" => g.st[u].status = "failed" \/ u \in Targets \/ Requires[u] = {}
       /\ DoneIn(g, u) => DoneIn(h, u) \/ u \in Targets \/ Requires[u] = {}

LEMMA CalmEvents ==
  ASSUME NEW g \in Graph, NEW x \in JournalEntry, Lawful(x), x.event.type # "upsert", NEW h, h = ApplyEvent(g, x.event)
  PROVE  Calmly(g, h)
<1> DEFINE e == x.event
           t == e.task
<1>1. e \in Event /\ t \in Tasks /\ e.type \in BoardEvents
  BY DEF JournalEntry, Event, Lawful, BoardEvents
<1>2. /\ h \in Graph /\ h.prov = g.prov /\ g.out \subseteq h.out
      /\ \A u \in Tasks : u # t => h.st[u] = g.st[u] /\ h.rank[u] = g.rank[u] /\ h.req[u] = g.req[u]
      /\ h.rank = g.rank /\ h.req = g.req
  BY <1>1, EventSpares
<1>3. CASE e.type = "progress" \/ ~Has(g, t)
  <2>1. h = g
    BY <1>3 DEF ApplyEvent, Lawful
  <2> QED BY <2>1 DEF Calmly
<1>4. CASE e.type = "restart" /\ Has(g, t)
  <2>1. /\ h.st[t].status = "not-started" /\ h.st[t].hash = g.st[t].hash /\ h.st[t].data = NoData
        /\ h.st[t].consumed = g.st[t].consumed /\ h.st[t].started = g.st[t].started
        /\ h.st[t].hasStart = g.st[t].hasStart /\ t \in Targets
    BY <1>1, <1>4, RestartEffect DEF Lawful
  <2> QED BY <1>2, <2>1 DEF Calmly, DoneIn, RunningIn, Has
<1>5. CASE e.type = "failed" /\ Has(g, t)
  <2>1. /\ h.st[t].status \in {"not-started", "failed"} /\ h.st[t].hash = g.st[t].hash /\ h.st[t].data = g.st[t].data
        /\ h.st[t].consumed = g.st[t].consumed /\ h.st[t].started = g.st[t].started
        /\ h.st[t].hasStart = g.st[t].hasStart /\ (t \in Targets \/ Requires[t] = {})
    BY <1>1, <1>5, FailureEffect DEF Lawful
  <2> QED BY <1>2, <2>1 DEF Calmly, DoneIn, RunningIn, Has
<1> QED BY <1>3, <1>4, <1>5 DEF Lawful

(* They leave a graph in which no card is about to read.                   *)
LEMMA FitCalm ==
  ASSUME OneProvider, Layered,
         NEW g \in Graph, NEW h \in Graph, NEW src, NEW q, NEW a, Fit(g, src, q, {}), Quiet(g), Calmly(g, h),
         Remains(a, q), \A c \in Tasks : ~Reported(q, c)
  PROVE  Fit(h, src, a, {}) /\ Quiet(h)
<1>1. Wired(g) /\ g.req = Requires /\ g.prov = Provides /\ h.req = Requires /\ h.prov = Provides
  BY DEF Fit, Wired, Calmly
<1>2. \A u \in Tasks : Has(h, u) <=> Has(g, u)
  BY DEF Has, Calmly
<1>3. Wired(h)
  <2>1. ASSUME NEW u \in Tasks
        PROVE  /\ DoneIn(h, u) => h.st[u].data = h.st[u].hash
               /\ h.st[u].data # h.st[u].hash => u \in Targets /\ h.st[u].data = NoData
               /\ h.st[u].hash # NoData => Has(h, u) /\ Provides[u] \subseteq h.out
    BY <1>1, <1>2 DEF Wired, Calmly
  <2> QED BY <1>1, <2>1 DEF Wired
<1>4. \A c \in Tasks : StartHashes(h, c) = StartHashes(g, c)
  BY <1>1, SameHashes DEF Calmly
<1>5. \A c \in Tasks : Current(g, c) <=> Current(h, c)
  BY <1>4 DEF Current, Calmly
<1>6. \A i \in 1..Len(a) : ~a[i].event.routed
  BY DEF Remains, Fit
<1>7. ASSUME NEW c \in Tasks, Requires[c] # {}
      PROVE  /\ DoneIn(h, c) => Current(h, c)
             /\ Has(h, c) /\ (\E t \in Targets : Feeds(t, c) /\ h.st[t].hash # NoData) => DoneIn(h, c)
  <2>1. DoneIn(h, c) => Current(h, c)
    BY <1>5, <1>7 DEF Quiet, Calmly
  <2>2. ASSUME Has(h, c), NEW t \in Targets, Feeds(t, c), h.st[t].hash # NoData PROVE DoneIn(h, c)
    <3>1. t \in Tasks /\ g.st[t].hash # NoData
      BY <2>2, BoardAssumption DEF Calmly
    <3>2. DoneIn(g, c)
      BY <1>2, <1>7, <2>2, <3>1 DEF Quiet
    <3>3. c \notin Targets
      BY <2>2 DEF Layered
    <3> QED BY <1>7, <3>2, <3>3 DEF Calmly
  <2> QED BY <2>1, <2>2
<1>8. Quiet(h)
  BY <1>7 DEF Quiet
<1>9. ASSUME NEW c \in Tasks, Requires[c] = {} PROVE Fetcher(c, h, src, a)
  <2>1. Fetcher(c, g, src, q)
    BY <1>9 DEF Fit
  <2>2. DoneIn(h, c) => DoneIn(g, c) /\ h.st[c].data = g.st[c].data
    BY DEF Calmly
  <2> QED BY <2>1, <2>2, FetcherKept
<1>10. ASSUME NEW c \in Tasks, Requires[c] # {} PROVE Reader(c, h, src, a, {})
  <2>1. Reader(c, g, src, q, {})
    BY <1>10 DEF Fit
  <2>2. ASSUME Awaits(h, c), Has(h, c) PROVE DoneIn(h, c) /\ Current(h, c) /\ ~Reported(q, c)
    <3>1. PICK p \in Targets : Feeds(p, c) /\ h.st[p].data # h.st[p].hash /\ h.st[p].data = NoData
      BY <1>3, <1>10, <2>2, AwaitsOne
    <3> QED BY <1>7, <1>10, <2>2, <3>1
  <2>3. RunningIn(h, c) => Reported(a, c)
    BY <2>1 DEF Reader, Calmly
  <2>4. h.st[c].status = "failed" => c \in Targets
    BY <1>10, <2>1 DEF Reader, Calmly
  <2>5. /\ g.out \subseteq h.out /\ (DoneIn(h, c) => DoneIn(g, c) /\ h.st[c].data = g.st[c].data)
        /\ h.st[c].hasStart = g.st[c].hasStart /\ h.st[c].started = g.st[c].started /\ h.st[c].consumed = g.st[c].consumed
    BY DEF Calmly
  <2> QED BY <1>4, <2>1, <2>2, <2>3, <2>4, <2>5, ReaderKept
<1> QED BY <1>3, <1>6, <1>8, <1>9, <1>10 DEF Fit

(* Cards are added while no card has ever completed.                       *)
LEMMA FitAdded ==
  ASSUME OneProvider, Layered,
         NEW g \in Graph, NEW x \in JournalEntry, Lawful(x), x.event.type = "upsert", NEW h, h = ApplyEvent(g, x.event),
         NEW src, NEW q, NEW a, Fit(g, src, q, {}), Quiet(g), Blank(g),
         Remains(a, q), \A c \in Tasks : ~Reported(q, c)
  PROVE  Fit(h, src, a, {}) /\ Quiet(h) /\ Blank(h)
<1> DEFINE e == x.event
           t == e.task
<1>1. e \in Event /\ t \in Tasks /\ e.type \in BoardEvents /\ e.tokens = Requires[t]
  BY DEF JournalEntry, Event, Lawful, BoardEvents
<1>2. /\ h \in Graph /\ h.prov = g.prov /\ g.out \subseteq h.out
      /\ \A u \in Tasks : u # t => h.st[u] = g.st[u] /\ h.rank[u] = g.rank[u] /\ h.req[u] = g.req[u]
      /\ \A u \in Tasks : Has(g, u) => h.rank[u] = g.rank[u]
  BY <1>1, EventSpares
<1>3. /\ Has(h, t) /\ h.req[t] = Requires[t] /\ h.out = g.out
      /\ h.st[t] = IF Has(g, t) THEN g.st[t] ELSE FreshStore
  BY <1>1, AdditionEffect
<1>4. Wired(g) /\ g.req = Requires /\ g.prov = Provides
  BY DEF Fit, Wired
<1>5. h.req = Requires /\ h.prov = Provides
  <2>1. \A u \in Tasks : h.req[u] = Requires[u]
    BY <1>1, <1>2, <1>3, <1>4
  <2>2. h.req \in [Tasks -> SUBSET Tokens]
    BY <1>2 DEF Graph
  <2> QED BY <1>2, <1>4, <2>1, <2>2, BoardAssumption
<1>6. \A u \in Tasks : (h.st[u] = g.st[u] /\ (Has(h, u) <=> Has(g, u))) \/ h.st[u] = FreshStore
  BY <1>1, <1>2, <1>3 DEF Has
<1>7. Blank(h)
  BY <1>6 DEF Blank, FreshStore
<1>8. Wired(h)
  <2>1. ASSUME NEW u \in Tasks
        PROVE  /\ DoneIn(h, u) => h.st[u].data = h.st[u].hash
               /\ h.st[u].data # h.st[u].hash => u \in Targets /\ h.st[u].data = NoData
               /\ h.st[u].hash # NoData => Has(h, u) /\ Provides[u] \subseteq h.out
    BY <1>4, <1>6, <1>7 DEF Wired, DoneIn, FreshStore, Blank
  <2> QED BY <1>5, <2>1 DEF Wired
<1>9. \A c \in Tasks : ~Awaits(h, c)
  BY <1>7, <1>8 DEF Awaits, Blank, Wired
<1>10. \A c \in Tasks : StartHashes(h, c) = StartHashes(g, c)
  <2>1. \A p \in Tasks : h.st[p].hash = g.st[p].hash /\ g.st[p].hash = NoData
    BY <1>7 DEF Blank
  <2> QED BY <1>2, <1>4, <1>5, <2>1, SameHashes
<1>11. \A i \in 1..Len(a) : ~a[i].event.routed
  BY DEF Remains, Fit
<1>12. \A u \in Tasks : /\ DoneIn(h, u) => DoneIn(g, u) /\ h.st[u] = g.st[u]
                        /\ RunningIn(h, u) => RunningIn(g, u)
  BY <1>6 DEF DoneIn, RunningIn, FreshStore
<1>13. Quiet(h)
  <2>1. \A c \in Tasks : Requires[c] # {} /\ DoneIn(h, c) => Current(h, c)
    BY <1>10, <1>12 DEF Quiet, Current
  <2>2. \A t1 \in Targets : h.st[t1].hash = NoData
    BY <1>7, BoardAssumption DEF Blank
  <2> QED BY <2>1, <2>2 DEF Quiet
<1>14. ASSUME NEW c \in Tasks, Requires[c] = {} PROVE Fetcher(c, h, src, a)
  <2>1. Fetcher(c, g, src, q)
    BY <1>14 DEF Fit
  <2> QED BY <1>12, <2>1, FetcherKept
<1>15. ASSUME NEW c \in Tasks, Requires[c] # {} PROVE Reader(c, h, src, a, {})
  <2>1. Reader(c, g, src, q, {})
    BY <1>15 DEF Fit
  <2>2. CASE h.st[c] = g.st[c]
    <3>1. /\ RunningIn(h, c) => Reported(a, c)
          /\ h.st[c].status = "failed" => c \in Targets
          /\ DoneIn(h, c) => DoneIn(g, c) /\ h.st[c].data = g.st[c].data
      BY <1>12, <2>1, <2>2 DEF Reader
    <3> QED BY <1>2, <1>9, <1>10, <2>1, <2>2, <3>1, ReaderKept
  <2>3. CASE h.st[c] = FreshStore
    <3>1. ~Reported(a, c)
      BY DEF Remains, Reported
    <3>2. \A i \in 1..Len(a) : ~Reports(a[i], c)
      BY <3>1 DEF Reported
    <3>3. ~RunningIn(h, c) /\ ~DoneIn(h, c) /\ h.st[c].status # "failed"
      BY <2>3 DEF RunningIn, DoneIn, FreshStore
    <3>4. \A k \in Tokens : h.st[c].consumed[k] = NoData /\ h.st[c].started[k] = NoData
      BY <2>3 DEF FreshStore, NoInputs
    <3> QED BY <1>9, <3>1, <3>2, <3>3, <3>4 DEF Reader
  <2> QED BY <1>6, <2>2, <2>3
<1> QED BY <1>7, <1>8, <1>11, <1>13, <1>14, <1>15 DEF Fit

LEMMA FitLawful ==
  ASSUME OneProvider, Layered,
         NEW g \in Graph, NEW src, NEW q \in Seq(JournalEntry), q # <<>>,
         \A i \in 1..Len(q) : Lawful(q[i]),
         Fit(g, src, q, {}), Quiet(g), Adds(q) => Blank(g)
  PROVE  LET h == ApplyEvent(g, Head(q).event) IN
         /\ \A i \in 1..Len(Tail(q)) : Lawful(Tail(q)[i])
         /\ Fit(h, src, Tail(q), {}) /\ Quiet(h) /\ (Adds(Tail(q)) => Blank(h))
<1> DEFINE x == Head(q)
           h == ApplyEvent(g, x.event)
           a == Tail(q)
<1>1. x = q[1] /\ 1 \in 1..Len(q) /\ x \in JournalEntry /\ Remains(a, q)
  BY TailEntries, HeadTailProperties, TailRemains
<1>2. Lawful(x) /\ h \in Graph
  BY <1>1, ApplyEventType DEF JournalEntry
<1>3. \A c \in Tasks : ~Reported(q, c)
  BY DEF Reported, Reports, Lawful
<1>4. \A i \in 1..Len(a) : Lawful(a[i])
  BY <1>1 DEF Remains
<1>5. Adds(a) => Adds(q)
  BY <1>1 DEF Remains, Adds
<1> HIDE DEF h, a, x
<1>6. CASE x.event.type = "upsert"
  <2>1. Blank(g)
    BY <1>1, <1>6 DEF Adds
  <2> QED BY <1>1, <1>2, <1>3, <1>4, <1>6, <2>1, FitAdded DEF h, a, x
<1>7. CASE x.event.type # "upsert"
  <2>1. Calmly(g, h)
    BY <1>1, <1>2, <1>7, CalmEvents DEF h
  <2>2. Fit(h, src, a, {}) /\ Quiet(h)
    BY <1>1, <1>2, <1>3, <2>1, FitCalm
  <2>3. Blank(g) => Blank(h)
    BY <2>1 DEF Blank, Calmly
  <2> QED BY <1>4, <1>5, <2>2, <2>3 DEF h, a, x
<1> QED BY <1>6, <1>7

(* What a call of the handler adds to the reports.                         *)
Adding(z, q, c, d) ==
  /\ \A i \in 1..Len(z) : (\E n \in 1..Len(q) : z[i] = q[n]) \/ (Reports(z[i], c) /\ z[i].event.data = d /\ ~z[i].event.routed)
  /\ \A b \in Tasks : Reported(q, b) => Reported(z, b)

LEMMA HandleReports ==
  ASSUME NEW j \in Job, NEW c \in Tasks, NEW r \in Runtime, NEW now \in Token
  PROVE  LET h == Handle(j, c, r, now)
         IN  /\ Adding(h.tx, j.tx, c, Result(j, c))
             /\ Completes(r, c, now) => Reported(h.tx, c)
             /\ h.graph = j.graph /\ h.sources = j.sources /\ h.ran = j.ran /\ h.todo = j.todo
             /\ h.taken = j.taken /\ h.updates = j.updates
<1> DEFINE h == Handle(j, c, r, now)
           d == Result(j, c)
           e == Plain([Ev("completed", c) EXCEPT !.data = d])
<1>1. /\ h.graph = j.graph /\ h.sources = j.sources /\ h.ran = j.ran /\ h.todo = j.todo
      /\ h.taken = j.taken /\ h.updates = j.updates
  BY DEF Handle, Job
<1>2. h.tx = IF Completes(r, c, now) THEN Append(j.tx, e) ELSE j.tx
  BY DEF Handle, Job
<1>3. e.event.type = "completed" /\ e.event.task = c /\ e.event.data = d /\ ~e.event.routed
  BY DEF Plain, Ev
<1>4. j.tx \in Seq(JournalEntry) /\ e \in JournalEntry
  <2>1. [Ev("completed", c) EXCEPT !.data = d] \in Event
    BY EvType, ResultType DEF Event
  <2> QED BY <2>1, PlainType DEF Job
<1> HIDE DEF h, e, d
<1>5. CASE ~Completes(r, c, now)
  <2>1. h.tx = j.tx
    BY <1>2, <1>5
  <2>2. Adding(h.tx, j.tx, c, d)
    BY <2>1 DEF Adding
  <2> QED BY <1>1, <1>5, <2>2 DEF h, d
<1>6. CASE Completes(r, c, now)
  <2> DEFINE q == Append(j.tx, e)
  <2>1. h.tx = q
    BY <1>2, <1>6
  <2>2. /\ Len(j.tx) \in Nat /\ Len(q) = Len(j.tx) + 1
        /\ \A i \in 1..Len(q) : (i \in 1..Len(j.tx) /\ q[i] = j.tx[i]) \/ (i = Len(j.tx) + 1 /\ q[i] = e)
    BY <1>4, AppendEntries
  <2>3. Len(q) \in 1..Len(q) /\ q[Len(q)] = e
    BY <2>2
  <2>4. \A i \in 1..Len(j.tx) : i \in 1..Len(q) /\ q[i] = j.tx[i]
    BY <2>2
  <2> HIDE DEF q
  <2>5. Reported(q, c)
    BY <1>3, <2>3 DEF Reported, Reports
  <2>6. \A b \in Tasks : Reported(j.tx, b) => Reported(q, b)
    BY <2>4 DEF Reported
  <2>7. Adding(q, j.tx, c, d)
    BY <1>3, <2>2, <2>6 DEF Adding, Reports
  <2> QED BY <1>1, <2>1, <2>5, <2>7 DEF h, d
<1> QED BY <1>5, <1>6

(* The other cards stay as they are.                                       *)
LEMMA OthersFit ==
  ASSUME NEW c \in Tasks, NEW g, NEW src, NEW q, NEW z, NEW ran, NEW d, NEW b \in Tasks, b # c, Adding(z, q, c, d)
  PROVE  /\ Reported(z, b) <=> Reported(q, b)
         /\ Fetcher(b, g, src, q) => Fetcher(b, g, src, z)
         /\ Reader(b, g, src, q, ran) => Reader(b, g, src, z, ran \cup {c}) /\ Reader(b, g, src, z, ran)
<1>1. \A i \in 1..Len(z) : Reports(z[i], b) => \E n \in 1..Len(q) : z[i] = q[n]
  BY DEF Adding, Reports
<1>2. Reported(z, b) <=> Reported(q, b)
  BY <1>1 DEF Adding, Reported
<1>3. Fetcher(b, g, src, q) => Fetcher(b, g, src, z)
  BY <1>1 DEF Fetcher
<1>4. b \in ran \cup {c} <=> b \in ran
  OBVIOUS
<1>5. ASSUME Reader(b, g, src, q, ran), NEW m, b \in m <=> b \in ran PROVE Reader(b, g, src, z, m)
  <2>1. \A i \in 1..Len(z) : Reports(z[i], b) =>
          IF b \in m THEN z[i].event.data = Value(b, src, StartHashes(g, b))
          ELSE g.st[b].hasStart /\ z[i].event.data = Value(b, src, g.st[b].started)
    BY <1>1, <1>5 DEF Reader
  <2> QED BY <1>2, <1>5, <2>1 DEF Reader
<1> QED BY <1>2, <1>3, <1>4, <1>5

LEMMA FitUnrouted ==
  ASSUME NEW g, NEW src, NEW q, NEW ran, Fit(g, src, q, ran), NEW z, NEW c, NEW d, Adding(z, q, c, d)
  PROVE  \A i \in 1..Len(z) : ~z[i].event.routed
BY DEF Fit, Adding

(* A card without requires reports what it makes of its sources.           *)
LEMMA FitFetched ==
  ASSUME NEW j \in Job, NEW c \in Tasks, Requires[c] = {}, NEW z, NEW ran,
         Fit(j.graph, j.sources, j.tx, ran), Adding(z, j.tx, c, Result(j, c))
  PROVE  Fit(j.graph, j.sources, z, ran) /\ Fit(j.graph, j.sources, z, ran \cup {c})
<1> DEFINE g == j.graph
<1>1. g \in Graph /\ Wired(g) /\ Fetcher(c, g, j.sources, j.tx)
  BY DEF Fit, Job
<1>2. Result(j, c) = Value(c, j.sources, NoInputs)
  <2>1. ReadInputs(g, c) = NoInputs
    BY <1>1 DEF ReadInputs, NoInputs, Wired
  <2> QED BY <2>1 DEF Result, Value
<1>3. Fetcher(c, g, j.sources, z)
  BY <1>1, <1>2 DEF Fetcher, Adding
<1>4. \A b \in Tasks : IF Requires[b] = {} THEN Fetcher(b, g, j.sources, z)
                       ELSE Reader(b, g, j.sources, z, ran) /\ Reader(b, g, j.sources, z, ran \cup {c})
  BY <1>3, OthersFit DEF Fit
<1> QED BY <1>1, <1>4, FitUnrouted DEF Fit

(* A card that reads runs when what it reads has settled.                  *)
LEMMA FitRead ==
  ASSUME OneProvider, Layered, AlwaysContent,
         NEW j \in Job, NEW c \in Tasks, Requires[c] # {}, NEW z, NEW ran,
         Fit(j.graph, j.sources, j.tx, ran), Adding(z, j.tx, c, Result(j, c)),
         Eligible(j.graph, c), ~Reported(j.tx, c), Reported(z, c)
  PROVE  Fit(j.graph, j.sources, z, ran \cup {c})
<1> DEFINE g == j.graph
<1>1. /\ g \in Graph /\ j.sources \in Contents /\ Wired(g) /\ g.req = Requires /\ g.prov = Provides
      /\ Reader(c, g, j.sources, j.tx, ran)
  BY DEF Fit, Wired, Job
<1>2. ~Awaits(g, c)
  <2>1. Has(g, c)
    BY DEF Eligible
  <2> QED BY <1>1, <2>1, AwaitingRests DEF Reader
<1>3. Result(j, c) = Value(c, j.sources, StartHashes(g, c))
  <2>1. ReadInputs(g, c) = StartHashes(g, c)
    BY <1>1, <1>2, ReadsHashes
  <2> QED BY <2>1 DEF Result, Value
<1>4. Requires[c] \subseteq g.out
  BY <1>1, AvailableIsOut DEF Eligible
<1>5. \A i \in 1..Len(z) : Reports(z[i], c) => z[i].event.data = Value(c, j.sources, StartHashes(g, c))
  BY <1>3 DEF Adding, Reported
<1>6. Reader(c, g, j.sources, z, ran \cup {c})
  BY <1>1, <1>2, <1>4, <1>5 DEF Reader
<1>7. \A b \in Tasks : IF Requires[b] = {} THEN Fetcher(b, g, j.sources, z) ELSE Reader(b, g, j.sources, z, ran \cup {c})
  BY <1>6, OthersFit DEF Fit
<1> QED BY <1>1, <1>7, FitUnrouted DEF Fit

(* A card without sources completes whenever it runs.                      *)
LEMMA ReadersComplete ==
  ASSUME NEW c \in Tasks, SourceCount[c] = 0, NEW r, NEW now
  PROVE  Completes(r, c, now)
<1>1. Sources(c) = {}
  BY DEF Sources
<1> QED BY <1>1 DEF Completes, DueSources

(* New content of a card that has not reported.                            *)
LEMMA FitStored ==
  ASSUME NEW g, NEW src, NEW f, NEW q, NEW ran, Fit(g, src, q, ran), NEW c \in Tasks, Requires[c] = {},
         ~DoneIn(g, c), ~Reported(q, c), \A b \in Tasks : b # c => f[b] = src[b]
  PROVE  Fit(g, f, q, ran)
<1>1. \A b \in Tasks : b # c => \A i : Value(b, f, i) = Value(b, src, i)
  BY DEF Value
<1>2. \A b \in Tasks : b # c /\ Requires[b] = {} => Fetcher(b, g, f, q)
  BY <1>1 DEF Fit, Fetcher
<1>3. Fetcher(c, g, f, q)
  BY DEF Fetcher, Reported
<1>4. ASSUME NEW b \in Tasks, Requires[b] # {} PROVE Reader(b, g, f, q, ran)
  <2>1. Reader(b, g, src, q, ran) /\ b # c
    BY <1>4 DEF Fit
  <2> QED BY <1>1, <2>1 DEF Reader
<1> QED BY <1>2, <1>3, <1>4 DEF Fit

(* The cards that have run are started.                                    *)
LEMMA StartedEffect ==
  ASSUME NEW g \in Graph, NEW cs \in SUBSET Tasks
  PROVE  LET h == Started(g, cs) IN
         /\ h.rank = g.rank /\ h.req = g.req /\ h.prov = g.prov /\ h.out = g.out
         /\ \A u \in Tasks :
              /\ u \notin cs => h.st[u] = g.st[u]
              /\ u \in cs => /\ h.st[u].status = "running" /\ h.st[u].hasStart /\ h.st[u].started = StartHashes(g, u)
                             /\ h.st[u].hash = g.st[u].hash /\ h.st[u].data = g.st[u].data
                             /\ h.st[u].consumed = g.st[u].consumed
<1> DEFINE h == Started(g, cs)
<1>1. /\ h.rank = g.rank /\ h.req = g.req /\ h.prov = g.prov /\ h.out = g.out
      /\ \A u \in Tasks : h.st[u] = IF u \in cs THEN TaskStart(g, u).st[u] ELSE g.st[u]
  BY DEF Started, Graph
<1>2. ASSUME NEW u \in Tasks
      PROVE  LET s == TaskStart(g, u).st[u] IN
             /\ s.status = "running" /\ s.hasStart /\ s.started = StartHashes(g, u)
             /\ s.hash = g.st[u].hash /\ s.data = g.st[u].data /\ s.consumed = g.st[u].consumed
  BY DEF TaskStart, Graph, Store
<1> HIDE DEF h
<1> QED BY <1>1, <1>2 DEF h

LEMMA FitStarted ==
  ASSUME OneProvider, NEW g \in Graph, NEW src, NEW q, NEW ran \in SUBSET Tasks, Fit(g, src, q, ran)
  PROVE  Fit(Started(g, ran), src, q, {})
<1> DEFINE h == Started(g, ran)
<1>1. /\ h.rank = g.rank /\ h.req = g.req /\ h.prov = g.prov /\ h.out = g.out
      /\ \A u \in Tasks :
           /\ u \notin ran => h.st[u] = g.st[u]
           /\ u \in ran => /\ h.st[u].status = "running" /\ h.st[u].hasStart /\ h.st[u].started = StartHashes(g, u)
                           /\ h.st[u].hash = g.st[u].hash /\ h.st[u].data = g.st[u].data
                           /\ h.st[u].consumed = g.st[u].consumed
  BY StartedEffect
<1>2. h \in Graph
  BY StartedType
<1> HIDE DEF h
<1>3. Wired(g) /\ g.req = Requires /\ g.prov = Provides
  BY DEF Fit, Wired
<1>4. /\ \A u \in Tasks : h.st[u].hash = g.st[u].hash /\ h.st[u].data = g.st[u].data /\ h.st[u].consumed = g.st[u].consumed
      /\ \A u \in Tasks : Has(h, u) <=> Has(g, u)
      /\ \A u \in Tasks : DoneIn(h, u) => DoneIn(g, u) /\ u \notin ran
  BY <1>1 DEF Has, DoneIn
<1>5. Wired(h)
  <2>1. ASSUME NEW u \in Tasks
        PROVE  /\ DoneIn(h, u) => h.st[u].data = h.st[u].hash
               /\ h.st[u].data # h.st[u].hash => u \in Targets /\ h.st[u].data = NoData
               /\ h.st[u].hash # NoData => Has(h, u) /\ Provides[u] \subseteq h.out
    BY <1>1, <1>3, <1>4 DEF Wired
  <2> QED BY <1>1, <1>3, <2>1 DEF Wired
<1>6. \A c \in Tasks : StartHashes(h, c) = StartHashes(g, c)
  BY <1>1, <1>2, <1>3, <1>4, SameHashes
<1>7. \A c \in Tasks : (Awaits(h, c) <=> Awaits(g, c)) /\ (Current(h, c) <=> Current(g, c))
  BY <1>4, <1>6 DEF Awaits, Current
<1>8. ASSUME NEW c \in Tasks, Requires[c] = {} PROVE Fetcher(c, h, src, q)
  BY <1>4, <1>8 DEF Fit, Fetcher
<1>9. ASSUME NEW c \in Tasks, Requires[c] # {} PROVE Reader(c, h, src, q, {})
  <2>1. Reader(c, g, src, q, ran)
    BY <1>9 DEF Fit
  <2>2. CASE c \in ran
    <3>1. ~DoneIn(h, c) /\ h.st[c].status # "failed" /\ Reported(q, c) /\ ~(Awaits(h, c) /\ Has(h, c))
      BY <1>1, <1>4, <1>7, <2>1, <2>2 DEF Reader
    <3>2. Requires[c] \subseteq h.out
      BY <1>1, <2>1, <3>1 DEF Reader
    <3>3. \A i \in 1..Len(q) : Reports(q[i], c) => h.st[c].hasStart /\ q[i].event.data = Value(c, src, h.st[c].started)
      BY <1>1, <2>1, <2>2 DEF Reader
    <3>4. \A k \in Tokens : h.st[c].consumed[k] # NoData \/ h.st[c].started[k] # NoData => StartHashes(h, c)[k] # NoData
      BY <1>1, <1>4, <1>6, <2>1, <2>2 DEF Reader
    <3> QED BY <3>1, <3>2, <3>3, <3>4 DEF Reader
  <2>3. CASE c \notin ran
    <3>1. h.st[c] = g.st[c] /\ h.rank = g.rank /\ h.out = g.out
      BY <1>1, <2>3
    <3>2. (DoneIn(h, c) <=> DoneIn(g, c)) /\ (RunningIn(h, c) <=> RunningIn(g, c)) /\ (Has(h, c) <=> Has(g, c))
      BY <3>1 DEF DoneIn, RunningIn, Has
    <3> QED BY <1>6, <1>7, <2>1, <2>3, <3>1, <3>2 DEF Reader
  <2> QED BY <2>2, <2>3
<1> QED BY <1>5, <1>8, <1>9 DEF Fit, h

(* When a pass reports nothing, every card has read what it should.        *)
LEMMA QuietStarted ==
  ASSUME OneProvider, Layered, AlwaysContent,
         NEW g \in Graph, NEW src \in Contents, NEW ran \in SUBSET Tasks, Fit(g, src, <<>>, ran),
         \A c \in Tasks : Eligible(g, c) => c \in ran,
         \A c \in Tasks : Requires[c] # {} => ~RunningIn(g, c)
  PROVE  Quiet(Started(g, ran))
<1> DEFINE h == Started(g, ran)
<1>1. /\ h.rank = g.rank /\ h.req = g.req /\ h.prov = g.prov /\ h.out = g.out
      /\ \A u \in Tasks :
           /\ u \notin ran => h.st[u] = g.st[u]
           /\ u \in ran => /\ h.st[u].status = "running" /\ h.st[u].hasStart /\ h.st[u].started = StartHashes(g, u)
                           /\ h.st[u].hash = g.st[u].hash /\ h.st[u].data = g.st[u].data
                           /\ h.st[u].consumed = g.st[u].consumed
  BY StartedEffect
<1>2. h \in Graph /\ \A u \in Tasks : g.st[u] \in Store
  BY StartedType DEF Graph
<1> HIDE DEF h
<1>3. Wired(g) /\ g.req = Requires /\ g.prov = Provides
  BY DEF Fit, Wired
<1>4. \A u \in Tasks : h.st[u].hash = g.st[u].hash
  BY <1>1
<1>5. ASSUME NEW c \in Tasks, Requires[c] # {}
      PROVE  /\ c \notin ran /\ ~Eligible(g, c) /\ h.st[c] = g.st[c] /\ ~Capped(g, c)
             /\ Strategy[c] = "data-changed" /\ Reader(c, g, src, <<>>, ran)
  <2>1. Reader(c, g, src, <<>>, ran) /\ ~Reported(<<>>, c)
    BY <1>5, EmptySeq DEF Fit, Reported
  <2>2. c \notin ran
    BY <2>1 DEF Reader
  <2>3. Cap[c] = NoLimit /\ Breaker[c] = NoLimit /\ Strategy[c] = "data-changed"
    BY <1>5 DEF Layered
  <2> QED BY <1>1, <2>1, <2>2, <2>3 DEF Capped, Tripped
<1>6. Available(g) = g.out
  BY AvailableIsOut
<1>7. ASSUME NEW c \in Tasks, Requires[c] # {}, DoneIn(h, c) PROVE Current(h, c)
  <2>1. /\ DoneIn(g, c) /\ ~Eligible(g, c) /\ h.st[c] = g.st[c] /\ ~Capped(g, c) /\ Strategy[c] = "data-changed"
        /\ Reader(c, g, src, <<>>, ran)
    BY <1>1, <1>5, <1>7 DEF DoneIn, Has
  <2>2. \A k \in Requires[c] : ~DataChanged(g, c, k)
    <3>1. Requires[c] \subseteq Available(g)
      BY <1>6, <2>1 DEF Reader
    <3>2. ~MayRefresh(g, c)
      BY <1>3, <2>1, <3>1 DEF Eligible, DoneIn
    <3> QED BY <1>3, <2>1, <3>2 DEF MayRefresh
  <2>3. ASSUME NEW k \in Tokens PROVE g.st[c].consumed[k] = StartHashes(g, c)[k]
    <3>1. CASE StartHashes(g, c)[k] = NoData
      BY <2>1, <3>1 DEF Reader
    <3>2. CASE StartHashes(g, c)[k] # NoData
      <4>1. k \in Requires[c] /\ Providers(g, k) # {}
        BY <1>3, <3>2, NoProviderOf
      <4>2. StartHashes(g, c)[k] = g.st[FirstProvider(g, k)].hash
        BY <1>3, <4>1 DEF StartHashes
      <4> QED BY <2>2, <3>2, <4>1, <4>2 DEF DataChanged
    <3> QED BY <3>1, <3>2
  <2>4. g.st[c].consumed = StartHashes(g, c)
    <3>1. g.st[c].consumed \in Inputs /\ StartHashes(g, c) \in Inputs
      BY <1>2, StartHashesType DEF Store
    <3> QED BY <2>3, <3>1 DEF Inputs
  <2>5. StartHashes(h, c) = StartHashes(g, c)
    BY <1>1, <1>2, <1>3, <1>4, SameHashes
  <2> QED BY <2>1, <2>4, <2>5 DEF Current
<1>8. ASSUME NEW c \in Tasks, Requires[c] # {}, Has(h, c), NEW t \in Targets, Feeds(t, c), h.st[t].hash # NoData
      PROVE  DoneIn(h, c)
  <2>1. t \in Tasks /\ g.st[t].hash # NoData /\ Has(g, c)
    BY <1>1, <1>4, <1>8, BoardAssumption DEF Has
  <2>2. Requires[c] \subseteq Provides[t] /\ c \notin Targets
    BY <1>8 DEF Layered
  <2>3. Requires[c] \subseteq Available(g)
    BY <1>3, <1>6, <2>1, <2>2 DEF Wired
  <2>4. g.st[c].status \notin {"running", "failed", "not-started"}
    <3>1. g.st[c].status # "running" /\ g.st[c].status # "failed"
      BY <1>5, <1>8, <2>1, <2>2 DEF RunningIn, Reader
    <3>2. g.st[c].status # "not-started"
      BY <1>3, <1>5, <1>8, <2>1, <2>3 DEF Eligible
    <3> QED BY <3>1, <3>2
  <2>5. g.st[c].status = "completed"
    BY <1>2, <2>4 DEF Store
  <2> QED BY <1>5, <1>8, <2>5 DEF DoneIn
<1>9. Quiet(h)
  BY <1>7, <1>8 DEF Quiet
<1> QED BY <1>9 DEF h

(* The events of the journal report nothing.                               *)
LEMMA FitUnread ==
  ASSUME NEW g, NEW src, NEW q, Fit(g, src, <<>>, {}), \A i \in 1..Len(q) : Lawful(q[i])
  PROVE  Fit(g, src, q, {})
<1>1. \A c : \A i \in 1..Len(q) : ~Reports(q[i], c) /\ ~q[i].event.routed
  BY DEF Reports, Lawful
<1>2. \A c : ~Reported(q, c) /\ ~Reported(<<>>, c)
  BY <1>1, EmptySeq DEF Reported
<1>3. \A c \in Tasks : Requires[c] = {} => Fetcher(c, g, src, q)
  BY <1>1 DEF Fit, Fetcher
<1>4. ASSUME NEW c \in Tasks, Requires[c] # {} PROVE Reader(c, g, src, q, {})
  <2>1. Reader(c, g, src, <<>>, {})
    BY <1>4 DEF Fit
  <2> QED BY <1>1, <1>2, <2>1 DEF Reader
<1> QED BY <1>1, <1>3, <1>4 DEF Fit

(* A settled card stores nothing older.                                    *)
LEMMA SettledKeeps ==
  ASSUME NEW c \in Tasks, NEW r \in Runtime, NEW u \in Update, NEW n \in Token,
         Settled(n, r, c), u.source \in Sources(c), u.rqt <= n
  PROVE  ~Commits(r, u)
<1>1. r.src[u.source].completed = n /\ n # NoToken
  BY DEF Settled
<1>2. u.rqt \in Nat /\ n \in Nat
  BY DEF Update, Token
<1> QED BY <1>1, <1>2 DEF Commits, Accepts

LEMMA FitDelivered ==
  ASSUME NEW g, NEW src \in Contents, NEW q, NEW ran, Fit(g, src, q, ran), NEW c \in Tasks, NEW u \in Update, NEW r \in Runtime,
         RunningIn(g, c), Requires[c] # {} => ~RunningIn(g, c), u.source \in Sources(c),
         NEW n \in Token, u.rqt <= n, Reported(q, c) => Settled(n, r, c),
         NEW f, f = [src EXCEPT ![c] = [src[c] EXCEPT ![u.source] = IF Commits(r, u) THEN u.rqt ELSE src[c][u.source]]]
  PROVE  Fit(g, f, q, ran)
<1>1. CASE Reported(q, c)
  <2>1. ~Commits(r, u)
    BY <1>1, SettledKeeps
  <2>2. f = src
    BY <2>1, Zenon DEF Contents
  <2> QED BY <2>2
<1>2. CASE ~Reported(q, c)
  <2>1. \A b \in Tasks : b # c => f[b] = src[b]
    BY DEF Contents
  <2>2. ~DoneIn(g, c) /\ Requires[c] = {}
    BY DEF DoneIn, RunningIn
  <2>3. ASSUME NEW y, \A b \in Tasks : b # c => y[b] = src[b] PROVE Fit(g, y, q, ran)
    BY <1>2, <2>2, <2>3, FitStored
  <2> QED BY <2>1, <2>3
<1> QED BY <1>1, <1>2

LEMMA OthersDrain ==
  ASSUME NEW q, pc'[q] \notin Holding
  PROVE  Drains(q)' /\ pc'[q] \notin Unpublished \cup {"sources"} /\ pc'[q] \notin Inner \cup Writing
BY DEF Drains, Unpublished, Holding, Inner, Writing

(* The steps within the memory of a drain.                                 *)
LEMMA CurrentRun ==
  ASSUME AlwaysContent, OneProvider, Layered, TypeOK, DrainInv, SettleInv, NEW p \in Procs, Drains(p),
         NEW c \in Tasks, RunCard(p, c)
  PROVE  Drains(p)'
<1>1. /\ pc[p] = "run" /\ c \in job.todo /\ pc' = pc /\ journal' = journal
  BY DEF RunCard, IsNext
<1>2. PICK r \in Runtime, n \in Token :
        job' = [Handle(job, c, r, n) EXCEPT !.todo = job.todo \ {c}, !.ran = job.ran \cup {c}]
  <2>1. PICK r \in Runtime, n \in Token :
        job' = [Handle(job, c, r, n) EXCEPT !.todo = @ \ {c}, !.ran = @ \cup {c}]
    BY RunIsHandle
  <2>2. Handle(job, c, r, n).todo = job.todo /\ Handle(job, c, r, n).ran = job.ran /\ Handle(job, c, r, n) \in Job
    BY HandleReports, HandleType DEF TypeOK
  <2> QED BY <2>1, <2>2
<1> DEFINE h == Handle(job, c, r, n)
           g == job.graph
<1>3. /\ Adding(h.tx, job.tx, c, Result(job, c)) /\ (Completes(r, c, n) => Reported(h.tx, c))
      /\ h.graph = g /\ h.sources = job.sources /\ h.taken = job.taken /\ h.updates = job.updates
  BY HandleReports DEF TypeOK
<1>4. /\ job'.graph = g /\ job'.sources = job.sources /\ job'.taken = job.taken /\ job'.updates = job.updates
      /\ job'.tx = h.tx /\ job'.todo = job.todo \ {c} /\ job'.ran = job.ran \cup {c}
  <2>1. h \in Job
    BY HandleType DEF TypeOK
  <2> HIDE DEF h
  <2> QED BY <1>2, <1>3, <2>1 DEF Job, h
<1> HIDE DEF h
<1>5. /\ Fit(g, job.sources, job.tx, job.ran)
      /\ \A b \in Tasks : /\ b \in job.todo => Eligible(g, b)
                          /\ Eligible(g, b) => b \in job.todo \cup job.ran
                          /\ Requires[b] # {} => ~RunningIn(g, b)
      /\ \A i \in 1..Len(job.updates) : Sourced(job.updates[i])
      /\ \A i \in (job.taken + 1)..Len(journal) : journal[i].event.type # "upsert"
  BY <1>1 DEF Drains, Inner
<1>6. ~Reported(job.tx, c)
  BY <1>1 DEF SettleInv, Drained, Runs
<1>7. Fit(g, job.sources, h.tx, job.ran \cup {c})
  <2>1. CASE Requires[c] = {}
    BY <1>3, <1>5, <2>1, FitFetched DEF TypeOK
  <2>2. CASE Requires[c] # {}
    <3>1. Completes(r, c, n)
      BY <2>2, ReadersComplete DEF Layered
    <3>2. Eligible(g, c)
      BY <1>1, <1>5
    <3> QED BY <1>3, <1>5, <1>6, <2>2, <3>1, <3>2, FitRead DEF TypeOK
  <2> QED BY <2>1, <2>2
<1>8. Fit(job.graph, job.sources, job.tx, job.ran)'
  BY <1>4, <1>7
<1>9. \A b \in Tasks : /\ b \in job'.todo => Eligible(job'.graph, b)
                       /\ Eligible(job'.graph, b) => b \in job'.todo \cup job'.ran
                       /\ Requires[b] # {} => ~RunningIn(job'.graph, b)
  BY <1>4, <1>5
<1> QED BY <1>1, <1>4, <1>5, <1>8, <1>9 DEF Drains, Inner, Writing

LEMMA CurrentRoute ==
  ASSUME AlwaysContent, OneProvider, Layered, TypeOK, DrainInv, SettleInv, NEW p \in Procs, Drains(p), RouteProgress(p)
  PROVE  Drains(p)'
<1> DEFINE x == Head(job.updates)
           c == x.event.task
           u == x.update
           j == [job EXCEPT !.updates = Tail(job.updates)]
           g == job.graph
<1>1. /\ pc[p] = "run" /\ pc' = pc /\ journal' = journal /\ job.updates # <<>>
      /\ job' = IF RunningIn(g, c) THEN Deliver(j, c, u) ELSE j
  BY DEF RouteProgress, RunningIn
<1>2. job \in Job /\ job.updates \in Seq(JournalEntry) /\ clock \in [Tasks -> Token]
  BY DEF TypeOK, Job
<1>3. /\ 1 \in 1..Len(job.updates) /\ x = job.updates[1] /\ x \in JournalEntry /\ Tail(job.updates) \in Seq(JournalEntry)
      /\ \A i \in 1..Len(Tail(job.updates)) : i + 1 \in 1..Len(job.updates) /\ Tail(job.updates)[i] = job.updates[i + 1]
  BY <1>1, <1>2, TailEntries, HeadTailProperties
<1>4. c \in Tasks /\ u \in Update
  BY <1>3 DEF JournalEntry, Event
<1>5. /\ j \in Job /\ j.tx = job.tx /\ j.graph = g /\ j.sources = job.sources /\ j.ran = job.ran /\ j.todo = job.todo
      /\ j.taken = job.taken /\ j.updates = Tail(job.updates) /\ j.runtime = job.runtime
  BY <1>2, <1>3 DEF Job
<1> HIDE DEF j
<1>6. /\ Fit(g, job.sources, job.tx, job.ran)
      /\ \A b \in Tasks : /\ b \in job.todo => Eligible(g, b)
                          /\ Eligible(g, b) => b \in job.todo \cup job.ran
                          /\ Requires[b] # {} => ~RunningIn(g, b)
      /\ \A i \in 1..Len(job.updates) : Sourced(job.updates[i])
      /\ \A i \in (job.taken + 1)..Len(journal) : journal[i].event.type # "upsert"
  BY <1>1 DEF Drains, Inner
<1>7. \A i \in 1..Len(Tail(job.updates)) : Sourced(Tail(job.updates)[i])
  BY <1>3, <1>6
<1>8. ASSUME NEW k, job' = k, k.graph = g, k.ran = job.ran, k.todo = job.todo, k.taken = job.taken,
             k.updates = Tail(job.updates), Fit(g, k.sources, k.tx, job.ran)
      PROVE  Drains(p)'
  <2>1. Fit(job.graph, job.sources, job.tx, job.ran)'
    BY <1>8
  <2>2. \A b \in Tasks : /\ b \in job'.todo => Eligible(job'.graph, b)
                         /\ Eligible(job'.graph, b) => b \in job'.todo \cup job'.ran
                         /\ Requires[b] # {} => ~RunningIn(job'.graph, b)
    BY <1>6, <1>8
  <2>3. \A i \in 1..Len(job'.updates) : Sourced(job'.updates[i])
    BY <1>7, <1>8
  <2>4. \A i \in (job'.taken + 1)..Len(journal') : journal'[i].event.type # "upsert"
    BY <1>1, <1>6, <1>8
  <2> QED BY <1>1, <2>1, <2>2, <2>3, <2>4 DEF Drains, Inner, Writing
<1>9. CASE ~RunningIn(g, c)
  <2>1. job' = j /\ Fit(g, j.sources, j.tx, job.ran)
    BY <1>1, <1>5, <1>6, <1>9
  <2> QED BY <1>5, <1>8, <2>1
<1>10. CASE RunningIn(g, c)
  <2>1. Runs
    BY <1>1 DEF SettleInv, Drained
  <2>2. Answer(x) /\ Within(clock, x) /\ Sourced(x)
    BY <1>3, <1>6, <2>1 DEF Runs, Updates
  <2>3. u.rqt <= clock[c] /\ u.source \in Sources(c)
    BY <2>2 DEF Within, Answer, Sourced
  <2> HIDE DEF c, u
  <2>4. Card(clock[c], job.runtime[c], c, g, job.tx, job.ran)
    BY <1>4, <2>1 DEF Runs, Cards
  <2>5. Wiped(job.runtime[c], Execs(c)) = job.runtime[c] /\ job.runtime[c] \in Runtime
    <3>1. Ready(clock[c], job.runtime[c], c, g.st[c].execs)
      BY <1>10, <2>4 DEF Card
    <3>2. job.runtime[c] \in Runtime
      BY <1>2, <1>4 DEF Job
    <3> QED BY <3>1, <3>2 DEF Ready, Wiped, Execs
  <2>6. PICK f \in Contents :
          /\ f = [j.sources EXCEPT ![c] = [j.sources[c] EXCEPT ![u.source] =
                    IF Commits(Wiped(j.runtime[c], Execs(c)), u) THEN u.rqt ELSE j.sources[c][u.source]]]
          /\ Deliver(j, c, u) = Handle([j EXCEPT !.sources = f], c, Answered(Wiped(j.runtime[c], Execs(c)), u), clock[c] + 1)
          /\ [j EXCEPT !.sources = f] \in Job /\ Answered(Wiped(j.runtime[c], Execs(c)), u) \in Runtime
          /\ clock[c] + 1 \in Token
    <3>1. job \in Job /\ j \in Job /\ clock \in [Tasks -> Token] /\ c \in Tasks /\ u \in Update
      BY <1>2, <1>4, <1>5
    <3> QED BY ONLY <3>1, DeliverForm, ZenonT(60)
  <2> DEFINE i == [j EXCEPT !.sources = f]
             a == Answered(Wiped(j.runtime[c], Execs(c)), u)
             h == Handle(i, c, a, clock[c] + 1)
  <2>7. /\ i \in Job /\ i.tx = job.tx /\ i.graph = g /\ i.sources = f /\ i.ran = job.ran /\ i.todo = job.todo
        /\ i.taken = job.taken /\ i.updates = Tail(job.updates)
    BY <1>5, <2>6 DEF Job
  <2>8. job' = h /\ a \in Runtime /\ clock[c] + 1 \in Token
    BY <1>1, <1>10, <2>6 DEF c, u
  <2>9. f = [job.sources EXCEPT ![c] = [job.sources[c] EXCEPT ![u.source] =
               IF Commits(job.runtime[c], u) THEN u.rqt ELSE job.sources[c][u.source]]]
    BY <1>5, <2>5, <2>6
  <2> HIDE DEF i, a
  <2>10. Fit(g, f, job.tx, job.ran)
    <3>1. /\ job.sources \in Contents /\ clock[c] \in Token /\ (Requires[c] # {} => ~RunningIn(g, c))
          /\ (Reported(job.tx, c) => Settled(clock[c], job.runtime[c], c))
      BY <1>2, <1>4, <1>6, <2>4 DEF Job, Card
    <3> QED BY <1>4, <1>6, <1>10, <2>3, <2>5, <2>9, <3>1, FitDelivered
  <2>11. /\ Adding(h.tx, i.tx, c, Result(i, c)) /\ h.graph = i.graph /\ h.sources = i.sources /\ h.ran = i.ran
         /\ h.todo = i.todo /\ h.taken = i.taken /\ h.updates = i.updates
    BY <1>4, <2>7, <2>8, HandleReports
  <2> HIDE DEF h
  <2>12. Requires[c] = {}
    BY <1>4, <1>6, <1>10 DEF c
  <2>13. Fit(i.graph, i.sources, h.tx, job.ran)
    BY <1>4, <2>7, <2>10, <2>11, <2>12, FitFetched
  <2> QED BY <1>8, <2>7, <2>8, <2>11, <2>13
<1> QED BY <1>9, <1>10

LEMMA CurrentDrain ==
  ASSUME AlwaysContent, OneProvider, Layered, TypeOK, DrainInv, SettleInv, CurrentInv, NEW p \in Procs, Drain(p)
  PROVE  CurrentInv'
<1>1. pc[p] \in Holding
  BY DEF Drain, Load, ApplyOne, Schedule, RunCard, RouteProgress, EndPass, CommitRuntime, CommitGraph,
         CommitCursor, KeyAfter, Writing, FlushOutputs, FlushSources, DispatchRequest, Release, Holding, Inner
<1>2. PICK l : Goto(p, l) \/ pc' = pc
  BY DEF Drain, Load, ApplyOne, Schedule, RunCard, RouteProgress, EndPass, CommitRuntime, CommitGraph,
         CommitCursor, KeyAfter, Writing, FlushOutputs, FlushSources, DispatchRequest, Release
<1>3. \A q \in Procs : q # p => /\ Drains(q)' /\ pc[q] \notin Holding /\ pc'[q] \notin Holding
                                /\ pc[q] \notin Unpublished \cup {"sources"} /\ pc[q] \notin Inner \cup Writing
  <2>1. \A q \in Procs : q # p => pc[q] \notin Holding /\ pc'[q] \notin Holding
    BY <1>1, <1>2, HolderIsAlone DEF DrainInv
  <2> QED BY <2>1, OthersDrain DEF Unpublished, Holding, Inner, Writing
<1>4. ASSUME \A i \in 1..Len(journal') : Lawful(journal'[i]), Drains(p)',
             pc'[p] \notin Unpublished \cup {"sources"} => Rests(snap'.graph, content'),
             pc'[p] \notin Inner \cup Writing => (Adds(journal') => Blank(snap'.graph))
      PROVE  CurrentInv'
  BY <1>3, <1>4 DEF CurrentInv
<1>5. /\ \A i \in 1..Len(journal) : Lawful(journal[i])
      /\ Drains(p) /\ Counted(p)
      /\ pc[p] \notin Unpublished \cup {"sources"} => Rests(snap.graph, content)
      /\ pc[p] \notin Inner \cup Writing => (Adds(journal) => Blank(snap.graph))
  BY <1>3 DEF CurrentInv, DrainInv
<1>6. /\ job \in Job /\ job.graph \in Graph /\ job.sources \in Contents /\ job.batch \in Seq(JournalEntry)
      /\ job.tx \in Seq(JournalEntry) /\ job.updates \in Seq(JournalEntry) /\ job.ran \in SUBSET Tasks
      /\ journal \in Seq(JournalEntry) /\ pc \in [Procs -> Places]
  BY DEF TypeOK, Job, Places
<1>7. CASE Load(p)
  <2>1. /\ job'.graph = snap.graph /\ job'.sources = content /\ job'.batch = journal /\ job'.updates = <<>>
        /\ job'.taken = Len(journal)
    BY <1>7 DEF Load, NoJob
  <2>2. /\ pc[p] = "load" /\ pc'[p] = (IF journal = <<>> THEN "runtime" ELSE "apply")
        /\ UNCHANGED <<content, journal, snap>>
    BY <1>6, <1>7 DEF Load, Goto
  <2>3. Rests(snap.graph, content) /\ (Adds(journal) => Blank(snap.graph))
    BY <1>5, <2>2 DEF Unpublished, Inner, Writing
  <2>4. Fit(snap.graph, content, journal, {}) /\ Quiet(snap.graph)
    BY <1>5, <2>3, FitUnread DEF Rests
  <2>5. \A i \in (job'.taken + 1)..Len(journal') : journal'[i].event.type # "upsert"
    <3>1. Len(journal) \in Nat
      BY <1>6, LenProperties
    <3> QED BY <2>1, <2>2, <3>1
  <2>6. \A i \in 1..Len(job'.updates) : Sourced(job'.updates[i])
    BY <2>1, EmptySeq
  <2>7. CASE journal = <<>>
    <3>1. Rests(job'.graph, job'.sources) /\ pc'[p] = "runtime"
      BY <2>1, <2>2, <2>3, <2>7
    <3>2. Drains(p)'
      BY <2>5, <3>1 DEF Drains, Inner
    <3> QED BY <1>4, <1>5, <2>2, <3>1, <3>2 DEF Unpublished, Writing
  <2>8. CASE journal # <<>>
    <3>1. Fit(job'.graph, job'.sources, job'.batch, {}) /\ pc'[p] = "apply"
      BY <2>1, <2>2, <2>4, <2>8
    <3>2. /\ \A i \in 1..Len(job'.batch) : Lawful(job'.batch[i])
          /\ Quiet(job'.graph) /\ (Adds(job'.batch) => Blank(job'.graph))
      BY <1>5, <2>1, <2>3, <2>4
    <3>3. Drains(p)'
      BY <2>5, <2>6, <3>1, <3>2 DEF Drains
    <3> QED BY <1>4, <1>5, <2>2, <3>1, <3>3 DEF Unpublished, Inner
  <2> QED BY <2>7, <2>8
<1>8. ASSUME pc[p] \in Inner, pc'[p] \in Inner \cup {"runtime"}, Drains(p)', journal' = journal PROVE CurrentInv'
  BY <1>4, <1>5, <1>8 DEF Unpublished, Inner, Writing
<1>9. CASE ApplyOne(p)
  <2> DEFINE x == Head(job.batch)
             a == Tail(job.batch)
             h == ApplyEvent(job.graph, x.event)
  <2>1. /\ job'.graph = h /\ job'.batch = a /\ job'.sources = job.sources /\ job'.taken = job.taken
        /\ job'.updates = (IF x.event.type = "progress" THEN Append(job.updates, x) ELSE job.updates)
    BY <1>9 DEF ApplyOne, TypeOK, Job
  <2>2. pc[p] = "apply" /\ pc'[p] = "apply" /\ job.batch # <<>> /\ journal' = journal
    BY <1>9 DEF ApplyOne
  <2>3. /\ Fit(job.graph, job.sources, job.batch, {})
        /\ \/ Closed(job.batch)
           \/ /\ \A i \in 1..Len(job.batch) : Lawful(job.batch[i])
              /\ Quiet(job.graph) /\ (Adds(job.batch) => Blank(job.graph))
        /\ \A i \in 1..Len(job.updates) : Sourced(job.updates[i])
        /\ \A i \in (job.taken + 1)..Len(journal) : journal[i].event.type # "upsert"
    BY <1>5, <2>2 DEF Drains, Inner
  <2>4. x = job.batch[1] /\ 1 \in 1..Len(job.batch) /\ x \in JournalEntry
    BY <1>6, <2>2, TailEntries, HeadTailProperties
  <2>5. /\ Fit(h, job.sources, a, {})
        /\ \/ Closed(a)
           \/ /\ \A i \in 1..Len(a) : Lawful(a[i])
              /\ Quiet(h) /\ (Adds(a) => Blank(h))
    <3>1. CASE Closed(job.batch)
      <4>1. x.event.type = "completed" /\ Closed(a)
        BY <1>6, <2>2, <3>1, OpenTail
      <4>2. Fit(h, job.sources, a, {})
        BY <1>6, <2>2, <2>3, <4>1, FitCompleted
      <4> QED BY <4>1, <4>2
    <3>2. CASE /\ \A i \in 1..Len(job.batch) : Lawful(job.batch[i])
               /\ Quiet(job.graph) /\ (Adds(job.batch) => Blank(job.graph))
      BY <1>6, <2>2, <2>3, <3>2, FitLawful
    <3> QED BY <2>3, <3>1, <3>2
  <2>6. \A i \in 1..Len(job'.updates) : Sourced(job'.updates[i])
    <3>1. CASE x.event.type # "progress"
      BY <2>1, <2>3, <3>1
    <3>2. CASE x.event.type = "progress"
      <4>1. Sourced(x)
        BY <2>3, <2>4, <3>2 DEF Closed, Lawful
      <4>2. \A i \in 1..Len(Append(job.updates, x)) :
              (i \in 1..Len(job.updates) /\ Append(job.updates, x)[i] = job.updates[i]) \/ Append(job.updates, x)[i] = x
        BY <1>6, <2>4, AppendEntries
      <4> QED BY <2>1, <2>3, <3>2, <4>1, <4>2
    <3> QED BY <3>1, <3>2
  <2> HIDE DEF h, a, x
  <2>7. \A i \in (job'.taken + 1)..Len(journal') : journal'[i].event.type # "upsert"
    BY <2>1, <2>2, <2>3
  <2>8. /\ Fit(job'.graph, job'.sources, job'.batch, {})
        /\ \/ Closed(job'.batch)
           \/ /\ \A i \in 1..Len(job'.batch) : Lawful(job'.batch[i])
              /\ Quiet(job'.graph) /\ (Adds(job'.batch) => Blank(job'.graph))
    BY <2>1, <2>5
  <2>9. Drains(p)'
    BY <2>2, <2>6, <2>7, <2>8 DEF Drains
  <2> QED BY <1>8, <2>2, <2>9 DEF Inner
<1>10. CASE Schedule(p)
  <2>1. /\ job'.graph = job.graph /\ job'.sources = job.sources /\ job'.tx = job.tx /\ job'.ran = job.ran
        /\ job'.taken = job.taken /\ job'.updates = job.updates /\ job'.todo = {c \in Tasks : Eligible(job.graph, c)}
        /\ pc[p] = "apply" /\ pc'[p] = "run" /\ job.batch = <<>> /\ journal' = journal
    BY <1>6, <1>10 DEF Schedule, Job, Goto
  <2>2. job.tx = <<>> /\ job.ran = {}
    BY <1>5, <2>1 DEF Counted, SettleInv, Drained, Applies
  <2>3. /\ Fit(job.graph, job.sources, <<>>, {})
        /\ \A i \in 1..Len(job.updates) : Sourced(job.updates[i])
        /\ \A i \in (job.taken + 1)..Len(journal) : journal[i].event.type # "upsert"
    BY <1>5, <2>1 DEF Drains, Inner
  <2>4. ASSUME NEW c \in Tasks, Requires[c] # {} PROVE ~RunningIn(job.graph, c)
    <3>1. Reader(c, job.graph, job.sources, <<>>, {}) /\ ~Reported(<<>>, c)
      BY <2>3, <2>4, EmptySeq DEF Fit, Reported
    <3> QED BY <3>1 DEF Reader
  <2>5. Fit(job'.graph, job'.sources, job'.tx, job'.ran)
    BY <2>1, <2>2, <2>3
  <2>6. \A c \in Tasks : /\ c \in job'.todo => Eligible(job'.graph, c)
                         /\ Eligible(job'.graph, c) => c \in job'.todo \cup job'.ran
                         /\ Requires[c] # {} => ~RunningIn(job'.graph, c)
    BY <2>1, <2>4
  <2>7. Drains(p)'
    BY <2>1, <2>3, <2>5, <2>6 DEF Drains, Inner, Writing
  <2> QED BY <1>8, <2>1, <2>7 DEF Inner
<1>11. CASE (\E c \in Tasks : RunCard(p, c)) \/ RouteProgress(p)
  <2>1. pc[p] = "run" /\ pc' = pc /\ journal' = journal
    BY <1>11 DEF RunCard, RouteProgress
  <2>2. Drains(p)'
    BY <1>5, <1>11, CurrentRun, CurrentRoute
  <2> QED BY <1>8, <2>1, <2>2 DEF Inner
<1>12. CASE EndPass(p)
  <2>1. /\ pc[p] = "run" /\ pc'[p] = (IF job.tx = <<>> THEN "runtime" ELSE "apply") /\ journal' = journal
        /\ job'.graph = Started(job.graph, job.ran) /\ job'.batch = job.tx /\ job'.sources = job.sources
        /\ job'.taken = job.taken /\ job'.updates = job.updates /\ job.todo = {}
    BY <1>6, <1>12 DEF EndPass, Job, Goto
  <2>2. /\ Fit(job.graph, job.sources, job.tx, job.ran)
        /\ \A c \in Tasks : /\ Eligible(job.graph, c) => c \in job.ran
                            /\ Requires[c] # {} => ~RunningIn(job.graph, c)
        /\ \A i \in 1..Len(job.updates) : Sourced(job.updates[i])
        /\ \A i \in (job.taken + 1)..Len(journal) : journal[i].event.type # "upsert"
    BY <1>5, <2>1 DEF Drains, Inner
  <2>3. Fit(Started(job.graph, job.ran), job.sources, job.tx, {})
    BY <1>6, <2>2, FitStarted
  <2>4. CASE job.tx = <<>>
    <3>1. Quiet(Started(job.graph, job.ran))
      BY <1>6, <2>2, <2>4, QuietStarted
    <3>2. Rests(job'.graph, job'.sources)
      BY <2>1, <2>3, <2>4, <3>1 DEF Rests
    <3>3. pc'[p] = "runtime" /\ \A i \in (job'.taken + 1)..Len(journal') : journal'[i].event.type # "upsert"
      BY <2>1, <2>2, <2>4
    <3>4. Drains(p)'
      BY <3>2, <3>3 DEF Drains, Inner
    <3> QED BY <1>8, <2>1, <3>3, <3>4 DEF Inner
  <2>5. CASE job.tx # <<>>
    <3>1. Closed(job.tx)
      BY <1>5, <2>1 DEF Counted
    <3>2. Fit(job'.graph, job'.sources, job'.batch, {}) /\ Closed(job'.batch)
      BY <2>1, <2>3, <3>1
    <3>3. /\ pc'[p] = "apply" /\ \A i \in (job'.taken + 1)..Len(journal') : journal'[i].event.type # "upsert"
          /\ \A i \in 1..Len(job'.updates) : Sourced(job'.updates[i])
      BY <2>1, <2>2, <2>5
    <3>4. Drains(p)'
      BY <3>2, <3>3 DEF Drains
    <3> QED BY <1>8, <2>1, <3>3, <3>4 DEF Inner
  <2> QED BY <2>4, <2>5
<1>13. CASE CommitRuntime(p) \/ CommitGraph(p)
  <2>1. /\ UNCHANGED <<journal, job, content>>
        /\ \/ pc[p] = "runtime" /\ pc'[p] = "graph"
           \/ pc[p] = "graph" /\ pc'[p] = "cursor" /\ snap'.graph = job.graph
    BY <1>6, <1>13 DEF CommitRuntime, CommitGraph, KeyAfter, Goto, TypeOK, Snapshot
  <2>2. Rests(job.graph, job.sources) /\ \A i \in (job.taken + 1)..Len(journal) : journal[i].event.type # "upsert"
    BY <1>5, <2>1 DEF Drains, Writing
  <2>3. \A i \in (job'.taken + 1)..Len(journal') : journal'[i].event.type # "upsert"
    BY <2>1, <2>2
  <2>4. CASE pc[p] = "runtime" /\ pc'[p] = "graph"
    <3>1. Rests(job'.graph, job'.sources)
      BY <2>1, <2>2
    <3>2. Drains(p)'
      BY <2>3, <2>4, <3>1 DEF Drains, Inner
    <3> QED BY <1>4, <1>5, <2>1, <2>4, <3>2 DEF Unpublished, Writing
  <2>5. CASE pc[p] = "graph" /\ pc'[p] = "cursor" /\ snap'.graph = job.graph
    <3>1. Rests(snap'.graph, job'.sources)
      BY <2>1, <2>2, <2>5
    <3>2. Drains(p)'
      BY <2>3, <2>5, <3>1 DEF Drains, Inner
    <3> QED BY <1>4, <1>5, <2>1, <2>5, <3>2 DEF Unpublished, Writing
  <2> QED BY <2>1, <2>4, <2>5
<1>14. CASE CommitCursor(p)
  <2>1. /\ job' = job /\ pc[p] = "cursor" /\ pc'[p] = "outputs" /\ snap'.graph = snap.graph
        /\ journal' = SubSeq(journal, job.taken + 1, Len(journal)) /\ job.taken <= Len(journal) /\ job.taken \in Nat
    BY <1>5, <1>6, <1>14 DEF CommitCursor, KeyAfter, Goto, TypeOK, Snapshot, Counted, Writing, Job
  <2>2. Rests(snap.graph, job.sources) /\ \A i \in (job.taken + 1)..Len(journal) : journal[i].event.type # "upsert"
    BY <1>5, <2>1 DEF Drains, Writing
  <2>3. \A i \in 1..Len(journal') : \E n \in 1..Len(journal) : n \in (job.taken + 1)..Len(journal) /\ journal'[i] = journal[n]
    <3> DEFINE q == SubSeq(journal, job.taken + 1, Len(journal))
    <3>1. Len(q) = Len(journal) - job.taken /\ \A i \in 1..(Len(journal) - job.taken) : q[i] = journal[job.taken + i]
      BY <1>6, <2>1, EntriesAfter
    <3>2. \A i \in 1..(Len(journal) - job.taken) :
            job.taken + i \in (job.taken + 1)..Len(journal) /\ job.taken + i \in 1..Len(journal)
      BY <1>6, <2>1, SMTT(20)
    <3> HIDE DEF q
    <3> QED BY <2>1, <3>1, <3>2 DEF q
  <2>4. ~Adds(journal') /\ \A i \in 1..Len(journal') : Lawful(journal'[i])
    BY <1>5, <2>2, <2>3 DEF Adds
  <2>5. Rests(snap'.graph, job'.sources)
    BY <2>1, <2>2
  <2>6. Drains(p)'
    BY <2>1, <2>5 DEF Drains, Inner, Writing
  <2> QED BY <1>4, <2>1, <2>4, <2>6 DEF Unpublished
<1>15. CASE FlushOutputs(p) \/ FlushSources(p)
  <2>1. /\ UNCHANGED <<journal, snap, job>>
        /\ \/ pc[p] = "outputs" /\ pc'[p] = "sources"
           \/ pc[p] = "sources" /\ pc'[p] = "dispatch" /\ content' = job.sources
    BY <1>6, <1>15 DEF FlushOutputs, FlushSources, Goto
  <2>2. Rests(snap.graph, job.sources) /\ (Adds(journal) => Blank(snap.graph))
    BY <1>5, <2>1 DEF Drains, Inner, Writing
  <2>3. CASE pc[p] = "outputs" /\ pc'[p] = "sources"
    <3>1. Rests(snap'.graph, job'.sources)
      BY <2>1, <2>2
    <3>2. Drains(p)'
      BY <2>3, <3>1 DEF Drains, Inner, Writing
    <3> QED BY <1>4, <1>5, <2>1, <2>2, <2>3, <3>2
  <2>4. CASE pc[p] = "sources" /\ pc'[p] = "dispatch" /\ content' = job.sources
    <3>1. Rests(snap'.graph, content')
      BY <2>1, <2>2, <2>4
    <3>2. Drains(p)'
      BY <2>4 DEF Drains, Inner, Writing
    <3> QED BY <1>4, <1>5, <2>1, <2>2, <3>1, <3>2
  <2> QED BY <2>1, <2>3, <2>4
<1>16. CASE DispatchRequest(p) \/ Release(p)
  <2>1. /\ UNCHANGED <<journal, snap, content>> /\ pc[p] = "dispatch" /\ pc'[p] \in {"dispatch", "continue"}
    BY <1>6, <1>16 DEF DispatchRequest, Release, Goto
  <2>2. Rests(snap.graph, content) /\ (Adds(journal) => Blank(snap.graph))
    BY <1>5, <2>1 DEF Unpublished, Inner, Writing
  <2>3. Drains(p)'
    BY <2>1 DEF Drains, Inner, Writing
  <2> QED BY <1>4, <1>5, <2>1, <2>2, <2>3
<1> QED BY <1>7, <1>9, <1>10, <1>11, <1>12, <1>13, <1>14, <1>15, <1>16 DEF Drain

(* What users and workers send.                                            *)
LEMMA OutsideIsLawful ==
  ASSUME Layered, TypeOK, Workers \/ Users
  PROVE  /\ ~Draining /\ UNCHANGED <<snap, content, pc, job, crashes>>
         /\ \E x \in JournalEntry : journal' = Append(journal, x) /\ Lawful(x) /\ x.event.type # "upsert"
<1>1. ASSUME NEW c \in Tasks, NEW t \in {"restart", "failed"}, c \in Targets \/ (t = "failed" /\ Requires[c] = {})
      PROVE  LET x == Plain(Ev(t, c)) IN x \in JournalEntry /\ Lawful(x) /\ x.event.type # "upsert"
  <2>1. Plain(Ev(t, c)) \in JournalEntry /\ Plain(Ev(t, c)).event = Ev(t, c)
    BY EvType, PlainType
  <2>2. Ev(t, c).type = t /\ Ev(t, c).task = c /\ Ev(t, c).routed = FALSE
    BY DEF Ev
  <2> DEFINE x == Plain(Ev(t, c))
  <2>3. x.event.type = t /\ x.event.task = c /\ ~x.event.routed
    BY <2>1, <2>2
  <2> HIDE DEF x
  <2>4. Lawful(x) /\ x.event.type # "upsert"
    BY <1>1, <2>3 DEF Lawful, Sourced
  <2> QED BY <2>1, <2>4 DEF x
<1>2. CASE Users
  <2>1. PICK c \in Targets : Retrigger(c) \/ TaskFailed(c)
    BY <1>2 DEF Users
  <2>2. c \in Tasks
    BY BoardAssumption
  <2>3. PICK t \in {"restart", "failed"}, name \in {"retrigger", "taskFailed"} : Call(name, Ev(t, c))
    BY <2>1 DEF Retrigger, TaskFailed
  <2>4. ~Draining /\ UNCHANGED <<snap, content, pc, job, crashes>> /\ journal' = Append(journal, Plain(Ev(t, c)))
    BY <2>3 DEF Call, Notify
  <2> QED BY <1>1, <2>2, <2>4
<1>3. CASE Workers
  <2>1. PICK c \in Tasks : \E s \in Sources(c) : \E i \in DOMAIN fetches[c][s] :
          Fetched(c, s, i) \/ DispatchRejected(c, s, i) \/ \E a \in {"missing", "failure"} : FetchFailed(c, s, i, a)
    BY <1>3 DEF Workers
  <2>2. PICK s \in Sources(c) : \E i \in DOMAIN fetches[c][s] :
          Fetched(c, s, i) \/ DispatchRejected(c, s, i) \/ \E a \in {"missing", "failure"} : FetchFailed(c, s, i, a)
    BY <2>1
  <2>3. PICK i \in DOMAIN fetches[c][s] :
          Fetched(c, s, i) \/ DispatchRejected(c, s, i) \/ \E a \in {"missing", "failure"} : FetchFailed(c, s, i, a)
    BY <2>2
  <2>4. s \in Source /\ Requires[c] = {}
    <3>1. s \in Source
      BY SourceAssumption DEF Sources, Source
    <3>2. Requires[c] # {} => Sources(c) = {}
      BY DEF Layered, Sources
    <3> QED BY <3>1, <3>2
  <2>5. ASSUME NEW a \in Answers
        PROVE  LET x == Progress(c, s, i, a) IN x \in JournalEntry /\ Lawful(x) /\ x.event.type # "upsert"
    <3>1. Progress(c, s, i, a) \in JournalEntry
      BY <2>4, ProgressType
    <3> QED BY <3>1 DEF Progress, Ev, Lawful, Sourced
  <2>6. ~Draining /\ UNCHANGED <<snap, content, pc, job, crashes>>
    BY <2>3 DEF Fetched, DispatchRejected, FetchFailed, bounds
  <2>7. \/ \E a \in Answers : journal' = Append(journal, Progress(c, s, i, a))
        \/ journal' = Append(journal, Plain(Ev("failed", c)))
    BY <2>3 DEF Fetched, DispatchRejected, FetchFailed, Notify, Answers
  <2>8. CASE journal' = Append(journal, Plain(Ev("failed", c)))
    BY <1>1, <2>4, <2>6, <2>8
  <2>9. CASE \E a \in Answers : journal' = Append(journal, Progress(c, s, i, a))
    BY <2>5, <2>6, <2>9
  <2> QED BY <2>7, <2>8, <2>9
<1> QED BY <1>2, <1>3

LEMMA CurrentStep ==
  ASSUME AlwaysContent, OneProvider, Layered, TypeOK, DrainInv, crashes = 0 => SettleInv,
         crashes = 0 => CurrentInv, [Next]_vars
  PROVE  crashes' = 0 => CurrentInv'
<1>1. ASSUME UNCHANGED <<journal, snap, content, job, crashes>>,
             \A q \in Procs : pc'[q] = pc[q] \/ (pc[q] \notin Holding /\ pc'[q] \notin Holding \ {"load"})
      PROVE  crashes' = 0 => CurrentInv'
  <2> SUFFICES ASSUME CurrentInv PROVE CurrentInv'
    BY <1>1
  <2>1. ASSUME NEW q \in Procs PROVE Drains(q)'
    <3>1. CASE pc'[q] = pc[q]
      <4>1. Drains(q)
        BY DEF CurrentInv
      <4> QED BY <1>1, <3>1, <4>1 DEF Drains
    <3>2. CASE pc'[q] \notin Holding \ {"load"}
      BY <3>2 DEF Drains, Holding, Inner, Writing
    <3> QED BY <1>1, <3>1, <3>2
  <2>2. /\ (\A q \in Procs : pc'[q] \notin Unpublished \cup {"sources"}) => \A q \in Procs : pc[q] \notin Unpublished \cup {"sources"}
        /\ (\A q \in Procs : pc'[q] \notin Inner \cup Writing) => \A q \in Procs : pc[q] \notin Inner \cup Writing
    BY <1>1 DEF Unpublished, Holding, Inner, Writing
  <2> QED BY <1>1, <2>1, <2>2 DEF CurrentInv
<1>2. CASE Workers \/ Users
  <2> SUFFICES ASSUME crashes' = 0 PROVE CurrentInv'
    OBVIOUS
  <2>1. /\ ~Draining /\ UNCHANGED <<snap, content, pc, job, crashes>>
        /\ \E x \in JournalEntry : journal' = Append(journal, x) /\ Lawful(x) /\ x.event.type # "upsert"
    BY <1>2, OutsideIsLawful
  <2>2. PICK x \in JournalEntry : journal' = Append(journal, x) /\ Lawful(x) /\ x.event.type # "upsert"
    BY <2>1
  <2>3. /\ Len(journal) \in Nat /\ Len(journal') = Len(journal) + 1
        /\ \A i \in 1..Len(journal') :
             (i \in 1..Len(journal) /\ journal'[i] = journal[i]) \/ (i = Len(journal) + 1 /\ journal'[i] = x)
    BY <2>2, AppendEntries DEF TypeOK
  <2>4. CurrentInv
    BY <2>1
  <2>5. \A i \in 1..Len(journal') : Lawful(journal'[i])
    BY <2>2, <2>3, <2>4 DEF CurrentInv
  <2>6. Adds(journal') => Adds(journal)
    BY <2>2, <2>3 DEF Adds
  <2>7. ASSUME NEW p \in Procs PROVE Drains(p)'
    <3>1. Drains(p) /\ pc[p] \notin Inner /\ job.taken \in Nat
      BY <2>1, <2>4 DEF CurrentInv, Draining, TypeOK, Job
    <3>2. ASSUME NEW i \in (job.taken + 1)..Len(journal'), pc[p] \in Writing PROVE journal'[i].event.type # "upsert"
      <4>1. i \in 1..Len(journal')
        BY <2>3, <3>1
      <4>2. CASE i \in 1..Len(journal) /\ journal'[i] = journal[i]
        <5>1. i \in (job.taken + 1)..Len(journal)
          BY <2>3, <3>1, <4>2
        <5> QED BY <3>1, <3>2, <4>2, <5>1 DEF Drains
      <4> QED BY <2>2, <2>3, <4>1, <4>2
    <3> QED BY <2>1, <3>1, <3>2 DEF Drains, Inner
  <2> QED BY <2>1, <2>4, <2>5, <2>6, <2>7 DEF CurrentInv
<1>3. ASSUME NEW p \in Procs, Lease(p) \/ ClearWakeups(p) \/ TryAcquire(p) \/ Continue(p)
      PROVE  crashes' = 0 => CurrentInv'
  <2>1. UNCHANGED <<journal, snap, content, job, crashes>>
    BY <1>3 DEF Lease, ClearWakeups, TryAcquire, Continue, bounds
  <2>2. /\ pc[p] \notin Holding /\ pc'[p] \notin Holding \ {"load"}
        /\ \A q \in Procs : q # p => pc'[q] = pc[q]
    BY <1>3 DEF Lease, ClearWakeups, TryAcquire, Continue, Goto, TypeOK, Holding, Inner, Writing
  <2> QED BY <1>1, <2>1, <2>2
<1>4. ASSUME NEW p \in Procs, Drain(p) PROVE crashes' = 0 => CurrentInv'
  <2>1. crashes' = crashes
    BY <1>4 DEF Drain, Load, ApplyOne, Schedule, RunCard, RouteProgress, EndPass, CommitRuntime, CommitGraph,
         CommitCursor, FlushOutputs, FlushSources, DispatchRequest, Release, bounds
  <2> QED BY <1>4, <2>1, CurrentDrain
<1>5. ASSUME NEW p \in Procs, Crash(p) PROVE crashes' # 0
  BY <1>5 DEF Crash, TypeOK
<1>6. CASE UNCHANGED vars
  BY <1>1, <1>6 DEF vars, bounds
<1>7. CASE Next
  BY <1>2, <1>3, <1>4, <1>5, <1>7, Zenon DEF Next, Serve
<1> QED BY <1>6, <1>7

LEMMA CurrentInit == Layered /\ OneProvider /\ Init => CurrentInv
<1> SUFFICES ASSUME Layered, OneProvider, Init PROVE CurrentInv
  OBVIOUS
<1>1. TypeOK
  BY InitType
<1>2. ASSUME NEW i \in 1..Len(journal) PROVE Lawful(journal[i])
  <2>1. i \in DOMAIN Added /\ Added \in Seq(Tasks)
    <3>1. DOMAIN journal = DOMAIN Added /\ journal \in Seq(JournalEntry)
      BY <1>1 DEF Init, TypeOK
    <3> QED BY <3>1, LenProperties, BoardAssumption
  <2> DEFINE t == Added[i]
             e == [Ev("upsert", t) EXCEPT !.tokens = Requires[t]]
  <2>2. journal[i] = Plain(e)
    BY <2>1 DEF Init
  <2>3. e.type = "upsert" /\ e.task = t /\ e.tokens = Requires[t] /\ e.routed = FALSE
    BY DEF Ev
  <2> HIDE DEF e
  <2>4. journal[i].event = e
    BY <2>2 DEF Plain
  <2> QED BY <2>3, <2>4 DEF Lawful, Sourced
<1>3. snap.graph = EmptyGraph /\ EmptyGraph \in Graph
  BY <1>1 DEF Init, TypeOK, Snapshot
<1> DEFINE g == EmptyGraph
<1>4. /\ g.req = Requires /\ g.prov = Provides
      /\ \A u \in Tasks : g.st[u] = FreshStore /\ ~Has(g, u) /\ ~DoneIn(g, u) /\ ~RunningIn(g, u)
  BY DEF EmptyGraph, Has, DoneIn, RunningIn
<1>5. Wired(g) /\ Quiet(g) /\ Blank(g) /\ \A c \in Tasks : ~Awaits(g, c)
  BY <1>4 DEF Wired, Quiet, Blank, Awaits, FreshStore
<1>6. \A c \in Tasks : ~Reported(<<>>, c) /\ \A i \in 1..Len(<<>>) : FALSE
  BY EmptySeq DEF Reported
<1>7. ASSUME NEW c \in Tasks
      PROVE  Fetcher(c, g, content, <<>>) /\ Reader(c, g, content, <<>>, {})
  <2>1. g.st[c].status # "failed" /\ \A k \in Tokens : g.st[c].consumed[k] = NoData /\ g.st[c].started[k] = NoData
    BY <1>4 DEF FreshStore, NoInputs
  <2> QED BY <1>4, <1>5, <1>6, <2>1 DEF Fetcher, Reader
<1>8. Rests(g, content)
  BY <1>5, <1>6, <1>7 DEF Rests, Fit
<1>9. \A p \in Procs : Drains(p)
  BY DEF Init, Drains, Inner, Writing
<1> QED BY <1>2, <1>3, <1>5, <1>8, <1>9 DEF CurrentInv

(* A board at rest is current.                                             *)
LEMMA RestingIsCurrent ==
  ASSUME AlwaysContent, OneProvider, Layered, TypeOK, CurrentInv
  PROVE  CompletedIsCurrent
<1> SUFFICES ASSUME LockFree, NEW c \in Tasks, Completed(c),
                    \A k \in Requires[c] : \A d \in Providers(snap.graph, k) : Completed(d)
             PROVE  snap.graph.st[c].data = Result([sources |-> content, graph |-> snap.graph], c)
  BY DEF CompletedIsCurrent, AtRest
<1> DEFINE g == snap.graph
<1>1. Rests(g, content) /\ g \in Graph
  BY DEF CurrentInv, LockFree, Holding, Unpublished, Inner, Writing, TypeOK, Snapshot
<1>2. Wired(g) /\ g.req = Requires /\ g.prov = Provides /\ DoneIn(g, c)
  BY <1>1 DEF Rests, Fit, Wired, Completed, DoneIn
<1>3. Result([sources |-> content, graph |-> g], c) = Value(c, content, ReadInputs(g, c))
  BY DEF Result, Value
<1>4. CASE Requires[c] = {}
  <2>1. ReadInputs(g, c) = NoInputs
    BY <1>2, <1>4 DEF ReadInputs, NoInputs
  <2> QED BY <1>1, <1>2, <1>3, <1>4, <2>1 DEF Rests, Fit, Fetcher
<1>5. CASE Requires[c] # {}
  <2>1. g.st[c].data = Value(c, content, g.st[c].consumed) /\ Current(g, c)
    BY <1>1, <1>2, <1>5 DEF Rests, Fit, Reader, Quiet
  <2>2. ~Awaits(g, c)
    <3>1. ASSUME NEW p \in Tasks, Feeds(p, c) PROVE g.st[p].data = g.st[p].hash
      <4>1. PICK k \in Requires[c] : k \in Provides[p]
        BY <3>1 DEF Feeds
      <4>2. CASE Has(g, p)
        <5>1. p \in Providers(g, k)
          BY <1>2, <4>1, <4>2 DEF Providers, Nodes
        <5>2. DoneIn(g, p)
          BY <4>1, <5>1 DEF Completed, DoneIn
        <5> QED BY <1>2, <5>2 DEF Wired
      <4>3. CASE ~Has(g, p)
        BY <1>2, <4>3 DEF Wired
      <4> QED BY <4>2, <4>3
    <3> QED BY <3>1 DEF Awaits
  <2>3. ReadInputs(g, c) = StartHashes(g, c)
    BY <1>1, <1>2, <2>2, ReadsHashes
  <2> QED BY <1>3, <2>1, <2>3 DEF Current
<1> QED BY <1>4, <1>5

(* No lost update: whenever the journal is drained and nobody drains, a    *)
(* completed card holds what its stored sources and the data of the cards  *)
(* it requires compute to, wherever answers, calls and other processes     *)
(* fall, as long as no process has died and failures are reported in time  *)
(* (board-live-cards-lib.ts, createCardHandlerFn; -public.ts 549-690).     *)
THEOREM CompletionsAreCurrent ==
  AlwaysContent /\ OneProvider /\ Layered
    => (Spec /\ [][FailuresAreTimely]_vars => [](crashes = 0 => CompletedIsCurrent))
<1> SUFFICES ASSUME AlwaysContent /\ OneProvider /\ Layered
             PROVE  Spec /\ [][FailuresAreTimely]_vars => [](crashes = 0 => CompletedIsCurrent)
  OBVIOUS
<1>1. Init => (crashes = 0 => SettleInv /\ CurrentInv)
  BY SettleInit, CurrentInit
<1>2. TypeOK /\ (crashes = 0 => SettleInv /\ CurrentInv) => (crashes = 0 => CompletedIsCurrent)
  BY RestingIsCurrent
<1>3. TypeOK /\ DrainInv /\ (crashes = 0 => SettleInv /\ CurrentInv) /\ [Next]_vars /\ [FailuresAreTimely]_vars
        => (crashes = 0 => SettleInv /\ CurrentInv)'
  <2> SUFFICES ASSUME TypeOK, DrainInv, crashes = 0 => SettleInv /\ CurrentInv, [Next]_vars, [FailuresAreTimely]_vars
               PROVE  (crashes = 0 => SettleInv /\ CurrentInv)'
    BY Zenon
  <2>1. crashes' = 0 => SettleInv'
    BY SettleStep, Zenon
  <2>2. crashes' = 0 => CurrentInv'
    BY CurrentStep, Zenon
  <2> QED BY <2>1, <2>2
<1> QED BY <1>1, <1>2, <1>3, BoardTypeCorrect, DrainInvariant, PTL DEF Spec

----------------------------------------------------------------------------
(* Newer content is kept.                                                  *)

(* Every answer is to the last run of its card or to the one before.       *)
AnswersAreRecent ==
  \A c \in Tasks : \A s \in Sources(c) : \A i \in DOMAIN fetches[c][s] :
    Fetched(c, s, i) \/ (\E a \in {"missing", "failure"} : FetchFailed(c, s, i, a))
      => clock[c] <= fetches[c][s][i] + 1

(* A card with the runtime r ran last at time n, and v is stored: content  *)
(* of the last run is guarded by a completed token that older answers do   *)
(* not pass; to content of an older run every answer is as new.            *)
Kept(n, r, v) ==
  \A s \in Source : /\ v[s] <= n
                    /\ v[s] = n /\ n # NoToken => r.src[s].completed # NoToken /\ n <= r.src[s].completed + 1

Guards(n, r, c, g, v, ran) ==
  /\ Bounded(n, r, c) /\ Kept(n, r, v)
  /\ RunningIn(g, c) \/ c \in ran => Ready(n, r, c, g.st[c].execs)

AllGuard(k, g, rt, src, ran) == \A c \in Tasks : Guards(k[c], rt[c], c, g, src[c], ran)

(* Requests and answers on their way.                                      *)
Since(n, t)    == t # NoToken /\ t <= n
Arriving(k, x) == x.event.type # "started" /\ (Answer(x) => Since(k[x.event.task], x.update.rqt))
Recent(k, x)   == Answer(x) => k[x.event.task] <= x.update.rqt + 1

Fetchings(k, f) == \A c \in Tasks : \A s \in Source : \A i \in 1..Len(f[c][s]) : Since(k[c], f[c][s][i])
Asking(k, q)    == \A i \in 1..Len(q) : Since(k[q[i].card], q[i].rqt)

Issued(k) ==
  /\ Fetchings(k, fetches) /\ Asking(k, job.requests)
  /\ \A i \in 1..Len(journal) : Arriving(k, journal[i])

RecentFrom(n) == \A i \in (n + 1)..Len(journal) : Recent(clock, journal[i])

Arrivals(ran) ==
  \A i \in 1..Len(job.updates) :
    LET x == job.updates[i] IN Answer(x) /\ Arriving(clock, x) /\ (Recent(clock, x) \/ x.event.task \in ran)

(* The drain has replaced nothing by older content.                        *)
Grown == \A c \in Tasks : \A s \in Source : content[c][s] <= job.sources[c][s]

KeepsApplying ==
  /\ job.ran = {} /\ Arrivals({}) /\ AllGuard(clock, job.graph, job.runtime, job.sources, {})
  /\ \A i \in 1..Len(job.batch) : Arriving(clock, job.batch[i]) /\ Recent(clock, job.batch[i])

KeepsRunning ==
  /\ Arrivals(job.ran) /\ AllGuard(clock, job.graph, job.runtime, job.sources, job.ran)
  /\ \A c \in job.todo \cup job.ran : ~RunningIn(job.graph, c)

Flushing == Writing \cup {"outputs", "sources"}

Keeps(p) ==
  /\ pc[p] \in Inner \cup Writing => RecentFrom(job.taken)
  /\ pc[p] \in Inner => job.taken = Len(journal)
  /\ pc[p] \in Inner \cup Flushing => Grown
  /\ pc[p] = "apply" => KeepsApplying
  /\ pc[p] = "run" => KeepsRunning
  /\ pc[p] = "runtime" => AllGuard(clock, job.graph, job.runtime, job.sources, {})
  /\ pc[p] = "graph" => AllGuard(clock, job.graph, snap.runtime, job.sources, {})
  /\ pc[p] \in {"cursor", "outputs", "sources"} => AllGuard(clock, snap.graph, snap.runtime, job.sources, {})

KeepInv ==
  /\ Issued(clock)
  /\ \A p \in Procs : Keeps(p)
  /\ (\A p \in Procs : pc[p] \notin Inner \cup Writing) => RecentFrom(0)
  /\ (\A p \in Procs : pc[p] \notin Inner \cup Flushing) => AllGuard(clock, snap.graph, snap.runtime, content, {})

(* A recent answer is stored only over content that is as old or older.    *)
LEMMA AnsweredKept ==
  ASSUME NEW r \in Runtime, NEW u \in Update, NEW n \in Token, NEW v \in [Source -> Token], Kept(n, r, v),
         Since(n, u.rqt), n <= u.rqt + 1,
         NEW w, \A s \in Source : w[s] = IF s = u.source /\ Commits(r, u) THEN u.rqt ELSE v[s]
  PROVE  Kept(n, Answered(r, u), w) /\ \A s \in Source : v[s] <= w[s]
<1> DEFINE a == Answered(r, u)
<1>1. n \in Nat /\ u.rqt \in Nat /\ u.rqt # NoToken /\ u.rqt <= n /\ NoToken = 0
  BY DEF Token, Update, Since, NoToken
<1> SUFFICES ASSUME NEW s \in Source
             PROVE  /\ w[s] <= n /\ v[s] <= w[s]
                    /\ w[s] = n /\ n # NoToken => a.src[s].completed # NoToken /\ n <= a.src[s].completed + 1
  BY DEF Kept
<1>2. /\ v[s] \in Nat /\ v[s] <= n /\ r.src[s] \in Entry /\ r.src[s].completed \in Nat /\ r.src \in [Source -> Entry]
      /\ (v[s] = n /\ n # NoToken => r.src[s].completed # NoToken /\ n <= r.src[s].completed + 1)
  BY DEF Kept, Token, Runtime, Entry
<1>3. CASE s = u.source /\ (Accepts(r, u) \/ u.answer = "failure")
  <2> DEFINE e == [r.src[s] EXCEPT !.completed = u.rqt, !.status = IF u.answer = "data" THEN "success" ELSE "failure"]
  <2>1. e.completed = u.rqt
    BY <1>2 DEF Entry
  <2>2. a.src[s] = e
    BY <1>2, <1>3 DEF Answered, Runtime
  <2>3. a.src[s].completed = u.rqt
    BY <2>1, <2>2
  <2> HIDE DEF a, e
  <2>4. CASE Commits(r, u)
    <3>1. w[s] = u.rqt /\ (r.src[s].completed = NoToken \/ u.rqt > r.src[s].completed)
      BY <1>3, <2>4 DEF Commits, Accepts
    <3> QED BY <1>1, <1>2, <2>3, <3>1
  <2>5. CASE ~Commits(r, u)
    <3>1. w[s] = v[s]
      BY <2>5
    <3> QED BY <1>1, <1>2, <2>3, <3>1
  <2> QED BY <2>4, <2>5
<1>4. CASE ~(s = u.source /\ (Accepts(r, u) \/ u.answer = "failure"))
  <2>1. w[s] = v[s]
    BY <1>4 DEF Commits
  <2>2. a.src[s] = r.src[s]
    BY <1>2, <1>4 DEF Answered, Runtime
  <2> QED BY <1>2, <2>1, <2>2
<1> QED BY <1>3, <1>4

LEMMA RequestedKept ==
  ASSUME NEW r \in Runtime, NEW c \in Tasks, NEW now \in Token, NEW n, NEW v, Kept(n, r, v)
  PROVE  Kept(n, Requested(r, c, now), v)
<1>1. ASSUME NEW s \in Source PROVE Requested(r, c, now).src[s].completed = r.src[s].completed
  <2>1. Requested(r, c, now).src[s] = IF s \in DueSources(r, c, now)
                                      THEN [r.src[s] EXCEPT !.requested = QueuedAt(r.src[s], now)] ELSE r.src[s]
    BY DEF Requested, Runtime
  <2>2. r.src[s] \in Entry
    BY DEF Runtime
  <2> QED BY <2>1, <2>2 DEF Entry
<1> QED BY <1>1 DEF Kept

(* The handler on a card that has queued its sources at its last run.      *)
LEMMA HandleGuards ==
  ASSUME NEW j \in Job, NEW c \in Tasks, NEW r \in Runtime, NEW now \in Token, NEW k \in [Tasks -> Token],
         NEW g, NEW src, NEW ran,
         \A d \in Tasks : d # c => Guards(k[d], j.runtime[d], d, g, src[d], ran),
         Ready(k[c], r, c, g.st[c].execs), Bounded(k[c], r, c), Kept(k[c], r, src[c]), Asking(k, j.requests)
  PROVE  LET h == Handle(j, c, r, now)
         IN  AllGuard(k, g, h.runtime, src, ran) /\ Asking(k, h.requests)
<1> DEFINE h == Handle(j, c, r, now)
           a == Requested(r, c, now)
           n == k[c]
<1>1. h.runtime = [j.runtime EXCEPT ![c] = a] /\ h.requests = Requests(j, c, r, now)
  BY DEF Handle, Job
<1> HIDE DEF h
<1>2. Guards(n, a, c, g, src[c], ran)
  <2>1. Ready(n, a, c, g.st[c].execs) /\ Bounded(n, a, c)
    BY HandledBounds
  <2>2. Kept(n, a, src[c])
    BY RequestedKept
  <2> HIDE DEF a, n
  <2> QED BY <2>1, <2>2 DEF Guards
<1>3. AllGuard(k, g, h.runtime, src, ran)
  <2>1. h.runtime[c] = a /\ \A d \in Tasks : d # c => h.runtime[d] = j.runtime[d]
    BY <1>1 DEF Job
  <2> HIDE DEF a
  <2> QED BY <1>2, <2>1 DEF AllGuard
<1>4. Asking(k, h.requests)
  <2>1. CASE DueSources(r, c, now) = {}
    BY <1>1, <2>1 DEF Requests
  <2>2. CASE DueSources(r, c, now) # {}
    <3> DEFINE q == [card |-> c, rqt |-> RequestToken(r, c, now)]
    <3>1. q.card = c /\ q.rqt = n
      BY <2>2, HandledBounds
    <3>2. h.requests = Append(j.requests, q)
      BY <1>1, <2>2 DEF Requests
    <3>3. q \in Request /\ j.requests \in Seq(Request)
      BY <2>2, RequestTokenType DEF Request, Job
    <3> HIDE DEF q
    <3>4. \A i \in 1..Len(h.requests) :
            (i \in 1..Len(j.requests) /\ h.requests[i] = j.requests[i]) \/ h.requests[i] = q
      BY <3>2, <3>3, AppendEntries
    <3>5. Since(k[q.card], q.rqt)
      <4>1. n \in Nat /\ n # NoToken
        BY DEF Token, Ready
      <4> QED BY <3>1, <4>1 DEF Since
    <3> QED BY <3>4, <3>5 DEF Asking
  <2> QED BY <2>1, <2>2
<1> QED BY <1>3, <1>4 DEF h

LEMMA GuardsApplied ==
  ASSUME NEW g \in Graph, NEW e \in Event, e.type # "started", NEW k, NEW rt, NEW src, AllGuard(k, g, rt, src, {})
  PROVE  AllGuard(k, ApplyEvent(g, e), rt, src, {})
<1> DEFINE h == ApplyEvent(g, e)
<1>1. ASSUME NEW c \in Tasks PROVE Guards(k[c], rt[c], c, h, src[c], {})
  <2>1. Guards(k[c], rt[c], c, g, src[c], {})
    BY DEF AllGuard
  <2>2. RunningIn(h, c) => RunningIn(g, c) /\ h.st[c].execs = g.st[c].execs
    BY RunningApplied
  <2> HIDE DEF h
  <2> QED BY <2>1, <2>2 DEF Guards
<1> HIDE DEF h
<1>2. AllGuard(k, h, rt, src, {})
  BY <1>1 DEF AllGuard
<1> QED BY <1>2 DEF h

LEMMA GuardsStarted ==
  ASSUME NEW g \in Graph, NEW k, NEW rt, NEW src, NEW ran \in SUBSET Tasks, AllGuard(k, g, rt, src, ran)
  PROVE  AllGuard(k, Started(g, ran), rt, src, {})
<1>1. ASSUME NEW c \in Tasks PROVE Guards(k[c], rt[c], c, Started(g, ran), src[c], {})
  <2>1. Guards(k[c], rt[c], c, g, src[c], ran)
    BY DEF AllGuard
  <2>2. /\ Started(g, ran).rank = g.rank
        /\ Started(g, ran).st[c] = IF c \in ran THEN TaskStart(g, c).st[c] ELSE g.st[c]
    BY DEF Started, Graph
  <2>3. TaskStart(g, c).st[c].execs = g.st[c].execs
    BY DEF TaskStart, Graph, Store
  <2>4. RunningIn(Started(g, ran), c) => (RunningIn(g, c) \/ c \in ran)
    BY <2>2 DEF RunningIn, Has
  <2>5. Started(g, ran).st[c].execs = g.st[c].execs
    BY <2>2, <2>3
  <2> QED BY <2>1, <2>4, <2>5 DEF Guards
<1> QED BY <1>1 DEF AllGuard

LEMMA NewerClock ==
  ASSUME NEW k \in [Tasks -> Token], NEW l \in [Tasks -> Token], \A d \in Tasks : l[d] = k[d] \/ l[d] = k[d] + 1
  PROVE  /\ \A x \in JournalEntry : Arriving(k, x) => Arriving(l, x)
         /\ \A q \in Seq(Request) : Asking(k, q) => Asking(l, q)
         /\ \A f \in [Tasks -> [Source -> Seq(Token)]] : Fetchings(k, f) => Fetchings(l, f)
<1>2. ASSUME NEW d \in Tasks, NEW t \in Token, Since(k[d], t) PROVE Since(l[d], t)
  <2>1. k[d] \in Nat /\ t \in Nat /\ (l[d] = k[d] \/ l[d] = k[d] + 1)
    BY DEF Token
  <2> QED BY <1>2, <2>1 DEF Since
<1>3. ASSUME NEW x \in JournalEntry, Arriving(k, x) PROVE Arriving(l, x)
  <2>1. x.event.task \in Tasks /\ x.update.rqt \in Token
    BY DEF JournalEntry, Event, Update
  <2> QED BY <1>2, <1>3, <2>1 DEF Arriving
<1>4. ASSUME NEW q \in Seq(Request), Asking(k, q) PROVE Asking(l, q)
  <2>1. ASSUME NEW i \in 1..Len(q) PROVE q[i].card \in Tasks /\ q[i].rqt \in Token
    <3>1. q[i] \in Request
      BY ElementOfSeq
    <3> QED BY <3>1 DEF Request
  <2> QED BY <1>2, <1>4, <2>1 DEF Asking
<1>5. ASSUME NEW f \in [Tasks -> [Source -> Seq(Token)]], Fetchings(k, f) PROVE Fetchings(l, f)
  <2>1. ASSUME NEW d \in Tasks, NEW s \in Source, NEW i \in 1..Len(f[d][s]) PROVE f[d][s][i] \in Token
    <3>1. f[d][s] \in Seq(Token)
      OBVIOUS
    <3> QED BY <3>1, ElementOfSeq
  <2> QED BY <1>2, <1>5, <2>1 DEF Fetchings
<1> QED BY <1>3, <1>4, <1>5

(* Whatever a drain does in its memory.                                    *)
LEMMA KeepInner ==
  ASSUME TypeOK, DrainInv, KeepInv, NEW p \in Procs, pc[p] \in Inner \cup {"load"},
         \/ Load(p) \/ ApplyOne(p) \/ Schedule(p) \/ (\E c \in Tasks : RunCard(p, c)) \/ RouteProgress(p) \/ EndPass(p),
         Issued(clock)', Grown', job'.taken = Len(journal),
         pc'[p] = "apply" => KeepsApplying', pc'[p] = "run" => KeepsRunning',
         pc'[p] = "runtime" => AllGuard(clock, job.graph, job.runtime, job.sources, {})'
  PROVE  KeepInv'
<1>1. pc'[p] \in Inner \cup {"runtime"} /\ UNCHANGED <<journal, snap, content, fetches>> /\ \A q \in Procs : q # p => pc'[q] = pc[q]
  BY DEF Load, ApplyOne, Schedule, RunCard, RouteProgress, EndPass, Goto, TypeOK, Inner
<1>2. \A q \in Procs : q # p => pc'[q] \notin Holding
  <2>1. pc[p] \in Holding
    BY DEF Inner, Holding
  <2>2. PICK l : Goto(p, l) \/ pc' = pc
    BY DEF Load, ApplyOne, Schedule, RunCard, RouteProgress, EndPass
  <2> QED BY <2>1, <2>2, HolderIsAlone DEF DrainInv
<1>3. \A q \in Procs : q # p => Keeps(q)'
  BY <1>2 DEF Keeps, Holding, Inner, Writing, Flushing
<1>4. RecentFrom(job.taken)'
  <2>1. Len(journal) \in Nat
    BY LenProperties DEF TypeOK
  <2> QED BY <1>1, <2>1 DEF RecentFrom
<1>5. Keeps(p)'
  BY <1>1, <1>4 DEF Keeps, Inner
<1> QED BY <1>1, <1>3, <1>5 DEF KeepInv, Writing, Flushing

LEMMA KeepRun ==
  ASSUME TypeOK, DrainInv, KeepInv, NEW p \in Procs, NEW c \in Tasks, RunCard(p, c)
  PROVE  KeepInv'
<1> DEFINE m == clock[c]
           a == Queued(Wiped(job.runtime[c], Execs(c)), c, m + 1)
           h == Handle(job, c, a, m + 1)
           ran == job.ran \cup {c}
<1>1. /\ pc[p] = "run" /\ pc' = pc /\ UNCHANGED <<journal, snap, fetches, content>> /\ c \in job.todo
      /\ clock' = [clock EXCEPT ![c] = m + 1]
      /\ job' = [h EXCEPT !.todo = h.todo \ {c}, !.ran = h.ran \cup {c}]
  BY DEF RunCard, IsNext
<1>2. /\ KeepsRunning /\ job.taken = Len(journal) /\ Grown /\ Issued(clock)
  BY <1>1 DEF KeepInv, Keeps, Inner
<1>3. /\ job \in Job /\ job.graph \in Graph /\ job.updates \in Seq(JournalEntry) /\ job.requests \in Seq(Request)
      /\ job.runtime \in [Tasks -> Runtime] /\ job.sources \in Contents /\ clock \in [Tasks -> Token]
      /\ journal \in Seq(JournalEntry) /\ fetches \in [Tasks -> [Source -> Seq(Token)]] /\ job.todo \in SUBSET Tasks
  BY DEF TypeOK, Job
<1>4. /\ clock' \in [Tasks -> Token] /\ clock'[c] = m + 1 /\ \A d \in Tasks : d # c => clock'[d] = clock[d]
      /\ \A x \in JournalEntry : Arriving(clock, x) => Arriving(clock', x)
      /\ \A q \in Seq(Request) : Asking(clock, q) => Asking(clock', q)
      /\ \A f \in [Tasks -> [Source -> Seq(Token)]] : Fetchings(clock, f) => Fetchings(clock', f)
  <2>1. m + 1 \in Token
    BY <1>3 DEF Token
  <2>2. clock' \in [Tasks -> Token] /\ clock'[c] = m + 1 /\ \A d \in Tasks : d # c => clock'[d] = clock[d]
    BY <1>1, <1>3, <2>1
  <2>3. \A d \in Tasks : clock'[d] = clock[d] \/ clock'[d] = clock[d] + 1
    BY <2>2
  <2> QED BY <1>3, <2>2, <2>3, NewerClock
<1>5. m \in Token /\ m + 1 \in Token /\ Execs(c) \in Nat /\ Execs(c) = job.graph.st[c].execs
  <2>1. job.graph.st[c] \in Store
    BY <1>3 DEF Graph
  <2> QED BY <1>3, <2>1 DEF Token, Execs, Store
<1>6. Guards(m, job.runtime[c], c, job.graph, job.sources[c], job.ran)
  BY <1>2 DEF KeepsRunning, AllGuard
<1>7. a \in Runtime /\ Ready(m + 1, a, c, Execs(c)) /\ Bounded(m + 1, a, c)
  BY <1>3, <1>5, <1>6, QueuedReady DEF Guards
<1>8. Kept(m + 1, a, job.sources[c])
  <2>1. \A s \in Source : job.sources[c][s] \in Nat /\ m \in Nat /\ job.sources[c][s] <= m
    BY <1>3, <1>5, <1>6 DEF Guards, Kept, Contents, Token
  <2> HIDE DEF a, m
  <2> QED BY <2>1 DEF Kept
<1>9. h \in Job /\ h.graph = job.graph /\ h.ran = job.ran /\ h.todo = job.todo /\ h.updates = job.updates
      /\ h.taken = job.taken /\ h.sources = job.sources
  <2>1. h \in Job
    BY <1>5, <1>7, HandleType DEF TypeOK
  <2>2. /\ h.graph = job.graph /\ h.ran = job.ran /\ h.todo = job.todo /\ h.updates = job.updates
        /\ h.taken = job.taken /\ h.sources = job.sources
    BY <1>3 DEF Handle, Job
  <2> QED BY <2>1, <2>2
<1> HIDE DEF a, m
<1>10. AllGuard(clock', job.graph, h.runtime, job.sources, ran) /\ Asking(clock', h.requests)
  <2>1. \A d \in Tasks : d # c => Guards(clock'[d], job.runtime[d], d, job.graph, job.sources[d], ran)
    BY <1>2, <1>4 DEF KeepsRunning, AllGuard, Guards
  <2>2. /\ Ready(clock'[c], a, c, job.graph.st[c].execs) /\ Bounded(clock'[c], a, c) /\ Kept(clock'[c], a, job.sources[c])
        /\ Asking(clock', job.requests)
    BY <1>2, <1>3, <1>4, <1>5, <1>7, <1>8 DEF Issued
  <2> HIDE DEF ran
  <2> QED BY <1>3, <1>4, <1>5, <1>7, <2>1, <2>2, HandleGuards
<1> HIDE DEF h
<1>11. /\ job'.graph = job.graph /\ job'.runtime = h.runtime /\ job'.requests = h.requests /\ job'.sources = job.sources
       /\ job'.ran = ran /\ job'.todo = job.todo \ {c} /\ job'.updates = job.updates /\ job'.taken = job.taken
  BY <1>1, <1>9 DEF Job
<1>12. Arrivals(job.ran)'
  <2>1. ASSUME NEW i \in 1..Len(job.updates)
        PROVE  LET x == job.updates[i] IN Answer(x) /\ Arriving(clock', x) /\ (Recent(clock', x) \/ x.event.task \in ran)
    <3> DEFINE x == job.updates[i]
    <3>1. x \in JournalEntry
      BY <1>3, ElementOfSeq
    <3>2. Answer(x) /\ Arriving(clock, x) /\ (Recent(clock, x) \/ x.event.task \in job.ran)
      BY <1>2 DEF KeepsRunning, Arrivals
    <3>3. x.event.task \in Tasks
      BY <3>1 DEF JournalEntry, Event
    <3> HIDE DEF x
    <3>4. Recent(clock, x) => Recent(clock', x) \/ x.event.task = c
      BY <1>4, <3>3 DEF Recent
    <3>5. Answer(x) /\ Arriving(clock', x) /\ (Recent(clock', x) \/ x.event.task \in ran)
      BY <1>4, <3>1, <3>2, <3>4
    <3> QED BY <3>5 DEF x
  <2> HIDE DEF ran
  <2> QED BY <1>11, <2>1 DEF Arrivals, Answer, Arriving, Recent, Since
<1>13. KeepsRunning'
  <2>1. AllGuard(clock, job.graph, job.runtime, job.sources, job.ran)'
    BY <1>10, <1>11
  <2>2. \A d \in job'.todo \cup job'.ran : ~RunningIn(job'.graph, d)
    BY <1>1, <1>2, <1>11 DEF KeepsRunning
  <2> QED BY <1>12, <2>1, <2>2 DEF KeepsRunning
<1>14. Issued(clock)'
  <2>1. Fetchings(clock', fetches') /\ Asking(clock', job'.requests)
    BY <1>1, <1>2, <1>3, <1>4, <1>10, <1>11 DEF Issued
  <2>2. \A i \in 1..Len(journal') : Arriving(clock', journal'[i])
    BY <1>1, <1>2, <1>3, <1>4, ElementOfSeq DEF Issued
  <2> QED BY <2>1, <2>2 DEF Issued
<1>15. Grown'
  BY <1>1, <1>2, <1>11 DEF Grown
<1> QED BY <1>1, <1>2, <1>11, <1>13, <1>14, <1>15, KeepInner DEF Inner

LEMMA KeepRoute ==
  ASSUME TypeOK, DrainInv, KeepInv, NEW p \in Procs, RouteProgress(p)
  PROVE  KeepInv'
<1> DEFINE x == Head(job.updates)
           c == x.event.task
           u == x.update
           j == [job EXCEPT !.updates = Tail(job.updates)]
<1>1. /\ pc[p] = "run" /\ pc' = pc /\ UNCHANGED <<journal, snap, fetches, clock, content>> /\ job.updates # <<>> /\ job.todo = {}
      /\ job' = IF RunningIn(job.graph, c) THEN Deliver(j, c, u) ELSE j
  BY DEF RouteProgress, RunningIn
<1>2. /\ KeepsRunning /\ job.taken = Len(journal) /\ Grown /\ Issued(clock)
  BY <1>1 DEF KeepInv, Keeps, Inner
<1>3. /\ job \in Job /\ job.updates \in Seq(JournalEntry) /\ job.runtime \in [Tasks -> Runtime] /\ job.sources \in Contents
      /\ clock \in [Tasks -> Token] /\ content \in Contents
  BY DEF TypeOK, Job
<1>4. /\ 1 \in 1..Len(job.updates) /\ x = job.updates[1] /\ x \in JournalEntry /\ Tail(job.updates) \in Seq(JournalEntry)
      /\ \A i \in 1..Len(Tail(job.updates)) : i + 1 \in 1..Len(job.updates) /\ Tail(job.updates)[i] = job.updates[i + 1]
  BY <1>1, <1>3, TailEntries, HeadTailProperties
<1>5. c \in Tasks /\ u \in Update
  BY <1>4 DEF JournalEntry, Event
<1>6. Answer(x) /\ Arriving(clock, x) /\ (Recent(clock, x) \/ c \in job.ran)
  BY <1>2, <1>4 DEF KeepsRunning, Arrivals
<1>7. /\ j \in Job /\ j.graph = job.graph /\ j.runtime = job.runtime /\ j.requests = job.requests /\ j.sources = job.sources
      /\ j.ran = job.ran /\ j.todo = job.todo /\ j.taken = job.taken /\ j.updates = Tail(job.updates)
  BY <1>3, <1>4 DEF Job
<1>8. \A i \in 1..Len(Tail(job.updates)) :
        LET y == Tail(job.updates)[i] IN Answer(y) /\ Arriving(clock, y) /\ (Recent(clock, y) \/ y.event.task \in job.ran)
  BY <1>2, <1>4 DEF KeepsRunning, Arrivals
<1> HIDE DEF j, x
<1>9. ASSUME NEW h, job' = h, h.graph = job.graph, h.ran = job.ran, h.todo = job.todo, h.taken = job.taken,
             h.updates = Tail(job.updates), AllGuard(clock, job.graph, h.runtime, h.sources, job.ran),
             Asking(clock, h.requests), \A d \in Tasks : \A s \in Source : content[d][s] <= h.sources[d][s]
      PROVE  KeepInv'
  <2>0. job'.updates = Tail(job.updates) /\ job'.ran = job.ran /\ clock' = clock
    BY <1>1, <1>9
  <2>1. Arrivals(job.ran)'
    BY <1>8, <2>0 DEF Arrivals, Answer, Arriving, Recent, Since
  <2>2. AllGuard(clock, job.graph, job.runtime, job.sources, job.ran)'
    BY <1>1, <1>9
  <2>3. KeepsRunning'
    BY <1>1, <1>2, <1>9, <2>1, <2>2 DEF KeepsRunning
  <2>4. Issued(clock)'
    <3>1. Fetchings(clock', fetches') /\ Asking(clock', job'.requests) /\ \A i \in 1..Len(journal') : Arriving(clock', journal'[i])
      BY <1>1, <1>2, <1>9 DEF Issued
    <3> QED BY <3>1 DEF Issued
  <2>5. Grown'
    BY <1>1, <1>9 DEF Grown
  <2> QED BY <1>1, <1>2, <1>9, <2>3, <2>4, <2>5, KeepInner DEF Inner
<1>10. CASE ~RunningIn(job.graph, c)
  <2>1. AllGuard(clock, job.graph, j.runtime, j.sources, job.ran) /\ Asking(clock, j.requests)
    BY <1>2, <1>7 DEF KeepsRunning, Issued
  <2>2. \A d \in Tasks : \A s \in Source : content[d][s] <= j.sources[d][s]
    BY <1>2, <1>7 DEF Grown
  <2> QED BY <1>1, <1>7, <1>9, <1>10, <2>1, <2>2
<1>11. CASE RunningIn(job.graph, c)
  <2>0. Since(clock[c], u.rqt) /\ clock[c] <= u.rqt + 1
    <3>1. c \notin job.ran
      BY <1>2, <1>11 DEF KeepsRunning
    <3> QED BY <1>6, <3>1 DEF Arriving, Recent, c, u
  <2> HIDE DEF c, u
  <2>1. PICK f \in Contents :
          /\ f = [j.sources EXCEPT ![c] = [j.sources[c] EXCEPT ![u.source] =
                    IF Commits(Wiped(j.runtime[c], Execs(c)), u) THEN u.rqt ELSE j.sources[c][u.source]]]
          /\ Deliver(j, c, u) = Handle([j EXCEPT !.sources = f], c, Answered(Wiped(j.runtime[c], Execs(c)), u), clock[c] + 1)
          /\ [j EXCEPT !.sources = f] \in Job /\ Answered(Wiped(j.runtime[c], Execs(c)), u) \in Runtime
          /\ clock[c] + 1 \in Token
    <3>1. job \in Job /\ j \in Job /\ clock \in [Tasks -> Token] /\ c \in Tasks /\ u \in Update
      BY <1>3, <1>5, <1>7
    <3> QED BY ONLY <3>1, DeliverForm, ZenonT(60)
  <2> DEFINE n == clock[c]
             r == job.runtime[c]
             i == [j EXCEPT !.sources = f]
             a == Answered(Wiped(j.runtime[c], Execs(c)), u)
             h == Handle(i, c, a, n + 1)
  <2>2. /\ i \in Job /\ i.graph = job.graph /\ i.runtime = job.runtime /\ i.requests = job.requests /\ i.sources = f
        /\ i.ran = job.ran /\ i.todo = job.todo /\ i.taken = job.taken /\ i.updates = Tail(job.updates)
    BY <1>7, <2>1 DEF Job
  <2>3. a \in Runtime /\ n + 1 \in Token /\ job' = h
    BY <1>1, <1>11, <2>1 DEF c, u
  <2>4. Guards(n, r, c, job.graph, job.sources[c], job.ran)
    BY <1>2, <1>5 DEF KeepsRunning, AllGuard
  <2>5. Ready(n, r, c, job.graph.st[c].execs) /\ Wiped(j.runtime[c], Execs(c)) = r
    <3>1. Ready(n, r, c, job.graph.st[c].execs)
      BY <1>11, <2>4 DEF Guards, c
    <3> QED BY <1>7, <3>1 DEF Ready, Wiped, Execs
  <2>6. n \in Token /\ r \in Runtime /\ job.sources[c] \in [Source -> Token] /\ u.rqt <= n
    BY <1>3, <1>5, <2>0 DEF Contents, Since
  <2>7. Ready(n, a, c, job.graph.st[c].execs) /\ Bounded(n, a, c)
    BY <1>5, <2>4, <2>5, <2>6, AnsweredBounds DEF Guards
  <2>8. \A s \in Source : f[c][s] = IF s = u.source /\ Commits(r, u) THEN u.rqt ELSE job.sources[c][s]
    BY <1>3, <1>5, <1>7, <2>1, <2>5 DEF Contents
  <2>9. \A d \in Tasks : d # c => f[d] = job.sources[d]
    BY <1>3, <1>7, <2>1 DEF Contents
  <2>10. Kept(n, a, f[c]) /\ \A s \in Source : job.sources[c][s] <= f[c][s]
    <3>1. a = Answered(r, u) /\ Kept(n, r, job.sources[c]) /\ Since(n, u.rqt) /\ n <= u.rqt + 1
      BY <2>0, <2>4, <2>5 DEF Guards
    <3> HIDE DEF n, r, a
    <3> QED BY <1>5, <2>6, <2>8, <3>1, AnsweredKept
  <2> HIDE DEF i, a
  <2>11. AllGuard(clock, job.graph, h.runtime, f, job.ran) /\ Asking(clock, h.requests)
    <3>1. \A d \in Tasks : d # c => Guards(clock[d], i.runtime[d], d, job.graph, f[d], job.ran)
      BY <1>2, <2>2, <2>9 DEF KeepsRunning, AllGuard
    <3>2. Asking(clock, i.requests)
      BY <1>2, <2>2 DEF Issued
    <3> QED BY <1>3, <1>5, <2>2, <2>3, <2>7, <2>10, <3>1, <3>2, HandleGuards
  <2>12. /\ h.graph = job.graph /\ h.ran = job.ran /\ h.todo = job.todo /\ h.taken = job.taken
         /\ h.updates = Tail(job.updates) /\ h.sources = f
    BY <2>2 DEF Handle, Job
  <2>13. \A d \in Tasks : \A s \in Source : content[d][s] <= f[d][s]
    <3>1. ASSUME NEW d \in Tasks, NEW s \in Source PROVE content[d][s] <= f[d][s]
      <4>1. content[d][s] \in Nat /\ job.sources[d][s] \in Nat /\ f[d][s] \in Nat /\ content[d][s] <= job.sources[d][s]
        BY <1>2, <1>3 DEF Grown, Contents, Token
      <4>2. job.sources[d][s] <= f[d][s]
        <5>1. CASE d = c
          BY <2>10, <5>1
        <5>2. CASE d # c
          BY <2>9, <4>1, <5>2
        <5> QED BY <5>1, <5>2
      <4> QED BY <4>1, <4>2
    <3> QED BY <3>1
  <2> HIDE DEF h, n
  <2> QED BY <1>9, <2>3, <2>11, <2>12, <2>13
<1> QED BY <1>10, <1>11

LEMMA KeepDrain ==
  ASSUME TypeOK, DrainInv, KeepInv, NEW p \in Procs, Drain(p)
  PROVE  KeepInv'
<1>1. pc[p] \in Holding
  BY DEF Drain, Load, ApplyOne, Schedule, RunCard, RouteProgress, EndPass, CommitRuntime, CommitGraph,
         CommitCursor, KeyAfter, Writing, FlushOutputs, FlushSources, DispatchRequest, Release, Holding, Inner
<1>2. PICK l : Goto(p, l) \/ pc' = pc
  BY DEF Drain, Load, ApplyOne, Schedule, RunCard, RouteProgress, EndPass, CommitRuntime, CommitGraph,
         CommitCursor, KeyAfter, Writing, FlushOutputs, FlushSources, DispatchRequest, Release
<1>3. \A q \in Procs : q # p => /\ pc[q] \notin Inner \cup Flushing /\ pc'[q] \notin Inner \cup Flushing /\ Keeps(q)'
  <2>1. \A q \in Procs : q # p => pc[q] \notin Holding /\ pc'[q] \notin Holding
    BY <1>1, <1>2, HolderIsAlone DEF DrainInv
  <2> QED BY <2>1 DEF Keeps, Holding, Inner, Writing, Flushing
<1>4. ASSUME Issued(clock)', Keeps(p)', pc'[p] \notin Inner \cup Writing => RecentFrom(0)',
             pc'[p] \notin Inner \cup Flushing => AllGuard(clock, snap.graph, snap.runtime, content, {})'
      PROVE  KeepInv'
  BY <1>3, <1>4 DEF KeepInv, Flushing
<1>5. /\ pc[p] \notin Inner \cup Writing => RecentFrom(0)
      /\ pc[p] \notin Inner \cup Flushing => AllGuard(clock, snap.graph, snap.runtime, content, {})
  BY <1>3 DEF KeepInv, Flushing
<1>6. /\ Issued(clock) /\ Keeps(p) /\ Counted(p) /\ Fetchings(clock, fetches) /\ Asking(clock, job.requests)
      /\ \A i \in 1..Len(journal) : Arriving(clock, journal[i])
  BY DEF KeepInv, DrainInv, Issued
<1>7. /\ job.graph \in Graph /\ job.batch \in Seq(JournalEntry) /\ job.tx \in Seq(JournalEntry)
      /\ job.updates \in Seq(JournalEntry) /\ job.requests \in Seq(Request) /\ job.ran \in SUBSET Tasks
      /\ pc \in [Procs -> Places] /\ journal \in Seq(JournalEntry) /\ job.taken \in Nat /\ Len(journal) \in Nat
  BY LenProperties DEF TypeOK, Job, Places
<1>8. CASE Load(p)
  <2>1. /\ pc[p] = "load" /\ pc'[p] = (IF journal = <<>> THEN "runtime" ELSE "apply")
        /\ UNCHANGED <<journal, snap, clock, fetches, content>>
    BY <1>7, <1>8 DEF Load, Goto
  <2>2. /\ job'.graph = snap.graph /\ job'.runtime = snap.runtime /\ job'.batch = journal /\ job'.taken = Len(journal)
        /\ job'.ran = {} /\ job'.updates = <<>> /\ job'.requests = <<>> /\ job'.sources = content
    BY <1>8 DEF Load, NoJob
  <2>3. Issued(clock)'
    BY <1>6, <2>1, <2>2, EmptySeq DEF Issued, Asking, Fetchings, Arriving, Since, Answer
  <2>4. RecentFrom(0) /\ AllGuard(clock, snap.graph, snap.runtime, content, {})
    BY <1>5, <2>1 DEF Inner, Writing, Flushing
  <2>5. AllGuard(clock, job.graph, job.runtime, job.sources, {})'
    BY <2>1, <2>2, <2>4
  <2>6. Grown'
    <3>1. \A c \in Tasks : \A s \in Source : content[c][s] \in Nat
      BY DEF TypeOK, Contents, Token
    <3> QED BY <2>1, <2>2, <3>1 DEF Grown
  <2>7. KeepsApplying'
    <3>1. \A i \in 1..Len(job'.batch) : Arriving(clock', job'.batch[i]) /\ Recent(clock', job'.batch[i])
      BY <1>6, <2>1, <2>2, <2>4 DEF RecentFrom
    <3>2. Arrivals({})'
      BY <2>2, EmptySeq DEF Arrivals
    <3> QED BY <2>2, <2>5, <3>1, <3>2 DEF KeepsApplying
  <2> QED BY <1>8, <2>1, <2>2, <2>3, <2>5, <2>6, <2>7, KeepInner
<1>9. CASE ApplyOne(p)
  <2> DEFINE e == Head(job.batch)
  <2>1. /\ pc[p] = "apply" /\ pc' = pc /\ job.batch # <<>> /\ UNCHANGED <<journal, snap, clock, fetches, content>>
        /\ job'.graph = ApplyEvent(job.graph, e.event) /\ job'.batch = Tail(job.batch)
        /\ job'.updates = (IF e.event.type = "progress" THEN Append(job.updates, e) ELSE job.updates)
        /\ job'.runtime = job.runtime /\ job'.ran = job.ran /\ job'.requests = job.requests /\ job'.taken = job.taken
        /\ job'.sources = job.sources
    BY <1>9 DEF ApplyOne, TypeOK, Job
  <2>2. KeepsApplying /\ job.taken = Len(journal) /\ Grown
    BY <1>6, <2>1 DEF Keeps, Inner
  <2>3. /\ 1 \in 1..Len(job.batch) /\ e = job.batch[1] /\ e \in JournalEntry
        /\ \A i \in 1..Len(Tail(job.batch)) : i + 1 \in 1..Len(job.batch) /\ Tail(job.batch)[i] = job.batch[i + 1]
    BY <1>7, <2>1, TailEntries, HeadTailProperties
  <2>4. Arriving(clock, e) /\ Recent(clock, e) /\ e.event \in Event
    BY <2>2, <2>3 DEF KeepsApplying, JournalEntry
  <2>5. AllGuard(clock, ApplyEvent(job.graph, e.event), job.runtime, job.sources, {})
    BY <1>7, <2>2, <2>4, GuardsApplied DEF KeepsApplying, Arriving
  <2>6. \A i \in 1..Len(Tail(job.batch)) : Arriving(clock, Tail(job.batch)[i]) /\ Recent(clock, Tail(job.batch)[i])
    BY <2>2, <2>3 DEF KeepsApplying
  <2> HIDE DEF e
  <2>7. Arrivals({})'
    <3>1. CASE e.event.type # "progress"
      BY <2>1, <2>2, <3>1 DEF KeepsApplying, Arrivals, Answer, Arriving, Since, Recent
    <3>2. CASE e.event.type = "progress"
      <4>1. Answer(e)
        BY <3>2 DEF Answer
      <4>2. \A i \in 1..Len(job'.updates) :
              (i \in 1..Len(job.updates) /\ job'.updates[i] = job.updates[i]) \/ job'.updates[i] = e
        BY <1>7, <2>1, <2>3, <3>2, AppendEntries
      <4> QED BY <2>1, <2>2, <2>4, <4>1, <4>2 DEF KeepsApplying, Arrivals, Answer, Arriving, Since, Recent
    <3> QED BY <3>1, <3>2
  <2>8. KeepsApplying'
    <3>1. AllGuard(clock, job.graph, job.runtime, job.sources, {})'
      BY <2>1, <2>5
    <3>2. \A i \in 1..Len(job'.batch) : Arriving(clock', job'.batch[i]) /\ Recent(clock', job'.batch[i])
      BY <2>1, <2>6
    <3>3. job'.ran = {}
      BY <2>1, <2>2 DEF KeepsApplying
    <3> QED BY <2>7, <3>1, <3>2, <3>3 DEF KeepsApplying
  <2>9. Issued(clock)' /\ Grown'
    <3>1. Issued(clock)'
      BY <1>6, <2>1 DEF Issued
    <3>2. Grown'
      BY <2>1, <2>2 DEF Grown
    <3> QED BY <3>1, <3>2
  <2> QED BY <1>9, <2>1, <2>2, <2>8, <2>9, KeepInner DEF Inner
<1>10. CASE Schedule(p)
  <2>1. /\ pc[p] = "apply" /\ pc'[p] = "run" /\ UNCHANGED <<journal, snap, clock, fetches, content>>
        /\ job'.graph = job.graph /\ job'.runtime = job.runtime /\ job'.ran = job.ran /\ job'.requests = job.requests
        /\ job'.taken = job.taken /\ job'.updates = job.updates /\ job'.sources = job.sources
        /\ job'.todo = {c \in Tasks : Eligible(job.graph, c)}
    BY <1>7, <1>10 DEF Schedule, TypeOK, Job, Goto
  <2>2. KeepsApplying /\ job.taken = Len(journal) /\ Grown
    BY <1>6, <2>1 DEF Keeps, Inner
  <2>3. Arrivals(job.ran)' /\ job'.ran = {}
    BY <2>1, <2>2 DEF KeepsApplying, Arrivals
  <2>4. AllGuard(clock, job.graph, job.runtime, job.sources, job.ran)'
    BY <2>1, <2>2, <2>3 DEF KeepsApplying
  <2>5. \A c \in Tasks : Eligible(job.graph, c) => ~RunningIn(job.graph, c)
    BY DEF Eligible, RunningIn
  <2>6. KeepsRunning'
    BY <2>1, <2>3, <2>4, <2>5 DEF KeepsRunning
  <2>7. Issued(clock)' /\ Grown'
    <3>1. Issued(clock)'
      BY <1>6, <2>1 DEF Issued
    <3>2. Grown'
      BY <2>1, <2>2 DEF Grown
    <3> QED BY <3>1, <3>2
  <2> QED BY <1>10, <2>1, <2>2, <2>6, <2>7, KeepInner DEF Inner
<1>11. CASE EndPass(p)
  <2>1. /\ pc[p] = "run" /\ pc'[p] = (IF job.tx = <<>> THEN "runtime" ELSE "apply")
        /\ UNCHANGED <<journal, snap, fetches, clock, content>> /\ job.updates = <<>>
        /\ job'.graph = Started(job.graph, job.ran) /\ job'.ran = {} /\ job'.batch = job.tx
        /\ job'.runtime = job.runtime /\ job'.requests = job.requests /\ job'.taken = job.taken /\ job'.updates = job.updates
        /\ job'.sources = job.sources
    BY <1>7, <1>11 DEF EndPass, TypeOK, Job, Goto
  <2>2. KeepsRunning /\ job.taken = Len(journal) /\ Closed(job.tx) /\ Grown
    BY <1>6, <2>1 DEF Keeps, Inner, Counted
  <2>3. AllGuard(clock, Started(job.graph, job.ran), job.runtime, job.sources, {})
    BY <1>7, <2>2, GuardsStarted DEF KeepsRunning
  <2>4. Issued(clock)' /\ Grown'
    <3>1. Issued(clock)'
      BY <1>6, <2>1 DEF Issued
    <3>2. Grown'
      BY <2>1, <2>2 DEF Grown
    <3> QED BY <3>1, <3>2
  <2>5. AllGuard(clock, job.graph, job.runtime, job.sources, {})'
    BY <2>1, <2>3
  <2>6. KeepsApplying'
    <3>1. \A i \in 1..Len(job'.batch) : Arriving(clock', job'.batch[i]) /\ Recent(clock', job'.batch[i])
      BY <2>1, <2>2 DEF Closed, Arriving, Recent, Answer
    <3>2. Arrivals({})'
      BY <2>1, EmptySeq DEF Arrivals
    <3> QED BY <2>1, <2>5, <3>1, <3>2 DEF KeepsApplying
  <2> QED BY <1>11, <2>1, <2>2, <2>4, <2>5, <2>6, KeepInner DEF Inner
<1>12. CASE CommitRuntime(p) \/ CommitGraph(p)
  <2>1. /\ UNCHANGED <<journal, fetches, clock, job, content>>
        /\ \/ pc[p] = "runtime" /\ pc'[p] = "graph" /\ snap'.runtime = job.runtime
           \/ pc[p] = "graph" /\ pc'[p] = "cursor" /\ snap'.runtime = snap.runtime /\ snap'.graph = job.graph
    BY <1>7, <1>12 DEF CommitRuntime, CommitGraph, KeyAfter, Goto, TypeOK, Snapshot
  <2>2. Issued(clock)' /\ RecentFrom(job.taken)' /\ Grown'
    <3>1. RecentFrom(job.taken) /\ Grown
      BY <1>6, <2>1 DEF Keeps, Writing, Flushing
    <3>2. Issued(clock)'
      BY <1>6, <2>1 DEF Issued
    <3> QED BY <2>1, <3>1, <3>2 DEF RecentFrom, Grown
  <2>3. CASE pc[p] = "runtime" /\ pc'[p] = "graph" /\ snap'.runtime = job.runtime
    <3>1. AllGuard(clock, job.graph, job.runtime, job.sources, {})
      BY <1>6, <2>3 DEF Keeps
    <3>2. AllGuard(clock, job.graph, snap.runtime, job.sources, {})'
      BY <2>1, <2>3, <3>1
    <3>3. Keeps(p)'
      BY <2>2, <2>3, <3>2 DEF Keeps, Inner
    <3> QED BY <1>4, <2>2, <2>3, <3>3 DEF Writing, Flushing
  <2>4. CASE pc[p] = "graph" /\ pc'[p] = "cursor" /\ snap'.runtime = snap.runtime /\ snap'.graph = job.graph
    <3>1. AllGuard(clock, job.graph, snap.runtime, job.sources, {})
      BY <1>6, <2>4 DEF Keeps
    <3>2. AllGuard(clock, snap.graph, snap.runtime, job.sources, {})'
      BY <2>1, <2>4, <3>1
    <3>3. Keeps(p)'
      BY <2>2, <2>4, <3>2 DEF Keeps, Inner
    <3> QED BY <1>4, <2>2, <2>4, <3>3 DEF Writing, Flushing
  <2> QED BY <2>1, <2>3, <2>4
<1>13. CASE CommitCursor(p)
  <2>1. /\ UNCHANGED <<fetches, clock, job, content>> /\ pc[p] = "cursor" /\ pc'[p] = "outputs"
        /\ snap'.runtime = snap.runtime /\ snap'.graph = snap.graph
        /\ journal' = SubSeq(journal, job.taken + 1, Len(journal)) /\ job.taken <= Len(journal)
    BY <1>6, <1>7, <1>13 DEF CommitCursor, KeyAfter, Goto, TypeOK, Snapshot, Counted, Writing
  <2>2. RecentFrom(job.taken) /\ AllGuard(clock, snap.graph, snap.runtime, job.sources, {}) /\ Grown
    BY <1>6, <2>1 DEF Keeps, Inner, Writing, Flushing
  <2>3. /\ Len(journal') = Len(journal) - job.taken
        /\ \A i \in 1..Len(journal') : journal'[i] = journal[job.taken + i] /\ job.taken + i \in (job.taken + 1)..Len(journal)
                                       /\ job.taken + i \in 1..Len(journal)
    <3> DEFINE q == SubSeq(journal, job.taken + 1, Len(journal))
    <3>1. Len(q) = Len(journal) - job.taken /\ \A i \in 1..(Len(journal) - job.taken) : q[i] = journal[job.taken + i]
      BY <1>7, <2>1, EntriesAfter
    <3>2. \A i \in 1..(Len(journal) - job.taken) :
            job.taken + i \in (job.taken + 1)..Len(journal) /\ job.taken + i \in 1..Len(journal)
      BY <1>7, <2>1, SMTT(20)
    <3> HIDE DEF q
    <3> QED BY <2>1, <3>1, <3>2 DEF q
  <2>4. Issued(clock)'
    BY <1>6, <2>1, <2>3 DEF Issued, Arriving, Since, Answer
  <2>5. RecentFrom(0)'
    <3>1. \A i \in 1..Len(journal') : Recent(clock', journal'[i])
      BY <2>1, <2>2, <2>3 DEF RecentFrom
    <3> QED BY <3>1 DEF RecentFrom
  <2>6. AllGuard(clock, snap.graph, snap.runtime, job.sources, {})' /\ Grown'
    BY <2>1, <2>2 DEF Grown
  <2>7. Keeps(p)'
    BY <2>1, <2>6 DEF Keeps, Inner, Writing
  <2> QED BY <1>4, <2>1, <2>4, <2>5, <2>7 DEF Flushing
<1>14. CASE FlushOutputs(p) \/ FlushSources(p)
  <2>1. /\ UNCHANGED <<journal, snap, fetches, clock, job>>
        /\ \/ pc[p] = "outputs" /\ pc'[p] = "sources" /\ content' = content
           \/ pc[p] = "sources" /\ pc'[p] = "dispatch" /\ content' = job.sources
    BY <1>7, <1>14 DEF FlushOutputs, FlushSources, Goto
  <2>2. RecentFrom(0) /\ AllGuard(clock, snap.graph, snap.runtime, job.sources, {}) /\ Grown
    BY <1>5, <1>6, <2>1 DEF Keeps, Inner, Writing, Flushing
  <2>3. Issued(clock)' /\ RecentFrom(0)'
    <3>1. Issued(clock)'
      BY <1>6, <2>1 DEF Issued
    <3> QED BY <2>1, <2>2, <3>1 DEF RecentFrom
  <2>4. CASE pc'[p] = "sources" /\ content' = content
    <3>1. AllGuard(clock, snap.graph, snap.runtime, job.sources, {})' /\ Grown'
      BY <2>1, <2>2, <2>4 DEF Grown
    <3>2. Keeps(p)'
      BY <2>4, <3>1 DEF Keeps, Inner, Writing
    <3> QED BY <1>4, <2>3, <2>4, <3>2 DEF Flushing
  <2>5. CASE pc'[p] = "dispatch" /\ content' = job.sources
    <3>1. AllGuard(clock, snap.graph, snap.runtime, content, {})'
      BY <2>1, <2>2, <2>5
    <3>2. Keeps(p)'
      BY <2>5 DEF Keeps, Inner, Writing, Flushing
    <3> QED BY <1>4, <2>3, <3>1, <3>2
  <2> QED BY <2>1, <2>4, <2>5
<1>15. CASE DispatchRequest(p) \/ Release(p)
  <2>1. /\ UNCHANGED <<journal, snap, clock, content>> /\ pc[p] = "dispatch" /\ pc'[p] \in {"dispatch", "continue"}
    BY <1>7, <1>15 DEF DispatchRequest, Release, Goto
  <2>2. RecentFrom(0) /\ AllGuard(clock, snap.graph, snap.runtime, content, {})
    BY <1>5, <2>1 DEF Inner, Writing, Flushing
  <2>3. RecentFrom(0)' /\ AllGuard(clock, snap.graph, snap.runtime, content, {})' /\ Keeps(p)'
    BY <2>1, <2>2 DEF RecentFrom, Keeps, Inner, Writing, Flushing
  <2>4. Fetchings(clock, fetches') /\ Asking(clock, job'.requests)
    <3>1. CASE Release(p)
      BY <1>6, <3>1, EmptySeq DEF Release, NoJob, Asking
    <3>2. CASE DispatchRequest(p)
      <4> DEFINE q == Head(job.requests)
                 f == [s \in Source |-> IF s \in Sources(q.card) THEN Append(fetches[q.card][s], q.rqt) ELSE fetches[q.card][s]]
      <4>1. job.requests # <<>> /\ q \in Request
        BY <1>7, <3>2, HeadTailProperties DEF DispatchRequest
      <4>2. /\ 1 \in 1..Len(job.requests) /\ q = job.requests[1]
            /\ \A i \in 1..Len(Tail(job.requests)) :
                 i + 1 \in 1..Len(job.requests) /\ Tail(job.requests)[i] = job.requests[i + 1]
        BY <1>7, <4>1, TailEntries
      <4>3. Since(clock[q.card], q.rqt)
        BY <1>6, <4>2 DEF Asking
      <4>4. fetches' = [fetches EXCEPT ![q.card] = f] /\ job'.requests = Tail(job.requests)
        BY <3>2, <4>1 DEF DispatchRequest, TypeOK, Request, Job
      <4>5. Asking(clock, job'.requests)
        BY <1>6, <4>2, <4>4 DEF Asking
      <4>6. ASSUME NEW s \in Source, NEW i \in 1..Len(f[s]) PROVE Since(clock[q.card], f[s][i])
        <5>1. fetches[q.card][s] \in Seq(Token) /\ q.rqt \in Token
          BY <4>1 DEF Request, TypeOK
        <5>2. \A n \in 1..Len(fetches[q.card][s]) : Since(clock[q.card], fetches[q.card][s][n])
          BY <1>6, <4>1 DEF Fetchings, Request
        <5>3. f[s] = fetches[q.card][s] \/ f[s] = Append(fetches[q.card][s], q.rqt)
          OBVIOUS
        <5> HIDE DEF f, q
        <5>4. CASE f[s] = fetches[q.card][s]
          BY <5>2, <5>4
        <5>5. CASE f[s] = Append(fetches[q.card][s], q.rqt)
          <6>1. (i \in 1..Len(fetches[q.card][s]) /\ f[s][i] = fetches[q.card][s][i]) \/ f[s][i] = q.rqt
            BY <5>1, <5>5, AppendEntries
          <6> QED BY <4>3, <5>2, <6>1
        <5> QED BY <5>3, <5>4, <5>5
      <4> HIDE DEF f, q
      <4>7. Fetchings(clock, fetches')
        BY <1>6, <4>1, <4>4, <4>6 DEF Fetchings, TypeOK, Request
      <4> QED BY <4>5, <4>7
    <3> QED BY <1>15, <3>1, <3>2
  <2>5. Issued(clock)'
    <3>1. Fetchings(clock', fetches') /\ Asking(clock', job'.requests) /\ \A i \in 1..Len(journal') : Arriving(clock', journal'[i])
      BY <1>6, <2>1, <2>4
    <3> QED BY <3>1 DEF Issued
  <2> QED BY <1>4, <2>1, <2>3, <2>5
<1> QED BY <1>8, <1>9, <1>10, <1>11, <1>12, <1>13, <1>14, <1>15, KeepRun, KeepRoute DEF Drain

LEMMA OutsideAnswers ==
  ASSUME TypeOK, Issued(clock), Workers \/ Users, AnswersAreRecent
  PROVE  /\ ~Draining /\ UNCHANGED <<snap, pc, job, clock, content, crashes>> /\ Fetchings(clock, fetches')
         /\ \E x \in JournalEntry : journal' = Append(journal, x) /\ Arriving(clock, x) /\ Recent(clock, x)
<1>1. Fetchings(clock, fetches)
  BY DEF Issued
<1>2. ASSUME NEW c \in Tasks, NEW t \in {"restart", "failed"}
      PROVE  LET x == Plain(Ev(t, c)) IN x \in JournalEntry /\ Arriving(clock, x) /\ Recent(clock, x)
  <2>1. Plain(Ev(t, c)) \in JournalEntry /\ Plain(Ev(t, c)).event = Ev(t, c)
    BY EvType, PlainType
  <2> QED BY <2>1 DEF Ev, Arriving, Recent, Answer
<1>3. CASE Users
  <2>1. PICK c \in Targets : Retrigger(c) \/ TaskFailed(c)
    BY <1>3 DEF Users
  <2>2. c \in Tasks
    BY BoardAssumption
  <2>3. PICK t \in {"restart", "failed"}, name \in {"retrigger", "taskFailed"} : Call(name, Ev(t, c))
    BY <2>1 DEF Retrigger, TaskFailed
  <2>4. ~Draining /\ UNCHANGED <<snap, pc, job, clock, content, crashes, fetches>> /\ journal' = Append(journal, Plain(Ev(t, c)))
    BY <2>3 DEF Call, Notify
  <2> QED BY <1>1, <1>2, <2>2, <2>4
<1>4. CASE Workers
  <2>1. PICK c \in Tasks : \E s \in Sources(c) : \E i \in DOMAIN fetches[c][s] :
          Fetched(c, s, i) \/ DispatchRejected(c, s, i) \/ \E a \in {"missing", "failure"} : FetchFailed(c, s, i, a)
    BY <1>4 DEF Workers
  <2>2. PICK s \in Sources(c) : \E i \in DOMAIN fetches[c][s] :
          Fetched(c, s, i) \/ DispatchRejected(c, s, i) \/ \E a \in {"missing", "failure"} : FetchFailed(c, s, i, a)
    BY <2>1
  <2>3. PICK i \in DOMAIN fetches[c][s] :
          Fetched(c, s, i) \/ DispatchRejected(c, s, i) \/ \E a \in {"missing", "failure"} : FetchFailed(c, s, i, a)
    BY <2>2
  <2>4. s \in Source /\ fetches[c][s] \in Seq(Token)
    <3>1. s \in Source
      BY SourceAssumption DEF Sources, Source
    <3> QED BY <3>1 DEF TypeOK
  <2>5. Since(clock[c], fetches[c][s][i])
    <3>1. i \in 1..Len(fetches[c][s])
      BY <2>4, LenProperties
    <3> QED BY <1>1, <2>4, <3>1 DEF Fetchings
  <2>6. ASSUME NEW a \in Answers, clock[c] <= fetches[c][s][i] + 1
        PROVE  LET x == Progress(c, s, i, a) IN x \in JournalEntry /\ Arriving(clock, x) /\ Recent(clock, x)
    <3>1. Progress(c, s, i, a) \in JournalEntry
      BY <2>4, ProgressType
    <3> QED BY <2>5, <2>6, <3>1 DEF Progress, Ev, Arriving, Recent, Answer
  <2>7. Fetchings(clock, fetches')
    <3> DEFINE w == Without(fetches[c][s], i)
    <3>1. fetches' = [fetches EXCEPT ![c] = [fetches[c] EXCEPT ![s] = w]]
      BY <2>3 DEF Fetched, DispatchRejected, FetchFailed, Drop, TypeOK
    <3>2. \A n \in 1..Len(w) : \E m \in 1..Len(fetches[c][s]) : w[n] = fetches[c][s][m]
      BY <2>4, WithoutEntries
    <3> HIDE DEF w
    <3>3. \A n \in 1..Len(w) : Since(clock[c], w[n])
      BY <1>1, <2>4, <3>2 DEF Fetchings
    <3>4. ASSUME NEW d \in Tasks, NEW x \in Source, NEW n \in 1..Len(fetches'[d][x]) PROVE Since(clock[d], fetches'[d][x][n])
      <4>1. fetches'[d][x] = IF d = c /\ x = s THEN w ELSE fetches[d][x]
        BY <2>4, <3>1 DEF TypeOK
      <4> QED BY <1>1, <3>3, <3>4, <4>1 DEF Fetchings
    <3> QED BY <3>4 DEF Fetchings
  <2>8. ~Draining /\ UNCHANGED <<snap, pc, job, clock, content, crashes>>
    BY <2>3 DEF Fetched, DispatchRejected, FetchFailed, bounds
  <2>9. CASE DispatchRejected(c, s, i)
    <3>1. journal' = Append(journal, Plain(Ev("failed", c)))
      BY <2>9 DEF DispatchRejected
    <3> QED BY <1>2, <2>7, <2>8, <3>1
  <2>10. CASE Fetched(c, s, i) \/ \E a \in {"missing", "failure"} : FetchFailed(c, s, i, a)
    <3>1. clock[c] <= fetches[c][s][i] + 1
      BY <2>10 DEF AnswersAreRecent
    <3>2. PICK a \in Answers : journal' = Append(journal, Progress(c, s, i, a))
      BY <2>10 DEF Fetched, FetchFailed, Notify, Answers
    <3> QED BY <2>6, <2>7, <2>8, <3>1, <3>2
  <2> QED BY <2>3, <2>9, <2>10
<1> QED BY <1>3, <1>4

LEMMA KeepStep ==
  ASSUME TypeOK, DrainInv, crashes = 0 => KeepInv, [Next]_vars, [AnswersAreRecent]_vars
  PROVE  crashes' = 0 => KeepInv'
<1>1. CASE UNCHANGED <<journal, snap, content, fetches, pc, job, clock, crashes>>
  <2>1. ASSUME KeepInv PROVE KeepInv'
    <3>1. Issued(clock)'
      BY <1>1, <2>1 DEF KeepInv, Issued
    <3>2. (RecentFrom(job.taken) => RecentFrom(job.taken)') /\ (RecentFrom(0) => RecentFrom(0)')
          /\ (KeepsApplying => KeepsApplying') /\ (KeepsRunning => KeepsRunning') /\ (Grown => Grown')
      BY <1>1 DEF RecentFrom, KeepsApplying, KeepsRunning, Arrivals, Grown
    <3>3. ASSUME NEW p \in Procs PROVE Keeps(p)'
      <4>1. Keeps(p)
        BY <2>1 DEF KeepInv
      <4> QED BY <1>1, <3>2, <4>1 DEF Keeps
    <3>4. AllGuard(clock, snap.graph, snap.runtime, content, {}) => AllGuard(clock, snap.graph, snap.runtime, content, {})'
      BY <1>1
    <3> QED BY <1>1, <2>1, <3>1, <3>2, <3>3, <3>4 DEF KeepInv
  <2> QED BY <1>1, <2>1
<1>2. CASE (Workers \/ Users) /\ AnswersAreRecent
  <2> SUFFICES ASSUME crashes' = 0 PROVE KeepInv'
    OBVIOUS
  <2>0. Issued(clock) /\ KeepInv
    <3>1. crashes' = crashes
      BY <1>2 DEF Workers, Users, Fetched, FetchFailed, DispatchRejected, Retrigger, TaskFailed, Call, bounds
    <3> QED BY <3>1 DEF KeepInv
  <2>1. /\ ~Draining /\ UNCHANGED <<snap, pc, job, clock, content, crashes>> /\ Fetchings(clock, fetches')
        /\ \E x \in JournalEntry : journal' = Append(journal, x) /\ Arriving(clock, x) /\ Recent(clock, x)
    BY <1>2, <2>0, OutsideAnswers
  <2>2. PICK x \in JournalEntry : journal' = Append(journal, x) /\ Arriving(clock, x) /\ Recent(clock, x)
    BY <2>1
  <2>3. /\ Len(journal) \in Nat /\ Len(journal') = Len(journal) + 1
        /\ \A i \in 1..Len(journal') :
             (i \in 1..Len(journal) /\ journal'[i] = journal[i]) \/ (i = Len(journal) + 1 /\ journal'[i] = x)
    BY <2>2, AppendEntries DEF TypeOK
  <2>4. Issued(clock)'
    <3>1. \A i \in 1..Len(journal') : Arriving(clock, journal'[i])
      BY <2>0, <2>2, <2>3 DEF Issued
    <3>2. Asking(clock, job.requests)
      BY <2>0 DEF Issued
    <3>3. Fetchings(clock', fetches') /\ Asking(clock', job'.requests) /\ \A i \in 1..Len(journal') : Arriving(clock', journal'[i])
      BY <2>1, <3>1, <3>2
    <3> QED BY <3>3 DEF Issued
  <2>5. ASSUME NEW n \in Nat, RecentFrom(n) PROVE RecentFrom(n)'
    <3>1. ASSUME NEW i \in (n + 1)..Len(journal') PROVE Recent(clock, journal'[i])
      <4>1. i \in 1..Len(journal')
        BY <2>3
      <4>2. CASE i \in 1..Len(journal) /\ journal'[i] = journal[i]
        <5>1. i \in (n + 1)..Len(journal)
          BY <2>3, <4>2
        <5> QED BY <2>5, <4>2, <5>1 DEF RecentFrom
      <4> QED BY <2>2, <2>3, <4>1, <4>2
    <3>2. \A i \in (n + 1)..Len(journal') : Recent(clock', journal'[i])
      BY <2>1, <3>1
    <3> QED BY <3>2 DEF RecentFrom
  <2>6. (Grown => Grown')
        /\ (AllGuard(clock, snap.graph, snap.runtime, content, {}) => AllGuard(clock, snap.graph, snap.runtime, content, {})')
    BY <2>1 DEF Grown
  <2>7. ASSUME NEW p \in Procs PROVE Keeps(p)'
    <3>1. Keeps(p) /\ pc[p] \notin Inner /\ job.taken \in Nat
      BY <2>0, <2>1 DEF KeepInv, Draining, TypeOK, Job
    <3>2. RecentFrom(job.taken) => RecentFrom(job.taken)'
      BY <2>1, <2>5, <3>1
    <3> QED BY <2>1, <2>6, <3>1, <3>2 DEF Keeps, Inner
  <2>8. RecentFrom(0) => RecentFrom(0)'
    BY <2>5
  <2> QED BY <2>0, <2>1, <2>4, <2>6, <2>7, <2>8 DEF KeepInv
<1>3. ASSUME NEW p \in Procs, Lease(p) \/ ClearWakeups(p) \/ TryAcquire(p) \/ Continue(p)
      PROVE  crashes' = 0 => KeepInv'
  <2>1. UNCHANGED <<journal, snap, content, fetches, job, clock, crashes>>
    BY <1>3 DEF Lease, ClearWakeups, TryAcquire, Continue, bounds
  <2>2. /\ pc[p] \notin Inner \cup Flushing /\ pc'[p] \notin Inner \cup Flushing
        /\ \A q \in Procs : q # p => pc'[q] = pc[q]
    BY <1>3 DEF Lease, ClearWakeups, TryAcquire, Continue, Goto, TypeOK, Inner, Writing, Flushing
  <2>3. ASSUME KeepInv PROVE KeepInv'
    <3>1. Issued(clock)'
      BY <2>1, <2>3 DEF KeepInv, Issued
    <3>2. (RecentFrom(job.taken) => RecentFrom(job.taken)') /\ (RecentFrom(0) => RecentFrom(0)')
          /\ (KeepsApplying => KeepsApplying') /\ (KeepsRunning => KeepsRunning') /\ (Grown => Grown')
      BY <2>1 DEF RecentFrom, KeepsApplying, KeepsRunning, Arrivals, Grown
    <3>3. ASSUME NEW q \in Procs PROVE Keeps(q)'
      <4>1. CASE q = p
        BY <2>2, <4>1 DEF Keeps, Inner, Writing, Flushing
      <4>2. CASE q # p
        <5>1. Keeps(q) /\ pc'[q] = pc[q]
          BY <2>2, <2>3, <4>2 DEF KeepInv
        <5> QED BY <2>1, <3>2, <5>1 DEF Keeps
      <4> QED BY <4>1, <4>2
    <3>4. AllGuard(clock, snap.graph, snap.runtime, content, {}) => AllGuard(clock, snap.graph, snap.runtime, content, {})'
      BY <2>1
    <3>5. /\ (\A q \in Procs : pc'[q] \notin Inner \cup Writing) => \A q \in Procs : pc[q] \notin Inner \cup Writing
          /\ (\A q \in Procs : pc'[q] \notin Inner \cup Flushing) => \A q \in Procs : pc[q] \notin Inner \cup Flushing
      BY <2>2 DEF Flushing
    <3> QED BY <2>3, <3>1, <3>2, <3>3, <3>4, <3>5 DEF KeepInv
  <2> QED BY <2>1, <2>3
<1>4. ASSUME NEW p \in Procs, Drain(p) PROVE crashes' = 0 => KeepInv'
  <2>1. crashes' = crashes
    BY <1>4 DEF Drain, Load, ApplyOne, Schedule, RunCard, RouteProgress, EndPass, CommitRuntime, CommitGraph,
         CommitCursor, FlushOutputs, FlushSources, DispatchRequest, Release, bounds
  <2> QED BY <1>4, <2>1, KeepDrain
<1>5. ASSUME NEW p \in Procs, Crash(p) PROVE crashes' # 0
  BY <1>5 DEF Crash, TypeOK
<1>6. CASE UNCHANGED vars
  BY <1>1, <1>6 DEF vars, bounds
<1>7. CASE Next /\ AnswersAreRecent
  BY <1>2, <1>3, <1>4, <1>5, <1>7, Zenon DEF Next, Serve
<1> QED BY <1>6, <1>7

LEMMA KeepInit == Init => KeepInv
<1> SUFFICES ASSUME Init PROVE KeepInv
  OBVIOUS
<1>1. TypeOK
  BY InitType
<1>2. ASSUME NEW i \in 1..Len(journal) PROVE journal[i].event.type = "upsert"
  <2>1. i \in DOMAIN Added
    <3>1. DOMAIN journal = DOMAIN Added /\ journal \in Seq(JournalEntry)
      BY <1>1 DEF Init, TypeOK
    <3> QED BY <3>1, LenProperties
  <2> QED BY <2>1 DEF Init, Plain, Ev
<1>3. \A i \in 1..Len(journal) : Arriving(clock, journal[i]) /\ Recent(clock, journal[i])
  BY <1>2 DEF Arriving, Recent, Answer
<1>4. Fetchings(clock, fetches) /\ Asking(clock, job.requests)
  BY EmptySeq DEF Init, NoJob, Fetchings, Asking
<1>5. AllGuard(clock, snap.graph, snap.runtime, content, {})
  <2>1. ASSUME NEW c \in Tasks PROVE Guards(clock[c], snap.runtime[c], c, snap.graph, content[c], {})
    <3>1. ~RunningIn(snap.graph, c)
      BY DEF Init, EmptyGraph, RunningIn, FreshStore
    <3>2. Bounded(clock[c], snap.runtime[c], c)
      BY SourcesOf DEF Init, NoJob, NoRuntime, NoSources, NoEntry, NoToken, Bounded
    <3>3. Kept(clock[c], snap.runtime[c], content[c])
      BY DEF Init, NoContents, NoToken, Kept
    <3> QED BY <3>1, <3>2, <3>3 DEF Guards
  <2> QED BY <2>1 DEF AllGuard
<1>6. \A p \in Procs : Keeps(p)
  BY DEF Init, Keeps, Inner, Writing, Flushing
<1>7. RecentFrom(0)
  BY <1>3 DEF RecentFrom
<1> QED BY <1>3, <1>4, <1>5, <1>6, <1>7 DEF KeepInv, Issued

LEMMA ContentGrows ==
  ASSUME TypeOK, crashes = 0 => KeepInv, crashes = 0, [Next]_vars
  PROVE  [\A c \in Tasks : \A s \in Source : content'[c][s] >= content[c][s]]_vars
<1>1. \A c \in Tasks : \A s \in Source : content[c][s] \in Nat
  BY DEF TypeOK, Contents, Token
<1>2. ASSUME NEW p \in Procs, FlushSources(p) PROVE \A c \in Tasks : \A s \in Source : content'[c][s] >= content[c][s]
  <2>1. Grown /\ content' = job.sources /\ job.sources \in Contents
    BY <1>2 DEF FlushSources, KeepInv, Keeps, Flushing, TypeOK, Job
  <2> QED BY <1>1, <2>1 DEF Grown, Contents, Token
<1>3. ASSUME NEW p \in Procs, Drain(p), ~FlushSources(p) PROVE content' = content
  BY <1>3 DEF Drain, Load, ApplyOne, Schedule, RunCard, RouteProgress, EndPass, CommitRuntime, CommitGraph,
       CommitCursor, FlushOutputs, DispatchRequest, Release
<1>4. ASSUME NEW p \in Procs, Lease(p) \/ ClearWakeups(p) \/ TryAcquire(p) \/ Continue(p) \/ Crash(p)
      PROVE  content' = content
  BY <1>4 DEF Lease, ClearWakeups, TryAcquire, Continue, Crash
<1>5. Workers \/ Users => content' = content
  BY DEF Workers, Users, Fetched, FetchFailed, DispatchRejected, Retrigger, TaskFailed, Call
<1>6. CASE content' = content
  BY <1>1, <1>6
<1>7. CASE UNCHANGED vars
  BY <1>7
<1> QED BY <1>2, <1>3, <1>4, <1>5, <1>6, <1>7, Zenon DEF Next, Serve

(* What a source has stored is never replaced by the answer to an older    *)
(* request, with any number of sources and calls, whatever fails, is       *)
(* rejected or retried in the meantime, as long as no process dies and     *)
(* every answer is to the last run of its card or to the one before: the   *)
(* token checks of the progress handler (board-live-cards-lib.ts,          *)
(* createCardHandlerFn) suffice although a failure sets the completed      *)
(* token back.                                                             *)
THEOREM NewerContentIsKept ==
  Spec /\ [](crashes = 0) /\ [][AnswersAreRecent]_vars => NewerContentKept
<1>1. Init => (crashes = 0 => KeepInv)
  BY KeepInit
<1>2. TypeOK /\ DrainInv /\ (crashes = 0 => KeepInv) /\ [Next]_vars /\ [AnswersAreRecent]_vars
        => (crashes = 0 => KeepInv)'
  BY KeepStep, Zenon
<1>3. TypeOK /\ (crashes = 0 => KeepInv) /\ crashes = 0 /\ [Next]_vars
        => [\A c \in Tasks : \A s \in Source : content'[c][s] >= content[c][s]]_vars
  BY ContentGrows, Zenon
<1> QED BY <1>1, <1>2, <1>3, BoardTypeCorrect, DrainInvariant, PTL DEF Spec, NewerContentKept

=============================================================================
