-------------------------- MODULE LiveGraphProofs --------------------------
(***************************************************************************)
(* Lemmas about LiveGraph: every transition of a graph yields a graph.     *)
(***************************************************************************)
EXTENDS LiveGraph, TLAPS, WellFoundedInduction, FiniteSetTheorems, SequenceTheorems

(* Removing an element leaves a sequence.                                  *)
LEMMA RemovedType ==
  ASSUME NEW S, NEW s \in Seq(S), NEW i \in DOMAIN s
  PROVE  SubSeq(s, 1, i - 1) \o SubSeq(s, i + 1, Len(s)) \in Seq(S)
<1>1. i \in 1..Len(s) /\ Len(s) \in Nat /\ \A j \in 1..Len(s) : s[j] \in S
  BY LenProperties, ElementOfSeq
<1>2. SubSeq(s, 1, i - 1) \in Seq(S) /\ SubSeq(s, i + 1, Len(s)) \in Seq(S)
  <2>1. \A j \in 1..(i - 1) : s[j] \in S
    BY <1>1
  <2>2. \A j \in (i + 1)..Len(s) : s[j] \in S
    BY <1>1
  <2> QED BY <1>1, <2>1, <2>2, SubSeqProperties
<1> QED BY <1>2, ConcatProperties

(* A set of numbers has a least element: of the intervals from 0 to a      *)
(* member, one contains no other.                                          *)
LEMMA LeastNumber ==
  ASSUME NEW S \in SUBSET Nat, S # {}
  PROVE  \E m \in S : \A n \in S : m <= n
<1> DEFINE T == {0..n : n \in S}
<1>1. T \subseteq FiniteSubsetsOf(Nat) /\ T # {}
  <2>1. ASSUME NEW n \in S PROVE 0..n \in FiniteSubsetsOf(Nat)
    <3>1. n \in Int /\ 0 \in Int /\ 0..n \subseteq Nat
      OBVIOUS
    <3>2. IsFiniteSet(0..n)
      BY <3>1, FS_Interval
    <3> QED BY <3>1, <3>2 DEF FiniteSubsetsOf
  <2> QED BY <2>1
<1>2. PICK x \in T : \A y \in T : ~ (<<y, x>> \in StrictSubsetOrdering(Nat))
  <2> HIDE DEF T
  <2> QED BY <1>1, FS_StrictSubsetOrderingWellFounded, WFMin
<1>3. PICK m \in S : x = 0..m
  BY <1>2
<1>4. ASSUME NEW n \in S PROVE m <= n
  <2>1. ~ (<<0..n, 0..m>> \in StrictSubsetOrdering(Nat))
    BY <1>2, <1>3
  <2>2. ~ (0..n \subseteq 0..m /\ 0..n # 0..m)
    BY <2>1 DEF StrictSubsetOrdering
  <2>3. n < m => 0..n \subseteq 0..m /\ m \in 0..m /\ ~ (m \in 0..n)
    OBVIOUS
  <2> QED BY <2>2, <2>3
<1> QED BY <1>4

(* A token that has a provider has a first one and a last one.             *)
LEMMA ExtremeProviders ==
  ASSUME NEW g \in Graph, NEW k, Providers(g, k) # {}
  PROVE  /\ FirstProvider(g, k) \in Providers(g, k)
         /\ LastProvider(g, k) \in Providers(g, k)
<1> DEFINE P == Providers(g, k)
           M == Cardinality(Tasks)
           R == {g.rank[t] : t \in P}
           D == {M - g.rank[t] : t \in P}
<1>1. M \in Nat
  BY FS_CardinalityType, TasksAssumption
<1>2. \A t \in P : g.rank[t] \in 0..M
  BY DEF Graph, Positions, Providers, Nodes
<1>3. R \subseteq Nat /\ R # {} /\ D \subseteq Nat /\ D # {}
  BY <1>1, <1>2
<1>4. \E t \in P : \A u \in P : g.rank[t] <= g.rank[u]
  <2>1. PICK x \in R : \A y \in R : x <= y
    BY <1>3, LeastNumber
  <2> QED BY <2>1
<1>5. \E t \in P : \A u \in P : g.rank[t] >= g.rank[u]
  <2>1. PICK x \in D : \A y \in D : x <= y
    BY <1>3, LeastNumber
  <2>2. PICK t \in P : x = M - g.rank[t]
    BY <2>1
  <2>3. \A u \in P : M - g.rank[t] <= M - g.rank[u]
    BY <2>1, <2>2
  <2> QED BY <1>1, <1>2, <2>3
<1> QED BY <1>4, <1>5 DEF FirstProvider, LastProvider

LEMMA StartHashesType ==
  ASSUME NEW g \in Graph, NEW t
  PROVE  StartHashes(g, t) \in Inputs
<1> SUFFICES ASSUME NEW k \in Tokens, k \in g.req[t] /\ Providers(g, k) # {}
             PROVE  g.st[FirstProvider(g, k)].hash \in Payload
  BY DEF StartHashes, Inputs, Payload
<1>1. FirstProvider(g, k) \in Tasks
  BY ExtremeProviders DEF Providers, Nodes
<1> QED BY <1>1 DEF Graph, Store

LEMMA ReadInputsType ==
  ASSUME NEW g \in Graph, NEW t
  PROVE  ReadInputs(g, t) \in Inputs
<1> SUFFICES ASSUME NEW k \in Tokens, k \in g.req[t] /\ Providers(g, k) # {}
             PROVE  g.st[LastProvider(g, k)].data \in Payload
  BY DEF ReadInputs, Inputs, Payload
<1>1. LastProvider(g, k) \in Tasks
  BY ExtremeProviders DEF Providers, Nodes
<1> QED BY <1>1 DEF Graph, Store

LEMMA NoInputsType == NoInputs \in Inputs /\ FreshStore \in Store
  BY DEF NoInputs, Inputs, FreshStore, Store, Payload

LEMMA ConsumedType ==
  ASSUME NEW g \in Graph, NEW t \in Tasks
  PROVE  ConsumedHashes(g, t) \in Inputs
  BY StartHashesType DEF ConsumedHashes, Inputs, Graph, Store

(* Every transition keeps the graph a graph.                               *)
LEMMA StartType ==
  ASSUME NEW g \in Graph, NEW t \in Tasks
  PROVE  TaskStart(g, t) \in Graph
<1>1. [g.st[t] EXCEPT !.status = "running", !.hasStart = TRUE, !.started = StartHashes(g, t)] \in Store
  <2>1. StartHashes(g, t) \in Inputs
    BY StartHashesType
  <2>2. g.st[t] \in Store
    BY DEF Graph
  <2> QED BY <2>1, <2>2 DEF Store
<1> QED BY <1>1 DEF TaskStart, Graph

LEMMA CompletionType ==
  ASSUME NEW g \in Graph, NEW t \in Tasks, NEW d \in Payload, NEW r \in BOOLEAN
  PROVE  TaskCompletion(g, t, d, r) \in Graph
<1> DEFINE n == g.st[t].execs + 1
           c == ConsumedHashes(g, t)
           s == [g.st[t] EXCEPT !.status = "completed", !.execs = n, !.epoch = n,
                                !.hash = d, !.data = d, !.consumed = c]
<1>1. g.st[t] \in Store /\ n \in Nat /\ c \in Inputs
  BY ConsumedType DEF Graph, Store
<1>2. s \in Store
  <2> HIDE DEF n, c
  <2> QED BY <1>1 DEF Store
<1>3. Produced(g, t, r) \in SUBSET Tokens
  BY ConfigAssumption DEF Produced, Graph
<1>4. TaskCompletion(g, t, d, r) = [g EXCEPT !.st[t] = s, !.out = g.out \cup Produced(g, t, r)]
  BY DEF TaskCompletion, Graph
<1> HIDE DEF s
<1>5. [g.st EXCEPT ![t] = s] \in [Tasks -> Store] /\ g.out \cup Produced(g, t, r) \in SUBSET Tokens
  BY <1>2, <1>3 DEF Graph
<1> QED BY <1>4, <1>5 DEF Graph

LEMMA FailureType ==
  ASSUME NEW g \in Graph, NEW t \in Tasks
  PROVE  TaskFailure(g, t) \in Graph
<1> DEFINE n == g.st[t].execs + 1
           r == g.st[t].retry + 1
<1>1. g.st[t] \in Store /\ n \in Nat /\ r \in Nat
  BY DEF Graph, Store
<1>2. /\ [g.st[t] EXCEPT !.status = "not-started", !.retry = r] \in Store
      /\ [g.st[t] EXCEPT !.status = "failed", !.execs = n] \in Store
  <2> HIDE DEF n, r
  <2> QED BY <1>1 DEF Store
<1>3. TaskRetry(g, t) \in Graph
  BY <1>2 DEF TaskRetry, Graph
<1>4. TaskGivesUp(g, t) \in Graph
  <2> DEFINE o == OnFailure[t] \cup (IF Tripped(n, t) THEN OnBreak[t] ELSE {})
             s == [g.st[t] EXCEPT !.status = "failed", !.execs = n]
  <2>1. o \in SUBSET Tokens
    BY ConfigAssumption
  <2>2. TaskGivesUp(g, t) = [g EXCEPT !.st[t] = s, !.out = g.out \cup o]
    BY DEF TaskGivesUp, Graph
  <2>3. s \in Store
    BY <1>2
  <2> HIDE DEF o, s
  <2>4. [g.st EXCEPT ![t] = s] \in [Tasks -> Store] /\ g.out \cup o \in SUBSET Tokens
    BY <2>1, <2>3 DEF Graph
  <2> QED BY <2>2, <2>4 DEF Graph
<1> QED BY <1>3, <1>4 DEF TaskFailure

LEMMA RestartType ==
  ASSUME NEW g \in Graph, NEW t \in Tasks
  PROVE  TaskRestart(g, t) \in Graph
<1>1. NoData \in Payload /\ g.st[t] \in Store
  BY DEF Payload, Graph
<1>2. [g.st[t] EXCEPT !.status = "not-started", !.data = NoData] \in Store
  BY <1>1 DEF Store
<1> QED BY <1>2 DEF TaskRestart, Graph

(* A new node is placed last: its position does not exceed the number of   *)
(* tasks.                                                                  *)
LEMMA AddNodeType ==
  ASSUME NEW g \in Graph, NEW t \in Tasks, NEW r \in SUBSET Tokens, NEW p \in SUBSET Tokens
  PROVE  AddNode(g, t, r, p) \in Graph
<1>1. ASSUME ~ Has(g, t) PROVE Cardinality(Nodes(g)) + 1 \in 0..Cardinality(Tasks)
  <2>1. Nodes(g) \cup {t} \in SUBSET Tasks /\ ~ (t \in Nodes(g)) /\ Nodes(g) \in SUBSET Tasks
    BY <1>1 DEF Nodes
  <2>2. IsFiniteSet(Nodes(g)) /\ IsFiniteSet(Nodes(g) \cup {t})
    BY <2>1, FS_Subset, TasksAssumption
  <2>3. Cardinality(Nodes(g)) \in Nat /\ Cardinality(Tasks) \in Nat
    BY <2>2, FS_CardinalityType, TasksAssumption
  <2>4. Cardinality(Nodes(g) \cup {t}) = Cardinality(Nodes(g)) + 1
    BY <2>1, <2>2, FS_AddElement
  <2>5. Cardinality(Nodes(g) \cup {t}) <= Cardinality(Tasks)
    BY <2>1, FS_Subset, TasksAssumption
  <2> QED BY <2>3, <2>4, <2>5
<1> DEFINE n == IF Has(g, t) THEN g.rank[t] ELSE Cardinality(Nodes(g)) + 1
           s == IF Has(g, t) THEN g.st[t] ELSE FreshStore
<1>2. n \in 0..Cardinality(Tasks)
  BY <1>1 DEF Graph, Positions
<1>3. s \in Store
  BY NoInputsType DEF Graph
<1>4. AddNode(g, t, r, p) = [g EXCEPT !.rank[t] = n, !.req[t] = r, !.prov[t] = p, !.st[t] = s]
  BY DEF AddNode, Graph
<1> HIDE DEF n, s
<1>5. /\ [g.rank EXCEPT ![t] = n] \in Positions
      /\ [g.req EXCEPT ![t] = r] \in [Tasks -> SUBSET Tokens]
      /\ [g.prov EXCEPT ![t] = p] \in [Tasks -> SUBSET Tokens]
      /\ [g.st EXCEPT ![t] = s] \in [Tasks -> Store]
  BY <1>2, <1>3 DEF Graph, Positions
<1> QED BY <1>4, <1>5 DEF Graph

LEMMA RemoveNodeType ==
  ASSUME NEW g \in Graph, NEW t \in Tasks
  PROVE  RemoveNode(g, t) \in Graph
<1> DEFINE f == [u \in Tasks |-> IF u = t THEN 0 ELSE IF g.rank[u] > g.rank[t] THEN g.rank[u] - 1 ELSE g.rank[u]]
<1>1. f \in Positions
  <2>1. Cardinality(Tasks) \in Nat
    BY FS_CardinalityType, TasksAssumption
  <2>2. \A u \in Tasks : g.rank[u] \in 0..Cardinality(Tasks)
    BY DEF Graph, Positions
  <2> QED BY <2>1, <2>2 DEF Positions
<1>2. RemoveNode(g, t) = [g EXCEPT !.rank = f, !.st[t] = FreshStore]
  BY DEF RemoveNode, Graph
<1> HIDE DEF f
<1>3. [g.st EXCEPT ![t] = FreshStore] \in [Tasks -> Store]
  BY NoInputsType DEF Graph
<1> QED BY <1>1, <1>2, <1>3 DEF Graph

LEMMA ApplyEventType ==
  ASSUME NEW g \in Graph, NEW e \in Event
  PROVE  ApplyEvent(g, e) \in Graph
<1>1. /\ e.task \in Tasks /\ e.data \in Payload /\ e.routed \in BOOLEAN
      /\ e.tokens \in SUBSET Tokens /\ g.prov[e.task] \in SUBSET Tokens
  BY DEF Event, Graph
<1>2. /\ TaskStart(g, e.task) \in Graph
      /\ TaskFailure(g, e.task) \in Graph
      /\ TaskRestart(g, e.task) \in Graph
      /\ RemoveNode(g, e.task) \in Graph
  BY <1>1, StartType, FailureType, RestartType, RemoveNodeType
<1>3. TaskCompletion(g, e.task, e.data, e.routed) \in Graph
  BY <1>1, CompletionType
<1>4. AddNode(g, e.task, e.tokens, g.prov[e.task]) \in Graph
  BY <1>1, AddNodeType
<1>5. /\ [g EXCEPT !.out = @ \cup e.tokens] \in Graph
      /\ [g EXCEPT !.req[e.task] = @ \cup e.tokens] \in Graph
      /\ [g EXCEPT !.req[e.task] = @ \ e.tokens] \in Graph
      /\ [g EXCEPT !.prov[e.task] = @ \cup e.tokens] \in Graph
      /\ [g EXCEPT !.prov[e.task] = @ \ e.tokens] \in Graph
  BY <1>1 DEF Graph
<1> QED BY <1>2, <1>3, <1>4, <1>5 DEF ApplyEvent

============================================================================
