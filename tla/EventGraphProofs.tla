-------------------------- MODULE EventGraphProofs --------------------------
(***************************************************************************)
(* Theorems about EventGraph, for every set of tasks, tokens and graphs,   *)
(* every completion and conflict strategy, and every number of failures,   *)
(* injections and executions in flight.                                    *)
(***************************************************************************)
EXTENDS EventGraph, LiveGraphProofs

----------------------------------------------------------------------------
(* What next() lists.                                                      *)

LEMMA ExecutionsType ==
  ASSUME NEW g \in Graph
  PROVE  Executions(g) \in Nat
<1> DEFINE f == [t \in Tasks |-> {t} \X (1..g.st[t].execs)]
           P == {f[t] : t \in Tasks}
<1>1. \A t \in Tasks : IsFiniteSet(f[t])
  <2> SUFFICES ASSUME NEW t \in Tasks PROVE IsFiniteSet(f[t])
    OBVIOUS
  <2>1. g.st[t].execs \in Int /\ 1 \in Int
    BY DEF Graph, Store
  <2> HIDE DEF P
  <2>2. IsFiniteSet(1..g.st[t].execs)
    BY <2>1, FS_Interval
  <2>3. IsFiniteSet({t})
    BY FS_Singleton
  <2> QED BY <2>2, <2>3, FS_Product
<1>2. f \in Surjection(Tasks, P)
  BY DEF Surjection
<1>3. UNION {{t} \X (1..g.st[t].execs) : t \in Tasks} = UNION P
  OBVIOUS
<1> HIDE DEF f
<1>4. IsFiniteSet(P) /\ \A T \in P : IsFiniteSet(T)
  <2>1. \A T \in P : IsFiniteSet(T)
    BY <1>1
  <2> HIDE DEF P
  <2> QED BY <1>2, <2>1, TasksAssumption, FS_Surjection
<1> HIDE DEF P
<1>5. Cardinality(UNION P) \in Nat
  BY <1>4, FS_UNION, FS_CardinalityType
<1> QED BY <1>3, <1>5 DEF Executions

(* The numbers of members before each are 0, 1, ..., all but the last: a   *)
(* rotation finds the member it asks for.                                  *)
LEMMA WinnerIsMember ==
  ASSUME NEW g \in Graph, NEW conflict, NEW S \in SUBSET Tasks, S # {}
  PROVE  Winner(g, conflict, S) \in S
<1> DEFINE n == Cardinality(S)
           R == [t \in S |-> Cardinality(Before(S, t))]
<1>1. IsFiniteSet(S) /\ n \in Nat \ {0}
  BY TasksAssumption, FS_Subset, FS_CardinalityType, FS_EmptySet
<1>2. Preference \in [Tasks -> Nat] /\ \A t, u \in Tasks : Preference[t] = Preference[u] => t = u
  BY EventGraphAssumption DEF Positions, IsInjective
<1>3. ASSUME NEW t \in S
      PROVE  IsFiniteSet(Before(S, t)) /\ Cardinality(Before(S, t)) \in 0..(n - 1)
  <2>1. Before(S, t) \in SUBSET S /\ Before(S, t) # S
    BY <1>2 DEF Before
  <2>2. IsFiniteSet(Before(S, t)) /\ Cardinality(Before(S, t)) <= n /\ Cardinality(Before(S, t)) # n
    BY <1>1, <2>1, FS_Subset
  <2>3. Cardinality(Before(S, t)) \in Nat
    BY <2>2, FS_CardinalityType
  <2> QED BY <1>1, <2>2, <2>3
<1>4. ASSUME NEW t \in S, NEW u \in S, Preference[t] < Preference[u]
      PROVE  Cardinality(Before(S, t)) < Cardinality(Before(S, u))
  <2>1. Before(S, t) \in SUBSET Before(S, u) /\ Before(S, t) # Before(S, u)
    BY <1>2, <1>4 DEF Before
  <2>2. Cardinality(Before(S, t)) <= Cardinality(Before(S, u)) /\ Cardinality(Before(S, t)) # Cardinality(Before(S, u))
    BY <1>3, <2>1, FS_Subset
  <2>3. Cardinality(Before(S, t)) \in Nat /\ Cardinality(Before(S, u)) \in Nat
    BY <1>1, <1>3
  <2> QED BY <2>2, <2>3
<1>5. R \in Injection(S, 0..(n - 1))
  <2>1. R \in [S -> 0..(n - 1)]
    BY <1>3
  <2>2. ASSUME NEW t \in S, NEW u \in S, R[t] = R[u] PROVE t = u
    <3>1. ~ (Preference[t] < Preference[u]) /\ ~ (Preference[u] < Preference[t])
      BY <1>1, <1>3, <1>4, <2>2
    <3>2. Preference[t] \in Nat /\ Preference[u] \in Nat
      BY <1>2
    <3> QED BY <1>2, <3>1, <3>2
  <2> QED BY <2>1, <2>2 DEF Injection, IsInjective
<1>6. IsFiniteSet(0..(n - 1)) /\ Cardinality(0..(n - 1)) = n
  <2>1. 0 \in Int /\ n - 1 \in Int /\ ~ (0 > n - 1)
    BY <1>1
  <2>2. IsFiniteSet(0..(n - 1)) /\ Cardinality(0..(n - 1)) = (n - 1) - 0 + 1
    BY <2>1, FS_Interval
  <2> QED BY <1>1, <2>2
<1> HIDE DEF R
<1>7. R \in Surjection(S, 0..(n - 1))
  BY <1>5, <1>6, FS_Injection
<1> DEFINE turn == IF conflict = "round-robin" THEN Executions(g) % n ELSE 0
<1>8. turn \in 0..(n - 1)
  BY <1>1, ExecutionsType
<1>9. \E t \in S : Cardinality(Before(S, t)) = turn
  <2> HIDE DEF turn
  <2>1. PICK t \in S : R[t] = turn
    BY <1>7, <1>8 DEF Surjection
  <2> QED BY <2>1 DEF R
<1> QED BY <1>9 DEF Winner

LEMMA GroupsOfCandidates ==
  ASSUME NEW g \in Graph, NEW C \in SUBSET Tasks
  PROVE  /\ Contested(g, C) \subseteq {k \in Tokens : Group(g, C, k) # {}}
         /\ \A k : Group(g, C, k) \in SUBSET Tasks /\ Group(g, C, k) \subseteq C
BY DEF Contested, Group

(* When members of C win, members of C are listed, each finitely often.    *)
LEMMA ListingFacts ==
  ASSUME NEW g, NEW C \in SUBSET Tasks, NEW K \in SUBSET Tokens, NEW picks \in [K -> C]
  PROVE  /\ Listing(g, C, picks) \in [Tasks -> Nat]
         /\ \A t \in Tasks : Listing(g, C, picks)[t] > 0 => t \in C
<1> DEFINE won(t) == {k \in DOMAIN picks : picks[k] = t}
<1>1. ASSUME NEW t \in Tasks
      PROVE  Cardinality(won(t)) \in Nat /\ (Cardinality(won(t)) > 0 => t \in C)
  <2>1. won(t) \in SUBSET Tokens /\ (won(t) # {} => t \in C)
    OBVIOUS
  <2> HIDE DEF won
  <2>2. IsFiniteSet(won(t))
    BY <2>1, EventGraphAssumption, FS_Subset
  <2>3. Cardinality(won(t)) \in Nat /\ (Cardinality(won(t)) = 0 <=> won(t) = {})
    BY <2>2, FS_CardinalityType, FS_EmptySet
  <2> QED BY <2>1, <2>3
<1>2. Listing(g, C, picks) =
        [t \in Tasks |-> IF Cardinality(won(t)) > 0 THEN Cardinality(won(t))
                         ELSE IF t \in C /\ g.prov[t] \cap DOMAIN picks = {} THEN 1 ELSE 0]
  BY DEF Listing
<1> HIDE DEF won
<1> QED BY <1>1, <1>2

LEMMA OnceFacts ==
  ASSUME NEW S
  PROVE  Once(S) \in [Tasks -> Nat] /\ \A t \in Tasks : Once(S)[t] > 0 => t \in S
BY DEF Once

(* Only candidates are listed, whatever the strategy.                      *)
LEMMA ListedAreCandidates ==
  ASSUME NEW g \in Graph, NEW conflict, NEW listing \in Listings(g, conflict)
  PROVE  listing \in [Tasks -> Nat] /\ \A t \in Tasks : listing[t] > 0 => t \in Candidates(g)
<1> DEFINE C == Candidates(g)
           K == Contested(g, C)
           All == {k \in Tokens : Group(g, C, k) # {}}
<1>1. C \in SUBSET Tasks
  BY DEF Candidates
<1>2. K \in SUBSET Tokens /\ All \in SUBSET Tokens /\ K \subseteq All
      /\ \A k : Group(g, C, k) \in SUBSET Tasks /\ Group(g, C, k) \subseteq C
  BY <1>1, GroupsOfCandidates
<1>3. \/ listing = Once(C) \/ listing = Once({t \in C : ~HasRival(g, C, t)})
      \/ \E p \in [All -> C] : listing = Listing(g, C, p)
      \/ listing = Listing(g, C, [k \in K |-> Winner(g, conflict, Group(g, C, k))])
  BY Zenon DEF Listings
<1>4. CASE listing = Once(C) \/ listing = Once({t \in C : ~HasRival(g, C, t)})
  BY <1>4, OnceFacts
<1>5. CASE \E p \in [All -> C] : listing = Listing(g, C, p)
  <2>1. PICK p \in [All -> C] : listing = Listing(g, C, p)
    BY <1>5
  <2> HIDE DEF C, All
  <2>2. listing \in [Tasks -> Nat] /\ \A t \in Tasks : listing[t] > 0 => t \in C
    BY <1>1, <1>2, <2>1, ListingFacts
  <2> QED BY <2>2 DEF C
<1>6. CASE listing = Listing(g, C, [k \in K |-> Winner(g, conflict, Group(g, C, k))])
  <2>1. \A k \in K : Winner(g, conflict, Group(g, C, k)) \in C
    <3> SUFFICES ASSUME NEW k \in K PROVE Winner(g, conflict, Group(g, C, k)) \in C
      OBVIOUS
    <3>1. Group(g, C, k) \in SUBSET Tasks /\ Group(g, C, k) # {} /\ Group(g, C, k) \subseteq C
      BY <1>2
    <3> HIDE DEF C, K, All
    <3> QED BY <3>1, WinnerIsMember
  <2> DEFINE picks == [k \in K |-> Winner(g, conflict, Group(g, C, k))]
  <2>2. picks \in [K -> C]
    BY <2>1
  <2>3. listing = Listing(g, C, picks)
    BY <1>6
  <2> HIDE DEF C, K, All, picks
  <2> QED BY <1>1, <1>2, <2>2, <2>3, ListingFacts DEF C
<1> QED BY <1>3, <1>4, <1>5, <1>6

----------------------------------------------------------------------------
(* What a step does to the graph.                                          *)

SameWiring(g, h) == h.rank = g.rank /\ h.req = g.req /\ h.prov = g.prov

LEMMA StartAllFacts ==
  ASSUME NEW g \in Graph, NEW listing
  PROVE  /\ StartAll(g, listing) \in Graph /\ SameWiring(g, StartAll(g, listing))
         /\ StartAll(g, listing).out = g.out
         /\ \A t \in Tasks :
              /\ ~ (listing[t] > 0) => StartAll(g, listing).st[t] = g.st[t]
              /\ listing[t] > 0 => StartAll(g, listing).st[t].status = "running"
              /\ StartAll(g, listing).st[t].execs = g.st[t].execs
<1> DEFINE s == [t \in Tasks |-> IF listing[t] > 0 THEN TaskStart(g, t).st[t] ELSE g.st[t]]
<1>1. StartAll(g, listing) = [g EXCEPT !.st = s]
  BY DEF StartAll, Graph
<1>2. ASSUME NEW t \in Tasks
      PROVE  /\ TaskStart(g, t).st[t] \in Store
             /\ TaskStart(g, t).st[t].status = "running"
             /\ TaskStart(g, t).st[t].execs = g.st[t].execs
  <2>1. TaskStart(g, t).st[t] \in Store
    BY StartType DEF Graph
  <2>2. g.st[t] \in Store
    BY DEF Graph
  <2>3. TaskStart(g, t).st[t] = [g.st[t] EXCEPT !.status = "running", !.hasStart = TRUE, !.started = StartHashes(g, t)]
    BY DEF TaskStart, Graph
  <2> QED BY <2>1, <2>2, <2>3 DEF Store
<1>3. s \in [Tasks -> Store]
  BY <1>2 DEF Graph
<1>4. \A t \in Tasks : /\ ~ (listing[t] > 0) => s[t] = g.st[t]
                       /\ listing[t] > 0 => s[t].status = "running"
                       /\ s[t].execs = g.st[t].execs
  BY <1>2
<1> HIDE DEF s
<1>5. [g EXCEPT !.st = s].st = s /\ [g EXCEPT !.st = s].out = g.out /\ SameWiring(g, [g EXCEPT !.st = s])
      /\ [g EXCEPT !.st = s] \in Graph
  BY <1>3 DEF Graph, SameWiring
<1> QED BY <1>1, <1>4, <1>5

LEMMA CompletionFacts ==
  ASSUME NEW g \in Graph, NEW t \in Tasks, NEW d \in Payload, NEW routed \in BOOLEAN
  PROVE  /\ TaskCompletion(g, t, d, routed) \in Graph
         /\ SameWiring(g, TaskCompletion(g, t, d, routed))
         /\ TaskCompletion(g, t, d, routed).out = g.out \cup Produced(g, t, routed)
         /\ \A u \in Tasks \ {t} : TaskCompletion(g, t, d, routed).st[u] = g.st[u]
         /\ TaskCompletion(g, t, d, routed).st[t].status = "completed"
         /\ TaskCompletion(g, t, d, routed).st[t].execs = g.st[t].execs + 1
<1> DEFINE n == g.st[t].execs + 1
           c == ConsumedHashes(g, t)
           s == [g.st[t] EXCEPT !.status = "completed", !.execs = n, !.epoch = n,
                                !.hash = d, !.data = d, !.consumed = c]
<1>1. TaskCompletion(g, t, d, routed) = [g EXCEPT !.st[t] = s, !.out = g.out \cup Produced(g, t, routed)]
  BY DEF TaskCompletion, Graph
<1>2. s.status = "completed" /\ s.execs = n
  <2> HIDE DEF n, c
  <2>1. g.st[t] \in Store
    BY DEF Graph
  <2> QED BY <2>1 DEF Store
<1> HIDE DEF s
<1> DEFINE h == [g EXCEPT !.st[t] = s, !.out = g.out \cup Produced(g, t, routed)]
<1>3. /\ h.rank = g.rank /\ h.req = g.req /\ h.prov = g.prov /\ h.out = g.out \cup Produced(g, t, routed)
      /\ h.st[t] = s /\ \A u \in Tasks \ {t} : h.st[u] = g.st[u]
  BY DEF Graph
<1> HIDE DEF h
<1>4. TaskCompletion(g, t, d, routed) = h
  BY <1>1 DEF h
<1> QED BY <1>2, <1>3, <1>4, CompletionType DEF SameWiring

(* A failure is retried, or the task gives up and its fallback tokens come.*)
GaveUp(g, h, t) ==
  /\ h.st[t].status = "failed" /\ h.st[t].execs = g.st[t].execs + 1
  /\ g.out \subseteq h.out
  /\ \A k \in h.out \ g.out : k \in OnFailure[t] \/ (Breaker[t] # NoLimit /\ k \in OnBreak[t])

Retried(g, h, t) ==
  h.st[t].status = "not-started" /\ h.st[t].execs = g.st[t].execs /\ h.out = g.out

LEMMA FailureFacts ==
  ASSUME NEW g \in Graph, NEW t \in Tasks
  PROVE  /\ TaskFailure(g, t) \in Graph
         /\ SameWiring(g, TaskFailure(g, t))
         /\ \A u \in Tasks \ {t} : TaskFailure(g, t).st[u] = g.st[u]
         /\ Retried(g, TaskFailure(g, t), t) \/ GaveUp(g, TaskFailure(g, t), t)
<1>1. g.st[t] \in Store
  BY DEF Graph
<1>2. CASE TaskFailure(g, t) = TaskRetry(g, t)
  <2> DEFINE s == [g.st[t] EXCEPT !.status = "not-started", !.retry = g.st[t].retry + 1]
             h == [g EXCEPT !.st[t] = s]
  <2>1. s.status = "not-started" /\ s.execs = g.st[t].execs
    BY <1>1 DEF Store
  <2>2. TaskFailure(g, t) = h
    BY <1>2 DEF TaskRetry
  <2> HIDE DEF s
  <2>3. /\ h.rank = g.rank /\ h.req = g.req /\ h.prov = g.prov /\ h.out = g.out
        /\ h.st[t] = s /\ \A u \in Tasks \ {t} : h.st[u] = g.st[u]
    BY DEF Graph
  <2> HIDE DEF h
  <2> QED BY <2>1, <2>2, <2>3, FailureType DEF SameWiring, Retried
<1>3. CASE TaskFailure(g, t) = TaskGivesUp(g, t)
  <2> DEFINE n == g.st[t].execs + 1
             s == [g.st[t] EXCEPT !.status = "failed", !.execs = n]
             o == OnFailure[t] \cup (IF Tripped(n, t) THEN OnBreak[t] ELSE {})
             h == [g EXCEPT !.st[t] = s, !.out = g.out \cup o]
  <2>1. s.status = "failed" /\ s.execs = n
    <3> HIDE DEF n
    <3> QED BY <1>1 DEF Store
  <2>2. TaskFailure(g, t) = h
    BY <1>3 DEF TaskGivesUp, Graph
  <2>3. \A k \in o : k \in OnFailure[t] \/ (Breaker[t] # NoLimit /\ k \in OnBreak[t])
    <3>1. Tripped(n, t) => Breaker[t] # NoLimit
      BY DEF Tripped
    <3>2. CASE Tripped(n, t)
      <4>1. o = OnFailure[t] \cup OnBreak[t]
        BY <3>2
      <4> QED BY <3>1, <3>2, <4>1
    <3>3. CASE ~ Tripped(n, t)
      <4>1. o = OnFailure[t]
        BY <3>3
      <4> QED BY <4>1
    <3> QED BY <3>2, <3>3
  <2> HIDE DEF s, o
  <2>4. /\ h.rank = g.rank /\ h.req = g.req /\ h.prov = g.prov /\ h.out = g.out \cup o
        /\ h.st[t] = s /\ \A u \in Tasks \ {t} : h.st[u] = g.st[u]
    BY DEF Graph
  <2> HIDE DEF h
  <2> QED BY <2>1, <2>2, <2>3, <2>4, FailureType DEF SameWiring, GaveUp
<1> QED BY <1>2, <1>3 DEF TaskFailure

----------------------------------------------------------------------------
(* Types.  No task is removed from the configuration.                      *)
Kept == TypeOK /\ live.rank = Preference

LEMMA KeptInit == Init => Kept
<1> SUFFICES ASSUME Init PROVE Kept
  OBVIOUS
<1>1. PICK w \in Wirings : live = [rank |-> Preference, req |-> w.req, prov |-> w.prov,
                                   st |-> [t \in Tasks |-> FreshStore], out |-> {}]
  BY DEF Init
<1>2. w.req \in [Tasks -> SUBSET Tokens] /\ w.prov \in [Tasks -> SUBSET Tokens] /\ Preference \in Positions
  BY EventGraphAssumption
<1>3. live \in Graph /\ live.rank = Preference
  BY <1>1, <1>2, NoInputsType DEF Graph
<1> QED BY <1>3, EventGraphAssumption DEF Init, Kept, TypeOK

LEMMA KeptStep ==
  ASSUME Kept, [Next]_vars
  PROVE  Kept'
<1> USE DEF Kept
<1>0. MaxFlights \in Nat /\ MaxFailures \in Nat /\ MaxInjected \in Nat /\ Injectable \subseteq Tokens
  BY EventGraphAssumption
<1>1. CASE Schedule
  <2>1. PICK listing \in Listings(live, settings.conflict) :
          \/ UNCHANGED <<live, flights>> /\ ended' \in {"complete", "stuck"}
          \/ /\ \A t \in Tasks : flights[t] + listing[t] <= MaxFlights
             /\ live' = StartAll(live, listing)
             /\ flights' = [t \in Tasks |-> flights[t] + listing[t]]
             /\ UNCHANGED ended
    BY <1>1, Zenon DEF Schedule
  <2>2. UNCHANGED <<settings, failures, injected>>
    BY <1>1 DEF Schedule
  <2>3. CASE UNCHANGED <<live, flights>> /\ ended' \in {"complete", "stuck"}
    BY <2>2, <2>3 DEF TypeOK
  <2>4. CASE /\ \A t \in Tasks : flights[t] + listing[t] <= MaxFlights
             /\ live' = StartAll(live, listing)
             /\ flights' = [t \in Tasks |-> flights[t] + listing[t]]
             /\ UNCHANGED ended
    <3>1. listing \in [Tasks -> Nat]
      BY ListedAreCandidates DEF TypeOK
    <3>2. live' \in Graph /\ live'.rank = live.rank
      BY <2>4, StartAllFacts DEF TypeOK, SameWiring
    <3>3. flights' \in [Tasks -> 0..MaxFlights]
      BY <1>0, <2>4, <3>1 DEF TypeOK
    <3> QED BY <2>2, <2>4, <3>2, <3>3 DEF TypeOK
  <2> QED BY <2>1, <2>3, <2>4
<1>2. ASSUME NEW t \in Tasks, Succeed(t) PROVE Kept'
  <2>1. PICK d \in Payload, routed \in BOOLEAN : live' = TaskCompletion(live, t, d, routed)
    BY <1>2 DEF Succeed
  <2>2. live' \in Graph /\ live'.rank = live.rank
    BY <2>1, CompletionFacts DEF TypeOK, SameWiring
  <2>3. flights' \in [Tasks -> 0..MaxFlights]
    BY <1>0, <1>2 DEF Succeed, Answered, TypeOK
  <2> QED BY <1>2, <2>2, <2>3 DEF Succeed, Answered, TypeOK
<1>3. ASSUME NEW t \in Tasks, Fail(t) PROVE Kept'
  <2>1. live' \in Graph /\ live'.rank = live.rank
    BY <1>3, FailureFacts DEF Fail, TypeOK, SameWiring
  <2>2. flights' \in [Tasks -> 0..MaxFlights]
    BY <1>0, <1>3 DEF Fail, Answered, TypeOK
  <2>3. failures' \in 0..MaxFailures
    BY <1>0, <1>3 DEF Fail, TypeOK
  <2> QED BY <1>3, <2>1, <2>2, <2>3 DEF Fail, Answered, TypeOK
<1>4. ASSUME NEW k \in Injectable, InjectTokens(k) PROVE Kept'
  <2>1. live' \in Graph /\ live'.rank = live.rank
    BY <1>0, <1>4 DEF InjectTokens, TypeOK, Graph
  <2>2. injected' \in 0..MaxInjected
    BY <1>0, <1>4 DEF InjectTokens, TypeOK
  <2> QED BY <1>4, <2>1, <2>2 DEF InjectTokens, TypeOK
<1>5. CASE UNCHANGED vars
  BY <1>5 DEF vars, TypeOK
<1> QED BY <1>1, <1>2, <1>3, <1>4, <1>5, Zenon DEF Next

LEMMA AlwaysKept == Spec => []Kept
BY KeptInit, KeptStep, PTL DEF Spec

(* A driver of next() keeps the state well-formed, whatever the strategy   *)
(* lists (scheduler.ts:226): a graph, and as many executions in flight as  *)
(* were listed.                                                            *)
THEOREM TypeCorrect == Spec => []TypeOK
BY AlwaysKept, PTL DEF Kept

----------------------------------------------------------------------------
(* What a step moves.                                                      *)

(* The tokens of a circuit breaker are forgotten by the reachability       *)
(* analysis and by the plan (getUnreachableTokens, buildProducerMap): what *)
(* they promise holds when those tokens are also tokens of on_failure or   *)
(* of a route.                                                             *)
BreaksForeseen ==
  \A t \in Tasks : Breaker[t] # NoLimit => OnBreak[t] \subseteq OnFailure[t] \cup Routes[t]

(* From g to h only the tasks of M moved, and every token that is new has  *)
(* one of them as a producer, executed by now.                             *)
Moves(g, h, M) ==
  /\ SameWiring(g, h)
  /\ M \subseteq Nodes(g)
  /\ \A t \in Tasks \ M : h.st[t] = g.st[t]
  /\ \A t \in Tasks : h.st[t].execs >= g.st[t].execs
  /\ \A k \in Available(h) \ Available(g) : \E t \in M : t \in Producers(g, k) /\ h.st[t].execs > 0

(* The tasks of M have what they need.                                     *)
Able(g, M) == \A t \in M : g.st[t].status # "failed" /\ g.req[t] \subseteq Available(g)

LEMMA ScheduleMoves ==
  ASSUME NEW g \in Graph, NEW conflict, NEW listing \in Listings(g, conflict)
  PROVE  /\ Moves(g, StartAll(g, listing), {t \in Tasks : listing[t] > 0})
         /\ Able(g, {t \in Tasks : listing[t] > 0})
<1> DEFINE h == StartAll(g, listing)
           M == {t \in Tasks : listing[t] > 0}
<1>1. \A t \in M : Eligible(g, t)
  BY ListedAreCandidates DEF Candidates
<1>2. /\ h \in Graph /\ SameWiring(g, h) /\ h.out = g.out
      /\ \A t \in Tasks \ M : h.st[t] = g.st[t]
      /\ \A t \in M : h.st[t].status = "running"
      /\ \A t \in Tasks : h.st[t].execs = g.st[t].execs
  BY StartAllFacts
<1> HIDE DEF h, M
<1>3. M \subseteq Tasks
  BY DEF M
<1>4. M \subseteq Nodes(g) /\ Able(g, M)
  BY <1>1, <1>3 DEF Eligible, Nodes, Able
<1>5. Available(h) \subseteq Available(g)
  BY <1>2, <1>3 DEF Available, Nodes, Has, SameWiring
<1>6. \A t \in Tasks : h.st[t].execs >= g.st[t].execs
  BY <1>2 DEF Graph, Store
<1>7. Moves(g, h, M)
  BY <1>2, <1>4, <1>5, <1>6 DEF Moves
<1> QED BY <1>4, <1>7 DEF h, M

LEMMA CompletionMoves ==
  ASSUME NEW g \in Graph, NEW t \in Nodes(g), NEW d \in Payload, NEW routed \in BOOLEAN
  PROVE  Moves(g, TaskCompletion(g, t, d, routed), {t})
<1> DEFINE h == TaskCompletion(g, t, d, routed)
<1>0. t \in Tasks
  BY DEF Nodes
<1>1. /\ h \in Graph /\ SameWiring(g, h) /\ h.out = g.out \cup Produced(g, t, routed)
      /\ \A u \in Tasks \ {t} : h.st[u] = g.st[u]
      /\ h.st[t].status = "completed" /\ h.st[t].execs = g.st[t].execs + 1
  BY <1>0, CompletionFacts
<1> HIDE DEF h
<1>2. \A u \in Tasks : g.st[u].execs \in Nat
  BY DEF Graph, Store
<1>3. Produced(g, t, routed) \subseteq g.prov[t] \cup Routes[t]
  BY DEF Produced
<1>4. \A k \in Available(h) \ Available(g) : k \in g.prov[t] \cup Routes[t]
  BY <1>1, <1>3 DEF Available, Nodes, Has, SameWiring
<1>5. \A k \in Available(h) \ Available(g) : t \in Producers(g, k)
  BY <1>4 DEF Producers
<1>6. h.st[t].execs > 0 /\ \A u \in Tasks : h.st[u].execs >= g.st[u].execs
  BY <1>0, <1>1, <1>2
<1>7. Moves(g, h, {t})
  BY <1>1, <1>5, <1>6 DEF Moves
<1> QED BY <1>7 DEF h

LEMMA FailureMoves ==
  ASSUME BreaksForeseen, NEW g \in Graph, NEW t \in Nodes(g)
  PROVE  Moves(g, TaskFailure(g, t), {t})
<1> DEFINE h == TaskFailure(g, t)
<1>0. t \in Tasks
  BY DEF Nodes
<1>1. /\ h \in Graph /\ SameWiring(g, h) /\ \A u \in Tasks \ {t} : h.st[u] = g.st[u]
      /\ Retried(g, h, t) \/ GaveUp(g, h, t)
  BY <1>0, FailureFacts
<1> HIDE DEF h
<1>2. \A u \in Tasks : g.st[u].execs \in Nat
  BY DEF Graph, Store
<1>3. h.st[t].status # "completed"
  BY <1>1 DEF Retried, GaveUp
<1>4. Available(h) \ Available(g) \subseteq h.out \ g.out
  BY <1>1, <1>3 DEF Available, Nodes, Has, SameWiring
<1>5. \A k \in h.out \ g.out : k \in OnFailure[t] \cup Routes[t] /\ h.st[t].execs > 0
  BY <1>0, <1>1, <1>2 DEF Retried, GaveUp, BreaksForeseen
<1>6. \A k \in Available(h) \ Available(g) : t \in Producers(g, k) /\ h.st[t].execs > 0
  BY <1>4, <1>5 DEF Producers
<1>7. \A u \in Tasks : h.st[u].execs >= g.st[u].execs
  BY <1>0, <1>1, <1>2 DEF Retried, GaveUp
<1>8. Moves(g, h, {t})
  BY <1>1, <1>6, <1>7 DEF Moves
<1> QED BY <1>8 DEF h

LEMMA AllAreNodes ==
  ASSUME Kept
  PROVE  Nodes(live) = Tasks
BY EventGraphAssumption DEF Kept, Nodes, Has

----------------------------------------------------------------------------
(* The reachability analysis.                                              *)

(* When only tasks move that had their tokens, every closed set of the     *)
(* later graph is closed for the earlier one, as far as the tokens missing *)
(* there go.                                                               *)
LEMMA UnreachableKept ==
  ASSUME NEW g \in Graph, NEW h \in Graph, NEW M \in SUBSET Tasks,
         Moves(g, h, M), Able(g, M)
  PROVE  /\ UnreachableNodes(g) \subseteq UnreachableNodes(h)
         /\ UnreachableNodes(g) \cap M = {}
<1>1. /\ h.rank = g.rank /\ h.req = g.req /\ h.prov = g.prov
      /\ Nodes(h) = Nodes(g) /\ Required(h) = Required(g) /\ \A k : Producers(h, k) = Producers(g, k)
  BY DEF Moves, SameWiring, Nodes, Has, Required, Producers
<1>2. ASSUME NEW S \in SUBSET Missing(g), NEW t \in Nodes(g), Dead(g, t, S)
      PROVE  t \notin M /\ h.st[t] = g.st[t]
  <2>1. \A u \in M : g.req[u] \cap S = {} /\ g.st[u].status # "failed"
    BY DEF Able, Missing
  <2>2. t \notin M
    BY <1>2, <2>1 DEF Dead, NonActive
  <2> QED BY <2>2 DEF Moves, Nodes
<1>3. ASSUME NEW S \in SUBSET Missing(h), Closed(h, S) PROVE Closed(g, S \cap Missing(g))
  <2> DEFINE T == S \cap Missing(g)
  <2> SUFFICES ASSUME NEW k \in Missing(g), \A p \in Producers(g, k) : Dead(g, p, T)
               PROVE  k \in S
    BY DEF Closed
  <2>0. T \in SUBSET Missing(g) /\ T \subseteq S
    OBVIOUS
  <2> HIDE DEF T
  <2>1. \A p \in Producers(g, k) : p \notin M /\ h.st[p] = g.st[p]
    BY <1>2, <2>0 DEF Producers
  <2>2. k \notin Available(h)
    BY <2>1 DEF Moves, Missing
  <2>3. k \in Missing(h)
    BY <1>1, <2>2 DEF Missing
  <2>4. \A p \in Producers(g, k) : Dead(h, p, S)
    BY <1>1, <2>0, <2>1 DEF Dead, NonActive
  <2> QED BY <1>1, <1>3, <2>3, <2>4 DEF Closed
<1>4. UnreachableTokens(g) \subseteq UnreachableTokens(h)
  <2> SUFFICES ASSUME NEW k \in UnreachableTokens(g) PROVE k \in UnreachableTokens(h)
    OBVIOUS
  <2>1. \A S \in SUBSET Missing(h) : Closed(h, S) => k \in S
    <3> SUFFICES ASSUME NEW S \in SUBSET Missing(h), Closed(h, S) PROVE k \in S
      OBVIOUS
    <3>1. Closed(g, S \cap Missing(g)) /\ S \cap Missing(g) \in SUBSET Missing(g)
      BY <1>3
    <3> QED BY <3>1 DEF UnreachableTokens
  <2>2. Closed(h, Missing(h))
    BY DEF Closed
  <2>3. k \in Missing(h)
    BY <2>1, <2>2
  <2> QED BY <2>1, <2>3 DEF UnreachableTokens
<1>5. ASSUME NEW t \in UnreachableNodes(g) PROVE t \in UnreachableNodes(h) /\ t \notin M
  <2>1. t \in Nodes(g) /\ Dead(g, t, UnreachableTokens(g)) /\ g.st[t].status # "completed"
    BY DEF UnreachableNodes, Dead
  <2>2. UnreachableTokens(g) \in SUBSET Missing(g)
    BY DEF UnreachableTokens
  <2>3. t \notin M /\ h.st[t] = g.st[t]
    BY <1>2, <2>1, <2>2
  <2>4. NonActive(g, t) \/ g.req[t] \cap UnreachableTokens(g) # {}
    BY DEF UnreachableNodes
  <2> QED BY <1>1, <1>4, <2>1, <2>3, <2>4 DEF UnreachableNodes, NonActive
<1> QED BY <1>5

(* What a step of the driver moves, injections apart.                      *)
LEMMA StepMoves ==
  ASSUME Kept, BreaksForeseen, Next, injected' = injected, Orderly
  PROVE  \E M \in SUBSET Tasks : /\ Moves(live, live', M) /\ Able(live, M)
                                 /\ \A t \in Tasks : Starts(t) => t \in M
<1>0. live \in Graph /\ Nodes(live) = Tasks
  BY AllAreNodes DEF Kept, TypeOK
<1>1. CASE Schedule
  <2>1. PICK listing \in Listings(live, settings.conflict) :
          UNCHANGED live \/ live' = StartAll(live, listing)
    BY <1>1, Zenon DEF Schedule
  <2>2. CASE UNCHANGED live
    <3>1. Moves(live, live', {}) /\ Able(live, {})
      BY <1>0, <2>2 DEF Moves, Able, SameWiring, Graph, Store
    <3>2. \A t \in Tasks : ~ Starts(t)
      BY <2>2 DEF Starts
    <3> QED BY <3>1, <3>2
  <2>3. CASE live' = StartAll(live, listing)
    <3> DEFINE M == {t \in Tasks : listing[t] > 0}
    <3>1. Moves(live, live', M) /\ Able(live, M)
      BY <1>0, <2>3, ScheduleMoves
    <3>2. \A t \in Tasks : Starts(t) => t \in M
      BY <1>0, <2>3, StartAllFacts DEF Starts
    <3> HIDE DEF M
    <3>3. M \in SUBSET Tasks
      BY DEF M
    <3> QED BY <3>1, <3>2, <3>3
  <2> QED BY <2>1, <2>2, <2>3
<1>2. ASSUME NEW t \in Tasks, Answered(t)
      PROVE  live.st[t].status = "running" /\ live.req[t] \subseteq Available(live)
  <2>1. flights[t] > 0 /\ flights[t] = Cardinality({t} \cap Running(live))
    BY <1>2 DEF Answered, Orderly
  <2>2. t \in Running(live)
    <3>1. t \notin Running(live) => {t} \cap Running(live) = {}
      OBVIOUS
    <3> QED BY <2>1, <3>1, FS_EmptySet
  <2> QED BY <2>2 DEF Running, Orderly
<1>3. ASSUME NEW t \in Tasks, Answered(t), Moves(live, live', {t}), live'.st[t].status # "running"
      PROVE  \E M \in SUBSET Tasks : /\ Moves(live, live', M) /\ Able(live, M)
                                     /\ \A u \in Tasks : Starts(u) => u \in M
  <2>1. \A u \in Tasks : ~ Starts(u)
    BY <1>3 DEF Moves, Starts
  <2>2. Able(live, {t})
    BY <1>2, <1>3 DEF Able
  <2> QED BY <1>3, <2>1, <2>2
<1>4. ASSUME NEW t \in Tasks, Succeed(t) PROVE Moves(live, live', {t}) /\ live'.st[t].status # "running"
  <2>1. PICK d \in Payload, routed \in BOOLEAN : live' = TaskCompletion(live, t, d, routed)
    BY <1>4 DEF Succeed
  <2>2. live.st[t].status = "running"
    BY <1>2, <1>4 DEF Succeed
  <2> QED BY <1>0, <2>1, <2>2, CompletionMoves, CompletionFacts
<1>5. ASSUME NEW t \in Tasks, Fail(t) PROVE Moves(live, live', {t}) /\ live'.st[t].status # "running"
  <2>1. live' = TaskFailure(live, t)
    BY <1>5 DEF Fail
  <2>2. live.st[t].status = "running"
    BY <1>2, <1>5 DEF Fail
  <2> QED BY <1>0, <2>1, <2>2, FailureMoves, FailureFacts DEF Retried, GaveUp
<1>6. ASSUME NEW k \in Injectable PROVE ~ InjectTokens(k)
  BY EventGraphAssumption DEF InjectTokens, Kept, TypeOK
<1> QED BY <1>1, <1>3, <1>4, <1>5, <1>6 DEF Next, Succeed, Fail

(* A task that getUnreachableNodes names (inspect.ts:325-348) stays        *)
(* unreachable, and is not started, until somebody injects a token: no     *)
(* result, failure, retry or route brings what it waits for.               *)
THEOREM ReportsAreFinal == BreaksForeseen => (Spec => UnreachableStays)
<1> SUFFICES ASSUME BreaksForeseen PROVE Spec => UnreachableStays
  OBVIOUS
<1> DEFINE A == Orderly /\ injected' = injected =>
                  \A t \in UnreachableNodes(live) : t \in UnreachableNodes(live') /\ ~Starts(t)
<1>1. Kept /\ Kept' /\ [Next]_vars => [A]_vars
  <2> SUFFICES ASSUME Kept, Kept', Next, Orderly, injected' = injected, NEW t \in UnreachableNodes(live)
               PROVE  t \in UnreachableNodes(live') /\ ~ Starts(t)
    BY DEF A
  <2>1. live \in Graph /\ live' \in Graph
    BY DEF Kept, TypeOK
  <2>2. PICK M \in SUBSET Tasks : /\ Moves(live, live', M) /\ Able(live, M)
                                  /\ \A u \in Tasks : Starts(u) => u \in M
    BY StepMoves
  <2>3. PICK h : h = live'
    OBVIOUS
  <2>4. t \in UnreachableNodes(h) /\ t \notin M
    BY <2>1, <2>2, <2>3, UnreachableKept
  <2>5. t \in Tasks
    BY DEF UnreachableNodes, Nodes
  <2> QED BY <2>2, <2>3, <2>4, <2>5
<1>2. UnreachableStays <=> [][A]_vars
  BY DEF UnreachableStays
<1> HIDE DEF A
<1> QED BY <1>1, <1>2, AlwaysKept, PTL DEF Spec

----------------------------------------------------------------------------
(* The plan.                                                               *)

Ready(g, S) == {t \in Nodes(g) : DependsOn(g, t) \subseteq S}

(* f lists the tasks of the first 0, 1, ..., n phases.                     *)
Phases(g, f, n) ==
  /\ f \in [0..n -> SUBSET Tasks] /\ f[0] = {}
  /\ \A m \in 1..n : f[m] = f[m - 1] \cup Ready(g, f[m - 1])

LEMMA PhasesExist ==
  ASSUME NEW g, NEW N \in Nat
  PROVE  \E f : Phases(g, f, N)
<1> DEFINE Bad == {n \in Nat : ~ \E f : Phases(g, f, n)}
<1>1. SUFFICES ASSUME Bad # {} PROVE FALSE
  OBVIOUS
<1>2. PICK n \in Bad : \A m \in Bad : n <= m
  <2>1. Bad \in SUBSET Nat
    OBVIOUS
  <2> HIDE DEF Bad
  <2> QED BY <1>1, <2>1, LeastNumber
<1>3. n # 0
  <2>1. Phases(g, [m \in 0..0 |-> {}], 0)
    BY DEF Phases
  <2> QED BY <1>2, <2>1
<1>4. n - 1 \in Nat /\ n - 1 \notin Bad
  BY <1>2, <1>3
<1>5. PICK f : Phases(g, f, n - 1)
  BY <1>4
<1> DEFINE h == [m \in 0..n |-> IF m = n THEN f[n - 1] \cup Ready(g, f[n - 1]) ELSE f[m]]
<1>6. Phases(g, h, n)
  <2>1. /\ f \in [0..(n - 1) -> SUBSET Tasks] /\ f[0] = {}
        /\ \A m \in 1..(n - 1) : f[m] = f[m - 1] \cup Ready(g, f[m - 1])
    BY <1>5 DEF Phases
  <2>2. \A S : Ready(g, S) \in SUBSET Tasks
    BY DEF Ready, Nodes
  <2>3. h \in [0..n -> SUBSET Tasks]
    BY <1>4, <2>1, <2>2
  <2>4. h[0] = {}
    BY <1>3, <1>4, <2>1
  <2>5. ASSUME NEW m \in 1..n PROVE h[m] = h[m - 1] \cup Ready(g, h[m - 1])
    <3>1. m - 1 \in 0..n /\ m - 1 # n /\ m \in 0..n /\ h[m - 1] = f[m - 1]
      BY <1>4
    <3>2. CASE m = n
      BY <3>1, <3>2
    <3>3. CASE m # n
      <4>1. m \in 1..(n - 1)
        BY <1>4, <3>3
      <4> QED BY <2>1, <3>1, <3>3, <4>1
    <3> QED BY <3>2, <3>3
  <2> HIDE DEF h
  <2> QED BY <2>3, <2>4, <2>5 DEF Phases
<1> QED BY <1>2, <1>6

LEMMA PlannedPhases ==
  ASSUME NEW g
  PROVE  Phases(g, Planned(g), Cardinality(Tasks))
<1> DEFINE N == Cardinality(Tasks)
<1>1. N \in Nat
  BY TasksAssumption, FS_CardinalityType
<1>2. PICK f : Phases(g, f, N)
  BY <1>1, PhasesExist
<1>3. f = [n \in 0..N |-> IF n = 0 THEN {}
                          ELSE f[n - 1] \cup {t \in Nodes(g) : DependsOn(g, t) \subseteq f[n - 1]}]
  BY <1>1, <1>2 DEF Phases, Ready
<1>4. Planned(g) = [n \in 0..N |-> IF n = 0 THEN {}
                          ELSE Planned(g)[n - 1] \cup {t \in Nodes(g) : DependsOn(g, t) \subseteq Planned(g)[n - 1]}]
  BY <1>3 DEF Planned
<1> DEFINE P == Planned(g)
           Bad == {n \in 0..N : P[n] \notin SUBSET Tasks}
<1> HIDE DEF P
<1>5. P = [n \in 0..N |-> IF n = 0 THEN {} ELSE P[n - 1] \cup Ready(g, P[n - 1])]
  BY <1>4 DEF P, Ready
<1>6. Bad = {}
  <2> SUFFICES ASSUME Bad # {} PROVE FALSE
    OBVIOUS
  <2>1. PICK n \in Bad : \A m \in Bad : n <= m
    <3>1. Bad \in SUBSET Nat
      BY <1>1
    <3> HIDE DEF Bad
    <3> QED BY <3>1, LeastNumber
  <2>2. P[n] = IF n = 0 THEN {} ELSE P[n - 1] \cup Ready(g, P[n - 1])
    BY <1>1, <1>5, <2>1
  <2>3. n # 0
    BY <2>1, <2>2
  <2>4. n - 1 \in 0..N /\ ~ (n <= n - 1)
    BY <1>1, <2>1, <2>3
  <2>5. P[n - 1] \in SUBSET Tasks
    BY <2>1, <2>4
  <2>6. Ready(g, P[n - 1]) \in SUBSET Tasks
    BY DEF Ready, Nodes
  <2> QED BY <2>1, <2>2, <2>5, <2>6
<1>7. P \in [0..N -> SUBSET Tasks]
  <2>1. \A n \in 0..N : P[n] \in SUBSET Tasks
    BY <1>6
  <2>2. P = [n \in 0..N |-> P[n]]
    BY <1>5
  <2> QED BY <2>1, <2>2
<1>8. P[0] = {} /\ \A n \in 1..N : P[n] = P[n - 1] \cup Ready(g, P[n - 1])
  <2>1. \A n \in 0..N : P[n] = IF n = 0 THEN {} ELSE P[n - 1] \cup Ready(g, P[n - 1])
    BY <1>5
  <2>2. 0 \in 0..N /\ \A n \in 1..N : n \in 0..N /\ n # 0
    BY <1>1
  <2> QED BY <2>1, <2>2
<1> QED BY <1>7, <1>8 DEF Phases, P

(* The plan of a graph without cycles has every task: as long as one is    *)
(* left, the next phase is not empty.                                      *)
LEMMA AllPlanned ==
  ASSUME NEW g, ~ Cyclic(g)
  PROVE  Nodes(g) \subseteq Planned(g)[Cardinality(Tasks)]
<1> DEFINE N == Cardinality(Tasks)
           P == Planned(g)
           Bad == {n \in 0..N : ~ (Cardinality(P[n]) >= n \/ Nodes(g) \subseteq P[n])}
<1>1. N \in Nat
  BY TasksAssumption, FS_CardinalityType
<1>2. /\ P \in [0..N -> SUBSET Tasks] /\ P[0] = {}
      /\ \A n \in 1..N : P[n] = P[n - 1] \cup Ready(g, P[n - 1])
  BY PlannedPhases DEF Phases
<1> HIDE DEF N, P
<1>3. \A n \in 0..N : IsFiniteSet(P[n]) /\ Cardinality(P[n]) \in Nat
  BY <1>2, TasksAssumption, FS_Subset, FS_CardinalityType
<1>4. ASSUME NEW S \in SUBSET Tasks, ~ (Nodes(g) \subseteq S)
      PROVE  \E t \in Ready(g, S) : t \notin S
  <2> DEFINE L == Nodes(g) \ S
  <2>1. PICK t \in L : DependsOn(g, t) \cap L = {}
    <3>1. L \in SUBSET Nodes(g) /\ L # {}
      BY <1>4
    <3> QED BY <3>1 DEF Cyclic
  <2>2. DependsOn(g, t) \subseteq Nodes(g)
    BY DEF DependsOn, Producers
  <2> QED BY <2>1, <2>2 DEF Ready
<1>5. Bad = {}
  <2> SUFFICES ASSUME Bad # {} PROVE FALSE
    OBVIOUS
  <2>1. PICK n \in Bad : \A m \in Bad : n <= m
    <3>1. Bad \in SUBSET Nat
      BY <1>1
    <3> HIDE DEF Bad
    <3> QED BY <3>1, LeastNumber
  <2>2. n \in 0..N /\ ~ (Cardinality(P[n]) >= n) /\ ~ (Nodes(g) \subseteq P[n])
    BY <2>1
  <2>3. n # 0
    BY <1>1, <1>3, <2>2
  <2>4. n \in 1..N /\ n - 1 \in 0..N /\ ~ (n <= n - 1)
    BY <1>1, <2>2, <2>3
  <2>5. n - 1 \notin Bad
    BY <2>1, <2>4
  <2>6. P[n] = P[n - 1] \cup Ready(g, P[n - 1]) /\ P[n - 1] \in SUBSET Tasks
    BY <1>2, <2>4
  <2>7. ~ (Nodes(g) \subseteq P[n - 1])
    BY <2>2, <2>6
  <2>8. Cardinality(P[n - 1]) >= n - 1
    BY <2>4, <2>5, <2>7
  <2>9. P[n - 1] \in SUBSET P[n] /\ P[n - 1] # P[n]
    BY <1>4, <2>6, <2>7
  <2>10. Cardinality(P[n - 1]) < Cardinality(P[n])
    <3>1. Cardinality(P[n - 1]) <= Cardinality(P[n]) /\ Cardinality(P[n - 1]) # Cardinality(P[n])
      BY <1>3, <2>2, <2>9, FS_Subset
    <3> QED BY <1>3, <2>2, <2>4, <3>1
  <2> QED BY <1>1, <1>3, <2>2, <2>4, <2>8, <2>10
<1>6. N \in 0..N /\ P[N] \in SUBSET Tasks
  BY <1>1, <1>2
<1>7. Cardinality(P[N]) >= N \/ Nodes(g) \subseteq P[N]
  BY <1>5, <1>6
<1>8. CASE Cardinality(P[N]) >= N
  <2>1. Cardinality(P[N]) = N
    <3>1. Cardinality(P[N]) <= N
      BY <1>6, TasksAssumption, FS_Subset DEF N
    <3> QED BY <1>1, <1>3, <1>6, <1>8, <3>1
  <2>2. P[N] = Tasks
    BY <1>6, <2>1, TasksAssumption, FS_Subset DEF N
  <2> QED BY <2>2 DEF Nodes, N, P
<1> QED BY <1>7, <1>8 DEF N, P

(* In a graph without cycles what a task depends on is in an earlier phase.*)
LEMMA PhaseOrder ==
  ASSUME NEW g, ~ Cyclic(g), NEW t \in Nodes(g), NEW p \in DependsOn(g, t)
  PROVE  Phase(g, p) < Phase(g, t)
<1> DEFINE N == Cardinality(Tasks)
           P == Planned(g)
           Within(u) == {n \in 1..N : u \in P[n]}
<1>1. N \in Nat
  BY TasksAssumption, FS_CardinalityType
<1>2. /\ P[0] = {} /\ \A n \in 1..N : P[n] = P[n - 1] \cup Ready(g, P[n - 1])
  BY PlannedPhases DEF Phases
<1>3. p \in Nodes(g)
  BY DEF DependsOn, Producers
<1>4. Nodes(g) \subseteq P[N]
  BY AllPlanned
<1> HIDE DEF N, P
<1>5. ASSUME NEW u \in Nodes(g)
      PROVE  /\ Phase(g, u) \in Within(u) /\ \A n \in Within(u) : Phase(g, u) <= n
  <2>1. N \in 1..N
    <3>1. N # 0
      BY <1>2, <1>4
    <3> QED BY <1>1, <3>1
  <2>2. Within(u) \in SUBSET Nat /\ Within(u) # {}
    BY <1>4, <2>1
  <2>3. Phase(g, u) = CHOOSE n \in Within(u) : \A m \in Within(u) : n <= m
    <3>1. {n \in 1..Cardinality(Tasks) : u \in Planned(g)[n]} = Within(u)
      BY DEF N, P
    <3> HIDE DEF Within
    <3> QED BY <2>2, <3>1 DEF Phase, Min
  <2> HIDE DEF Within
  <2>4. \E n \in Within(u) : \A m \in Within(u) : n <= m
    BY <2>2, LeastNumber
  <2> QED BY <2>3, <2>4
<1> DEFINE n == Phase(g, t)
<1>6. n \in 1..N /\ t \in P[n] /\ \A m \in Within(t) : n <= m
  BY <1>5
<1> HIDE DEF n
<1>7. t \notin P[n - 1]
  <2>1. CASE n = 1
    BY <1>2, <2>1
  <2>2. CASE n # 1
    <3>1. n - 1 \in 1..N /\ ~ (n <= n - 1)
      BY <1>1, <1>6, <2>2
    <3> QED BY <1>6, <3>1
  <2> QED BY <2>1, <2>2
<1>8. p \in P[n - 1]
  BY <1>2, <1>6, <1>7 DEF Ready
<1>9. n - 1 \in Within(p)
  <2>1. n # 1
    BY <1>2, <1>8
  <2> QED BY <1>1, <1>6, <1>8, <2>1
<1>10. Phase(g, p) <= n - 1 /\ Phase(g, p) \in 1..N
  BY <1>3, <1>5, <1>9
<1> QED BY <1>1, <1>6, <1>10 DEF n

----------------------------------------------------------------------------
(* Where tokens come from.                                                 *)

(* Whatever is there was injected, or one of its producers has ended or    *)
(* failed; and a task that was ever started has what it requires from      *)
(* somebody else.                                                          *)
Fed(g, t) == \A k \in g.req[t] \ Injectable : \E p \in Producers(g, k) \ {t} : g.st[p].execs > 0

Sourced ==
  /\ \A k \in Available(live) \ Injectable : \E p \in Producers(live, k) : live.st[p].execs > 0
  /\ \A t \in Tasks : flights[t] > 0 \/ live.st[t].execs > 0 => Fed(live, t)

SourcedInv == Kept /\ Sourced

(* Sources stay when tasks move, and a task that has its tokens is fed.    *)
LEMMA MovesSource ==
  ASSUME NEW g \in Graph, NEW h \in Graph, NEW M \in SUBSET Tasks, Moves(g, h, M),
         \A k \in Available(g) \ Injectable : \E p \in Producers(g, k) : g.st[p].execs > 0
  PROVE  /\ \A k \in Available(h) \ Injectable : \E p \in Producers(h, k) : h.st[p].execs > 0
         /\ \A t \in Tasks : Fed(g, t) => Fed(h, t)
<1>1. \A k : Producers(h, k) = Producers(g, k) /\ Producers(g, k) \subseteq Tasks
  BY DEF Moves, SameWiring, Producers, Nodes, Has
<1>2. \A t \in Tasks : h.st[t].execs >= g.st[t].execs /\ g.st[t].execs \in Nat /\ h.st[t].execs \in Nat
  BY DEF Moves, Graph, Store
<1>3. \A p \in Tasks : g.st[p].execs > 0 => h.st[p].execs > 0
  BY <1>2
<1>4. ASSUME NEW k \in Available(h) \ Injectable PROVE \E p \in Producers(h, k) : h.st[p].execs > 0
  <2>1. CASE k \in Available(g)
    BY <1>1, <1>3, <2>1
  <2>2. CASE k \notin Available(g)
    BY <1>1, <2>2 DEF Moves
  <2> QED BY <2>1, <2>2
<1>5. ASSUME NEW t \in Tasks, Fed(g, t) PROVE Fed(h, t)
  <2>1. h.req = g.req
    BY DEF Moves, SameWiring
  <2> QED BY <1>1, <1>3, <1>5, <2>1 DEF Fed
<1> QED BY <1>4, <1>5

LEMMA ReadyIsFed ==
  ASSUME NEW g \in Graph, NEW t \in Tasks, g.req[t] \subseteq Available(g), ~ (g.st[t].execs > 0),
         \A k \in Available(g) \ Injectable : \E p \in Producers(g, k) : g.st[p].execs > 0
  PROVE  Fed(g, t)
BY DEF Fed

LEMMA SourcedInit == Init => SourcedInv
<1> SUFFICES ASSUME Init PROVE SourcedInv
  OBVIOUS
<1>1. PICK w \in Wirings : live = [rank |-> Preference, req |-> w.req, prov |-> w.prov,
                                   st |-> [t \in Tasks |-> FreshStore], out |-> {}]
  BY DEF Init
<1>2. live.out = {} /\ \A t \in Tasks : live.st[t].status = "not-started" /\ live.st[t].execs = 0
  BY <1>1 DEF FreshStore
<1>3. Available(live) = {}
  BY <1>2 DEF Available, Nodes
<1>4. \A t \in Tasks : flights[t] = 0
  BY DEF Init
<1>5. Sourced
  BY <1>2, <1>3, <1>4 DEF Sourced
<1> QED BY <1>5, KeptInit DEF SourcedInv

LEMMA SourcedStep ==
  ASSUME BreaksForeseen, SourcedInv, [Next]_vars
  PROVE  SourcedInv'
<1>0. Kept /\ Kept' /\ live \in Graph /\ live' \in Graph /\ Nodes(live) = Tasks /\ Sourced
  BY KeptStep, AllAreNodes DEF SourcedInv, Kept, TypeOK
<1>a. \A t \in Tasks : flights[t] \in Nat /\ live.st[t].execs \in Nat
  BY <1>0 DEF Kept, TypeOK, Graph, Store
<1> DEFINE Origins(g) == \A k \in Available(g) \ Injectable : \E p \in Producers(g, k) : g.st[p].execs > 0
<1>b. Origins(live)
  BY <1>0 DEF Sourced
<1>c. PICK g, h : g = live /\ h = live'
  OBVIOUS
<1>1. CASE Schedule
  <2>1. PICK listing \in Listings(live, settings.conflict) :
          \/ UNCHANGED <<live, flights>>
          \/ live' = StartAll(live, listing) /\ flights' = [t \in Tasks |-> flights[t] + listing[t]]
    BY <1>1, Zenon DEF Schedule
  <2>2. CASE UNCHANGED <<live, flights>>
    BY <1>0, <2>2 DEF SourcedInv, Sourced
  <2>3. CASE live' = StartAll(live, listing) /\ flights' = [t \in Tasks |-> flights[t] + listing[t]]
    <3> DEFINE M == {t \in Tasks : listing[t] > 0}
    <3>1. Moves(g, h, M) /\ Able(g, M)
      BY <1>0, <1>c, <2>3, ScheduleMoves
    <3>2. M \in SUBSET Tasks /\ listing \in [Tasks -> Nat]
      BY <1>0, ListedAreCandidates
    <3>3. \A t \in Tasks : h.st[t].execs = g.st[t].execs
      BY <1>0, <1>c, <2>3, StartAllFacts
    <3>4. \A t \in Tasks : flights'[t] = flights[t] + listing[t] /\ (t \notin M => listing[t] = 0)
      BY <2>3, <3>2
    <3> HIDE DEF M
    <3>5. Origins(h) /\ \A t \in Tasks : Fed(g, t) => Fed(h, t)
      BY <1>0, <1>b, <1>c, <3>1, <3>2, MovesSource
    <3>6. ASSUME NEW t \in Tasks, flights'[t] > 0 \/ h.st[t].execs > 0 PROVE Fed(g, t)
      <4>1. CASE flights[t] > 0 \/ g.st[t].execs > 0
        BY <1>0, <1>c, <4>1 DEF Sourced
      <4>2. CASE ~ (flights[t] > 0) /\ ~ (g.st[t].execs > 0)
        <5>1. t \in M
          BY <1>a, <3>2, <3>3, <3>4, <3>6, <4>2
        <5> QED BY <1>0, <1>b, <1>c, <3>1, <4>2, <5>1, ReadyIsFed DEF Able
      <4> QED BY <4>1, <4>2
    <3> QED BY <1>0, <1>c, <3>5, <3>6 DEF SourcedInv, Sourced
  <2> QED BY <2>1, <2>2, <2>3
<1>2. ASSUME NEW t \in Tasks, Answered(t), Moves(g, h, {t})
      PROVE  SourcedInv'
  <2>1. Origins(h) /\ \A u \in Tasks : Fed(g, u) => Fed(h, u)
    BY <1>0, <1>b, <1>c, <1>2, MovesSource
  <2>2. flights[t] > 0 /\ \A u \in Tasks : flights'[u] <= flights[u] /\ flights'[u] \in Nat
    BY <1>0, <1>2 DEF Answered, Kept, TypeOK
  <2>3. \A u \in Tasks \ {t} : h.st[u] = g.st[u]
    BY <1>2 DEF Moves
  <2>4. ASSUME NEW u \in Tasks, flights'[u] > 0 \/ h.st[u].execs > 0 PROVE Fed(g, u)
    <3>1. flights[u] > 0 \/ g.st[u].execs > 0
      BY <1>a, <1>c, <2>2, <2>3, <2>4
    <3> QED BY <1>0, <1>c, <3>1 DEF Sourced
  <2> QED BY <1>0, <1>c, <2>1, <2>4 DEF SourcedInv, Sourced
<1>3. ASSUME NEW t \in Tasks, Succeed(t) PROVE Answered(t) /\ Moves(g, h, {t})
  <2>1. PICK d \in Payload, routed \in BOOLEAN : live' = TaskCompletion(live, t, d, routed)
    BY <1>3 DEF Succeed
  <2> QED BY <1>0, <1>3, <1>c, <2>1, CompletionMoves DEF Succeed
<1>4. ASSUME NEW t \in Tasks, Fail(t) PROVE Answered(t) /\ Moves(g, h, {t})
  BY <1>0, <1>4, <1>c, FailureMoves DEF Fail
<1>5. ASSUME NEW k \in Injectable, InjectTokens(k) PROVE SourcedInv'
  <2>1. h.out = g.out \cup {k} /\ h.st = g.st /\ h.rank = g.rank /\ h.req = g.req /\ h.prov = g.prov
    BY <1>0, <1>5, <1>c DEF InjectTokens, Graph
  <2>2. flights' = flights
    BY <1>5 DEF InjectTokens
  <2>3. Available(h) \ Injectable \subseteq Available(g) \ Injectable
    BY <1>5, <2>1 DEF Available, Nodes, Has
  <2>4. \A j : Producers(h, j) = Producers(g, j)
    BY <2>1 DEF Producers, Nodes, Has
  <2>5. Origins(h)
    BY <1>b, <1>c, <2>1, <2>3, <2>4
  <2>6. \A t \in Tasks : Fed(g, t) => Fed(h, t)
    BY <2>1, <2>4 DEF Fed
  <2> QED BY <1>0, <1>c, <2>1, <2>2, <2>5, <2>6 DEF SourcedInv, Sourced
<1>6. CASE UNCHANGED vars
  BY <1>0, <1>6 DEF vars, SourcedInv, Sourced
<1> QED BY <1>1, <1>2, <1>3, <1>4, <1>5, <1>6 DEF Next

(* A driver starts the tasks of a valid graph in the order of the plan     *)
(* (plan.ts:98-154): when next() lists a task, each token it requires was  *)
(* injected, or comes from a task of an earlier phase that has ended or    *)
(* failed before.                                                          *)
THEOREM StartsFollowThePlan == BreaksForeseen => (Spec => PlanFollowed)
<1> SUFFICES ASSUME BreaksForeseen PROVE Spec => PlanFollowed
  OBVIOUS
<1> DEFINE A == Valid(live, settings.completion) =>
                  \A t \in Tasks : Starts(t) =>
                    \A k \in live.req[t] \ Injectable :
                      \E p \in Producers(live, k) : Phase(live, p) < Phase(live, t) /\ live.st[p].execs > 0
<1>1. SourcedInv /\ SourcedInv' /\ [Next]_vars => [A]_vars
  <2> SUFFICES ASSUME SourcedInv, Next, Valid(live, settings.completion), NEW t \in Tasks, Starts(t),
                      NEW k \in live.req[t] \ Injectable
               PROVE  \E p \in Producers(live, k) : Phase(live, p) < Phase(live, t) /\ live.st[p].execs > 0
    BY DEF A
  <2>1. Kept /\ live \in Graph /\ Nodes(live) = Tasks /\ Sourced
    BY AllAreNodes DEF SourcedInv, Kept, TypeOK
  <2>2. Schedule
    <3>1. ASSUME NEW u \in Tasks, Succeed(u) PROVE FALSE
      <4>1. PICK d \in Payload, routed \in BOOLEAN : live' = TaskCompletion(live, u, d, routed)
        BY <3>1 DEF Succeed
      <4> QED BY <2>1, <4>1, CompletionFacts DEF Starts
    <3>2. ASSUME NEW u \in Tasks, Fail(u) PROVE FALSE
      BY <2>1, <3>2, FailureFacts DEF Starts, Fail, Retried, GaveUp
    <3>3. ASSUME NEW j \in Injectable, InjectTokens(j) PROVE FALSE
      BY <2>1, <3>3 DEF Starts, InjectTokens, Graph
    <3> QED BY <3>1, <3>2, <3>3 DEF Next
  <2>3. PICK listing \in Listings(live, settings.conflict) : UNCHANGED live \/ live' = StartAll(live, listing)
    BY <2>2, Zenon DEF Schedule
  <2>4. listing[t] > 0
    BY <2>1, <2>3, StartAllFacts DEF Starts
  <2>5. live.req[t] \subseteq Available(live)
    BY <2>1, <2>4, ScheduleMoves DEF Able
  <2>6. Fed(live, t)
    BY <2>1, <2>5, ReadyIsFed DEF Sourced
  <2>7. PICK p \in Producers(live, k) \ {t} : live.st[p].execs > 0
    BY <2>6 DEF Fed
  <2>8. p \in DependsOn(live, t)
    <3>1. Producers(live, k) \in {Producers(live, j) : j \in live.req[t]}
      OBVIOUS
    <3>2. p \in UNION {Producers(live, j) : j \in live.req[t]} /\ p # t
      BY <2>7, <3>1
    <3> QED BY <3>2 DEF DependsOn
  <2>9. ~ Cyclic(live)
    BY DEF Valid
  <2>10. PICK g : g = live
    OBVIOUS
  <2>11. Phase(g, p) < Phase(g, t)
    BY <2>1, <2>8, <2>9, <2>10, PhaseOrder
  <2> QED BY <2>7, <2>10, <2>11
<1>2. Spec => []SourcedInv
  BY SourcedInit, SourcedStep, PTL DEF Spec
<1>3. PlanFollowed <=> [][A]_vars
  BY DEF PlanFollowed
<1> HIDE DEF A
<1> QED BY <1>1, <1>2, <1>3, PTL DEF Spec

=============================================================================
