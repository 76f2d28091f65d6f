------------------------- MODULE BatchRunnerProofs -------------------------
(* What TLAPS proves of BatchRunner, for every number of items and slots.  *)
EXTENDS BatchRunner, FiniteSetTheorems, TLAPS

USE DEF Items, Phase, Status, Outcome

LEMMA ItemsFinite == IsFiniteSet(Items) /\ Cardinality(Items) = Total
BY TotalAssumption, FS_Interval

LEMMA TypeInit == Init => TypeOK
<1> SUFFICES ASSUME Init PROVE TypeOK
  OBVIOUS
<1>1. (Total > 0) \in BOOLEAN
  BY TotalAssumption
<1>2. filling \in BOOLEAN /\ aborted \in BOOLEAN
  BY <1>1, Zenon DEF Init
<1>3. threw \in BOOLEAN
  BY Zenon DEF Init
<1> QED BY <1>2, <1>3, TotalAssumption DEF Init, TypeOK

LEMMA ResolveType ==
  ASSUME TypeOK, completed' \in Nat, failed' \in Nat,
         Resolve \/ UNCHANGED <<outcome, reported>>
  PROVE  outcome' \in Outcome /\ reported' \in [completed : Nat, failed : Nat]
BY DEF TypeOK, Resolve

LEMMA TypeStep == TypeOK /\ [Next]_vars => TypeOK'
<1> SUFFICES ASSUME TypeOK, [Next]_vars PROVE TypeOK'
  OBVIOUS
<1> USE TotalAssumption, ConcurrencyAssumption DEF TypeOK
<1>1. CASE StartNext
  BY <1>1 DEF StartNext, HasFreeSlot
<1>2. CASE StartThrows
  <2>1. nextIndex \in Items /\ nextIndex' \in 0..Total
    BY <1>2 DEF StartThrows, HasFreeSlot
  <2>2. outcome' \in Outcome
    BY <1>2 DEF StartThrows
  <2>3. phase' \in [Items -> Phase]
    BY <1>2, <2>1 DEF StartThrows
  <2>4. /\ active' = active + 1
        /\ UNCHANGED <<results, completed, failed, reported>>
    BY <1>2 DEF StartThrows
  <2>5. filling' \in BOOLEAN /\ aborted' \in BOOLEAN /\ threw' \in BOOLEAN
    BY <1>2, Zenon DEF StartThrows
  <2> QED BY <2>1, <2>2, <2>3, <2>4, <2>5
<1>3. CASE AbortRemaining
  <2>1. failed' \in Nat /\ nextIndex' \in 0..Total
    BY <1>3 DEF AbortRemaining, HasFreeSlot
  <2>2. phase' \in [Items -> Phase] /\ results' \in [Items -> Status]
    BY <1>3 DEF AbortRemaining
  <2>3. /\ UNCHANGED <<active, completed, threw>>
        /\ Resolve \/ UNCHANGED <<outcome, reported>>
    BY <1>3 DEF AbortRemaining
  <2>4. outcome' \in Outcome /\ reported' \in [completed : Nat, failed : Nat]
    BY <2>1, <2>3, ResolveType
  <2>5. filling' \in BOOLEAN /\ aborted' \in BOOLEAN
    BY <1>3, Zenon DEF AbortRemaining
  <2> QED BY <2>1, <2>2, <2>3, <2>4, <2>5
<1>4. CASE StopFilling
  BY <1>4 DEF StopFilling
<1>5. CASE Abort
  BY <1>5 DEF Abort
<1>6. ASSUME NEW i \in Items, Settle(i) PROVE TypeOK'
  BY <1>6 DEF Settle
<1>7. ASSUME NEW i \in Items, Then(i) PROVE TypeOK'
  <2>1. threw' \in BOOLEAN
    BY <1>7, Zenon DEF Then
  <2> QED BY <1>7, <2>1 DEF Then
<1>8. ASSUME NEW i \in Items, Catch(i) PROVE TypeOK'
  BY <1>8 DEF Catch
<1>9. ASSUME NEW i \in Items, Finally(i) PROVE TypeOK'
  <2>1. /\ active' \in Int
        /\ UNCHANGED <<results, nextIndex, completed, failed>>
        /\ Resolve \/ UNCHANGED <<outcome, reported>>
    BY <1>9 DEF Finally
  <2>2. phase' \in [Items -> Phase]
    BY <1>9 DEF Finally
  <2>3. outcome' \in Outcome /\ reported' \in [completed : Nat, failed : Nat]
    BY <2>1, ResolveType
  <2>4. filling' \in BOOLEAN /\ aborted' \in BOOLEAN /\ threw' \in BOOLEAN
    BY <1>9, Zenon DEF Finally
  <2> QED BY <2>1, <2>2, <2>3, <2>4
<1>10. CASE UNCHANGED vars
  BY <1>10 DEF vars
<1> QED
  BY <1>1, <1>2, <1>3, <1>4, <1>5, <1>6, <1>7, <1>8, <1>9, <1>10
  DEF Next, Fill, Chain

(* Every variable keeps its type: nextIndex never runs past the items.     *)
THEOREM TypeCorrect == Spec => []TypeOK
BY TypeInit, TypeStep, PTL DEF Spec

----------------------------------------------------------------------------
SlotInv ==
  /\ \A i \in Items : i >= nextIndex => phase[i] = "unstarted"
  /\ SlotsAccounted
  /\ active <= Concurrency

LEMMA HeldFinite == IsFiniteSet(Held)
BY ItemsFinite, FS_Subset DEF Held, InFlight

LEMMA SlotInit == Init => SlotInv
<1> SUFFICES ASSUME Init PROVE SlotInv
  OBVIOUS
<1>1. Held = {}
  BY DEF Init, Held, InFlight
<1> QED BY <1>1, FS_EmptySet, ConcurrencyAssumption DEF Init, SlotInv, SlotsAccounted

LEMMA SlotStep == TypeOK /\ SlotInv /\ [Next]_vars => SlotInv'
<1> SUFFICES ASSUME TypeOK, SlotInv, [Next]_vars PROVE SlotInv'
  OBVIOUS
<1> USE TotalAssumption, ConcurrencyAssumption
<1>a. ASSUME HasFreeSlot, NEW p \in {"running", "threw"},
             phase' = [phase EXCEPT ![nextIndex] = p],
             active' = active + 1, nextIndex' = nextIndex + 1
      PROVE  SlotInv'
  <2>1. nextIndex \in Items /\ nextIndex \notin Held
    BY <1>a DEF TypeOK, SlotInv, SlotsAccounted, HasFreeSlot, Held, InFlight
  <2>2. Held' = Held \cup {nextIndex}
    BY <1>a, <2>1 DEF TypeOK, Held, InFlight
  <2>3. Cardinality(Held') = Cardinality(Held) + 1
    BY <2>1, <2>2, HeldFinite, FS_AddElement
  <2> QED BY <1>a, <2>1, <2>3 DEF TypeOK, SlotInv, SlotsAccounted, HasFreeSlot
<1>b. ASSUME NEW i \in Items, i \in Held, nextIndex' = nextIndex, active' = active,
             NEW p \in {"running", "fulfilled", "rejected", "settled"},
             phase' = [phase EXCEPT ![i] = p]
      PROVE  SlotInv'
  <2>1. Held' = Held
    BY <1>b DEF TypeOK, Held, InFlight
  <2> QED BY <1>b, <2>1 DEF TypeOK, SlotInv, SlotsAccounted, Held, InFlight
<1>1. CASE StartNext
  BY <1>1, <1>a DEF StartNext
<1>2. CASE StartThrows
  BY <1>2, <1>a DEF StartThrows
<1>3. CASE AbortRemaining
  <2>1. Held' = Held
    BY <1>3 DEF AbortRemaining, HasFreeSlot, TypeOK, SlotInv, SlotsAccounted, Held, InFlight
  <2> QED BY <1>3, <2>1 DEF AbortRemaining, HasFreeSlot, TypeOK, SlotInv, SlotsAccounted
<1>4. CASE StopFilling
  BY <1>4 DEF StopFilling, SlotInv, SlotsAccounted, Held, InFlight
<1>5. CASE Abort
  BY <1>5 DEF Abort, SlotInv, SlotsAccounted, Held, InFlight
<1>6. ASSUME NEW i \in Items, Settle(i) PROVE SlotInv'
  BY <1>6, <1>b DEF Settle, Held, InFlight
<1>7. ASSUME NEW i \in Items, Then(i) PROVE SlotInv'
  <2>1. PICK p \in {"settled", "rejected"} : phase' = [phase EXCEPT ![i] = p]
    BY <1>7 DEF Then
  <2> QED BY <1>7, <2>1, <1>b DEF Then, Held, InFlight
<1>8. ASSUME NEW i \in Items, Catch(i) PROVE SlotInv'
  BY <1>8, <1>b DEF Catch, Held, InFlight
<1>9. ASSUME NEW i \in Items, Finally(i) PROVE SlotInv'
  <2>1. i \in Held /\ Held' = Held \ {i}
    BY <1>9 DEF Finally, TypeOK, Held, InFlight
  <2>2. Cardinality(Held') = Cardinality(Held) - 1
    BY <2>1, HeldFinite, FS_RemoveElement
  <2> QED BY <1>9, <2>2 DEF Finally, TypeOK, SlotInv, SlotsAccounted
<1>10. CASE UNCHANGED vars
  BY <1>10 DEF vars, SlotInv, SlotsAccounted, Held, InFlight
<1> QED
  BY <1>1, <1>2, <1>3, <1>4, <1>5, <1>6, <1>7, <1>8, <1>9, <1>10
  DEF Next, Fill, Chain

(* At most Concurrency items are in flight, whatever the callbacks throw.  *)
THEOREM BoundedInFlight == Spec => []InFlightBound
<1>1. SlotInv => InFlightBound
  <2>1. InFlight \in SUBSET Held
    BY DEF InFlight, Held
  <2>2. Cardinality(InFlight) <= Cardinality(Held)
    BY <2>1, HeldFinite, FS_Subset
  <2>3. Cardinality(InFlight) \in Nat /\ Cardinality(Held) \in Nat
    BY <2>1, HeldFinite, FS_Subset, FS_CardinalityType
  <2> QED BY <2>2, <2>3, ConcurrencyAssumption DEF SlotInv, SlotsAccounted, InFlightBound
<1> QED BY <1>1, SlotInit, SlotStep, TypeCorrect, PTL DEF Spec

(* active is the number of slots taken.                                    *)
THEOREM SlotsNeverLeak == Spec => []SlotsAccounted
<1>1. SlotInv => SlotsAccounted
  BY DEF SlotInv
<1> QED BY <1>1, SlotInit, SlotStep, TypeCorrect, PTL DEF Spec

----------------------------------------------------------------------------
(* The accounting behind the resolution, until something throws:           *)
(* the counters are those of the results array, a hole belongs to an item  *)
(* whose chain has not counted it, and the promise resolved at the total.  *)
CountInv ==
  /\ completed = Cardinality(With("completed"))
  /\ failed = Cardinality(With("failed"))
  /\ \A i \in Items :
       results[i] = "none" <=> phase[i] \in {"unstarted", "running", "fulfilled", "rejected"}
  /\ outcome = "resolved" =>
       /\ completed + failed = Total
       /\ reported = [completed |-> completed, failed |-> failed]

LEMMA WithFinite == \A s : IsFiniteSet(With(s)) /\ Cardinality(With(s)) \in Nat
<1> SUFFICES ASSUME NEW s PROVE IsFiniteSet(With(s)) /\ Cardinality(With(s)) \in Nat
  OBVIOUS
<1>1. With(s) \in SUBSET Items
  BY DEF With
<1> QED BY <1>1, ItemsFinite, FS_Subset, FS_CardinalityType

(* When the counters add up to the total no slot of the array is a hole.   *)
LEMMA FullCount ==
  ASSUME TypeOK, CountInv, completed + failed = Total
  PROVE  \A i \in Items : results[i] # "none"
<1> DEFINE Done == With("completed") \cup With("failed")
<1>1. With("completed") \cap With("failed") = {}
  BY DEF With
<1>2. IsFiniteSet(Done) /\ Cardinality(Done) = Total
  BY <1>1, WithFinite, FS_Union, FS_EmptySet DEF CountInv
<1>3. Done \in SUBSET Items
  BY DEF With
<1>4. Done = Items
  BY <1>2, <1>3, ItemsFinite, FS_Subset
<1> QED BY <1>4 DEF With

(* One item's slot is filled: the counter of its status goes up by one.    *)
LEMMA CountOne ==
  ASSUME TypeOK, CountInv, NEW i \in Items, results[i] = "none",
         NEW s \in {"completed", "failed"}, results' = [results EXCEPT ![i] = s]
  PROVE  /\ Cardinality(With(s)') = Cardinality(With(s)) + 1
         /\ \A t \in {"completed", "failed"} \ {s} : With(t)' = With(t)
<1>1. i \notin With(s) /\ With(s)' = With(s) \cup {i}
  BY DEF With, TypeOK
<1>2. Cardinality(With(s)') = Cardinality(With(s)) + 1
  BY <1>1, WithFinite, FS_AddElement
<1>3. \A t \in {"completed", "failed"} \ {s} : With(t)' = With(t)
  BY DEF With, TypeOK
<1> QED BY <1>2, <1>3

LEMMA CountInit == Init => (threw \/ CountInv)
<1> SUFFICES ASSUME Init PROVE CountInv
  OBVIOUS
<1>1. With("completed") = {} /\ With("failed") = {}
  BY DEF Init, With
<1>2. completed = Cardinality(With("completed")) /\ failed = Cardinality(With("failed"))
  BY <1>1, FS_EmptySet DEF Init
<1>3. outcome = "resolved" => completed + failed = Total
  BY TotalAssumption DEF Init
<1> QED BY <1>2, <1>3 DEF Init, CountInv

LEMMA CountStep ==
  ASSUME TypeOK, SlotInv, CountInv, [Next]_vars, ~threw'
  PROVE  CountInv'
<1> USE TotalAssumption
<1>a. ASSUME UNCHANGED <<results, completed, failed, outcome, reported>>,
             \A i \in Items : phase'[i] \in {"unstarted", "running", "fulfilled", "rejected"}
                          <=> phase[i] \in {"unstarted", "running", "fulfilled", "rejected"}
      PROVE  CountInv'
  <2>1. \A s : With(s)' = With(s)
    BY <1>a DEF With
  <2> QED BY <1>a, <2>1 DEF CountInv
<1>b. ASSUME NEW i \in Items, results[i] = "none", UNCHANGED <<outcome, reported>>
      PROVE  outcome' # "resolved"
  BY <1>b, FullCount DEF CountInv
<1>1. CASE StartNext
  <2>1. phase[nextIndex] = "unstarted" /\ phase' = [phase EXCEPT ![nextIndex] = "running"]
    BY <1>1 DEF StartNext, HasFreeSlot, TypeOK, SlotInv, SlotsAccounted
  <2> QED BY <1>1, <2>1, <1>a DEF StartNext, TypeOK
<1>2. CASE StartThrows
  BY <1>2 DEF StartThrows
<1>3. CASE AbortRemaining
  <2> DEFINE Rest == nextIndex..(Total - 1)
  <2>1. \A i \in Items : i >= nextIndex => results[i] = "none"
    BY DEF SlotInv, SlotsAccounted, CountInv
  <2>2. IsFiniteSet(Rest) /\ Cardinality(Rest) = Total - nextIndex
    <3>1. nextIndex \in Int /\ Total - 1 \in Int /\ ~(nextIndex > Total - 1)
      BY <1>3 DEF AbortRemaining, HasFreeSlot, TypeOK
    <3>2. (Total - 1) - nextIndex + 1 = Total - nextIndex
      BY <3>1
    <3> QED BY <3>1, <3>2, FS_Interval
  <2>3. /\ With("completed")' = With("completed")
        /\ With("failed")' = With("failed") \cup Rest
        /\ With("failed") \cap Rest = {}
    BY <1>3, <2>1 DEF AbortRemaining, HasFreeSlot, TypeOK, With
  <2>4. Cardinality(With("failed")') = Cardinality(With("failed")) + (Total - nextIndex)
    <3>1. Cardinality(With("failed") \cup Rest)
            = Cardinality(With("failed")) + Cardinality(Rest) - Cardinality(With("failed") \cap Rest)
      BY <2>2, WithFinite, FS_Union
    <3>2. Cardinality(With("failed") \cap Rest) = 0
      BY <2>3, FS_EmptySet
    <3>3. Cardinality(With("failed") \cup Rest)
            = Cardinality(With("failed")) + (Total - nextIndex) - 0
      BY <2>2, <3>1, <3>2, Zenon
    <3>4. Cardinality(With("failed")') = Cardinality(With("failed") \cup Rest)
      BY <2>3, Zenon
    <3>5. Cardinality(With("failed")) \in Nat /\ Total - nextIndex \in Int
      BY WithFinite DEF TypeOK
    <3> QED BY <3>3, <3>4, <3>5
  <2>5. outcome # "resolved"
    <3>1. nextIndex \in Items
      BY <1>3 DEF AbortRemaining, HasFreeSlot, TypeOK
    <3>2. results[nextIndex] = "none"
      BY <2>1, <3>1
    <3> QED BY <3>1, <3>2, FullCount DEF CountInv
  <2>6. \A i \in Items : results'[i] = "none"
          <=> phase'[i] \in {"unstarted", "running", "fulfilled", "rejected"}
    BY <1>3 DEF AbortRemaining, CountInv, TypeOK
  <2>7. outcome' = "resolved" =>
          /\ completed' + failed' = Total
          /\ reported' = [completed |-> completed', failed |-> failed']
    BY <1>3, <2>5 DEF AbortRemaining, Resolve
  <2> QED BY <1>3, <2>3, <2>4, <2>6, <2>7 DEF AbortRemaining, CountInv
<1>4. CASE StopFilling
  BY <1>4, <1>a DEF StopFilling
<1>5. CASE Abort
  BY <1>5, <1>a DEF Abort
<1>6. ASSUME NEW i \in Items, Settle(i) PROVE CountInv'
  BY <1>6, <1>a DEF Settle, TypeOK
<1>7. ASSUME NEW i \in Items, Then(i) PROVE CountInv'
  <2>1. phase' = [phase EXCEPT ![i] = "settled"]
    BY <1>7 DEF Then
  <2>2. results[i] = "none"
    BY <1>7 DEF Then, CountInv
  <2>3. /\ Cardinality(With("completed")') = Cardinality(With("completed")) + 1
        /\ With("failed")' = With("failed")
    BY <1>7, <2>2, CountOne DEF Then
  <2>4. outcome' # "resolved"
    BY <1>7, <1>b, <2>2 DEF Then
  <2> QED BY <1>7, <2>1, <2>3, <2>4 DEF Then, CountInv, TypeOK
<1>8. ASSUME NEW i \in Items, Catch(i) PROVE CountInv'
  <2>1. results[i] = "none"
    BY <1>8 DEF Catch, CountInv
  <2>2. /\ Cardinality(With("failed")') = Cardinality(With("failed")) + 1
        /\ With("completed")' = With("completed")
    BY <1>8, <2>1, CountOne DEF Catch
  <2>3. outcome' # "resolved"
    BY <1>8, <1>b, <2>1 DEF Catch
  <2> QED BY <1>8, <2>2, <2>3 DEF Catch, CountInv, TypeOK
<1>9. ASSUME NEW i \in Items, Finally(i) PROVE CountInv'
  <2>1. /\ UNCHANGED <<results, completed, failed>>
        /\ phase' = [phase EXCEPT ![i] = "finished"]
        /\ phase[i] = "settled"
        /\ (completed + failed = Total /\ Resolve) \/ UNCHANGED <<outcome, reported>>
    BY <1>9 DEF Finally
  <2>2. \A j \in Items : phase'[j] \in {"unstarted", "running", "fulfilled", "rejected"}
                     <=> phase[j] \in {"unstarted", "running", "fulfilled", "rejected"}
    BY <2>1 DEF TypeOK
  <2>3. \A s : With(s)' = With(s)
    BY <2>1 DEF With
  <2> QED BY <2>1, <2>2, <2>3 DEF CountInv, Resolve, TypeOK
<1>10. CASE UNCHANGED vars
  BY <1>10, <1>a DEF vars
<1> QED
  BY <1>1, <1>2, <1>3, <1>4, <1>5, <1>6, <1>7, <1>8, <1>9, <1>10
  DEF Next, Fill, Chain

(* Once something has thrown it stays known.                               *)
LEMMA CountStepAll ==
  TypeOK /\ SlotInv /\ (threw \/ CountInv) /\ [Next]_vars => (threw' \/ CountInv')
<1>1. threw /\ TypeOK /\ [Next]_vars => threw'
  BY DEF Next, Fill, Chain, StartNext, StartThrows, AbortRemaining, StopFilling,
         Abort, Settle, Then, Catch, Finally, vars
<1> QED BY <1>1, CountStep

(* Until something throws the promise resolves only with a result for      *)
(* every item, and with counters that tally those results.                 *)
THEOREM ResolvesComplete == Spec => []ResolvedIsComplete
<1>1. TypeOK /\ (threw \/ CountInv) => ResolvedIsComplete
  BY FullCount DEF CountInv, ResolvedIsComplete
<1> QED BY <1>1, CountStepAll, CountInit, SlotInit, SlotStep, TypeInit, TypeStep, PTL DEF Spec

(* Once it has resolved, no late callback writes the array it handed over. *)
THEOREM ResultsStayFrozen == Spec => ResultsFrozen
<1>1. TypeOK /\ SlotInv /\ (threw \/ CountInv) /\ [Next]_vars
        => [outcome = "resolved" /\ ~threw => results' = results]_vars
  <2> SUFFICES ASSUME TypeOK, SlotInv, CountInv, Next, outcome = "resolved"
               PROVE  results' = results
    BY DEF vars
  <2>1. \A i \in Items : phase[i] \notin {"unstarted", "fulfilled", "rejected"}
    BY FullCount DEF CountInv
  <2>2. ~AbortRemaining
    BY <2>1, TotalAssumption DEF AbortRemaining, HasFreeSlot, TypeOK, SlotInv
  <2>3. ASSUME NEW i \in Items PROVE ~Then(i) /\ ~Catch(i)
    BY <2>1 DEF Then, Catch
  <2> QED
    BY <2>2, <2>3
    DEF Next, Fill, Chain, StartNext, StartThrows, StopFilling, Abort, Settle, Finally
<1> QED
  BY <1>1, CountStepAll, CountInit, SlotInit, SlotStep, TypeInit, TypeStep, PTL
  DEF Spec, ResultsFrozen
============================================================================
