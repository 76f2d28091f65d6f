---------------------------- MODULE BatchRunner ----------------------------
(***************************************************************************)
(* The slot-based concurrent processor of src/src/batch/runner.ts.         *)
(*                                                                         *)
(* JavaScript runs one callback at a time, so the unit of interleaving is  *)
(* a callback of an item's promise chain (.then, .catch, .finally), a      *)
(* processor settling, or the caller's signal aborting.  The loop of       *)
(* tryStartNext is broken into its iterations, because the synchronous     *)
(* part of a processor may abort the signal between two of them; while the *)
(* loop is on the stack (filling) no other callback runs.                  *)
(***************************************************************************)
EXTENDS Integers, FiniteSets

CONSTANTS
  Total,             \* number of items
  Concurrency,       \* options.concurrency
  Throwing           \* the caller's functions that may throw: a subset of UserCode

UserCode == {"processor", "onItemComplete", "onProgress"}

ASSUME TotalAssumption       == Total \in Nat
ASSUME ConcurrencyAssumption == Concurrency \in Nat \ {0}
ASSUME ThrowingAssumption    == Throwing \subseteq UserCode

Items == 0..(Total - 1)

VARIABLES
  phase,      \* how far the promise chain of each item has got
  results,    \* results[idx]: its status, or "none" while the slot is a hole
  active, nextIndex, completed, failed,
  aborted,    \* signal.aborted
  filling,    \* tryStartNext is on the stack
  outcome,    \* the promise returned to the caller
  reported,   \* the counters passed to resolve()
  threw       \* some function of the caller has thrown

vars == <<phase, results, active, nextIndex, completed, failed,
          aborted, filling, outcome, reported, threw>>

Phase   == {"unstarted", "running", "fulfilled", "rejected", "settled",
            "finished", "aborted", "threw"}
Status  == {"none", "completed", "failed"}
Outcome == {"pending", "resolved", "rejected"}

TypeOK ==
  /\ phase \in [Items -> Phase]
  /\ results \in [Items -> Status]
  /\ active \in Int
  /\ nextIndex \in 0..Total
  /\ completed \in Nat
  /\ failed \in Nat
  /\ aborted \in BOOLEAN
  /\ filling \in BOOLEAN
  /\ outcome \in Outcome
  /\ reported \in [completed : Nat, failed : Nat]
  /\ threw \in BOOLEAN

InFlight  == {i \in Items : phase[i] \in {"running", "fulfilled", "rejected", "settled"}}
With(s)   == {i \in Items : results[i] = s}

Init ==
  /\ phase = [i \in Items |-> "unstarted"]
  /\ results = [i \in Items |-> "none"]
  /\ active = 0 /\ nextIndex = 0 /\ completed = 0 /\ failed = 0
  /\ aborted \in BOOLEAN
  /\ filling = (Total > 0)
  /\ outcome = IF Total = 0 THEN "resolved" ELSE "pending"
  /\ reported = [completed |-> 0, failed |-> 0]
  /\ threw = FALSE

----------------------------------------------------------------------------
(* resolve(): only the first call settles the promise. *)
Resolve ==
  IF outcome = "pending"
  THEN /\ outcome' = "resolved"
       /\ reported' = [completed |-> completed', failed |-> failed']
  ELSE UNCHANGED <<outcome, reported>>

HasFreeSlot == active < Concurrency /\ nextIndex < Total

(* Fault: the loop tests only the number of slots. *)
MutStartNextNoBound ==
  /\ filling /\ active < Concurrency /\ ~aborted
  /\ phase' = [phase EXCEPT ![nextIndex] = "running"]
  /\ active' = active + 1
  /\ nextIndex' = nextIndex + 1
  /\ UNCHANGED <<results, completed, failed, aborted, filling, outcome, reported, threw>>

(* One iteration of tryStartNext that starts an item. *)
StartNext ==
  /\ filling /\ HasFreeSlot /\ ~aborted
  /\ phase' = [phase EXCEPT ![nextIndex] = "running"]
  /\ active' = active + 1
  /\ nextIndex' = nextIndex + 1
  /\ UNCHANGED <<results, completed, failed, aborted, filling, outcome, reported, threw>>

(* The processor throws before it returns a promise: the exception leaves  *)
(* tryStartNext.  Its first call runs in the Promise constructor, which    *)
(* rejects the batch; a later one runs in a .finally, where it is lost.    *)
StartThrows ==
  /\ "processor" \in Throwing
  /\ filling /\ HasFreeSlot /\ ~aborted
  /\ phase' = [phase EXCEPT ![nextIndex] = "threw"]
  /\ active' = active + 1
  /\ nextIndex' = nextIndex + 1
  /\ filling' = FALSE
  /\ outcome' = IF outcome = "pending" /\ \A i \in Items : phase[i] # "finished"
                THEN "rejected" ELSE outcome
  /\ threw' = TRUE
  /\ UNCHANGED <<results, completed, failed, aborted, reported>>

(* Fault: an abort resolves at once, with items still in flight. *)
MutAbortResolvesAtOnce ==
  /\ filling /\ HasFreeSlot /\ aborted
  /\ phase' = [i \in Items |-> IF i >= nextIndex THEN "aborted" ELSE phase[i]]
  /\ results' = [i \in Items |-> IF i >= nextIndex THEN "failed" ELSE results[i]]
  /\ failed' = failed + (Total - nextIndex)
  /\ nextIndex' = Total
  /\ filling' = FALSE
  /\ UNCHANGED <<active, completed, aborted, threw>>
  /\ Resolve

(* An iteration that finds the signal aborted marks every item left. *)
AbortRemaining ==
  /\ filling /\ HasFreeSlot /\ aborted
  /\ phase' = [i \in Items |-> IF i >= nextIndex THEN "aborted" ELSE phase[i]]
  /\ results' = [i \in Items |-> IF i >= nextIndex THEN "failed" ELSE results[i]]
  /\ failed' = failed + (Total - nextIndex)
  /\ nextIndex' = Total
  /\ filling' = FALSE
  /\ UNCHANGED <<active, completed, aborted, threw>>
  /\ IF active = 0 /\ completed + failed' = Total
     THEN Resolve
     ELSE UNCHANGED <<outcome, reported>>

(* The loop condition is false: tryStartNext returns. *)
StopFilling ==
  /\ filling /\ ~HasFreeSlot
  /\ filling' = FALSE
  /\ UNCHANGED <<phase, results, active, nextIndex, completed, failed,
                 aborted, outcome, reported, threw>>

----------------------------------------------------------------------------
(* The promise of the processor settles. *)
Settle(i) ==
  /\ phase[i] = "running"
  /\ \E p \in {"fulfilled", "rejected"} : phase' = [phase EXCEPT ![i] = p]
  /\ UNCHANGED <<results, active, nextIndex, completed, failed,
                 aborted, filling, outcome, reported, threw>>

(* .then: an onItemComplete that throws rejects the chain after the count. *)
Then(i) ==
  /\ phase[i] = "fulfilled" /\ ~filling
  /\ results' = [results EXCEPT ![i] = "completed"]
  /\ completed' = completed + 1
  /\ \/ phase' = [phase EXCEPT ![i] = "settled"] /\ UNCHANGED threw
     \/ "onItemComplete" \in Throwing /\ phase' = [phase EXCEPT ![i] = "rejected"] /\ threw' = TRUE
  /\ UNCHANGED <<active, nextIndex, failed, aborted, filling, outcome, reported>>

(* .catch: onItemError runs last, so its throwing changes nothing here. *)
Catch(i) ==
  /\ phase[i] = "rejected" /\ ~filling
  /\ results' = [results EXCEPT ![i] = "failed"]
  /\ failed' = failed + 1
  /\ phase' = [phase EXCEPT ![i] = "settled"]
  /\ UNCHANGED <<active, nextIndex, completed, aborted, filling, outcome, reported, threw>>

(* Fault: the slot is not given back. *)
MutFinallyKeepsSlot(i) ==
  /\ phase[i] = "settled" /\ ~filling
  /\ phase' = [phase EXCEPT ![i] = "finished"]
  /\ filling' = (completed + failed # Total)
  /\ UNCHANGED <<active, results, nextIndex, completed, failed, aborted, threw>>
  /\ IF completed + failed = Total THEN Resolve ELSE UNCHANGED <<outcome, reported>>

(* Fault: the slot is given back but nobody refills it. *)
MutFinallyNoRefill(i) ==
  /\ phase[i] = "settled" /\ ~filling
  /\ phase' = [phase EXCEPT ![i] = "finished"]
  /\ active' = active - 1
  /\ UNCHANGED <<filling, results, nextIndex, completed, failed, aborted, threw>>
  /\ IF completed + failed = Total THEN Resolve ELSE UNCHANGED <<outcome, reported>>

(* .finally: frees the slot, calls onProgress, then resolves or refills.   *)
Finally(i) ==
  /\ phase[i] = "settled" /\ ~filling
  /\ phase' = [phase EXCEPT ![i] = "finished"]
  /\ active' = active - 1
  /\ UNCHANGED <<results, nextIndex, completed, failed, aborted>>
  /\ \/ /\ completed + failed = Total
        /\ Resolve
        /\ UNCHANGED <<filling, threw>>
     \/ /\ completed + failed # Total
        /\ filling' = TRUE
        /\ UNCHANGED <<outcome, reported, threw>>
     \/ /\ "onProgress" \in Throwing
        /\ threw' = TRUE
        /\ UNCHANGED <<filling, outcome, reported>>

(* The caller aborts the signal, at any time. *)
Abort ==
  /\ ~aborted
  /\ aborted' = TRUE
  /\ UNCHANGED <<phase, results, active, nextIndex, completed, failed,
                 filling, outcome, reported, threw>>

Fill     == StartNext \/ StartThrows \/ AbortRemaining \/ StopFilling
Chain(i) == Then(i) \/ Catch(i) \/ Finally(i)

Next ==
  \/ Fill
  \/ Abort
  \/ \E i \in Items : Settle(i) \/ Chain(i)

(* The event loop runs every queued callback, and processors settle: the   *)
(* batch has no timeout of its own and waits for them.                     *)
Fairness ==
  /\ WF_vars(Fill)
  /\ \A i \in Items : WF_vars(Settle(i)) /\ WF_vars(Chain(i))

Spec     == Init /\ [][Next]_vars
FairSpec == Spec /\ Fairness

----------------------------------------------------------------------------
(* As long as no function of the caller throws: the counters and the       *)
(* results array agree, and the promise resolves only when no slot of the  *)
(* array is a hole, with the counters of that array.  A caller never sees  *)
(* a batch that forgot an item, even when the signal aborts while some     *)
(* items are in flight and others not started.                             *)
ResolvedIsComplete ==
  outcome = "resolved" /\ ~threw =>
    /\ \A i \in Items : results[i] # "none"
    /\ reported.completed = Cardinality(With("completed"))
    /\ reported.failed = Cardinality(With("failed"))

(* The results array is handed to the caller by reference: no late         *)
(* callback of an item may write it once the promise has resolved.         *)
ResultsFrozen ==
  [][outcome = "resolved" /\ ~threw => results' = results]_vars

(* A slot is leaked only by a processor that throws before it returns its  *)
(* promise: active counts the items whose chain has not finished, so that  *)
(* the next .finally finds every slot that is free.                        *)
Held == InFlight \cup {i \in Items : phase[i] = "threw"}

SlotsAccounted == active = Cardinality(Held)

(* At most Concurrency items are in flight, whatever the callbacks throw   *)
(* and however many .finally callbacks refill the slots.                   *)
InFlightBound == Cardinality(InFlight) <= Concurrency

(* Whatever the order in which items settle, and whenever the signal       *)
(* aborts, the promise is eventually resolved, unless something threw.     *)
BatchResolves == <>(outcome = "resolved" \/ threw)

============================================================================
