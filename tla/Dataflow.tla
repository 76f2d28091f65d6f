------------------------------ MODULE Dataflow ------------------------------
(***************************************************************************)
(* What the continuous event graph promises to the owner of a graph whose  *)
(* tasks refresh on changed data: a spreadsheet.  Each token has a content;*)
(* a task computes the tokens it provides from the contents of those it    *)
(* requires, one run at a time, and runs again exactly when those contents *)
(* differ from the ones its result was computed from.  Nothing is said of  *)
(* journals, drains, hashes or epochs.                                     *)
(***************************************************************************)
EXTENDS Naturals

CONSTANTS
  Tasks, Tokens, Published, Nothing,
  Handled,               \* the tasks that compute; the others are published from outside
  Requires, Provides, OnFailure

VARIABLES
  content,    \* what each token holds
  available,  \* the tokens that may be read
  mode,       \* of each task that computes: new, busy, done or dead
  reads,      \* what the present run of each task has read
  basis       \* what the run that produced the task's content had read

vars == <<content, available, mode, reads, basis>>

Empty == [k \in Tokens |-> Nothing]

Init ==
  /\ content = Empty /\ available = {}
  /\ mode  = [t \in Handled |-> "new"]
  /\ reads = [t \in Handled |-> Empty] /\ basis = [t \in Handled |-> Empty]

Required(t) == [k \in Tokens |-> IF k \in Requires[t] THEN content[k] ELSE Nothing]

Provide(t, d) ==
  /\ content' = [k \in Tokens |-> IF k \in Provides[t] THEN d ELSE content[k]]
  /\ available' = available \cup Provides[t]

Publish(t, d) == Provide(t, d) /\ UNCHANGED <<mode, reads, basis>>

Inject(k) == available' = available \cup {k} /\ UNCHANGED <<content, mode, reads, basis>>

Start(t) ==
  /\ mode[t] = "new" \/ (mode[t] = "done" /\ Required(t) # basis[t])
  /\ Requires[t] \subseteq available
  /\ mode'  = [mode EXCEPT ![t] = "busy"]
  /\ reads' = [reads EXCEPT ![t] = Required(t)]
  /\ UNCHANGED <<content, available, basis>>

Stop(t, m) ==
  /\ mode[t] = "busy"
  /\ mode'  = [mode EXCEPT ![t] = m]
  /\ reads' = [reads EXCEPT ![t] = Empty]

Finish(t, d) == Stop(t, "done") /\ Provide(t, d) /\ basis' = [basis EXCEPT ![t] = reads[t]]

StartOver(t) == Stop(t, "new") /\ UNCHANGED <<content, available, basis>>

GiveUp(t) ==
  /\ Stop(t, "dead")
  /\ available' = available \cup OnFailure[t]
  /\ UNCHANGED <<content, basis>>

End(t) == (\E d \in Published : Finish(t, d)) \/ StartOver(t) \/ GiveUp(t)

Next == \/ \E t \in Tasks \ Handled, d \in Published : Publish(t, d)
        \/ \E k \in Tokens : Inject(k)
        \/ \E t \in Handled : Start(t) \/ End(t)

(* Every run ends, and a task that may run at last does.                   *)
Fairness == \A t \in Handled : WF_vars(Start(t)) /\ WF_vars(End(t))

Safe == Init /\ [][Next]_vars
Spec == Safe /\ Fairness

=============================================================================
