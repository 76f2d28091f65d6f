------------------------------- MODULE Relay -------------------------------
(***************************************************************************)
(* What a board promises to those who append to its journal                *)
(* (src/docs-source-of-truth/core-logic.md, "Relay Lock and Drain          *)
(* Scheduling"): drains are serialised, each takes the events appended so  *)
(* far, no event is taken twice, and none waits for ever.                  *)
(***************************************************************************)
EXTENDS Naturals

VARIABLES
  appended,  \* number of events in the journal
  drained    \* number of events taken

Init == appended \in Nat /\ drained = 0

Report == appended' = appended + 1 /\ UNCHANGED drained

Take == \E n \in (drained + 1)..appended : drained' = n /\ UNCHANGED appended

Next == Report \/ Take

Safe == Init /\ [][Next]_<<appended, drained>>

Spec == Safe /\ WF_<<appended, drained>>(Take)

============================================================================
