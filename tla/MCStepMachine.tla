---------------------------- MODULE MCStepMachine ----------------------------
(* Instances of StepMachine for TLC: step a, which may fail and be retried,  *)
(* leads to b, b leads back to a, to the end, or nowhere; the breaker of b   *)
(* leads to a, that of a to b, so that with both open nothing is called.     *)
EXTENDS StepMachine

Leads(ok, failure) == [r \in Results |-> IF r = "ok" THEN ok ELSE failure]
Flow == [s \in Steps |-> IF s = "a" THEN Leads("b", "a") ELSE Leads("a", None)]
FailureFlow == [s \in Steps |-> IF s = "a" THEN Leads(None, "end") ELSE Leads(None, None)]
OneForA == [s \in Steps |-> IF s = "a" THEN 1 ELSE 0]
Breakers == [s \in Steps |-> IF s = "a" THEN 2 ELSE 1]
Circle == [s \in Steps |-> IF s = "a" THEN "b" ELSE "a"]
=============================================================================
