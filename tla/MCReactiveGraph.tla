-------------------------- MODULE MCReactiveGraph --------------------------
(***************************************************************************)
(* Instances of ReactiveGraph.  Tasks a and d are driven from outside, b   *)
(* and c have handlers; a task provides the token of its own name.         *)
(***************************************************************************)
EXTENDS ReactiveDataflow

Everyone(v) == [t \in Tasks |-> v]
OnlyB(v, w) == [t \in Tasks |-> IF t = "b" THEN v ELSE w]

DataChangedAll  == Everyone("data-changed")
EpochChangedAll == Everyone("epoch-changed")
Unlimited       == Everyone(NoLimit)
NoTokens        == Everyone({})
OneForB         == OnlyB(1, 0)
NoRetry         == Everyone(0)
ThreeForB       == OnlyB(3, 0)
FForB           == OnlyB({"f"}, {})
RForA           == [t \in Tasks |-> IF t = "a" THEN {"r"} ELSE {}]

Own       == [t \in Tasks |-> {t}]

AtoD == [t \in Tasks |-> CASE t = "a" -> 1 [] t = "b" -> 2 [] OTHER -> 3]

(* c has a direct and an indirect path from a.                             *)
Triangle == [t \in Tasks |-> CASE t = "b" -> {"a"} [] t = "c" -> {"a", "b"} [] OTHER -> {}]
FromA    == OnlyB({"a"}, {})

(* c is the fallback of b.                                                 *)
Fallback == [t \in Tasks |-> CASE t = "b" -> {"a"} [] t = "c" -> {"f"} [] OTHER -> {}]

============================================================================
