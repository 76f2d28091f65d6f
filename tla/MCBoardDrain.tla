---------------------------- MODULE MCBoardDrain ----------------------------
(* Instances of BoardDrain: card a fetches from its sources and provides x, *)
(* which card b requires.                                                   *)
EXTENDS BoardDrain

BTasks   == {"a", "b"}
BAdded   == <<"a", "b">>
BData    == 1..4000
AllPlain == [c \in BTasks |-> "data-changed"]
Zeros    == [c \in BTasks |-> 0]
NoTokens == [c \in BTasks |-> {}]
BRequires == [a |-> {}, b |-> {"x"}]
BProvides == [a |-> {"x"}, b |-> {"y"}]
OneSource  == [a |-> 1, b |-> 0]
TwoSources == [a |-> 2, b |-> 0]

(* Distinct sources and inputs give distinct data.                          *)
BCompute(c, sources, inputs) ==
  IF c = "a" THEN 1 + sources[1] + (IF MaxSource > 1 THEN 10 * sources[2] ELSE 0)
  ELSE 1 + 10 * inputs["x"] + (IF SourceCount["b"] > 0 THEN sources[1] ELSE 0)

=============================================================================
