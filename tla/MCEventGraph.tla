--------------------------- MODULE MCEventGraph ---------------------------
(***************************************************************************)
(* Graphs of three tasks.  a has a route of its own, b a fallback token    *)
(* and one retry; c may close a cycle, and b may compete with c.           *)
(***************************************************************************)
EXTENDS EventGraph

ByTask(a, b, c) == [t \in Tasks |-> CASE t = "a" -> a [] t = "b" -> b [] t = "c" -> c]

AllWirings ==
  {[req |-> ByTask(ra, rb, rc), prov |-> ByTask({"a"}, pb, {"c"})] :
     ra \in {{}, {"c"}}, rb \in {{}, {"a"}, {"r"}, {"a", "i"}},
     rc \in {{"a"}, {"b"}, {"f"}, {"r", "b"}}, pb \in {{"b"}, {"b", "c"}, {"b", "d"}}}

Mixed     == ByTask("data-changed", "once", "epoch-changed")
AllOnce   == ByTask("once", "once", "once")
TwoOutputs ==
  {[req |-> ByTask({}, {"a"}, {"b"}), prov |-> ByTask({"a"}, {"b", "d"}, {"c"})]}
NoLimits  == ByTask(NoLimit, NoLimit, NoLimit)
NoBreaks  == ByTask({}, {}, {})
NoRetries == ByTask(0, 0, 0)
RetryB    == ByTask(0, 1, 0)
FallbackB == ByTask({}, {"f"}, {})
RouteA    == ByTask({"r"}, {}, {})
Ranks     == ByTask(1, 2, 3)

=============================================================================
