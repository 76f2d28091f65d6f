SPECIFICATION Spec
CONSTANTS
  Tasks = {"a", "b", "c"}
  Tokens = {"a", "b", "c", "d", "f", "r", "i"}
  Data = {}
  Strategy <- AllOnce
  Cap <- NoLimits
  Breaker <- NoLimits
  OnBreak <- NoBreaks
  Retry <- NoRetries
  OnFailure <- FallbackB
  Routes <- RouteA
  Wirings <- TwoOutputs
  Completions = {"goal-reached"}
  Conflicts = {"ordered"}
  Goal = {"c"}
  Preference <- Ranks
  Injectable = {"i"}
  MaxFailures = 0
  MaxInjected = 0
  MaxFlights = 2
INVARIANTS OnceRunsOnce
CHECK_DEADLOCK FALSE
