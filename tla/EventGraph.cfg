SPECIFICATION Spec
CONSTANTS
  Tasks = {"a", "b", "c"}
  Tokens = {"a", "b", "c", "d", "f", "r", "i"}
  Data = {}
  Strategy <- Mixed
  Cap <- NoLimits
  Breaker <- NoLimits
  OnBreak <- NoBreaks
  Retry <- RetryB
  OnFailure <- FallbackB
  Routes <- RouteA
  Wirings <- AllWirings
  Completions = {"all-tasks-done", "all-outputs-done", "only-resolved", "goal-reached", "manual"}
  Conflicts = {"all", "ordered", "round-robin", "random-select", "skip-conflicts"}
  Goal = {"c"}
  Preference <- Ranks
  Injectable = {"i"}
  MaxFailures = 2
  MaxInjected = 1
  MaxFlights = 2
INVARIANTS TypeOK
PROPERTIES UnreachableStays PlanFollowed Concludes
CHECK_DEADLOCK FALSE
