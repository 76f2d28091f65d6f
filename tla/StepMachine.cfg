SPECIFICATION Spec
CONSTANTS
  Engines = {"machine", "engine"}
  Procs = {1, 2}
  MaxLaunches = 2
  Steps = {"a", "b"}
  Terminals = {"end"}
  Start = "a"
  Results = {"ok", "failure"}
  Transitions <- Flow
  FailureTransitions <- FailureFlow
  RetryLimit <- OneForA
  Breaker <- Breakers
  OnOpen <- Circle
  MaxSteps = 3
  Timed = TRUE
  MaxPauses = 1
  MaxFaults = 1
  None = None
  Unlimited = Unlimited
INVARIANTS TypeOK ProgressKept BreakerHolds
PROPERTIES EndedStays Finishes
CHECK_DEADLOCK FALSE
