CONSTANTS
  Tasks <- BTasks
  Tokens = {"x", "y"}
  Data <- BData
  Strategy <- AllPlain
  Cap <- Zeros
  Breaker <- Zeros
  OnBreak <- NoTokens
  Retry <- Zeros
  OnFailure <- NoTokens
  Routes <- NoTokens
  SourceCount <- OneSource
  MaxSource = 1
  Procs = {"p", "q"}
  Requires <- BRequires
  Provides <- BProvides
  Added <- BAdded
  Compute <- BCompute
  Calls = {"retrigger", "taskFailed"}
  Targets = {"a"}
  MaxCalls = 1
  MaxFailures = 0
  MaxRejects = 1
  MaxCrashes = 2
SPECIFICATION Spec
INVARIANTS NoLostWakeup DrainedOnce
CHECK_DEADLOCK FALSE
