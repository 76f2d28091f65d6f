CONSTANTS
  Tasks <- BTasks
  Tokens = {"x", "y"}
  Data <- BData
  Strategy <- AllPlain
  Cap <- Zeros
  Breaker <- Zeros
  OnBreak <- NoTokens
  Retry <- Zeros
  OnFailure <- NoTokens
  Routes <- NoTokens
  SourceCount <- OneSource
  MaxSource = 1
  Procs = {"p", "q"}
  Requires <- BRequires
  Provides <- BProvides
  Added <- BAdded
  Compute <- BCompute
  Calls = {"retrigger"}
  Targets = {"a"}
  MaxCalls = 1
  MaxFailures = 0
  MaxRejects = 0
  MaxCrashes = 0
SPECIFICATION Spec
INVARIANTS RunningIsAwaited
CHECK_DEADLOCK FALSE
