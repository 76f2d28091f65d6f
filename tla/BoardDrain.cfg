CONSTANTS
  Tasks <- BTasks
  Tokens = {"x", "y"}
  Data <- BData
  Strategy <- AllPlain
  Cap <- Zeros
  Breaker <- Zeros
  OnBreak <- NoTokens
  Retry <- Zeros
  OnFailure <- NoTokens
  Routes <- NoTokens
  SourceCount <- TwoSources
  MaxSource = 2
  Procs = {"p", "q"}
  Requires <- BRequires
  Provides <- BProvides
  Added <- BAdded
  Compute <- BCompute
  Calls = {"retrigger"}
  Targets = {"a"}
  MaxCalls = 1
  MaxFailures = 1
  MaxRejects = 0
  MaxCrashes = 0
SPECIFICATION Spec
INVARIANTS TypeOK CompletedIsSettled CompletedIsCurrent PublishedIsCurrent
PROPERTIES NewerContentKept ImplementsRelay
CHECK_DEADLOCK FALSE
