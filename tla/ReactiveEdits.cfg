SPECIFICATION Spec
CONSTANTS
  Tasks = {"a", "b"}
  Tokens = {"a", "b", "r"}
  Data = {1, 2}
  Published = {1}
  Strategy <- EpochChangedAll
  Cap <- Unlimited
  Breaker <- Unlimited
  OnBreak <- NoTokens
  Retry <- NoRetry
  OnFailure <- NoTokens
  Routes <- RForA
  Position <- AtoD
  Requires <- FromA
  Provides <- Own
  Handled = {"b"}
  Calls = {"complete", "route", "inject", "restart", "progress", "remove", "upsert", "provides-add", "provides-remove", "dispose"}
  Targets = {"a", "b"}
  Rewired = {"a"}
  MaxCalls = 4
  MaxFailures = 1
INVARIANTS NothingLeftQueued
PROPERTIES DisposedIsQuiet
CHECK_DEADLOCK FALSE
