SPECIFICATION Spec
CONSTANTS
  Tasks = {"a", "b", "c"}
  Tokens = {"a", "b", "c", "f"}
  Data = {1, 2}
  Published = {1, 2}
  Strategy <- DataChangedAll
  Cap <- Unlimited
  Breaker <- ThreeForB
  OnBreak <- FForB
  Retry <- OneForB
  OnFailure <- FForB
  Routes <- NoTokens
  Position <- AtoD
  Requires <- Fallback
  Provides <- Own
  Handled = {"b", "c"}
  Calls = {"complete", "requires-add", "requires-remove", "upsert"}
  Targets = {"a", "b"}
  Rewired = {"c"}
  MaxCalls = 4
  MaxFailures = 2
INVARIANTS RunsWithinCap Consistent
PROPERTIES FailureUnblocks
CHECK_DEADLOCK FALSE
