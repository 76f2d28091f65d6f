SPECIFICATION Spec
CONSTANTS
  Tasks = {"a", "b", "c"}
  Tokens = {"a", "b", "c"}
  Data = {1, 2}
  Published = {1, 2}
  Strategy <- DataChangedAll
  Cap <- Unlimited
  Breaker <- Unlimited
  OnBreak <- NoTokens
  Retry <- OneForB
  OnFailure <- NoTokens
  Routes <- NoTokens
  Position <- AtoD
  Requires <- Triangle
  Provides <- Own
  Handled = {"b", "c"}
  Calls = {"complete"}
  Targets = {"a"}
  Rewired = {}
  MaxCalls = 3
  MaxFailures = 1
INVARIANTS TypeOK RunsMatchStatus
PROPERTIES Settles ImplementsDataflow
CHECK_DEADLOCK FALSE
