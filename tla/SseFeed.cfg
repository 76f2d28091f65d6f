SPECIFICATION Spec
CONSTANTS
  Pages = {p}
  Stores = {"sync", "async"}
  MaxConns = 2
  MaxData = 1
  MaxChat = 1
  MaxRequests = 2
  MaxLost = 1
  MaxServing = 2
  None = None
  p = p
INVARIANTS TypeOK Current Registered
CHECK_DEADLOCK FALSE
