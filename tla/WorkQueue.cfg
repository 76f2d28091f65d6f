SPECIFICATION Spec
CONSTANTS
  Procs = {p, q}
  Backends <- AllBackends
  Kinds <- AllKinds
  Keys = {"k"}
  MaxMessages <- Messages
  Batch = 2
  MaxAttempts = 2
  MaxFails = 1
  MaxLapses = 1
  MaxCrashes = 1
  CrashAt <- CrashInLanes
INVARIANTS TypeOK Accounted OneHolder UniqueKey
PROPERTIES SettledStays Drained
CHECK_DEADLOCK FALSE
