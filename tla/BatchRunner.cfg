SPECIFICATION FairSpec
CONSTANTS
  Total = 4
  Concurrency = 2
  Throwing = {"processor", "onItemComplete", "onProgress"}
INVARIANTS
  TypeOK
  ResolvedIsComplete
  SlotsAccounted
 
PROPERTIES
  ResultsFrozen
  BatchResolves
\* A resolved batch has nothing left to do.
CHECK_DEADLOCK FALSE
