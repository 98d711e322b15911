SPECIFICATION FairSpec
CONSTANTS
  e1 = e1
  e2 = e2
  r1 = r1
  r2 = r2
  Engine <- Engines
  Request <- Requests
  MaxStarts = 3
CHECK_DEADLOCK FALSE
INVARIANTS OneStart NoOrphan IdleIsTimed
PROPERTIES IdleIsStopped
