SPECIFICATION FairSpec
CONSTANTS
  LineKinds <- AllKinds
  MaxLines = 3
  MaxJobs = 1
  MaxAsks = 1
  MaxFails = 2
INVARIANTS TypeOK LeavesNothingSaid
PROPERTIES MidTurnGetsTurn NewsGetsTurn HeldGetsTurn
CHECK_DEADLOCK FALSE
