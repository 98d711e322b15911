SPECIFICATION Spec
CONSTANTS
  Kinds <- AllKinds
  Every = 1
  schedRetry = 1
  selfPaceDefault = 1
  MaxId = 2
  MaxTime = 3
  MaxOps = 2
  MaxSays = 1
  MaxCrashes = 1
INVARIANTS DiskCurrent AwaitingHasEnd
PROPERTIES OneShotOnce NoBurst
CHECK_DEADLOCK FALSE
