SPECIFICATION FollowSpec
CONSTANTS
  c1 = c1
  c2 = c2
  jobs = jobs
  turn = turn
  Subscriber <- MCOne
  StateType <- MCStateType
  OtherType <- MCOtherType
  Cap = 2
  Buffer = 1
  MaxSeq = 4
  MaxReplay = 1
  MaxEpoch = 2
  MaxCuts = 1
INVARIANTS ReplayFaithful NoGapNoRepeat LatestIsCurrent
PROPERTIES FeedPromise EventuallyCaughtUp
CHECK_DEADLOCK FALSE
