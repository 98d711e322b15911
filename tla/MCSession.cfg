SPECIFICATION FairSpec
CONSTANTS
  t1 = t1
  t2 = t2
  Caller <- Two
  Ops <- AllOps
  MaxCalls = 3
  MaxCrashes = 1
  MaxEngines = 3
  RestartMax = 1
  OutputHeld = TRUE
INVARIANTS OneEngine NotBusyWhenStopped
PROPERTIES RestartComesBack CloseStops StopReturns
CHECK_DEADLOCK FALSE
