SPECIFICATION ConnSpec
CONSTANTS
  c1 = c1
  c2 = c2
  Conn <- Two
  MaxFrames = 3
  MaxQueue = 1
  MaxEngines = 2
  MaxFails = 1
SYMMETRY Symmetry
INVARIANTS TypeOK NoOneWatches ViewersAreWatched
CHECK_DEADLOCK FALSE
