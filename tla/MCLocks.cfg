SPECIFICATION LocksSpec
CONSTANTS
  t1 = t1
  t2 = t2
  Caller <- Two
  Ops <- AllOps
  PipeCap = 1
  MayHang = TRUE
SYMMETRY Symmetry
INVARIANTS NoMutualWait
CHECK_DEADLOCK FALSE
