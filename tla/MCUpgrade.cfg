SPECIFICATION Spec
CONSTANTS
  s1 = s1
  s2 = s2
  Sess <- Sessions
  MaxRequest = 2
  MaxWork = 1
  MaxStart = 2
SYMMETRY Symmetry
INVARIANTS StopRecorded FailureFreesAll 
CHECK_DEADLOCK FALSE
