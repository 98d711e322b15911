SPECIFICATION FairSpec
CONSTANTS
  s1 = s1
  o1 = o1
  loop = loop
  Loop = loop
  Server <- One
  Op <- OneOp
  MaxStarts = 2
  MaxOps = 3
INVARIANTS OneStart ToolsCurrent
PROPERTIES CatchesUp
CHECK_DEADLOCK FALSE
