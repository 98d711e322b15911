SPECIFICATION Spec
CONSTANTS
  n1 = n1
  n2 = n2
  Node <- Nodes
  MaxRuns = 2
  MaxRestarts = 1
SYMMETRY Symmetry
INVARIANTS TypeOK RunsOneByOne SavedIsState
CHECK_DEADLOCK FALSE
