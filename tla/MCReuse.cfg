SPECIFICATION ReuseSpec
CONSTANTS
  c1 = c1
  c2 = c2
  c3 = c3
  Client <- Clients
  MaxSession = 3
SYMMETRY Symmetry
INVARIANTS TwoStartsDiffer
CHECK_DEADLOCK FALSE
