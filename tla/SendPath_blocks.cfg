SPECIFICATION Spec
CONSTANTS
  Workers = {w1, w2}
  BufSize = 2
  Blocks = 2
  MaxLen = 1
  MaxCalls = 2
  MaxIn = 0
SYMMETRY Symmetry
INVARIANTS
  BlocksReturned
CHECK_DEADLOCK FALSE
