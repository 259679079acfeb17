SPECIFICATION FairSpec
CONSTANTS
  Workers = {w1, w2}
  BufSize = 1
  Blocks = 2
  MaxLen = 2
  MaxCalls = 2
  MaxIn = 0
PROPERTIES
  AllSent
CHECK_DEADLOCK FALSE
