SPECIFICATION FairSpec
CONSTANTS
  Workers = {w1, w2}
  BufSize = 1
  Blocks = 2
  MaxLen = 1
  MaxCalls = 2
  MaxIn = 1
PROPERTIES
  AllSent
CHECK_DEADLOCK FALSE
