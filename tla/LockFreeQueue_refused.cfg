\* The comment of line 68, on a queue that is never more than half full.
CONSTANTS
  Threads = {t1, t2}
  Elems = {e1, e2}
  NoElem = NoElem
  QUEUE_LEN = 4
  COUNTER_MOD = 16
  StartCount = 0
  MaxCount = 3
SPECIFICATION Spec
PROPERTIES FullWhenRefused
