SPECIFICATION Spec
CONSTANTS
  NumQueues = 1
  MaxSize = 4
  Bars = {0, 256}
  Faults = {}
  MaxLoads = 2
  MaxStray = 1
PROPERTY ComesUp
CHECK_DEADLOCK FALSE
