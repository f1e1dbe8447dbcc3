SPECIFICATION Spec
CONSTANTS
  NumQueues = 2
  MaxSize = 4
  Bars = {0, 256}
  Faults = {"kvm", "init"}
  MaxLoads = 2
  MaxStray = 1
INVARIANTS TypeOK RingProgrammed HandlerHasRing OneHandler
PROPERTIES KickServed ComesUpFirst
CHECK_DEADLOCK FALSE
