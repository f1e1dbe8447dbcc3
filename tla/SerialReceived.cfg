SPECIFICATION FairRacesSpec
CONSTANTS
  FifoLength = 2
  CountWrap = 4
  MaxKeys = 2
  MaxOps = 3
  GuestOps = {"thr", "ier", "mcr", "lcr", "latch"}
INVARIANTS InFifo RaisedWhenReady
PROPERTY ReceivedUnlessRaced
CHECK_DEADLOCK FALSE
