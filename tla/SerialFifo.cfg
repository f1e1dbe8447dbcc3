SPECIFICATION RacesSpec
CONSTANTS
  FifoLength = 2
  CountWrap = 4
  MaxKeys = 3
  MaxOps = 2
  GuestOps = {"thr", "ier", "mcr"}
INVARIANTS TypeOK FifoConsistent InOrder
CHECK_DEADLOCK FALSE
