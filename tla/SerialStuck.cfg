SPECIFICATION FairSpec
CONSTANTS
  FifoLength = 3
  CountWrap = 6
  MaxKeys = 2
  MaxOps = 1
  GuestOps = {"ier"}
PROPERTY Received
CHECK_DEADLOCK FALSE
