SPECIFICATION DeliverySpec
CONSTANTS
  Size = 6
  Depth = 3
  MaxReq = 5
  Requests <- MCShapes
  Sectors = {1}
  Values = {"a", "b"}
  Blank = "blank"
  HostIO = {"done", "short"}
  Ioeventfd = TRUE
INVARIANTS TypeOK NoNullDescriptor UsedInOrder StatusBeforeUsed NoLostKick NoLostInterrupt RingInv
CHECK_DEADLOCK FALSE
