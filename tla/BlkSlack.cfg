SPECIFICATION DeliverySpec
CONSTANTS
  Size = 9
  Depth = 2
  MaxReq = 5
  Requests <- MCGetId
  Sectors = {1}
  Values = {"a", "b"}
  Blank = "blank"
  HostIO = {"done"}
  Ioeventfd = TRUE
INVARIANTS AvailLenIntact NoNullDescriptor
CHECK_DEADLOCK FALSE
