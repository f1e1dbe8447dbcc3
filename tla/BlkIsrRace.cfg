SPECIFICATION FairDeliverySpec
CONSTANTS
  Size = 9
  Depth = 2
  MaxReq = 3
  Requests <- MCReadWrite
  Sectors = {1}
  Values = {"a", "b"}
  Blank = "blank"
  HostIO = {"done"}
  Ioeventfd = TRUE
PROPERTY Delivered
CHECK_DEADLOCK FALSE
