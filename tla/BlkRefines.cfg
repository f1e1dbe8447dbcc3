SPECIFICATION FairDeliverySpec
CONSTANTS
  Size = 7
  Depth = 2
  MaxReq = 3
  Requests <- MCRequests
  Sectors = {1}
  Values = {"a", "b"}
  Blank = "blank"
  HostIO = {"done", "error"}
  Ioeventfd = TRUE
PROPERTIES
  ServesAsBlkDevice
  ImplementsBlkDevice
  DeliveredUnlessWiped
CHECK_DEADLOCK FALSE
