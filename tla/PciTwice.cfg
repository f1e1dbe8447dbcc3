SPECIFICATION Spec
CONSTANTS
  Devs = {1}
  NumBars = 6
  BarSize <- MCOneBar
  AddrMax = 3
  Disciplined = FALSE
INVARIANT ListEnds
CHECK_DEADLOCK FALSE
