SPECIFICATION Spec
CONSTANTS
  Devs = {1, 2}
  NumBars = 3
  BarSize <- MCBars
  AddrMax = 7
  Disciplined = TRUE
INVARIANTS TypeOK ListEnds ListIsDecoding Dispatch
CHECK_DEADLOCK FALSE
