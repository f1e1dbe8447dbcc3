SPECIFICATION Spec
CONSTANTS
  GapStart = 1073741824
  GapEnd = 1342177280
  Configs <- MCConfigs
  Supported <- MCSupported
  Host <- MCHost
  Unset <- MCUnset
  MaxFails = 2
INVARIANTS TypeOK NoWild BootIntact E820Backed MpTableSound  TopologyAgrees PioDispatch
PROPERTY Terminates
CHECK_DEADLOCK FALSE
