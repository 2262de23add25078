SPECIFICATION FairSpec
CONSTANTS
  None = None
  MaxDatagrams = 2
  MaxLosses = 1
  MaxRestarts = 2
  MaxCrashes = 1
INVARIANTS TypeOK JoinEnds  HardwareAgrees
 
CHECK_DEADLOCK FALSE
