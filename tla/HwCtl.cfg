SPECIFICATION FairSpec
CONSTANTS
  PowerDelay = 3
  SleepDelay = 1
  RedFirst = 2
  GreenTime = 3
  RedTime = 1
INVARIANTS TypeOK 
PROPERTIES  SilentIsOff
