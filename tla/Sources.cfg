SPECIFICATION FairSpec
CONSTANTS
  None = None
  MaxFed = 2
  MaxBus = 3
  MaxFifo = 2
INVARIANTS TypeOK  
PROPERTY ListensAgain
CHECK_DEADLOCK FALSE
