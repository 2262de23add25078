SPECIFICATION FairSpec
CONSTANTS
  Sources = {s1, s2}
  None = None
  TimeoutTicks = 2
  MinBlock = 2
  MaxQueue = 2
INVARIANTS TypeOK AudioMatchesCodec
PROPERTIES  IsOneStream
