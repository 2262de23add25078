SPECIFICATION FairSpec
CONSTANTS
  left = left
  right = right
  stereo = stereo
  kitchen = kitchen
  Devices = {left, right}
  Groups = {stereo}
  GroupOf <- OneGroup
  None = None
  Full = 2
  LateJoin = FALSE
  Pauses = TRUE
  MaxSessions = 1
  MaxDrops = 0
  MaxToggles = 0
INVARIANTS TypeOK SoundHasPower StopSilences AllHearTheCodec
PROPERTIES PlayAfterBuffered 
CHECK_DEADLOCK FALSE
