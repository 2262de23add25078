SPECIFICATION FairSpec
CONSTANTS
  left = left
  right = right
  stereo = stereo
  kitchen = kitchen
  Devices = {left, right}
  Groups = {stereo}
  GroupOf <- OneGroup
  None = None
  Full = 2
  LateJoin = FALSE
  Pauses = FALSE
  MaxSessions = 1
  MaxDrops = 1
  MaxToggles = 0
PROPERTIES SingleClientPlays
CHECK_DEADLOCK FALSE
