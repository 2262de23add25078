SPECIFICATION Spec
CONSTANTS
  left = left
  right = right
  stereo = stereo
  kitchen = kitchen
  Devices = {left, right}
  Groups = {stereo, kitchen}
  GroupOf <- TwoGroups
  None = None
  Full = 1
  LateJoin = FALSE
  Pauses = FALSE
  MaxSessions = 1
  MaxDrops = 0
  MaxToggles = 0
INVARIANTS SamePlayTime
CHECK_DEADLOCK FALSE
