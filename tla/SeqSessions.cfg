SPECIFICATION Spec
CONSTANTS
  left = left
  right = right
  stereo = stereo
  kitchen = kitchen
  Devices = {left, right}
  Groups = {stereo}
  GroupOf <- OneGroup
  None = None
  Full = 1
  LateJoin = FALSE
  Pauses = TRUE
  MaxSessions = 2
  MaxDrops = 0
  MaxToggles = 1
INVARIANTS SamePlayTime 
CHECK_DEADLOCK FALSE
SYMMETRY Loudspeakers
