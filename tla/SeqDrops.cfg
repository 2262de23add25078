SPECIFICATION Spec
CONSTANTS
  left = left
  right = right
  stereo = stereo
  kitchen = kitchen
  Devices = {left, right}
  Groups = {stereo}
  GroupOf <- OneGroup
  None = None
  Full = 1
  LateJoin = TRUE
  Pauses = FALSE
  MaxSessions = 1
  MaxDrops = 1
  MaxToggles = 0
INVARIANTS Registered
CHECK_DEADLOCK FALSE
SYMMETRY Loudspeakers
