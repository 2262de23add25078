SPECIFICATION Spec
CONSTANTS
  None = None
  Full = 2
  Codecs = {0, 1}
  Gain <- MCGain
  Rates = {"r44100"}
  Levels = {"low", "high"}
  Filters = {"flat", "bass"}
  Times = {1, 2}
INVARIANTS TypeOK  BufferedOnce
PROPERTIES Implements
CHECK_DEADLOCK FALSE
