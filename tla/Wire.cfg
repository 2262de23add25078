SPECIFICATION FairSpec
CONSTANTS
  Threads = {loop, device}
  Loop = loop
  HeaderLength = 2
  MaxLength = 2
  MaxSerial = 1
  JsonLengths = {1}
  AudioLengths = {2, 3}
  BufferSize = 4
  Window = 4
  MaxPackets = 3
INVARIANTS TypeOK SerialRecovers ArriveInOrder
PROPERTY AllArrive
CHECK_DEADLOCK FALSE
