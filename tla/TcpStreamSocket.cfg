SPECIFICATION StreamFairSpec
CONSTANTS
  Lens = {0, 1, 4, 5}
  PackSize = 6
  MaxBuffer = 7
  MaxBytes = 10
  Hdr = 2
  ReadSize = 6
  BufferSize = 3
  MaxPackets = 3
INVARIANTS
  StreamIntact
  NoStranded
  CloseDrains
  DisconnectOnce
  FramesInSync
PROPERTIES
  ImplementsStream
  AllArrive
  CloseHappens
CHECK_DEADLOCK FALSE
