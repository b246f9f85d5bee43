SPECIFICATION StreamSpec
CONSTANTS
  Lens = {3}
  PackSize = 6
  MaxBuffer = 12
  MaxBytes = 10
  Hdr = 2
  ReadSize = 10
  BufferSize = 12
  MaxPackets = 2
INVARIANT CutsPackets
CHECK_DEADLOCK FALSE
