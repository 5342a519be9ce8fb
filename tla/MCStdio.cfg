SPECIFICATION Spec
CONSTANTS
  NL = 0
  BufSize = 2
  Contents <- MCContents
  Chunks <- MCChunks
  Counts = {1, 2}
  Offsets <- MCOffsets
  Modes <- MCModes
  MaxLen = 4
  MaxFaults = 2
INVARIANTS BufferShared LinesFlushed NothingPending
PROPERTIES ImplementsByteStream
CHECK_DEADLOCK FALSE
