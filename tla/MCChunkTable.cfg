SPECIFICATION Spec
CONSTANTS
  ChunkSize = 2
  NarrowBytes = 1
  WideBytes = 2
  NarrowMax = 5
  WordSize = 22
  MaxResource = 6
  MaxLen = 6
  Offsets = {1, 3}
INVARIANTS
  OwnTableReads
  AcceptedIsReadable
\* A table is read once.
CHECK_DEADLOCK FALSE
