SPECIFICATION Spec
CONSTANTS
  h1 = h1
  h2 = h2
  NullHash = null
  Stored <- MCStored
  Utf16 <- MCUtf16
  Trees <- MCTrees
  Tables <- MCTables
  Foreign <- MCForeign
  Unusable <- MCUnusable
  WordSize <- MCWord
  MaxTreeDepth = 3
  MaxTreeNodes = 7
  TicksPerSecond = 4
  NanosPerTick = 2
  filetimeEpochDelta = 21
  Half = 128
  ZeroTime <- MCZeroTime
INVARIANTS
  NoPanic
  OwnTreeReadsBack
  ForeignReadAsMeant
PROPERTIES
  ParseEnds
\* A resource is parsed once.
CHECK_DEADLOCK FALSE
