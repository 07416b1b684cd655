SPECIFICATION Spec
CONSTANTS
  Byte <- MCByte
  Call <- MCCall
  Chunks <- MCChunks
  HalfWord <- MCHalfWord
  Word <- MCWord
  Bytes <- MCBytes
  e8FileSize = 61
  e8MinLength = 6
  Base = 4
  Few = 8
  Many = 13
  Literals = 4
  MainSlots = 8
  WindowSize = 16
  minMatch = 2
  minLength = 3
  Short = 2
  lenCodeCount = 3
  AlignedBits = 1
  footerBits <- MCFooterBits
  basePosition <- MCBasePosition
  Hash <- MCHash
  Buckets <- MCBuckets
  maxChain = 4
  goodMatch = 5
  OtherChunks <- MCOtherChunks
  DamagedChunks <- MCDamagedChunks
  Pairs <- MCPairs
  MaxChunks = 2
\* The chunk has been decompressed: that is the end.
CHECK_DEADLOCK FALSE
INVARIANTS TranslationInverts DecoderInStep WindowIsKept FindsLongest
