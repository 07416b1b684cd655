SPECIFICATION Spec
CONSTANTS
  Alphabet <- MCAlphabet
  Frequencies <- MCFrequencies
  Limit = 3
  maxTreePath = 5
  OtherTrees <- MCOtherTrees
  Previous <- MCPrevious
  ShortMin = 2
  ShortMax = 3
  LongMin = 4
  LongMax = 5
  SameMin = 2
  SameMax = 3
  CodeSizes <- MCCodeSizes
  Streams <- MCOfFormat
  DamagedLengths = {0, 1, 4, 16, 17, 18, 35}
  WindowSize = 6
  CodeBits = 3
\* The chunk is read: that is the end.
CHECK_DEADLOCK FALSE
INVARIANTS HuffmanIsOptimal CodesArrive TreeInStep BitsInStep StaysWithin
PROPERTY ChunkEnds
