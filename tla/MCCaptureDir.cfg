SPECIFICATION CaptureDirSpec
CONSTANTS
  N = 3
  Parent <- MCParent
  Dir <- MCDir
  Content <- MCContent
  Size <- MCSize
  Gone = Gone
  ZeroHash = ZeroHash
  Descriptor <- MCDescriptor
  NoDescriptor = NoDescriptor
  Policies <- MCPolicies
  MaxEdits = 1
  Infos <- MCInfos
  NoInfo = NoInfo
  Codecs = {"lzx", "none"}
  PackedSize <- MCPackedSize
  MetaSize = 2
  PackedMetaSize = 3
  HeaderSize = 4
  EntrySize = 1
  XmlSize = 2
  Byte = 2
  MaxImages = 1
  DstStart <- MCDstStart
  Corrupt = Corrupt
  Empty = Empty
  A = A
  B = B
  sys = sys
  OutEntry = 2
  MaxRuns = 2
\* CaptureDir returns, or is killed, and that is the end.
CHECK_DEADLOCK FALSE
INVARIANTS
  ResultTellsTheFile
  OnlyTheCaptureOpens
  SelfIsEmpty
