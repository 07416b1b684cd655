SPECIFICATION Spec
CONSTANTS
  N = 3
  Parent <- MCParent
  Dir <- MCDir
  Content <- MCContent
  Size <- MCSize
  Gone = Gone
  ZeroHash = ZeroHash
  Descriptor <- MCDescriptor
  NoDescriptor = NoDescriptor
  Policies <- MCPolicies
  MaxEdits = 1
  Infos <- MCInfos
  NoInfo = NoInfo
  Codecs = {"lzx", "none"}
  PackedSize <- MCPackedSize
  MetaSize = 2
  PackedMetaSize = 3
  HeaderSize = 1
  EntrySize = 1
  XmlSize = 2
  Byte = 2
  MaxImages = 3
  DstStart <- MCDstStart
  Corrupt = Corrupt
  Empty = Empty
  A = A
  B = B
  sys = sys
INVARIANTS
  ResourcesOnDisk
  ReferencesExact
  MetadataFollowsHeader
  FileReadsBack
PROPERTIES
  NothingAfterDamage
  ImplementsArchive
