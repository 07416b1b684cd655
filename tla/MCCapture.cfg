SPECIFICATION CaptureSpec
CONSTANTS
  N = 5
  Parent <- MCParent
  Dir <- MCDir
  Content <- MCContent
  Size <- MCSize
  Gone = Gone
  ZeroHash = ZeroHash
  Descriptor <- MCDescriptor
  NoDescriptor = NoDescriptor
  Policies <- MCPolicies
  MaxEdits = 2
  Empty = Empty
  A = A
  B = B
  sys = sys
  usr = usr
INVARIANTS
  BlobsMatchNodes
  SecurityTableExact
  WalkIsComplete
\* The walk stops when it is done.
CHECK_DEADLOCK FALSE
