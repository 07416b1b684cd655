SPECIFICATION Spec
CONSTANTS
  Goroutines = {g1, g2, g3}
  Handles = {hc, hs}
  HandleOf <- MCHandleOf
  Stored = {hs}
  ChunkSize = 2
  FileSize = 7
  Kind <- MCSound
  EndsBacking = TRUE
  Requests <- MCRequests
  Lengths = {1, 3}
  Junk = Junk
  None = None
  MaxCalls = 3
  MaxFaults = 0
  g1 = g1
  g2 = g2
  g3 = g3
  hc = hc
  hs = hs
PROPERTY NoFaultNoFailure
\* Callers may stop reading.
CHECK_DEADLOCK FALSE
