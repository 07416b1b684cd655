SPECIFICATION FairSpec
CONSTANTS
  MaxChunks = 3
  Concurrency = 3
  MaxCalls = 2
  None = None
  Declined <- MCDeclined
INVARIANTS
  ResultIndependentOfSchedule
  RaceFree
PROPERTIES
  EveryCallReturns
  ImplementsEncoder
\* The writer may stop after any resource.
CHECK_DEADLOCK FALSE
