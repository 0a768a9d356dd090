CONSTANTS
  PE = {0, 1, 2}
  DEFAULT_HEAP_SIZE = 16
  GASNET_PAGESIZE = 4
  multiplier = 2
  SizeMod = 256
  Garbage = {8}
  Jobs <- MCJobs
  Barriers = 1
  MaxPuts = 1
SPECIFICATION FairSpec
INVARIANTS HeapsReachable HeapAsAsked
PROPERTIES AllComeAndGo
CHECK_DEADLOCK FALSE
