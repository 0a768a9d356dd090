CONSTANTS
  Base = 4096
  Capacity = 2600
  TrimThreshold = 1000
  Sizes = {24, 200, 260, 330, 1073741823}
  Alignments = {64}
  Resizes = {40, 300}
  Scripts <- MCScripts
  MaxCalls = 3
  HASH_INITIAL_NUM_BUCKETS = 2
  HASH_BKT_CAPACITY_THRESH = 3
  Hash <- MCHash
SPECIFICATION Spec
INVARIANTS ConsistentState NothingLost BestFitOrFull TableFindsBlocks
PROPERTY ImplementsAllocator
CHECK_DEADLOCK FALSE
