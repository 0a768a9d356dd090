CONSTANTS
  PE_start = 1
  PE_size = 5
  step = 2
  Roots = {0, 1, 3}
  MaxCalls = 3
  SeparateRoots = TRUE
SPECIFICATION TreeFairSpec
INVARIANTS ReturnedWithData SyncRestored PutsAreExpected
PROPERTY CallsReturn
CHECK_DEADLOCK FALSE
