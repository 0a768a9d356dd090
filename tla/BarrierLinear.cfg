CONSTANTS
  PE_start = 1
  PE_size = 3
  step = 2
  MaxCalls = 2
  MaxPuts = 1
SPECIFICATION FairSpec
INVARIANTS
  FlushedBeforeLeave
  ResetIsUncontested
  PSyncRestored
PROPERTIES
  AllArriveFirst
  AllLeave
CHECK_DEADLOCK FALSE
