CONSTANTS
  PE_start = 1
  PE_size = 3
  step = 2
  Ops = {"collect", "fcollect", "broadcast", "reduce", "reduce in place"}
  InFortran = {3}
  Linear = {"broadcast"}
  PE_root = 1
  SHMEM_REDUCE_MIN_WRKDATA_SIZE = 2
  Wide = {1}
  Counts = {0, 3}
  EqualCounts = {3}
  MaxCount = 3
  MaxCalls = 2
  Separated = {"broadcast"}
SPECIFICATION Spec
INVARIANTS SlicesInPlace RootsData AllCombinedOnce ResultsAreRight
