CONSTANTS
  NumPEs = 3
  LockWord <- AlignedLock
SPECIFICATION FairSpec
INVARIANTS
  IInv
  MutualExclusion
  HolderSeesAllWrites
PROPERTIES
  ServedInOrder
  LockGranted
CHECK_DEADLOCK FALSE
