CONSTANTS
  NumPEs = 3
  LockWord <- UnalignedLock
SPECIFICATION Spec
INVARIANT MutualExclusion
