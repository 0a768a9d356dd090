CONSTANTS
  PE = {0, 1}
  ServicePE = {0}
  Size = 3
  MaxData = 2
  Calls = {"put", "get"}
  MaxOps = 3
  MayExit = {0, 1}
SPECIFICATION FairSpec
INVARIANTS PutsArriveWhole GetsSeePuts ExitFlushesChunks
PROPERTY TransfersReturn
CHECK_DEADLOCK FALSE
