CONSTANTS
  PE = {0, 1}
  ServicePE = {0}
  Size = 1
  MaxData = 2
  Calls = {"put"}
  MaxOps = 1
  MayExit = {0}
SPECIFICATION FairSpec
PROPERTY ExitEndsAll
CHECK_DEADLOCK FALSE
