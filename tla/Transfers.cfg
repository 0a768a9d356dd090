CONSTANTS
  MaxOps = 3
  MaxStores = 1
  MaxElems = 2
  MaxStride = 2
  IntMod = 64
  SizeMod = 256
  Sample = {"128", "mem"}
SPECIFICATION TransfersSpec
INVARIANTS IInv FenceOrders PutKeepsItsValue MovesElements
CHECK_DEADLOCK FALSE
