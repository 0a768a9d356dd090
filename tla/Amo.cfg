CONSTANTS
  PE = {0, 1}
  Target = {0, 1}
  DataType = "long"
  InFortran = {1}
  Width = 2
  Operand = {0, 3}
  Comparison = {"eq", "gt", "le", "lt", "ge"}
  MaxOps = 1
SPECIFICATION FairSpec
INVARIANT NoUseAfterFree
PROPERTIES OperationsAreAtomic OperationsComplete
CHECK_DEADLOCK FALSE
