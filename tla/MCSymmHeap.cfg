CONSTANTS
  PE = {0, 1, 2}
  Base <- MCBase
  HeapSize = 4
  Sections <- MCSections
  Variables <- MCVariables
  Debug = TRUE
  Menu <- MCMenu
  Alignment = 2
  Scale = 2
  Aborting = {3}
  Differing = {2}
  MaxPuts = 1
SPECIFICATION Spec
INVARIANTS HeapsAlike PutsLandInTheirBlock ComparesLiveSizes
CHECK_DEADLOCK FALSE
