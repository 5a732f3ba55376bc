SPECIFICATION Spec
CONSTANTS
  Threads <- MCThreads
  Cells <- MCCells
  Points <- MCPoints
  Programs <- Chains
INVARIANT NothingIsLeft
CHECK_DEADLOCK FALSE
