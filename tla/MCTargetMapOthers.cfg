SPECIFICATION Spec
CONSTANTS
  Threads <- MCThreads
  Cells <- MCCells
  Points <- MCPoints
  Programs <- Simultaneous
INVARIANT MemoryIsAccounted
PROPERTY ImplementsOneMemory
CHECK_DEADLOCK FALSE
