SPECIFICATION Spec
CONSTANTS
  Threads <- MCThreads
  Cells <- MCCells
  Points <- MCPoints
  Programs <- MCPrograms
INVARIANT MemoryIsAccounted
PROPERTY ImplementsOneMemory
CHECK_DEADLOCK FALSE
