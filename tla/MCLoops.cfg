\* Teams of two and three threads and two dispatch buffers, with variables of
\* six bits; static loops with variables of five bits.
SPECIFICATION LoopsSpec
CONSTANTS
  Programs <- AllPrograms
  NumBuffers = 2
  Width = 6
  StaticInputs <- AllInputs
  StaticHalf = 16
INVARIANTS BuffersAreOwned SharesAreExact
PROPERTIES ImplementsWorkShare EveryLoopEnds
CHECK_DEADLOCK FALSE
