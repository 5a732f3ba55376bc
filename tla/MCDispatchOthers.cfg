\* Two stealing loops of four or of eight bytes, the first one with nowait; a loop
\* whose last iteration is near the top of its type.
SPECIFICATION Spec
CONSTANTS
  Programs <- MCUnusual
  NumBuffers = 2
  Width = 6
INVARIANTS StealsFromTheSameLoop StealLockIsLive
PROPERTY ImplementsWorkShare
CHECK_DEADLOCK FALSE
