\* Five threads in two barriers, in every pair of patterns.
SPECIFICATION FairSpec
CONSTANTS
  N = 5
  GatherBits = 1
  ReleaseBits = 2
  MaxRounds = 2
INVARIANTS ReductionComplete ParentsAreWoken
PROPERTIES ImplementsBarrier
CHECK_DEADLOCK FALSE
