\* Two threads.
SPECIFICATION FairSpec
CONSTANTS
  NThreads = 2
  Masters <- MCMasters
  MaxTasks = 3
  DequeSize = 1
  Programs <- MCPrograms
INVARIANTS FreedLast ConstraintUnlessUntied
PROPERTIES WaitsAreHonest EverythingEnds
CHECK_DEADLOCK FALSE
