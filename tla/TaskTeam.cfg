\* Three threads, two tasks and three barriers: the first task team is used again.
SPECIFICATION FairSpec
CONSTANTS
  N = 3
  MaxTasks = 2
  MaxRounds = 3
INVARIANTS CounterIsExact TasksAreDone
PROPERTIES EverybodyLeaves
CHECK_DEADLOCK FALSE
