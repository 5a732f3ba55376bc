\* Tied and untied tasks; a tied task that depends on a proxy task.
SPECIFICATION Spec
CONSTANTS
  NThreads = 2
  Masters <- MCBothMasters
  MaxTasks = 3
  DequeSize = 2
  Programs <- MCOtherPrograms
INVARIANTS SchedulingConstraint TailTellsAll
CHECK_DEADLOCK FALSE
