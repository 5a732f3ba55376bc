SPECIFICATION FairSpec
CONSTANTS
  NThreads = 5
  NTeams = 12
  Programs <- Some
INVARIANTS
  NobodyIsLost
  TaskStatesAgree
PROPERTIES
  ImplementsNesting
  LimitIsKept
  RegionsEnd
CHECK_DEADLOCK FALSE
