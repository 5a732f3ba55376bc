\* Four tasks and waits of one parent.
SPECIFICATION FairSpec
CONSTANTS
  Addrs <- MCAddrs
  DepLists <- MCDepLists
  MaxItems = 4
INVARIANTS CountsAreExact
PROPERTIES ImplementsTaskOrder EverythingRuns
CHECK_DEADLOCK FALSE
