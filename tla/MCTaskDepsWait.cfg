\* Four tasks and waits of one parent.
SPECIFICATION Spec
CONSTANTS
  Addrs <- MCAddrs
  DepLists <- MCDepLists
  MaxItems = 2
INVARIANT WaitNodeIsLive

CHECK_DEADLOCK FALSE
