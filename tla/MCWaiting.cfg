\* One waiter with three waits on flags of two types, two stray wakers; teams of
\* two threads with deques of two tasks, and of one task that are doubled.
SPECIFICATION WaitingSpec
CONSTANTS
  Kinds = {"flag64", "flag_oncore"}
  Strays = {s1, s2}
  MaxWaits = 3
  N = 2
  Tasks = {t1, t2, t3}
  Proxies = {}
  Allocated = {}
  InitialSize = 2
  PassBits = 1
  Nil = Nil
  MoreTasks = {t4, t5}
  Given = {p1, p2}
  SmallSize = 1
  MoreBits = 4
INVARIANTS SleepersAreWoken SleepLocIsLive SpaceInDeques
PROPERTIES ImplementsWorkQueues EveryoneGoesOn
CHECK_DEADLOCK FALSE
