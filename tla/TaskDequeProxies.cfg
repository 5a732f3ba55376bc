\* A proxy is given to a thread that is allocating its deque, or whose full
\* deque has lost a task before it is doubled.
SPECIFICATION Spec
CONSTANTS
  N = 2
  Tasks = {t1, t2, t3, t4}
  Proxies = {p1}
  Allocated = {0}
  InitialSize = 2
  PassBits = 3
  Nil = Nil
INVARIANT SpaceInDeque
CHECK_DEADLOCK FALSE
