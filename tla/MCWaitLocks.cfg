\* Four threads.  Queues of up to three threads behind the holder; or a holder,
\* a tester and two that sleep, of which one is woken at a time, as in a build
\* without dynamic locks.
SPECIFICATION WaitSpec
CONSTANTS
  N = 4
  Most = 1
INVARIANTS LocksExclude NoStaleRead NoLostWakeup
PROPERTIES ImplementsFifoLock SomeoneGetsLock
