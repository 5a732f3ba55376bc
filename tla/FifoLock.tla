------------------------------ MODULE FifoLock ------------------------------
(***************************************************************************)
(* What a queuing lock promises: at most one holder, and threads that have  *)
(* queued receive the lock in the order in which they queued.  A thread     *)
(* that finds the lock free may take it without queuing.  The last release  *)
(* is a hand-off: the lock passes to the head of the queue without ever     *)
(* being free in between.                                                   *)
(***************************************************************************)
EXTENDS Naturals, Sequences

CONSTANT Id                  \* the threads, none of which is 0

VARIABLES holder,            \* the thread that has the lock, 0 if it is free
          queue              \* the threads waiting for it, first come first

vars == <<holder, queue>>

Init == holder = 0 /\ queue = <<>>

Queued == {queue[k] : k \in 1..Len(queue)}

Acquire(i) ==
  /\ holder = 0
  /\ holder' = i
  /\ UNCHANGED queue

Enqueue(i) ==
  /\ holder # 0
  /\ i # holder
  /\ i \notin Queued
  /\ queue' = Append(queue, i)
  /\ UNCHANGED holder

Release ==
  /\ holder # 0
  /\ queue = <<>>
  /\ holder' = 0
  /\ UNCHANGED queue

HandOff ==
  /\ holder # 0
  /\ queue # <<>>
  /\ holder' = Head(queue)
  /\ queue' = Tail(queue)

Next ==
  \/ \E i \in Id : Acquire(i) \/ Enqueue(i)
  \/ Release
  \/ HandOff

Safety == Init /\ [][Next]_vars

(* The holder eventually lets go, as long as threads that hold the lock do. *)
Spec == Safety /\ WF_vars(Release \/ HandOff)
=============================================================================
