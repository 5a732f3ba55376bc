---------------------------- MODULE MCWaitLocks -----------------------------
(***************************************************************************)
(* The locks in which whoever releases the lock wakes one that waits: the   *)
(* queuing lock, by the flag that the thread spins on, and the futex lock,  *)
(* in the kernel.  A program has one kind of lock; the variables of the     *)
(* other stay as Init has them.  The queuing lock has the names of its      *)
(* module, the futex lock has its pc with a prefix.                         *)
(***************************************************************************)
EXTENDS QueuingLock, Sequences, FiniteSets

CONSTANT Most                \* of FutexLock

VARIABLES
  sleeping,                  \* the program's locks are futex locks
  poll, fx_pc, poll_val, woken

futexVars == <<poll, fx_pc, poll_val, woken>>
all       == <<sleeping, vars, futexVars>>

Futex == INSTANCE FutexLock WITH pc <- fx_pc

ASSUME FutexAssumption == Futex!NAssumption /\ Futex!MostAssumption

WaitInit == sleeping \in BOOLEAN /\ Init /\ Futex!Init

Queues(A) == ~sleeping /\ A /\ UNCHANGED <<sleeping, futexVars>>
Sleeps(A) == sleeping /\ A /\ UNCHANGED <<sleeping, vars>>

WaitNext == Queues(Next) \/ Sleeps(Futex!Next)

WaitSafety == WaitInit /\ [][WaitNext]_all

(* The fairness of each lock: a thread that is in the lock's code goes on,  *)
(* and unsets what it has set.                                              *)
WaitSpec ==
  /\ WaitSafety
  /\ \A i \in Id : /\ WF_vars(Queues(Running(i) \/ UnsetLock(i)))
                   /\ WF_futexVars(Sleeps(Futex!Running(i)))

-----------------------------------------------------------------------------
(***************************************************************************)
(* Mutual exclusion: at most one thread carries the queuing lock, and the   *)
(* thread that the futex lock's word names is the only one that holds that. *)
(***************************************************************************)
LocksExclude == MutualExclusion /\ Futex!MutualExclusion

(***************************************************************************)
(* No thread sleeps in the kernel without anybody obliged to wake it; and   *)
(* threads that wait do not sleep for ever while the lock is free, although *)
(* none is promised its turn.                                               *)
(***************************************************************************)
NoLostWakeup    == Futex!NoLostWakeup
SomeoneGetsLock == Futex!SomeoneGetsLock

(* The abstract holder: the thread that carries the lock or, once it has    *)
(* been taken off the queue, the thread the lock is being passed to.        *)
Holder ==
  IF \E i \in Id : Carries(i)
  THEN LET i == CHOOSE j \in Id : Carries(j)
       IN IF pc[i] \in HandOffPC THEN head[i] ELSE i
  ELSE 0

(* The abstract queue: from head_id to tail_id, each thread behind the one  *)
(* before it, whether its link is written or pending.                       *)
Waiters == {i \in Id : Waiting(i)}

IsQueue(q) ==
  /\ \A k, l \in 1..Len(q) : q[k] = q[l] => k = l
  /\ \A k \in 1..Len(q) - 1 : Behind(q[k], q[k + 1])
  /\ IF q = <<>> THEN head_id <= 0 ELSE head_id = q[1] /\ tail_id = q[Len(q)]

Lists == {q \in [1..Cardinality(Waiters) -> Waiters] : IsQueue(q)}

Queue == IF Lists = {} THEN <<>> ELSE CHOOSE q \in Lists : TRUE

Abstract == INSTANCE FifoLock WITH holder <- Holder, queue <- Queue

(***************************************************************************)
(* The queuing lock implements FifoLock, fairness included: whoever queues  *)
(* first is served first and the lock is always passed on.                  *)
(***************************************************************************)
ImplementsFifoLock == Abstract!Spec
=============================================================================
