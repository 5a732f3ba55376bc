----------------------------- MODULE FutexLock -----------------------------
(***************************************************************************)
(* The futex lock of runtime/src/kmp_lock.cpp.  The lock word poll names    *)
(* the holder and has one bit that obliges the holder to wake a thread when *)
(* it releases the lock; threads that find the lock held set the bit and    *)
(* sleep in the kernel for as long as the word is what they saw.  Threads   *)
(* are named by gtid + 1.                                                   *)
(***************************************************************************)
EXTENDS Naturals, FiniteSets

CONSTANTS
  N,                         \* the number of threads
  Most                       \* how many threads FUTEX_WAKE wakes at most

NAssumption == N \in Nat \ {0}

(* Most is KMP_LOCK_BUSY(1, futex): 1 in a build without dynamic locks, and *)
(* 1 << 8 | locktag_futex, 261, in a build with them, which is the default. *)
MostAssumption == Most \in Nat \ {0}

Id == 1..N

VARIABLES
  poll,                      \* the lock word
  pc,                        \* where every thread is
  poll_val,                  \* its local variable
  woken                      \* bit 0 of its gtid_code: it was on the queue

vars == <<poll, pc, poll_val, woken>>

Word(i, bit) == [owner |-> i, wake |-> bit]
Words        == [owner : Id \cup {0}, wake : BOOLEAN]
Free         == Word(0, FALSE)

PC == {"idle", "try", "mark", "wait", "asleep", "held", "release", "wake",
       "fatal"}

Init ==
  /\ poll = Free
  /\ pc = [i \in Id |-> "idle"]
  /\ poll_val = [i \in Id |-> Free]
  /\ woken = [i \in Id |-> FALSE]

Goto(i, from, to) ==
  /\ pc[i] = from
  /\ pc' = [pc EXCEPT ![i] = to]

See(i, w) == poll_val' = [poll_val EXCEPT ![i] = w]

Asleep == {i \in Id : pc[i] = "asleep"}

-----------------------------------------------------------------------------
(* omp_set_lock.  A thread never sets a lock that it holds: "fatal" would   *)
(* be a mistake of the check.                                               *)

SetLock(i) ==
  /\ Goto(i, "idle", IF poll.owner = i THEN "fatal" ELSE "try")
  /\ UNCHANGED <<poll, poll_val, woken>>

(* Mutant: a woken thread does not pass the obligation on.                  *)
Take_NoWake(i) ==
  /\ poll = Free
  /\ Goto(i, "try", "held")
  /\ poll' = Word(i, FALSE)
  /\ woken' = [woken EXCEPT ![i] = FALSE]
  /\ UNCHANGED poll_val

Take(i) ==
  /\ poll = Free
  /\ Goto(i, "try", "held")
  /\ poll' = Word(i, woken[i])
  /\ woken' = [woken EXCEPT ![i] = FALSE]
  /\ UNCHANGED poll_val

Refused(i) ==
  /\ poll # Free
  /\ Goto(i, "try", IF poll.wake THEN "wait" ELSE "mark")
  /\ See(i, poll)
  /\ UNCHANGED <<poll, woken>>

Mark(i) ==
  /\ IF poll = poll_val[i]
     THEN /\ Goto(i, "mark", "wait")
          /\ poll' = Word(poll.owner, TRUE)
          /\ See(i, poll')
     ELSE /\ Goto(i, "mark", "try")
          /\ See(i, Free)
          /\ UNCHANGED poll
  /\ UNCHANGED woken

(* Mutant: the kernel is not told the word that was seen.                   *)
Wait_NoCompare(i) ==
  /\ Goto(i, "wait", "asleep")
  /\ See(i, Free)
  /\ UNCHANGED <<poll, woken>>

(* FUTEX_WAIT sleeps only if the word is still poll_val.                    *)
Wait(i) ==
  /\ Goto(i, "wait", IF poll = poll_val[i] THEN "asleep" ELSE "try")
  /\ See(i, Free)
  /\ UNCHANGED <<poll, woken>>

(* FUTEX_WAIT fails, after a signal for example: the thread tries again.    *)
Interrupt(i) ==
  /\ Goto(i, "asleep", "try")
  /\ UNCHANGED <<poll, poll_val, woken>>

-----------------------------------------------------------------------------
(* omp_test_lock.                                                           *)

TestLock(i) ==
  /\ poll = Free
  /\ Goto(i, "idle", "held")
  /\ poll' = Word(i, FALSE)
  /\ UNCHANGED <<poll_val, woken>>

-----------------------------------------------------------------------------
(* omp_unset_lock.                                                          *)

UnsetLock(i) ==
  /\ Goto(i, "held", IF poll.owner = i THEN "release" ELSE "fatal")
  /\ UNCHANGED <<poll, poll_val, woken>>

Release(i) ==
  /\ Goto(i, "release", IF poll.wake THEN "wake" ELSE "idle")
  /\ poll' = Free
  /\ UNCHANGED <<poll_val, woken>>

(* FUTEX_WAKE wakes Most of the threads that sleep, or all of them.         *)
Wakeable ==
  {W \in SUBSET Asleep :
     Cardinality(W) = Most \/ (W = Asleep /\ Cardinality(W) < Most)}

Wake(i) ==
  /\ pc[i] = "wake"
  /\ \E W \in Wakeable :
       /\ pc' = [j \in Id |-> IF j = i THEN "idle"
                             ELSE IF j \in W THEN "try" ELSE pc[j]]
       /\ woken' = [j \in Id |-> woken[j] \/ j \in W]
  /\ UNCHANGED <<poll, poll_val>>

-----------------------------------------------------------------------------
Call(i) == SetLock(i) \/ TestLock(i)

Running(i) ==
  \/ Take(i) \/ Refused(i) \/ Mark(i) \/ Wait(i)
  \/ UnsetLock(i) \/ Release(i) \/ Wake(i)

Next == \E i \in Id : Call(i) \/ Running(i) \/ Interrupt(i)

Spec == Init /\ [][Next]_vars

(* A thread that is in the lock's code goes on, and unsets what it has set. *)
FairSpec == Spec /\ \A i \in Id : WF_vars(Running(i))

-----------------------------------------------------------------------------
TypeOK ==
  /\ poll \in Words
  /\ pc \in [Id -> PC]
  /\ poll_val \in [Id -> Words]
  /\ woken \in [Id -> BOOLEAN]

Holds(i) == pc[i] \in {"held", "release"}

(***************************************************************************)
(* Mutual exclusion: the thread that poll names is the only one between     *)
(* its acquire and its release, and poll names nobody else.                 *)
(***************************************************************************)
MutualExclusion ==
  /\ \A i \in Id : Holds(i) <=> poll.owner = i
  /\ poll.owner = 0 => ~poll.wake

(***************************************************************************)
(* No wake-up is lost: while a thread sleeps, the holder is obliged to wake *)
(* one, or is about to, or a thread that was woken is on its way to take    *)
(* the lock and, with it, the obligation.  It is on its way even if         *)
(* another thread has taken the lock by a test meanwhile.                   *)
(***************************************************************************)
Obliged(i) ==
  \/ pc[i] = "wake"
  \/ woken[i] /\ pc[i] \in {"try", "mark", "wait"}

NoLostWakeup ==
  Asleep # {} => poll.wake \/ \E i \in Id : Obliged(i)

(***************************************************************************)
(* The owner checks never stop a correct program.                           *)
(***************************************************************************)
NoFalseFatal == \A i \in Id : pc[i] # "fatal"

(* The inductive invariant of WaitLocks_proofs.                             *)
Seen ==
  \A i \in Id :
    /\ pc[i] = "mark" => poll_val[i].owner # 0
    /\ pc[i] = "wait" => poll_val[i].wake

IInv ==
  /\ TypeOK
  /\ MutualExclusion
  /\ NoLostWakeup
  /\ NoFalseFatal
  /\ Seen

(***************************************************************************)
(* Threads that wait do not sleep for ever while the lock is free: some     *)
(* thread gets it.  (The lock is not fair: no thread is promised its turn.) *)
(***************************************************************************)
SomeoneGetsLock ==
  (\E i \in Id : pc[i] \in {"try", "mark", "wait", "asleep"})
    ~> (\E i \in Id : pc[i] = "held")
=============================================================================
