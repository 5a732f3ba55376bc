--------------------------- MODULE SuspendResume ---------------------------
(***************************************************************************)
(* How a waiting thread sleeps and is woken (__kmp_suspend_template and     *)
(* __kmp_resume_template of z_Linux_util.cpp, the wait loop and the release *)
(* of kmp_wait_release.h).                                                  *)
(*                                                                          *)
(* A waiter waits again and again for a location to be released.  When it   *)
(* has spun for long enough it sets the sleep bit of the location, stores   *)
(* in its th_sleep_loc a pointer to the flag object, which is on its stack, *)
(* and sleeps on its condition variable until the bit is cleared.  The      *)
(* thread that releases the location bumps it, then looks at the bit and    *)
(* resumes the waiter if it is set.  Other threads, the thieves of tasks,   *)
(* resume any thread whose th_sleep_loc is not NULL; they read the type of  *)
(* the flag through that pointer, without the waiter's mutex.               *)
(***************************************************************************)
EXTENDS Naturals

CONSTANTS
  Kinds,                     \* types of the flags that a thread sleeps on
  Strays,                    \* threads that wake sleepers
  MaxWaits                   \* bound of the waits

KindsAssumption == "other" \notin Kinds

VARIABLES
  cell,                      \* the location: released or not, the sleep bit
  wait, kind,                \* the number of the wait and the type of its flag
  pc,                        \* of the waiter
  owner,                     \* of its th_suspend_mx
  signaled,                  \* whether th_suspend_cv has been signalled
  sleep_loc,                 \* th_sleep_loc: the wait the flag is of, 0 is NULL
  released, rpc,             \* the number of releases, the pc of the releaser
  spc, target, type          \* of every stray: its pc, the pointer and the
                             \* type that it has read

waiter   == <<wait, kind, pc>>
releaser == <<released, rpc>>
strays   == <<spc, target, type>>
vars     == <<cell, waiter, owner, signaled, sleep_loc, releaser, strays>>

Done == [done |-> TRUE, sleep |-> FALSE]

Init ==
  /\ cell = [done |-> FALSE, sleep |-> FALSE]
  /\ wait = 0 /\ kind \in Kinds
  /\ pc = "work"
  /\ owner = "none" /\ signaled = FALSE /\ sleep_loc = 0
  /\ released = 0 /\ rpc = "idle"
  /\ spc = [s \in Strays |-> "idle"]
  /\ target = [s \in Strays |-> 0]
  /\ type = [s \in Strays |-> "other"]

Goto(from, to) == pc = from /\ pc' = to
Set(f, t, x) == [f EXCEPT ![t] = x]

-----------------------------------------------------------------------------
(* The waiter.                                                              *)

Begin ==
  /\ wait < MaxWaits
  /\ Goto("work", "spin")
  /\ wait' = wait + 1
  /\ kind' \in Kinds
  /\ UNCHANGED <<cell, owner, signaled, sleep_loc, releaser, strays>>

(* The location is set back for the next wait.                              *)
Return ==
  /\ cell = Done
  /\ Goto("spin", "work")
  /\ cell' = [cell EXCEPT !.done = FALSE]
  /\ UNCHANGED <<wait, kind, owner, signaled, sleep_loc, releaser, strays>>

(* The spin loop ends with the blocktime, the mutex is taken...             *)
Lock ==
  /\ cell # Done /\ owner = "none"
  /\ Goto("spin", "locked")
  /\ owner' = "waiter"
  /\ UNCHANGED <<cell, wait, kind, signaled, sleep_loc, releaser, strays>>

(* Mutant: the old value of the location is not looked at.                  *)
SetSleeping_Blind ==
  /\ Goto("locked", "sleeping")
  /\ cell' = [cell EXCEPT !.sleep = TRUE]
  /\ UNCHANGED <<wait, kind, owner, signaled, sleep_loc, releaser, strays>>

(* ... and the bit set, which is a false alarm if it is released already.   *)
SetSleeping ==
  /\ Goto("locked", IF cell = Done THEN "false_alarm" ELSE "sleeping")
  /\ cell' = [cell EXCEPT !.sleep = TRUE]
  /\ UNCHANGED <<wait, kind, owner, signaled, sleep_loc, releaser, strays>>

FalseAlarm ==
  /\ Goto("false_alarm", "spin")
  /\ cell' = [cell EXCEPT !.sleep = FALSE]
  /\ owner' = "none"
  /\ UNCHANGED <<wait, kind, signaled, sleep_loc, releaser, strays>>

SetSleepLoc ==
  /\ Goto("sleeping", "check")
  /\ sleep_loc' = wait
  /\ UNCHANGED <<cell, wait, kind, owner, signaled, releaser, strays>>

(* The loop around pthread_cond_wait.                                       *)
Check ==
  /\ Goto("check", IF cell.sleep THEN "cond" ELSE "spin")
  /\ owner' = "none"
  /\ UNCHANGED <<cell, wait, kind, signaled, sleep_loc, releaser, strays>>

WakeUp ==
  /\ owner = "none"
  /\ Goto("cond", "check")
  /\ owner' = "waiter"
  /\ signaled' = FALSE
  /\ UNCHANGED <<cell, wait, kind, sleep_loc, releaser, strays>>

-----------------------------------------------------------------------------
(* Mutant: th_sleep_loc keeps the pointer.                                  *)
Resume_KeepLoc ==
  /\ cell' = [cell EXCEPT !.sleep = FALSE]
  /\ signaled' = (signaled \/ (cell.sleep /\ pc = "cond"))
  /\ UNCHANGED sleep_loc

(* __kmp_resume_template with the mutex, from the flag on.                  *)
Resume ==
  /\ cell' = [cell EXCEPT !.sleep = FALSE]
  /\ IF cell.sleep THEN sleep_loc' = 0 /\ signaled' = (pc = "cond")
     ELSE UNCHANGED <<sleep_loc, signaled>>

(* A wait is released once, after the waiter has come to it.                *)
Release ==
  /\ rpc = "idle" /\ released < wait
  /\ cell' = [cell EXCEPT !.done = TRUE]
  /\ released' = released + 1
  /\ rpc' = "released"
  /\ UNCHANGED <<waiter, owner, signaled, sleep_loc, strays>>

IsAnySleeping ==
  /\ rpc = "released"
  /\ rpc' = IF cell.sleep THEN "resume" ELSE "idle"
  /\ UNCHANGED <<cell, waiter, owner, signaled, sleep_loc, released, strays>>

ReleaseResume ==
  /\ rpc = "resume" /\ owner = "none"
  /\ Resume
  /\ rpc' = "idle"
  /\ UNCHANGED <<waiter, owner, released, strays>>

-----------------------------------------------------------------------------
(* A stray waker, in __kmp_null_resume_wrapper.                             *)

ReadLoc(s) ==
  /\ spc[s] = "idle" /\ sleep_loc # 0
  /\ target' = Set(target, s, sleep_loc)
  /\ spc' = Set(spc, s, "type")
  /\ UNCHANGED <<cell, waiter, owner, signaled, sleep_loc, releaser, type>>

(* After the wait the flag is gone and anything can be read in its place.   *)
Readable(s) == IF target[s] = wait /\ pc # "work" THEN {kind} ELSE Kinds \cup {"other"}

ReadType(s) ==
  /\ spc[s] = "type"
  /\ \E k \in Readable(s) : type' = Set(type, s, k)
  /\ spc' = Set(spc, s, "resume")
  /\ target' = Set(target, s, 0)
  /\ UNCHANGED <<cell, waiter, owner, signaled, sleep_loc, releaser>>

(* th_sleep_loc is read again with the mutex, and the types compared.       *)
StrayResume(s) ==
  /\ spc[s] = "resume" /\ owner = "none"
  /\ IF sleep_loc # 0 /\ type[s] = kind THEN Resume
     ELSE UNCHANGED <<cell, signaled, sleep_loc>>
  /\ spc' = Set(spc, s, "idle")
  /\ type' = Set(type, s, "other")
  /\ UNCHANGED <<waiter, owner, releaser, target>>

-----------------------------------------------------------------------------
Waiter   == Begin \/ Return \/ SetSleeping \/ FalseAlarm \/ SetSleepLoc \/ Check
Signaled == signaled /\ WakeUp
Releaser == Release \/ IsAnySleeping \/ ReleaseResume
Stray(s) == ReadLoc(s) \/ ReadType(s) \/ StrayResume(s)

Next ==
  \/ Waiter \/ Lock \/ WakeUp \/ Releaser
  \/ \E s \in Strays : Stray(s)

Spec == Init /\ [][Next]_vars

(* A waiter need not fall asleep, and wakes up if it has been signalled; a  *)
(* mutex that is free again and again is got.  Strays may stop anywhere.    *)
FairSpec == Spec /\ WF_vars(Waiter) /\ WF_vars(Signaled) /\ SF_vars(Releaser)

-----------------------------------------------------------------------------
TypeOK ==
  /\ cell \in [done : BOOLEAN, sleep : BOOLEAN]
  /\ wait \in Nat /\ released \in 0..wait /\ kind \in Kinds
  /\ pc \in {"work", "spin", "locked", "false_alarm", "sleeping", "check", "cond"}
  /\ owner \in {"none", "waiter"} /\ signaled \in BOOLEAN
  /\ sleep_loc \in 0..wait
  /\ rpc \in {"idle", "released", "resume"}
  /\ spc \in [Strays -> {"idle", "type", "resume"}]
  /\ target \in [Strays -> 0..wait]
  /\ type \in [Strays -> Kinds \cup {"other"}]

(***************************************************************************)
(* No wake-up is lost: a thread that sleeps on its condition variable and   *)
(* has not been signalled has its sleep bit set, and if the location is     *)
(* released already then the releaser is still to look at the bit, or has   *)
(* seen it.                                                                 *)
(***************************************************************************)
SleepersAreWoken ==
  pc = "cond" /\ ~signaled =>
    cell.sleep /\ (cell.done => rpc \in {"released", "resume"})

(***************************************************************************)
(* The pointer that a waker follows with the mutex is never dangling: if    *)
(* th_sleep_loc is not NULL while nobody has the mutex then the thread      *)
(* sleeps in the very wait the flag is of, with its bit set.                *)
(***************************************************************************)
SleepLocIsLive ==
  owner = "none" /\ sleep_loc # 0 =>
    sleep_loc = wait /\ pc = "cond" /\ cell.sleep

(***************************************************************************)
(* What the two rest on: where the waiter has its mutex, where the bit is   *)
(* set, and that a wait is released after the bit was set only under the    *)
(* eyes of the releaser.                                                    *)
(***************************************************************************)
MutexHeld == owner = "waiter" <=> pc \in {"locked", "false_alarm", "sleeping", "check"}

BitSet ==
  /\ cell.sleep => pc \in {"false_alarm", "sleeping", "check", "cond"}
  /\ pc \in {"false_alarm", "sleeping"} => cell.sleep
  /\ pc \in {"sleeping", "check", "cond"} /\ cell.sleep /\ cell.done =>
       rpc \in {"released", "resume"}

LocSet == sleep_loc # 0 => pc \in {"check", "cond"} /\ sleep_loc = wait /\ cell.sleep

IInv == TypeOK /\ MutexHeld /\ BitSet /\ LocSet /\ SleepersAreWoken

(***************************************************************************)
(* Every wait that is released ends, whatever stray wakers do.              *)
(***************************************************************************)
EveryWaitEnds == <>(wait = MaxWaits /\ pc = "work")
=============================================================================
