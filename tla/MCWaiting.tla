----------------------------- MODULE MCWaiting ------------------------------
(***************************************************************************)
(* What threads do that wait in a barrier.  Either one thread sleeps and is *)
(* woken (SuspendResume), or one of two teams pushes, removes and steals    *)
(* tasks (TaskDeque).  The first team has the names of its module; the      *)
(* second, and the pc of the sleeper, have theirs with a prefix.  The first *)
(* team has more tasks than a deque holds and threads that keep looking for *)
(* tasks; the second is given proxy tasks from outside while its deques are *)
(* full and its threads may be busy.  Sleepers and teams have no state in   *)
(* common: a thief that finds no task wakes a sleeper, whatever it looked   *)
(* for.                                                                     *)
(***************************************************************************)
EXTENDS TaskDeque

CONSTANTS Kinds, Strays, MaxWaits,       \* of SuspendResume
          MoreTasks, Given,              \* tasks and proxies of the second team,
          SmallSize, MoreBits            \* the size of its deques, and of pass

VARIABLES
  asleep,                    \* the thread that sleeps is what is checked
  busy,                      \* the second team is the one that is checked
  cell, wait, kind, w_pc, owner, signaled, sleep_loc, released, rpc, spc, target, type,
  b_dq, b_enabled, b_fresh, b_taken, b_overrun, b_pc, b_item, b_at, b_pass

sleeperVars == <<cell, wait, kind, w_pc, owner, signaled, sleep_loc, released, rpc,
                 spc, target, type>>
secondVars  == <<b_dq, b_enabled, b_fresh, b_taken, b_overrun, b_pc, b_item, b_at, b_pass>>
chosen      == <<asleep, busy>>
all         == <<chosen, sleeperVars, vars, secondVars>>

Sleeper == INSTANCE SuspendResume WITH pc <- w_pc

Busy == INSTANCE TaskDeque
          WITH Tasks <- MoreTasks, Proxies <- Given, Allocated <- 0..N-1,
               InitialSize <- SmallSize, PassBits <- MoreBits,
               dq <- b_dq, enabled <- b_enabled, fresh <- b_fresh,
               taken <- b_taken, overrun <- b_overrun, pc <- b_pc,
               item <- b_item, at <- b_at, pass <- b_pass

ASSUME DequesAssumption   == SizeAssumption /\ Busy!SizeAssumption
ASSUME SleepersAssumption == Sleeper!KindsAssumption

WaitingInit ==
  /\ asleep \in BOOLEAN /\ busy \in BOOLEAN /\ (asleep => busy)
  /\ Sleeper!Init /\ Init /\ Busy!Init

Sleeps(A) == asleep /\ A /\ UNCHANGED <<chosen, vars, secondVars>>
First(A)  == ~asleep /\ ~busy /\ A /\ UNCHANGED <<chosen, sleeperVars, secondVars>>
Second(A) == ~asleep /\ busy /\ A /\ UNCHANGED <<chosen, sleeperVars, vars>>

WaitingNext == Sleeps(Sleeper!Next) \/ First(Next) \/ Second(Busy!Next)

WaitingSafety == WaitingInit /\ [][WaitingNext]_all

(* The fairness of SuspendResume.  Threads of the first team finish what    *)
(* they have begun and keep looking for tasks; in the second only the       *)
(* outside threads are sure to run.                                         *)
WaitingSpec ==
  /\ WaitingSafety
  /\ WF_sleeperVars(Sleeps(Sleeper!Waiter)) /\ WF_sleeperVars(Sleeps(Sleeper!Signaled))
  /\ SF_sleeperVars(Sleeps(Sleeper!Releaser))
  /\ \A t \in 0..N-1 : WF_vars(First(~overrun /\ (Pushing(t) \/ Taking(t))))
  /\ \A p \in Given : WF_secondVars(Second(~b_overrun /\ Busy!Giving(p)))

(***************************************************************************)
(* No wake-up of the thread that sleeps is lost, and whoever has its mutex  *)
(* finds th_sleep_loc NULL or a live flag.                                  *)
(***************************************************************************)
SleepersAreWoken == Sleeper!SleepersAreWoken
SleepLocIsLive   == Sleeper!SleepLocIsLive

(***************************************************************************)
(* Nothing is written outside of a deque's buffer by the team or by those   *)
(* that give it proxies.                                                    *)
(***************************************************************************)
SpaceInDeques == SpaceInDeque /\ Busy!SpaceInDeque

(***************************************************************************)
(* Whoever waits goes on: every task that was deferred is taken up by       *)
(* threads that keep looking for tasks, even when all of them fill their    *)
(* own deques; every completed proxy task finds a deque with room, or one   *)
(* that may be doubled; and the thread that sleeps goes through all of its  *)
(* waits, whatever stray wakers do.                                         *)
(***************************************************************************)
EveryoneGoesOn ==
  IF asleep THEN Sleeper!EveryWaitEnds
  ELSE EveryTaskRuns /\ Busy!ProxyIsGiven
=============================================================================
