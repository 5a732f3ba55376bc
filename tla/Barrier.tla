------------------------------ MODULE Barrier ------------------------------
(***************************************************************************)
(* The team barriers of runtime/src/kmp_barrier.cpp: a gather, in which     *)
(* every thread waits for its children and then signals its parent through  *)
(* its b_arrived flag, and a release, in which every thread waits for its   *)
(* own b_go flag and then signals the b_go flags of its children.  The      *)
(* parents are those of the linear, the tree or the hyper pattern, and the  *)
(* two halves may have different patterns.  A reduction combines the data   *)
(* of the children during the gather.                                       *)
(*                                                                          *)
(* A flag is a state that a release bumps and a sleep bit, which a waiting  *)
(* thread sets to go to sleep; the signaller bumps the state first and then *)
(* looks at the bit to see whether it has to resume the thread it takes for *)
(* the waiter (kmp_wait_release.h; SuspendResume has the details).          *)
(***************************************************************************)
EXTENDS Naturals, FiniteSets, FiniteSetsExt

CONSTANTS
  N,                         \* t_nproc, the threads are 0..N-1
  GatherBits,                \* __kmp_barrier_gather_branch_bits
  ReleaseBits,               \* __kmp_barrier_release_branch_bits
  MaxRounds                  \* bound of the barriers a thread enters

ASSUME NAssumption      == N \in 1..64
ASSUME RoundsAssumption == MaxRounds \in Nat
ASSUME BitsAssumption   == {GatherBits, ReleaseBits} \subseteq 1..5

Patterns == {"linear", "tree", "hyper"}
Tids     == 0..N-1

-----------------------------------------------------------------------------
(* Who waits for whom in a gather with n threads and f = 2^bits branches.   *)

MaxTeam   == 24              \* bound of the teams the arithmetic is checked for
MaxLevels == 6               \* teams have at most 2^6 threads

Powers(f, n) == {f^l : l \in {k \in 0..MaxLevels - 1 : f^k < n}}

(* The levels of the hypercube at which thread t waits for children.        *)
Levels(t, n, f) == {p \in Powers(f, n) : t % (p * f) = 0}

GatherKids(pattern, t, n, f) ==
  {c \in 1..n-1 :
     \/ pattern = "linear" /\ t = 0
     \/ pattern = "tree" /\ \E k \in 1..f : c = t * f + k
     \/ pattern = "hyper" /\ \E p \in Levels(t, n, f), k \in 1..f-1 : c = t + k * p}

(* Mutant: the parent of a level is the one of the level below.             *)
Parent_LevelBelow(pattern, t, n, f) ==
  IF pattern = "linear" THEN 0
  ELSE IF pattern = "tree" THEN (t - 1) \div f
  ELSE LET p == Min({q \in Powers(f, n) : (t \div q) % f # 0}) IN t - (t % p)

(* The thread that a worker wakes when it has arrived.                      *)
Parent(pattern, t, n, f) ==
  IF pattern = "linear" THEN 0
  ELSE IF pattern = "tree" THEN (t - 1) \div f
  ELSE LET p == Min({q \in Powers(f, n) : (t \div q) % f # 0})
       IN t - (t % (p * f))

(* num_threads >> (level == 0 ? level : level - 1), at most f - 1: where     *)
(* the reverse hyper release begins at the level of distance p.             *)
Highest(n, p, f) ==
  Min({IF p = 1 THEN n ELSE n \div (p \div 2), f - 1})

ReleaseKids(pattern, t, n, f) ==
  IF pattern # "hyper" THEN GatherKids(pattern, t, n, f)
  ELSE {c \in 1..n-1 :
          \E p \in Levels(t, n, f) : \E k \in 1..Highest(n, p, f) : c = t + k * p}

-----------------------------------------------------------------------------
VARIABLES
  pattern,                   \* of the gather and of the release
  arrived, go,               \* the flags of every thread
  team_arrived,              \* b_arrived of the team
  reduce_data,               \* how often each thread's data is in the data
                             \* of every thread
  pc,
  kids,                      \* the children still to be waited for or woken
  new_state,                 \* the local variable of the gather
  asleep,                    \* the threads that sleep
  entered, left              \* how many barriers each has entered and left

flags  == <<arrived, go, team_arrived>>
locals == <<pc, kids, new_state>>
counts == <<entered, left>>
vars   == <<pattern, flags, reduce_data, locals, asleep, counts>>

Flag(s, b) == [state |-> s, sleep |-> b]
Bump(flag) == [flag EXCEPT !.state = @ + 1]

Init ==
  /\ pattern \in [{"gather", "release"} -> Patterns]
  /\ arrived = [t \in Tids |-> Flag(0, FALSE)]
  /\ go = [t \in Tids |-> Flag(0, FALSE)]
  /\ team_arrived = 0
  /\ reduce_data = [t \in Tids |-> [u \in Tids |-> 0]]
  /\ pc = [t \in Tids |-> "work"]
  /\ kids = [t \in Tids |-> {}]
  /\ new_state = [t \in Tids |-> 0]
  /\ asleep = {}
  /\ entered = [t \in Tids |-> 0]
  /\ left = [t \in Tids |-> 0]

Set(f, t, x) == [f EXCEPT ![t] = x]
Goto(t, from, to) == pc[t] = from /\ pc' = Set(pc, t, to)

(* __kmp_resume: w wakes up if it sleeps on the flag.                       *)
Resume(w, sleepsHere) ==
  asleep' = IF sleepsHere THEN asleep \ {w} ELSE asleep

Clear(flag) == [flag EXCEPT !.sleep = FALSE]

-----------------------------------------------------------------------------
(* Gather.                                                                  *)

Child(t)     == Min(kids[t])
Gathering(t) == pc[t] = "gather" /\ kids[t] # {}

Enter(t) ==
  /\ entered[t] < MaxRounds
  /\ Goto(t, "work", "gather")
  /\ entered' = Set(entered, t, entered[t] + 1)
  /\ reduce_data' = Set(reduce_data, t, [u \in Tids |-> IF u = t THEN 1 ELSE 0])
  /\ kids' = Set(kids, t, GatherKids(pattern["gather"], t, N, 2^GatherBits))
  /\ new_state' = Set(new_state, t, team_arrived + 1)
  /\ UNCHANGED <<pattern, flags, asleep, left>>

(* Mutant: the parent does not wait for the data of its child.              *)
Gather_NotBelow(t) ==
  LET c == Child(t) IN
  /\ Gathering(t) /\ t \notin asleep
  /\ pc[c] = "gather" \/ arrived[c] = Flag(new_state[t], FALSE)
  /\ reduce_data' = Set(reduce_data, t,
       [u \in Tids |-> reduce_data[t][u] + reduce_data[c][u]])
  /\ kids' = Set(kids, t, kids[t] \ {c})
  /\ UNCHANGED <<pattern, flags, pc, new_state, asleep, counts>>

Gather(t) ==
  LET c == Child(t) IN
  /\ Gathering(t) /\ t \notin asleep
  /\ arrived[c] = Flag(new_state[t], FALSE)
  /\ reduce_data' = Set(reduce_data, t,
       [u \in Tids |-> reduce_data[t][u] + reduce_data[c][u]])
  /\ kids' = Set(kids, t, kids[t] \ {c})
  /\ UNCHANGED <<pattern, flags, pc, new_state, asleep, counts>>

(* The blocktime is over: the thread sleeps on the flag it waits for.       *)
GatherSleep(t) ==
  LET c == Child(t) IN
  /\ Gathering(t) /\ t \notin asleep
  /\ arrived[c].state # new_state[t]
  /\ arrived' = [arrived EXCEPT ![c].sleep = TRUE]
  /\ asleep' = asleep \cup {t}
  /\ UNCHANGED <<pattern, go, team_arrived, reduce_data, locals, counts>>

Arrive(t) ==
  /\ t # 0 /\ kids[t] = {}
  /\ Goto(t, "gather", "arrived")
  /\ arrived' = Set(arrived, t, Bump(arrived[t]))
  /\ UNCHANGED <<pattern, go, team_arrived, reduce_data, kids, new_state, asleep, counts>>

ArriveWake(t) ==
  LET w == Parent(pattern["gather"], t, N, 2^GatherBits) IN
  /\ Goto(t, "arrived", "wait_go")
  /\ arrived' = Set(arrived, t, Clear(arrived[t]))
  /\ Resume(w, arrived[t].sleep /\ Gathering(w) /\ Child(w) = t)
  /\ UNCHANGED <<pattern, go, team_arrived, reduce_data, kids, new_state, counts>>

(* The kids of a thread that is about to release.                           *)
Released(t) == Set(kids, t, ReleaseKids(pattern["release"], t, N, 2^ReleaseBits))

Gathered ==
  /\ kids[0] = {}
  /\ Goto(0, "gather", "release")
  /\ team_arrived' = new_state[0]
  /\ kids' = Released(0)
  /\ new_state' = Set(new_state, 0, 0)
  /\ UNCHANGED <<pattern, arrived, go, reduce_data, asleep, counts>>

-----------------------------------------------------------------------------
(* Release.                                                                 *)

(* Mutant: the flag is not set back for the next barrier.                   *)
WaitGo_NoReset(t) ==
  /\ t \notin asleep
  /\ go[t] = Flag(1, FALSE)
  /\ Goto(t, "wait_go", "release")
  /\ kids' = Released(t)
  /\ new_state' = Set(new_state, t, 0)
  /\ UNCHANGED <<pattern, flags, reduce_data, asleep, counts>>

WaitGo(t) ==
  /\ t \notin asleep
  /\ go[t] = Flag(1, FALSE)
  /\ Goto(t, "wait_go", "release")
  /\ go' = Set(go, t, Flag(0, FALSE))
  /\ kids' = Released(t)
  /\ new_state' = Set(new_state, t, 0)
  /\ UNCHANGED <<pattern, arrived, team_arrived, reduce_data, asleep, counts>>

GoSleep(t) ==
  /\ pc[t] = "wait_go" /\ t \notin asleep
  /\ go[t].state = 0
  /\ go' = [go EXCEPT ![t].sleep = TRUE]
  /\ asleep' = asleep \cup {t}
  /\ UNCHANGED <<pattern, arrived, team_arrived, reduce_data, locals, counts>>

(* The reverse hyper release wakes the last child first.                    *)
Target(t) == IF pattern["release"] = "hyper" THEN Max(kids[t]) ELSE Min(kids[t])

Release(t) ==
  LET c == Target(t) IN
  /\ kids[t] # {}
  /\ Goto(t, "release", "released")
  /\ go' = Set(go, c, Bump(go[c]))
  /\ UNCHANGED <<pattern, arrived, team_arrived, reduce_data, kids, new_state, asleep, counts>>

ReleaseWake(t) ==
  LET c == Target(t) IN
  /\ Goto(t, "released", "release")
  /\ go' = Set(go, c, Clear(go[c]))
  /\ Resume(c, go[c].sleep /\ pc[c] = "wait_go")
  /\ kids' = Set(kids, t, kids[t] \ {c})
  /\ UNCHANGED <<pattern, arrived, team_arrived, reduce_data, new_state, counts>>

Leave(t) ==
  /\ kids[t] = {}
  /\ Goto(t, "release", "work")
  /\ left' = Set(left, t, left[t] + 1)
  /\ UNCHANGED <<pattern, flags, reduce_data, kids, new_state, asleep, entered>>

-----------------------------------------------------------------------------
Sleep(t) == GatherSleep(t) \/ GoSleep(t)

Running(t) ==
  \/ Gather(t) \/ Arrive(t) \/ ArriveWake(t) \/ (t = 0 /\ Gathered)
  \/ WaitGo(t) \/ Release(t) \/ ReleaseWake(t) \/ Leave(t)

Next == \E t \in Tids : Enter(t) \/ Running(t) \/ Sleep(t)

Spec == Init /\ [][Next]_vars

(* A thread in a barrier keeps running; it need not enter the next one.     *)
FairSpec == Spec /\ \A t \in Tids : WF_vars(Running(t))

-----------------------------------------------------------------------------
Flags == [state : 0..MaxRounds, sleep : BOOLEAN]

TypeOK ==
  /\ pattern \in [{"gather", "release"} -> Patterns]
  /\ arrived \in [Tids -> Flags]
  /\ go \in [Tids -> [state : {0, 1}, sleep : BOOLEAN]]
  /\ team_arrived \in 0..MaxRounds
  /\ reduce_data \in [Tids -> [Tids -> Nat]]
  /\ pc \in [Tids -> {"work", "gather", "arrived", "wait_go", "release", "released"}]
  /\ kids \in [Tids -> SUBSET Tids]
  /\ new_state \in [Tids -> 0..MaxRounds]
  /\ asleep \subseteq Tids
  /\ entered \in [Tids -> 0..MaxRounds] /\ left \in [Tids -> 0..MaxRounds]

(***************************************************************************)
(* The barrier implements BarrierSpec: nobody leaves before everybody has   *)
(* entered, however fast some threads enter the next barrier, and everybody *)
(* leaves, however the threads fall asleep.                                 *)
(***************************************************************************)
Abstract == INSTANCE BarrierSpec

ImplementsBarrier == Abstract!Spec

(***************************************************************************)
(* When the gather is over the master's data holds the data of every thread *)
(* exactly once, in every pattern and also if threads are fast or slow.     *)
(***************************************************************************)
ReductionComplete ==
  pc[0] \in {"release", "released"} => \A u \in Tids : reduce_data[0][u] = 1

(***************************************************************************)
(* No wake-up is lost: a thread that sleeps has its bit set in the flag it  *)
(* waits for, and that flag has not been released or the releasing thread   *)
(* is about to look at the bit and will take it for the waiter.             *)
(***************************************************************************)
SleepersAreWoken ==
  \A t \in asleep :
    \/ /\ Gathering(t)
       /\ LET c == Child(t) IN
            /\ arrived[c].sleep
            /\ Parent(pattern["gather"], c, N, 2^GatherBits) = t
            /\ arrived[c].state = new_state[t] => pc[c] = "arrived"
    \/ /\ pc[t] = "wait_go"
       /\ go[t].sleep
       /\ go[t].state = 1 => \E u \in Tids : pc[u] = "released" /\ Target(u) = t

(***************************************************************************)
(* The arithmetic of the patterns, for teams of up to MaxTeam threads and   *)
(* up to 8 branches: before anybody enters, the threads that a thread will  *)
(* wait for and those that it will release are just the ones that take it   *)
(* for their parent when they have arrived.  It depends on no variable, so  *)
(* the states after the first barrier has begun need not repeat it.         *)
(***************************************************************************)
Agree(p, t, n, f) ==
  LET children == {c \in 1..n-1 : Parent(p, c, n, f) = t} IN
  GatherKids(p, t, n, f) = children /\ ReleaseKids(p, t, n, f) = children

ParentsAgree ==
  (\A t \in Tids : entered[t] = 0) =>
     \A p \in Patterns, n \in 1..MaxTeam, f \in {2, 4, 8} :
        \A t \in 0..n-1 : Agree(p, t, n, f)

(***************************************************************************)
(* A thread that sleeps is woken: by the thread that takes it for its       *)
(* parent, or that releases it, as in the flags' states and as the          *)
(* arithmetic of every pattern has it.                                      *)
(***************************************************************************)
ParentsAreWoken == SleepersAreWoken /\ ParentsAgree
=============================================================================
