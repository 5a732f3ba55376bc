------------------------------ MODULE TasLock -------------------------------
(***************************************************************************)
(* The test-and-set lock of runtime/src/kmp_lock.cpp, simple and nested.    *)
(* The lock word poll names the owner, 0 when the lock is free, so that a   *)
(* nested lock needs no other field than depth_locked, -1 in a simple lock. *)
(* Threads are named by gtid + 1.                                           *)
(***************************************************************************)
EXTENDS Integers

CONSTANTS
  N,                         \* the number of threads
  MaxDepth                   \* bound of the nesting

Id == 1..N

VARIABLES
  poll, depth_locked,        \* the fields of the lock
  pc,                        \* where every thread is
  sections                   \* the sections of a nested lock it is in

vars == <<poll, depth_locked, pc, sections>>

Simple == depth_locked = -1

Init ==
  /\ poll = 0
  /\ depth_locked \in {-1, 0}
  /\ pc = [i \in Id |-> "idle"]
  /\ sections = [i \in Id |-> 0]

Goto(i, from, to) ==
  /\ pc[i] = from
  /\ pc' = [pc EXCEPT ![i] = to]

Has(i)    == pc[i] = "held"
Opens(i)  == sections' = [sections EXCEPT ![i] = @ + 1]
Closes(i) == sections' = [sections EXCEPT ![i] = @ - 1]

(* What a thread does when its compare-and-swap of the word has succeeded.  *)
Take(i, from) ==
  /\ poll = 0
  /\ Goto(i, from, "held")
  /\ poll' = i
  /\ IF Simple
     THEN UNCHANGED <<depth_locked, sections>>
     ELSE depth_locked' = 1 /\ Opens(i)

-----------------------------------------------------------------------------
(* omp_set_lock and omp_test_lock.                                          *)

SetLock(i) ==
  /\ Simple
  /\ Goto(i, "idle", IF poll = i THEN "fatal" ELSE "spin")
  /\ UNCHANGED <<poll, depth_locked, sections>>

Spin(i) == Take(i, "spin")

TestLock(i) == Take(i, "idle")

UnsetLock(i) ==
  /\ Simple
  /\ IF poll = i
     THEN Goto(i, "held", "idle") /\ poll' = 0
     ELSE Goto(i, "held", "fatal") /\ UNCHANGED poll
  /\ UNCHANGED <<depth_locked, sections>>

-----------------------------------------------------------------------------
(* omp_set_nest_lock, omp_test_nest_lock and omp_unset_nest_lock.           *)

Deepen(i) ==
  /\ ~Simple /\ pc[i] \in {"idle", "held"}
  /\ sections[i] < MaxDepth
  /\ poll = i
  /\ depth_locked' = depth_locked + 1
  /\ Opens(i)
  /\ UNCHANGED <<poll, pc>>

SetNestLock(i) ==
  /\ ~Simple
  /\ poll # i
  /\ Goto(i, "idle", "spin")
  /\ UNCHANGED <<poll, depth_locked, sections>>

UnsetNestLock(i) ==
  /\ ~Simple /\ Has(i)
  /\ IF poll # i
     THEN Goto(i, "held", "fatal") /\ UNCHANGED <<poll, depth_locked, sections>>
     ELSE /\ depth_locked' = depth_locked - 1
          /\ Closes(i)
          /\ IF depth_locked = 1
             THEN Goto(i, "held", "idle") /\ poll' = 0
             ELSE UNCHANGED <<poll, pc>>

-----------------------------------------------------------------------------
Call(i) == SetLock(i) \/ TestLock(i) \/ Deepen(i) \/ SetNestLock(i)

Running(i) == Spin(i) \/ UnsetLock(i) \/ UnsetNestLock(i)

Next == \E i \in Id : Call(i) \/ Running(i)

-----------------------------------------------------------------------------
(***************************************************************************)
(* At most one thread has the lock, poll names it, and the depth of a       *)
(* nested lock is the number of sections that its owner is in: only the     *)
(* last unset lets the lock go.  No thread is stopped by a check.           *)
(***************************************************************************)
DepthIsExact ==
  \A i \in Id :
    /\ pc[i] # "fatal"
    /\ Has(i) <=> poll = i
    /\ sections[i] > 0 => Has(i)
    /\ Has(i) /\ ~Simple => depth_locked = sections[i] /\ sections[i] > 0

(* With their types it is inductive.                                        *)
TypeOK ==
  /\ poll \in Id \cup {0}
  /\ pc \in [Id -> {"idle", "spin", "held", "fatal"}]
  /\ depth_locked \in Nat \cup {-1}
  /\ sections \in [Id -> Nat]
  /\ Simple => sections = [i \in Id |-> 0]

IInv == TypeOK /\ DepthIsExact
=============================================================================
