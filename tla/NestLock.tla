------------------------------ MODULE NestLock ------------------------------
(***************************************************************************)
(* The nested ticket lock of runtime/src/kmp_lock.cpp.  It wraps the ticket *)
(* lock: a thread that finds itself in owner_id only counts in              *)
(* depth_locked, every other one acquires the lock below and then writes    *)
(* both fields.  A lock whose depth_locked is -1 is a simple one.  Nobody   *)
(* but the owner uses depth_locked, so that its update and the one of       *)
(* owner_id that follows it are one step.                                   *)
(*                                                                          *)
(* The nested queuing and DRDPA locks are the same functions over another   *)
(* lock; those of the locks that have no owner_id are in TasLock.           *)
(***************************************************************************)
EXTENDS TicketLock, Integers

CONSTANT MaxDepth            \* bound of the nesting

ASSUME DepthAssumption == MaxDepth \in Nat \ {0}

VARIABLES
  depth_locked,              \* the field of the lock
  sections                   \* how many of the sections that every thread has
                             \* entered it has not left yet

nest     == <<depth_locked, sections>>
nestVars == <<vars, nest>>

Simple == depth_locked = -1

NestInit ==
  /\ Init
  /\ depth_locked \in {-1, 0}
  /\ sections = [i \in Id |-> 0]

Opens(i)  == sections' = [sections EXCEPT ![i] = @ + 1]
Closes(i) == sections' = [sections EXCEPT ![i] = @ - 1]

(* Where a thread may call the lock: a nested lock also when it has it.     *)
Calls(i) == pc[i] = "idle" \/ (pc[i] = "held" /\ sections[i] < MaxDepth)

Deepen(i) ==
  /\ owner_id = i
  /\ depth_locked' = depth_locked + 1
  /\ Opens(i)
  /\ UNCHANGED vars

-----------------------------------------------------------------------------
SetNestLock(i) ==
  /\ ~Simple /\ Calls(i)
  /\ \/ Deepen(i)
     \/ /\ owner_id # i
        /\ pc' = [pc EXCEPT ![i] = "draw"]
        /\ UNCHANGED <<next_ticket, now_serving, owner_id, my_ticket, nest>>

TestNestLock(i) ==
  /\ ~Simple /\ Calls(i)
  /\ \/ Deepen(i)
     \/ owner_id # i /\ TestLock(i) /\ UNCHANGED nest

OwnNest(i) ==
  /\ ~Simple
  /\ Own(i)
  /\ depth_locked' = 1
  /\ Opens(i)

(* Mutant: every unset lets the lock go.                                    *)
UnsetNestLock_Any(i) ==
  /\ ~Simple /\ pc[i] = "held"
  /\ UnsetLock(i)
  /\ depth_locked' = depth_locked - 1
  /\ Closes(i)

UnsetNestLock(i) ==
  /\ ~Simple /\ pc[i] = "held"
  /\ IF owner_id # i \/ depth_locked = 1
     THEN UnsetLock(i)
     ELSE UNCHANGED vars
  /\ IF owner_id = i
     THEN depth_locked' = depth_locked - 1 /\ Closes(i)
     ELSE UNCHANGED nest

-----------------------------------------------------------------------------
(* The part of the code that both kinds share, and the simple lock's own.   *)
Below(i) ==
  /\ Draw(i) \/ Enter(i) \/ TestServed(i) \/ TestCas(i) \/ Release(i)
  /\ UNCHANGED nest

SimpleCall(i) == Simple /\ Call(i) /\ UNCHANGED nest

SimpleOwn(i) == Simple /\ (Own(i) \/ UnsetLock(i)) /\ UNCHANGED nest

NestCall(i) == SetNestLock(i) \/ TestNestLock(i)

NestRunning(i) ==
  Below(i) \/ SimpleOwn(i) \/ OwnNest(i) \/ UnsetNestLock(i)

NestNext == (\E i \in Id : SimpleCall(i) \/ NestCall(i) \/ NestRunning(i))
              /\ NoFullTurn

-----------------------------------------------------------------------------
(***************************************************************************)
(* A thread is in sections of a nested lock only while it has the lock, and *)
(* the lock's depth is the number of them: although owner_id is read while  *)
(* other threads write it, no thread takes itself for the owner when it is  *)
(* not, and only the last unset lets the lock go.                           *)
(***************************************************************************)
DepthIsExact ==
  /\ \A i \in Id : sections[i] > 0 =>
       /\ pc[i] = "held" /\ owner_id = i
       /\ depth_locked = sections[i]
  /\ ~Simple => \A i \in Id : pc[i] = "held" => sections[i] > 0

(* With the invariant of the lock below it is inductive.                    *)
NestTypeOK ==
  /\ depth_locked \in Nat \cup {-1}
  /\ sections \in [Id -> Nat]
  /\ Simple => sections = [i \in Id |-> 0]

NestIInv == IInv /\ NestTypeOK /\ DepthIsExact
=============================================================================
