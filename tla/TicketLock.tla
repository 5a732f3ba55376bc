----------------------------- MODULE TicketLock -----------------------------
(***************************************************************************)
(* The ticket lock of runtime/src/kmp_lock.cpp, which the runtime uses as    *)
(* its bootstrap lock: a thread draws a ticket from next_ticket and waits   *)
(* until now_serving reaches it.  Both counters are unsigned and wrap.      *)
(* Threads are named by gtid + 1, as owner_id stores them.                  *)
(***************************************************************************)
EXTENDS Naturals, FiniteSets

CONSTANTS
  N,                         \* the number of threads
  Mod                        \* 2^32: tickets are counted modulo Mod

ASSUME NAssumption   == N \in Nat \ {0}
ASSUME ModAssumption == Mod \in Nat /\ Mod > N

Id     == 1..N
Ticket == 0..Mod-1

VARIABLES
  next_ticket, now_serving, owner_id,    \* the fields of the lock
  pc,                                    \* where every thread is
  my_ticket                              \* its local variable

vars == <<next_ticket, now_serving, owner_id, pc, my_ticket>>

PC == {"idle", "draw", "wait", "test", "test_cas", "own", "held", "release",
       "fatal"}

Init ==
  /\ next_ticket = 0 /\ now_serving = 0 /\ owner_id = 0
  /\ pc = [i \in Id |-> "idle"]
  /\ my_ticket = [i \in Id |-> 0]

(* Unsigned increment.                                                      *)
Inc(n) == IF n = Mod - 1 THEN 0 ELSE n + 1

Goto(i, from, to) ==
  /\ pc[i] = from
  /\ pc' = [pc EXCEPT ![i] = to]

Remember(i, n) == my_ticket' = [my_ticket EXCEPT ![i] = n]

-----------------------------------------------------------------------------
(* omp_set_lock.  A thread never sets a lock that it holds: "fatal" would   *)
(* be a mistake of the check.                                               *)

SetLock(i) ==
  /\ Goto(i, "idle", IF owner_id = i THEN "fatal" ELSE "draw")
  /\ UNCHANGED <<next_ticket, now_serving, owner_id, my_ticket>>

Draw(i) ==
  /\ Goto(i, "draw", "wait")
  /\ Remember(i, next_ticket)
  /\ next_ticket' = Inc(next_ticket)
  /\ UNCHANGED <<now_serving, owner_id>>

(* Mutant: every thread whose ticket is not later than now_serving enters.  *)
Enter_NotLater(i) ==
  /\ my_ticket[i] <= now_serving
  /\ Goto(i, "wait", "own")
  /\ UNCHANGED <<next_ticket, now_serving, owner_id, my_ticket>>

Enter(i) ==
  /\ my_ticket[i] = now_serving
  /\ Goto(i, "wait", "own")
  /\ UNCHANGED <<next_ticket, now_serving, owner_id, my_ticket>>

Own(i) ==
  /\ Goto(i, "own", "held")
  /\ owner_id' = i
  /\ Remember(i, 0)
  /\ UNCHANGED <<next_ticket, now_serving>>

-----------------------------------------------------------------------------
(* omp_test_lock.                                                           *)

TestLock(i) ==
  /\ Goto(i, "idle", "test")
  /\ Remember(i, next_ticket)
  /\ UNCHANGED <<next_ticket, now_serving, owner_id>>

TestServed(i) ==
  /\ IF my_ticket[i] = now_serving
     THEN Goto(i, "test", "test_cas") /\ UNCHANGED my_ticket
     ELSE Goto(i, "test", "idle") /\ Remember(i, 0)
  /\ UNCHANGED <<next_ticket, now_serving, owner_id>>

(* Mutant: next_ticket is stored without the compare.                       *)
TestCas_NoCompare(i) ==
  /\ Goto(i, "test_cas", "own")
  /\ next_ticket' = Inc(my_ticket[i])
  /\ UNCHANGED <<now_serving, owner_id, my_ticket>>

TestCas(i) ==
  /\ IF my_ticket[i] = next_ticket
     THEN /\ Goto(i, "test_cas", "own")
          /\ next_ticket' = Inc(next_ticket)
          /\ UNCHANGED my_ticket
     ELSE /\ Goto(i, "test_cas", "idle")
          /\ Remember(i, 0)
          /\ UNCHANGED next_ticket
  /\ UNCHANGED <<now_serving, owner_id>>

-----------------------------------------------------------------------------
(* omp_unset_lock: the owner is cleared before the lock is let go.          *)

UnsetLock(i) ==
  /\ IF owner_id = i
     THEN Goto(i, "held", "release") /\ owner_id' = 0
     ELSE Goto(i, "held", "fatal") /\ UNCHANGED owner_id
  /\ UNCHANGED <<next_ticket, now_serving, my_ticket>>

Release(i) ==
  /\ Goto(i, "release", "idle")
  /\ now_serving' = Inc(now_serving)
  /\ UNCHANGED <<next_ticket, owner_id, my_ticket>>

-----------------------------------------------------------------------------
Call(i)    == SetLock(i) \/ TestLock(i)

Running(i) ==
  \/ Draw(i) \/ Enter(i) \/ Own(i)
  \/ TestServed(i) \/ TestCas(i)
  \/ UnsetLock(i) \/ Release(i)

Next == \E i \in Id : Call(i) \/ Running(i)

(* No test lasts so long that all Mod tickets are drawn while it runs.      *)
NoFullTurn ==
  next_ticket' = next_ticket \/
    \A i \in Id : pc[i] \in {"test", "test_cas"} => my_ticket[i] # next_ticket'

Step == Next /\ NoFullTurn

Spec == Init /\ [][Step]_vars

(* A thread that is in the lock's code goes on, and unsets what it has set. *)
FairSpec == Spec /\ \A i \in Id : WF_vars(Running(i) /\ NoFullTurn)

-----------------------------------------------------------------------------
TypeOK ==
  /\ next_ticket \in Ticket /\ now_serving \in Ticket
  /\ owner_id \in Id \cup {0}
  /\ pc \in [Id -> PC]
  /\ my_ticket \in [Id -> Ticket]

Carries(i) == pc[i] \in {"own", "held", "release"}
Drawn      == {i \in Id : pc[i] = "wait" \/ Carries(i)}

(***************************************************************************)
(* Mutual exclusion: at most one thread is between the end of an acquire    *)
(* (or successful test) and the store of now_serving in its release.        *)
(***************************************************************************)
MutualExclusion == \A i, j \in Id : Carries(i) /\ Carries(j) => i = j

(* How many tickets after ticket s ticket n is, around the wrap.            *)
Distance(n, s) == IF n >= s THEN n - s ELSE n + Mod - s
Ahead(n)       == Distance(n, now_serving)

(***************************************************************************)
(* As many tickets are out as threads hold one, and no two waiting threads  *)
(* have the same one, even after the counters have wrapped.                 *)
(***************************************************************************)
TicketsDistinct ==
  /\ Ahead(next_ticket) = Cardinality(Drawn)
  /\ \A i \in Id : pc[i] = "wait" => Ahead(my_ticket[i]) < Ahead(next_ticket)
  /\ \A i, j \in Id :
       pc[i] = "wait" /\ pc[j] = "wait" /\ my_ticket[i] = my_ticket[j] => i = j
  /\ \A i, j \in Id : pc[i] = "wait" /\ Carries(j) => my_ticket[i] # now_serving

(***************************************************************************)
(* The owner checks never stop a correct program, although owner_id is read *)
(* while other threads write it.                                            *)
(***************************************************************************)
NoFalseFatal == \A i \in Id : pc[i] # "fatal"

(* The rest of the inductive invariant of TicketLock_proofs.                *)
Served == (\E i \in Id : Carries(i)) => next_ticket # now_serving

TestsTrue ==
  \A i \in Id : pc[i] = "test_cas" /\ my_ticket[i] = next_ticket
                  => now_serving = next_ticket

Owner == \A i \in Id : pc[i] # "fatal" /\ (pc[i] = "held" <=> owner_id = i)

IInv ==
  /\ TypeOK
  /\ MutualExclusion
  /\ TicketsDistinct
  /\ Served
  /\ TestsTrue
  /\ Owner
=============================================================================
