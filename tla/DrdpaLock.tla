------------------------------ MODULE DrdpaLock ------------------------------
(***************************************************************************)
(* The DRDPA ticket lock of runtime/src/kmp_lock.cpp ("dynamically          *)
(* reconfigurable distributed polling area").  The release counter of a     *)
(* ticket lock is spread over an area of poll words, ticket & mask names    *)
(* the word a thread polls.  The holder replaces the area by a larger one   *)
(* when many threads wait, by a single word when the machine is             *)
(* oversubscribed, and frees the old one when every thread that may still   *)
(* poll it has been served.                                                 *)
(*                                                                          *)
(* One action is one access to polls, to mask or to a poll word; the rest   *)
(* of the critical section is private to the holder.  Threads are named by  *)
(* gtid + 1.                                                                *)
(***************************************************************************)
EXTENDS Naturals, Sequences, FiniteSets

CONSTANTS
  N,                         \* the number of threads
  Testers,                   \* those that call omp_test_lock
  Oversubscribed,            \* the values of __kmp_nth > __kmp_avail_proc
  MaxTicket                  \* bound of next_ticket

(* What the constants must be; assumed where they get their values.         *)
Assumptions ==
  /\ N \in Nat \ {0} /\ Testers \subseteq 1..N
  /\ Oversubscribed \subseteq BOOLEAN
  /\ MaxTicket \in Nat

Id == 1..N

VARIABLES
  next_ticket, now_serving, owner_id,    \* the fields of the lock; an area
  polls, old_polls, mask,                \* is named by its place in areas,
  num_polls, cleanup_ticket,             \* 0 is NULL
  areas,                                 \* every polling area allocated
  pc,
  ticket, my_mask, my_polls,             \* the locals of acquire and test
  fault                                  \* the thread that accessed a poll
                                         \* word outside of its area, or in a
                                         \* freed one; 0 if none has

lock   == <<next_ticket, now_serving, owner_id>>
config == <<polls, old_polls, mask, num_polls, cleanup_ticket, areas>>
locals == <<ticket, my_mask, my_polls>>
vars   == <<lock, config, pc, locals, fault>>

NewArea(n) ==
  [size |-> n, poll |-> [k \in 0..n-1 |-> 0], freed |-> FALSE]

Init ==
  /\ next_ticket = 0 /\ now_serving = 0 /\ owner_id = 0
  /\ polls = 1 /\ old_polls = 0 /\ mask = 0
  /\ num_polls = 1 /\ cleanup_ticket = 0
  /\ areas = <<NewArea(1)>>
  /\ pc = [i \in Id |-> "idle"]
  /\ ticket = [i \in Id |-> 0]
  /\ my_mask = [i \in Id |-> 0]
  /\ my_polls = [i \in Id |-> 0]
  /\ fault = 0

Goto(i, from, to) ==
  /\ pc[i] = from
  /\ pc' = [pc EXCEPT ![i] = to]

(* ticket & mask, where mask + 1 is a power of two.                         *)
Slot(t, m) == t % (m + 1)

Accessible(p, k) == ~areas[p].freed /\ k < areas[p].size

ReadMask(i)  == my_mask' = [my_mask EXCEPT ![i] = mask]
ReadPolls(i) == my_polls' = [my_polls EXCEPT ![i] = polls]

Forget(i) ==
  /\ ticket' = [ticket EXCEPT ![i] = 0]
  /\ my_mask' = [my_mask EXCEPT ![i] = 0]
  /\ my_polls' = [my_polls EXCEPT ![i] = 0]

-----------------------------------------------------------------------------
(* omp_set_lock, up to the critical section.                                *)

SetLock(i) ==
  /\ Goto(i, "idle", IF owner_id = i THEN "fatal" ELSE "draw")
  /\ UNCHANGED <<lock, config, locals, fault>>

Draw(i) ==
  /\ next_ticket < MaxTicket
  /\ Goto(i, "draw", "mask")
  /\ ticket' = [ticket EXCEPT ![i] = next_ticket]
  /\ next_ticket' = next_ticket + 1
  /\ UNCHANGED <<now_serving, owner_id, config, my_mask, my_polls, fault>>

AcqMask(i) ==
  /\ Goto(i, "mask", "polls")
  /\ ReadMask(i)
  /\ UNCHANGED <<lock, config, ticket, my_polls, fault>>

AcqPolls(i) ==
  /\ Goto(i, "polls", "poll")
  /\ ReadPolls(i)
  /\ UNCHANGED <<lock, config, ticket, my_mask, fault>>

(* Mutant: the area is not read again while the thread waits.               *)
AcqPoll_NoReread(i) ==
  LET p == my_polls[i]
      k == Slot(ticket[i], my_mask[i]) IN
  /\ pc[i] = "poll"
  /\ IF ~Accessible(p, k)
     THEN fault' = i /\ UNCHANGED pc
     ELSE /\ Goto(i, "poll", IF areas[p].poll[k] < ticket[i] THEN "poll" ELSE "enter")
          /\ UNCHANGED fault
  /\ UNCHANGED <<lock, config, locals>>

AcqPoll(i) ==
  LET p == my_polls[i]
      k == Slot(ticket[i], my_mask[i]) IN
  /\ pc[i] = "poll"
  /\ IF ~Accessible(p, k)
     THEN fault' = i /\ UNCHANGED pc
     ELSE /\ Goto(i, "poll", IF areas[p].poll[k] < ticket[i] THEN "mask" ELSE "enter")
          /\ UNCHANGED fault
  /\ UNCHANGED <<lock, config, locals>>

-----------------------------------------------------------------------------
(* The critical section: free the garbage area, then decide whether to      *)
(* replace the area.  my_polls holds the area that was polled, which is the *)
(* one to be replaced.                                                      *)

Free(p) == [areas EXCEPT ![p].freed = TRUE]

(* Mutant: the old area is freed by the first thread after the one that     *)
(* replaced it.                                                             *)
Enter_FreesEarly(i) ==
  /\ Goto(i, "enter", IF old_polls = 0 \/ ticket[i] > 0 THEN "size" ELSE "own")
  /\ now_serving' = ticket[i]
  /\ IF old_polls # 0
     THEN areas' = Free(old_polls) /\ old_polls' = 0 /\ cleanup_ticket' = 0
     ELSE UNCHANGED <<areas, old_polls, cleanup_ticket>>
  /\ UNCHANGED <<next_ticket, owner_id, polls, mask, num_polls, locals, fault>>

Enter(i) ==
  LET clean == old_polls # 0 /\ ticket[i] >= cleanup_ticket IN
  /\ Goto(i, "enter", IF old_polls = 0 \/ clean THEN "size" ELSE "own")
  /\ now_serving' = ticket[i]
  /\ IF clean
     THEN areas' = Free(old_polls) /\ old_polls' = 0 /\ cleanup_ticket' = 0
     ELSE UNCHANGED <<areas, old_polls, cleanup_ticket>>
  /\ UNCHANGED <<next_ticket, owner_id, polls, mask, num_polls, locals, fault>>

Waiting(i) == next_ticket - ticket[i] - 1

(* do num_polls *= 2 while (num_polls <= num_waiting): the factor.         *)
Growth(i) ==
  {f \in 2..2 * N :
     /\ \E k \in 1..f : f = 2^k
     /\ num_polls * f > Waiting(i)
     /\ f = 2 \/ num_polls * (f \div 2) <= Waiting(i)}

(* The new mask is kept in the local one, which may be older than mask.     *)
Reconfigure(i, m, a) ==
  /\ Goto(i, "size", "install")
  /\ areas' = Append(areas, a)
  /\ my_mask' = [my_mask EXCEPT ![i] = m]
  /\ UNCHANGED <<lock, polls, old_polls, mask, num_polls, cleanup_ticket,
                 ticket, my_polls, fault>>

Keep(i) ==
  /\ Goto(i, "size", "own")
  /\ UNCHANGED <<lock, config, locals, fault>>

Contract(i) ==
  IF num_polls > 1
  THEN Reconfigure(i, 0, [NewArea(1) EXCEPT !.poll[0] = ticket[i]])
  ELSE Keep(i)

Expand(i) ==
  IF Waiting(i) > num_polls
  THEN \E f \in Growth(i) :
         LET old == areas[my_polls[i]].poll
             n   == num_polls * f
         IN Reconfigure(i, (my_mask[i] + 1) * f - 1,
              [NewArea(n) EXCEPT !.poll =
                 [k \in 0..n-1 |-> IF k < num_polls THEN old[k] ELSE 0]])
  ELSE Keep(i)

Size(i) ==
  /\ pc[i] = "size"
  /\ \/ TRUE \in Oversubscribed /\ Contract(i)
     \/ FALSE \in Oversubscribed /\ Expand(i)

(* polls is written before mask, mask before cleanup_ticket.                *)
Install(i) ==
  /\ Goto(i, "install", "remask")
  /\ old_polls' = my_polls[i]
  /\ polls' = Len(areas)
  /\ UNCHANGED <<lock, mask, num_polls, cleanup_ticket, areas, locals, fault>>

Remask(i) ==
  /\ Goto(i, "remask", "cleanup")
  /\ num_polls' = areas[polls].size
  /\ mask' = my_mask[i]
  /\ UNCHANGED <<lock, polls, old_polls, cleanup_ticket, areas, locals, fault>>

Cleanup(i) ==
  /\ Goto(i, "cleanup", "own")
  /\ cleanup_ticket' = next_ticket
  /\ UNCHANGED <<lock, polls, old_polls, mask, num_polls, areas, locals, fault>>

Own(i) ==
  /\ Goto(i, "own", "held")
  /\ owner_id' = i
  /\ Forget(i)
  /\ UNCHANGED <<next_ticket, now_serving, config, fault>>

-----------------------------------------------------------------------------
(* omp_test_lock reads polls before mask, and has no ticket meanwhile.      *)

TestLock(i) ==
  /\ i \in Testers
  /\ next_ticket < MaxTicket
  /\ Goto(i, "idle", "test_polls")
  /\ ticket' = [ticket EXCEPT ![i] = next_ticket]
  /\ UNCHANGED <<lock, config, my_mask, my_polls, fault>>

TestPolls(i) ==
  /\ Goto(i, "test_polls", "test_mask")
  /\ ReadPolls(i)
  /\ UNCHANGED <<lock, config, ticket, my_mask, fault>>

TestMask(i) ==
  /\ Goto(i, "test_mask", "test_poll")
  /\ ReadMask(i)
  /\ UNCHANGED <<lock, config, ticket, my_polls, fault>>

TestPoll(i) ==
  LET p == my_polls[i]
      k == Slot(ticket[i], my_mask[i]) IN
  /\ pc[i] = "test_poll"
  /\ IF ~Accessible(p, k)
     THEN fault' = i /\ UNCHANGED <<pc, locals>>
     ELSE /\ IF areas[p].poll[k] = ticket[i]
             THEN Goto(i, "test_poll", "test_cas") /\ UNCHANGED locals
             ELSE Goto(i, "test_poll", "idle") /\ Forget(i)
          /\ UNCHANGED fault
  /\ UNCHANGED <<lock, config>>

TestCas(i) ==
  /\ IF next_ticket = ticket[i]
     THEN /\ Goto(i, "test_cas", "own")
          /\ next_ticket' = next_ticket + 1
          /\ now_serving' = ticket[i]
          /\ UNCHANGED locals
     ELSE /\ Goto(i, "test_cas", "idle")
          /\ Forget(i)
          /\ UNCHANGED <<next_ticket, now_serving>>
  /\ UNCHANGED <<owner_id, config, fault>>

-----------------------------------------------------------------------------
(* omp_unset_lock.                                                          *)

UnsetLock(i) ==
  /\ IF owner_id = i
     THEN Goto(i, "held", "release") /\ owner_id' = 0
     ELSE Goto(i, "held", "fatal") /\ UNCHANGED owner_id
  /\ UNCHANGED <<next_ticket, now_serving, config, locals, fault>>

Release(i) ==
  LET t == now_serving + 1
      k == Slot(t, mask) IN
  /\ pc[i] = "release"
  /\ IF ~Accessible(polls, k)
     THEN fault' = i /\ UNCHANGED <<pc, areas>>
     ELSE /\ Goto(i, "release", "idle")
          /\ areas' = [areas EXCEPT ![polls].poll[k] = t]
          /\ UNCHANGED fault
  /\ UNCHANGED <<lock, polls, old_polls, mask, num_polls, cleanup_ticket, locals>>

-----------------------------------------------------------------------------
Call(i) == SetLock(i) \/ TestLock(i)

Running(i) ==
  \/ Draw(i) \/ AcqMask(i) \/ AcqPolls(i) \/ AcqPoll(i)
  \/ Enter(i) \/ Size(i) \/ Install(i) \/ Remask(i) \/ Cleanup(i) \/ Own(i)
  \/ TestPolls(i) \/ TestMask(i) \/ TestPoll(i) \/ TestCas(i)
  \/ UnsetLock(i) \/ Release(i)

(* After a bad access anything may happen: the model stops there.           *)
Next == fault = 0 /\ \E i \in Id : Call(i) \/ Running(i)

Spec == Init /\ [][Next]_vars

(* A thread that is in the lock's code goes on, and unsets what it has set. *)
FairSpec == Spec /\ \A i \in Id : WF_vars(fault = 0 /\ Running(i))

-----------------------------------------------------------------------------
Areas == 1..Len(areas)

TypeOK ==
  /\ {next_ticket, now_serving, cleanup_ticket} \subseteq 0..MaxTicket
  /\ owner_id \in Id \cup {0}
  /\ polls \in Areas /\ old_polls \in Areas \cup {0}
  /\ \A p \in Areas : DOMAIN areas[p].poll = 0..areas[p].size - 1
  /\ pc \in [Id -> {"idle", "draw", "mask", "polls", "poll", "enter", "size",
                    "install", "remask", "cleanup", "own", "held", "release",
                    "test_polls", "test_mask", "test_poll", "test_cas", "fatal"}]
  /\ my_polls \in [Id -> Areas \cup {0}]
  /\ fault \in Id \cup {0}

Carries(i) ==
  pc[i] \in {"enter", "size", "install", "remask", "cleanup", "own", "held",
             "release"}

Waiters == {i \in Id : pc[i] \in {"mask", "polls", "poll"}}

(* The thread that is served, from the draw of its ticket on.               *)
Served == {i \in Id : Carries(i)}
First  == {i \in Waiters : \A j \in Waiters : ticket[i] <= ticket[j]}
Holder ==
  IF Served # {} THEN CHOOSE i \in Served : TRUE
  ELSE IF First # {} THEN CHOOSE i \in First : TRUE
  ELSE 0

(***************************************************************************)
(* No thread reads or writes a poll word outside of its area or in an area  *)
(* that has been freed: what the comments on the order of polls and mask    *)
(* (kmp_lock.cpp:2551) and on the garbage area (kmp_lock.cpp:2572) are for. *)
(***************************************************************************)
AccessInArea == fault = 0

(***************************************************************************)
(* It holds of threads that set and unset the lock as long as the area only *)
(* expands: only a test, which has no ticket, or an access after a          *)
(* contraction goes wrong.                                                  *)
(***************************************************************************)
Contracted == \E p \in 2..Len(areas) : areas[p].size < areas[p - 1].size

ExpandsSafely == AccessInArea \/ pc[fault] = "test_poll" \/ Contracted

(***************************************************************************)
(* No area is lost and none is freed while it is in use: an area that is    *)
(* not freed is the current one, the garbage one or the one that the holder *)
(* is about to install.                                                     *)
(***************************************************************************)
AreasAccounted ==
  \A p \in Areas :
    areas[p].freed <=>
      /\ p \notin {polls, old_polls}
      /\ p = Len(areas) => \A i \in Id : pc[i] # "install"

(***************************************************************************)
(* A thread that has drawn a ticket is served, although the area it polls   *)
(* may be replaced at any time, unless an access goes wrong.                *)
(***************************************************************************)
TicketIsServed ==
  \A i \in Id : pc[i] = "mask" ~> (pc[i] = "held" \/ ~AccessInArea)
=============================================================================
