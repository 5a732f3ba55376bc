---------------------------- MODULE MCUserLocks -----------------------------
(***************************************************************************)
(* The user locks of a program: __kmp_set_user_lock_vptrs chooses one kind  *)
(* of lock, and every lock of the program, simple or nested, is of it.  The *)
(* variables of the other kinds stay as Init has them.  The ticket lock has *)
(* the names of its module, the other kinds have theirs with a prefix.      *)
(***************************************************************************)
EXTENDS NestLock, Sequences

CONSTANTS Testers, Oversubscribed, MaxTicket   \* of DrdpaLock

VARIABLES
  kind,                                  \* __kmp_user_lock_kind
  tas_poll, tas_depth_locked, tas_pc, tas_sections,
  dr_next_ticket, dr_now_serving, dr_owner_id, dr_pc,
  polls, old_polls, mask, num_polls, cleanup_ticket, areas,
  ticket, my_mask, my_polls, fault

tasVars == <<tas_poll, tas_depth_locked, tas_pc, tas_sections>>
drVars  == <<dr_next_ticket, dr_now_serving, dr_owner_id, dr_pc, polls,
             old_polls, mask, num_polls, cleanup_ticket, areas, ticket,
             my_mask, my_polls, fault>>
all     == <<kind, nestVars, tasVars, drVars>>

Tas == INSTANCE TasLock
         WITH poll <- tas_poll, depth_locked <- tas_depth_locked,
              pc <- tas_pc, sections <- tas_sections

Drdpa == INSTANCE DrdpaLock
           WITH next_ticket <- dr_next_ticket, now_serving <- dr_now_serving,
                owner_id <- dr_owner_id, pc <- dr_pc

ASSUME DrdpaAssumption == Drdpa!Assumptions

UserInit ==
  /\ kind \in {"tas", "ticket", "drdpa"}
  /\ NestInit /\ Tas!Init /\ Drdpa!Init
  /\ kind # "ticket" => Simple
  /\ kind # "tas"    => Tas!Simple

TasOnly(A)    == kind = "tas" /\ A /\ UNCHANGED <<kind, nestVars, drVars>>
TicketOnly(A) == kind = "ticket" /\ A /\ UNCHANGED <<kind, tasVars, drVars>>
DrdpaOnly(A)  == kind = "drdpa" /\ A /\ UNCHANGED <<kind, nestVars, tasVars>>

UserNext ==
  \/ TasOnly(Tas!Next)
  \/ TicketOnly(NestNext)
  \/ DrdpaOnly(Drdpa!Next)

UserRunning(i) ==
  \/ TasOnly(Tas!Running(i))
  \/ TicketOnly(NestRunning(i) /\ NoFullTurn)
  \/ DrdpaOnly(fault = 0 /\ Drdpa!Running(i))

UserSafety == UserInit /\ [][UserNext]_all

(* A thread that is in the lock's code goes on, and unsets what it has set. *)
(* It may still stay in the sections of a nested lock, setting it again     *)
(* whenever it has unset it.                                                *)
UserSpec ==
  /\ UserSafety
  /\ \A i \in Id : WF_all(UserRunning(i))

-----------------------------------------------------------------------------
(***************************************************************************)
(* The depth of a nested lock is exact, whichever lock is under it: only    *)
(* the last unset lets it go, and while threads are in their sections the   *)
(* owner that is recorded, apart or in the lock's word, is the one.         *)
(***************************************************************************)
NestingIsExact == DepthIsExact /\ Tas!DepthIsExact

(***************************************************************************)
(* DrdpaLock's own: nobody polls outside of an area, or in a freed one,     *)
(* except a test or after a contraction; and no area is lost.               *)
(***************************************************************************)
AreasAreSafe == Drdpa!ExpandsSafely /\ Drdpa!AreasAccounted

(* The threads in a set, by a number of each.                               *)
InOrder(W, key) ==
  [k \in 1..Cardinality(W) |-> CHOOSE i \in W : Cardinality({j \in W : key[j] < key[i]}) = k - 1]

(* The thread that the ticket lock serves, from the draw of its ticket on,  *)
(* and the others, in the order of their tickets.                           *)
Holders == {i \in Drawn : Carries(i) \/ my_ticket[i] = now_serving}
Holder  == IF Holders = {} THEN 0 ELSE CHOOSE i \in Holders : TRUE
Queue   == InOrder(Drawn \ Holders, [i \in Id |-> Ahead(my_ticket[i])])

(* The same of the DRDPA lock.                                              *)
DrdpaQueue == InOrder(Drdpa!Waiters \ {Drdpa!Holder}, ticket)

(***************************************************************************)
(* The ticket and the DRDPA lock serve threads in the order in which they   *)
(* have drawn their tickets, nested or not and across reconfigurations; a   *)
(* test-and-set lock promises no order.                                     *)
(***************************************************************************)
Fifo == INSTANCE FifoLock
          WITH holder <- IF kind = "drdpa" THEN Drdpa!Holder ELSE Holder,
               queue  <- IF kind = "drdpa" THEN DrdpaQueue   ELSE Queue

ServedInOrder == Fifo!Safety

(***************************************************************************)
(* A thread that has drawn a ticket of a simple lock is served, although    *)
(* tickets wrap and the area it polls may be replaced, unless an access     *)
(* goes wrong.                                                              *)
(***************************************************************************)
TicketIsServed ==
  \A i \in Id :
    ((Simple /\ pc[i] = "wait") \/ dr_pc[i] = "mask")
      ~> (pc[i] = "held" \/ dr_pc[i] = "held" \/ fault # 0)
=============================================================================
