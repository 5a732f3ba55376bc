-------------------------- MODULE UserLocks_proofs --------------------------
(***************************************************************************)
(* The ticket lock excludes and serves in order, for every number of        *)
(* threads N and every width of the counters with more than N tickets; the  *)
(* depth of nested locks is exact, and the nested ticket lock excludes, for *)
(* every bound of the nesting, too; the DRDPA lock serves one thread at a   *)
(* time, frees no area too early, and accesses poll words within their      *)
(* areas until an area is contracted, for every set of testers and every    *)
(* bound of the tickets.                                                    *)
(*                                                                          *)
(* The tickets between now_serving and next_ticket, around the wrap, are    *)
(* as many as the threads that have drawn one (TicketsDistinct).  As there  *)
(* are more tickets than threads, a new ticket never meets one that is      *)
(* still out, and the one thread that now_serving names is alone.           *)
(*                                                                          *)
(* A nested ticket lock moves the lock below it as a simple one does, so    *)
(* that its IInv holds.  Of it the nesting needs Owner: the thread that     *)
(* finds itself in owner_id has the lock.  In the nested test-and-set lock  *)
(* the lock's word is the owner.                                            *)
(*                                                                          *)
(* The DRDPA lock's invariant speaks of a number s, the ticket that is      *)
(* served or will be next.  Whoever carries the lock has drawn it, and no   *)
(* word of any area is above it; a word outside of the current area has it  *)
(* only while the holder has replaced the area.  A thread that finds its    *)
(* ticket in a word of an area therefore has found it in the current one,   *)
(* alone.                                                                   *)
(*                                                                          *)
(* Who is served and who is in line, in the order of the tickets, are the   *)
(* two variables of FifoLock.  A sequence of threads in the order of their  *)
(* numbers grows at its end by a thread that has a higher one and loses its *)
(* head with the thread that has the lowest; numbers that keep their order  *)
(* keep the sequence.  That somebody is served while a ticket of the ticket *)
(* lock is out is a matter of counting: the threads in line have different  *)
(* distances from now_serving, all below the number of the tickets out.     *)
(***************************************************************************)
EXTENDS MCUserLocks, FiniteSetTheorems, TLAPS

USE DEF PC, Goto, Remember

(* Ticket arithmetic around the wrap.                                       *)
LEMMA DistanceType ==
  ASSUME NEW n \in Ticket, NEW s \in Ticket
  PROVE  Distance(n, s) \in Nat
  BY NAssumption, ModAssumption DEF Ticket, Distance

LEMMA DistanceZero ==
  ASSUME NEW n \in Ticket, NEW s \in Ticket
  PROVE  Distance(n, s) = 0 <=> n = s
  BY NAssumption, ModAssumption DEF Ticket, Distance

LEMMA DistanceInjective ==
  ASSUME NEW m \in Ticket, NEW n \in Ticket, NEW s \in Ticket,
         Distance(m, s) = Distance(n, s)
  PROVE  m = n
  BY NAssumption, ModAssumption DEF Ticket, Distance

LEMMA TicketType == 0 \in Ticket
  BY NAssumption, ModAssumption DEF Ticket

LEMMA IncType ==
  ASSUME NEW n \in Ticket
  PROVE  Inc(n) \in Ticket
  BY NAssumption, ModAssumption DEF Ticket, Inc

LEMMA DistanceIncLeft ==
  ASSUME NEW n \in Ticket, NEW s \in Ticket, Distance(n, s) # Mod - 1
  PROVE  Distance(Inc(n), s) = Distance(n, s) + 1
  BY NAssumption, ModAssumption DEF Ticket, Distance, Inc

LEMMA DistanceIncRight ==
  ASSUME NEW n \in Ticket, NEW s \in Ticket, n # s
  PROVE  Distance(n, Inc(s)) = Distance(n, s) - 1
  BY NAssumption, ModAssumption DEF Ticket, Distance, Inc

(* The threads with a ticket are finitely many, and one fewer than N while  *)
(* some thread has none.                                                    *)
LEMMA DrawnFinite ==
  IsFiniteSet(Drawn) /\ Cardinality(Drawn) \in Nat
<1>1. IsFiniteSet(Id)
  BY NAssumption, FS_Interval DEF Id
<1>2. Drawn \subseteq Id
  BY DEF Drawn
<1> QED
  BY <1>1, <1>2, FS_Subset, FS_CardinalityType

LEMMA DrawnBound ==
  ASSUME NEW i \in Id, i \notin Drawn
  PROVE  Cardinality(Drawn) < N
<1>1. IsFiniteSet(Id) /\ Cardinality(Id) = N
  BY NAssumption, FS_Interval DEF Id
<1>2. Drawn \subseteq Id \ {i}
  BY DEF Drawn
<1>3. IsFiniteSet(Id \ {i}) /\ Cardinality(Id \ {i}) = N - 1
  BY <1>1, FS_RemoveElement
<1>4. Cardinality(Drawn) <= Cardinality(Id \ {i})
  BY <1>2, <1>3, FS_Subset
<1> QED
  BY <1>3, <1>4, DrawnFinite, NAssumption

(* A thread that draws a ticket, or lets go of one, changes their number.   *)
LEMMA DrawnGrows ==
  ASSUME NEW i \in Id, i \notin Drawn, Drawn' = Drawn \cup {i}
  PROVE  Cardinality(Drawn') = Cardinality(Drawn) + 1
  BY DrawnFinite, FS_AddElement

LEMMA DrawnShrinks ==
  ASSUME NEW i \in Id, i \in Drawn, Drawn' = Drawn \ {i}
  PROVE  Cardinality(Drawn') = Cardinality(Drawn) - 1
  BY DrawnFinite, FS_RemoveElement

LEMMA InitIInv == Init => IInv
<1> SUFFICES ASSUME Init PROVE IInv
  OBVIOUS
<1>1. TypeOK
  BY TicketType DEF Init, TypeOK
<1>2. Drawn = {}
  BY DEF Init, Drawn, Carries
<1>3. Cardinality(Drawn) = 0
  BY <1>2, FS_EmptySet
<1>4. TicketsDistinct
  BY <1>3, TicketType, DistanceZero DEF Init, TicketsDistinct, Ahead, Carries
<1>5. MutualExclusion /\ Served /\ TestsTrue /\ Owner
  BY DEF Init, MutualExclusion, Served, TestsTrue, Owner, Carries, Id
<1> QED
  BY <1>1, <1>4, <1>5 DEF IInv

(* Every step keeps the variables in their types.                           *)
LEMMA TypeStep == ASSUME IInv, NEW i \in Id, Call(i) \/ Running(i)
                  PROVE  TypeOK'
  BY IncType, TicketType DEF IInv, TypeOK, Call, Running, SetLock, Draw, Enter, Own,
     TestLock, TestServed, TestCas, UnsetLock, Release

(* Steps that change neither counter nor who has a ticket.                  *)
LEMMA QuietStep ==
  ASSUME IInv, TypeOK', NEW i \in Id,
         SetLock(i) \/ TestLock(i) \/ TestServed(i)
  PROVE  IInv'
<1>1. Drawn' = Drawn
  BY DEF SetLock, TestLock, TestServed, Drawn, Carries, IInv, TypeOK
<1>2. \A j \in Id : Carries(j)' <=> Carries(j)
  BY DEF SetLock, TestLock, TestServed, Carries, IInv, TypeOK
<1>3. MutualExclusion'
  BY <1>2 DEF IInv, MutualExclusion
<1>4. TicketsDistinct'
  BY <1>1, <1>2 DEF SetLock, TestLock, TestServed, IInv, TypeOK,
     TicketsDistinct, Ahead
<1>5. Served'
  BY <1>2 DEF SetLock, TestLock, TestServed, IInv, Served
<1>6. TestsTrue'
  BY DEF SetLock, TestLock, TestServed, IInv, TypeOK, TestsTrue
<1>7. Owner'
  BY DEF SetLock, TestLock, TestServed, IInv, TypeOK, Owner
<1> QED
  BY <1>3, <1>4, <1>5, <1>6, <1>7 DEF IInv

(* Steps within the critical section.                                       *)
LEMMA HolderStep ==
  ASSUME IInv, TypeOK', NEW i \in Id, Own(i) \/ UnsetLock(i)
  PROVE  IInv'
<1>1. pc[i] \in {"own", "held"} /\ pc'[i] \in {"held", "release"}
  BY DEF Own, UnsetLock, IInv, TypeOK, Owner
<1>2. \A j \in Id : j # i => pc'[j] = pc[j] /\ my_ticket'[j] = my_ticket[j]
  BY DEF Own, UnsetLock, IInv, TypeOK
<1>3. \A j \in Id : Carries(j)' <=> Carries(j)
  BY <1>1, <1>2 DEF Carries
<1>4. Drawn' = Drawn
  BY <1>1, <1>2, <1>3 DEF Drawn
<1>5. MutualExclusion'
  BY <1>3 DEF IInv, MutualExclusion
<1>6. UNCHANGED <<next_ticket, now_serving>>
  BY DEF Own, UnsetLock
<1>7. TicketsDistinct'
  BY <1>1, <1>2, <1>3, <1>4, <1>6 DEF IInv, TicketsDistinct, Ahead
<1>8. Served'
  BY <1>3, <1>6 DEF IInv, Served
<1>9. TestsTrue'
  BY <1>1, <1>2, <1>6 DEF IInv, TestsTrue
<1>10. Owner'
  BY DEF Own, UnsetLock, IInv, TypeOK, Owner, MutualExclusion, Carries, Id
<1> QED
  BY <1>5, <1>7, <1>8, <1>9, <1>10 DEF IInv

(* A new ticket differs from every ticket that is out.                      *)
LEMMA DrawStep ==
  ASSUME IInv, TypeOK', NEW i \in Id, Draw(i), NoFullTurn
  PROVE  IInv'
<1> USE DEF Draw
<1>1. i \notin Drawn
  BY DEF IInv, TypeOK, Drawn, Carries
<1>2. Drawn' = Drawn \cup {i}
  BY DEF IInv, TypeOK, Drawn, Carries
<1>3. Cardinality(Drawn') = Cardinality(Drawn) + 1
  BY <1>1, <1>2, DrawnGrows
<1>4. next_ticket \in Ticket /\ now_serving \in Ticket
  BY DEF IInv, TypeOK
<1>5. Ahead(next_ticket) < N
  BY <1>1, DrawnBound DEF IInv, TicketsDistinct
<1>6. Ahead(next_ticket)' = Ahead(next_ticket) + 1
  BY <1>4, <1>5, DistanceType, DistanceIncLeft, NAssumption, ModAssumption DEF Ahead
<1>7. \A j \in Id : Carries(j)' <=> Carries(j)
  BY DEF IInv, TypeOK, Carries
<1>8. \A j \in Id : my_ticket[j] \in Ticket /\ Ahead(my_ticket[j]) \in Nat
  BY <1>4, DistanceType DEF IInv, TypeOK, Ahead
<1>9. MutualExclusion'
  BY <1>7 DEF IInv, MutualExclusion
<1>10. TicketsDistinct'
  <2>1. Ahead(next_ticket)' = Cardinality(Drawn')
    BY <1>3, <1>6 DEF IInv, TicketsDistinct
  <2>2. \A j \in Id : j # i => pc'[j] = pc[j] /\ my_ticket'[j] = my_ticket[j]
    BY DEF IInv, TypeOK
  <2>3. my_ticket'[i] = next_ticket /\ pc'[i] = "wait"
    BY DEF IInv, TypeOK
  <2>4. Ahead(next_ticket) \in Nat
    BY <1>4, DistanceType DEF Ahead
  <2>5. ASSUME NEW j \in Id, pc'[j] = "wait"
        PROVE  Ahead(my_ticket[j])' < Ahead(next_ticket)'
    <3>1. CASE j = i
      BY <3>1, <2>3, <2>4, <1>6 DEF Ahead
    <3>2. CASE j # i
      BY <3>2, <2>2, <2>4, <2>5, <1>6, <1>8 DEF IInv, TicketsDistinct, Ahead
    <3> QED
      BY <3>1, <3>2
  <2>6. \A j \in Id : j # i /\ pc[j] = "wait" => my_ticket[j] # next_ticket
    BY <1>8, <2>4 DEF IInv, TicketsDistinct
  <2>7. \A j, k \in Id : pc'[j] = "wait" /\ pc'[k] = "wait"
                           /\ my_ticket'[j] = my_ticket'[k] => j = k
    BY <2>2, <2>3, <2>6 DEF IInv, TicketsDistinct
  <2>8. \A j, k \in Id : pc'[j] = "wait" /\ Carries(k)' => my_ticket'[j] # now_serving'
    BY <1>7, <2>2, <2>3 DEF IInv, TicketsDistinct, Served
  <2> QED
    BY <2>1, <2>5, <2>7, <2>8 DEF TicketsDistinct
<1>11. Ahead(next_ticket)' # 0
  BY <1>4, <1>6, DistanceType DEF Ahead
<1>12. Served'
  BY <1>4, <1>11, IncType, DistanceZero DEF Served, Ahead
<1>13. TestsTrue'
  BY DEF IInv, TypeOK, TestsTrue, NoFullTurn
<1>14. Owner'
  BY DEF IInv, TypeOK, Owner
<1> QED
  BY <1>9, <1>10, <1>12, <1>13, <1>14 DEF IInv

(* Nobody else can carry the lock when a ticket is served.                  *)
LEMMA EnterStep ==
  ASSUME IInv, TypeOK', NEW i \in Id, Enter(i)
  PROVE  IInv'
<1> USE DEF Enter
<1>1. Drawn' = Drawn
  BY DEF IInv, TypeOK, Drawn, Carries
<1>2. \A j \in Id : ~Carries(j)
  BY DEF IInv, TicketsDistinct
<1>3. \A j \in Id : Carries(j)' <=> j = i
  BY <1>2 DEF IInv, TypeOK, Carries
<1>4. MutualExclusion'
  BY <1>3 DEF MutualExclusion
<1>5. Ahead(my_ticket[i]) < Ahead(next_ticket)
  BY DEF IInv, TicketsDistinct
<1>6. next_ticket # now_serving
  <2>1. my_ticket[i] \in Ticket /\ now_serving \in Ticket
    BY DEF IInv, TypeOK
  <2>2. Ahead(my_ticket[i]) = 0
    BY <2>1, DistanceZero DEF Ahead
  <2> QED
    BY <1>5, <2>1, <2>2 DEF Ahead
<1>7. \A j \in Id : pc'[j] = "wait" => pc[j] = "wait" /\ j # i
  BY DEF IInv, TypeOK
<1>8. TicketsDistinct'
  BY <1>1, <1>7 DEF IInv, TicketsDistinct, Ahead
<1>9. Served'
  BY <1>6 DEF Served
<1>10. TestsTrue'
  BY DEF IInv, TypeOK, TestsTrue
<1>11. Owner'
  BY DEF IInv, TypeOK, Owner
<1> QED
  BY <1>4, <1>8, <1>9, <1>10, <1>11 DEF IInv

(* A successful test takes the ticket that is being served: the lock was    *)
(* free.                                                                    *)
LEMMA TestCasStep ==
  ASSUME IInv, TypeOK', NEW i \in Id, TestCas(i), NoFullTurn
  PROVE  IInv'
<1> USE DEF TestCas
<1>1. CASE my_ticket[i] # next_ticket
  <2>1. Drawn' = Drawn
    BY <1>1 DEF IInv, TypeOK, Drawn, Carries
  <2>2. \A j \in Id : Carries(j)' <=> Carries(j)
    BY <1>1 DEF IInv, TypeOK, Carries
  <2>3. MutualExclusion'
    BY <2>2 DEF IInv, MutualExclusion
  <2>4. TicketsDistinct'
    BY <1>1, <2>1, <2>2 DEF IInv, TypeOK, TicketsDistinct, Ahead
  <2>5. Served' /\ TestsTrue' /\ Owner'
    BY <1>1, <2>2 DEF IInv, TypeOK, Served, TestsTrue, Owner
  <2> QED
    BY <2>3, <2>4, <2>5 DEF IInv
<1>2. CASE my_ticket[i] = next_ticket
  <2>1. now_serving = next_ticket
    BY <1>2 DEF IInv, TestsTrue
  <2>2. next_ticket \in Ticket
    BY DEF IInv, TypeOK
  <2>3. Ahead(next_ticket) = 0
    BY <2>1, <2>2, DistanceZero DEF Ahead
  <2>4. \A j \in Id : ~Carries(j)
    BY <2>1 DEF IInv, Served
  <2>5. \A j \in Id : pc[j] # "wait"
    <3> SUFFICES ASSUME NEW j \in Id, pc[j] = "wait" PROVE FALSE
      OBVIOUS
    <3>1. Ahead(my_ticket[j]) < 0
      BY <2>3 DEF IInv, TicketsDistinct
    <3>2. Ahead(my_ticket[j]) \in Nat
      BY <2>1, <2>2, DistanceType DEF IInv, TypeOK, Ahead
    <3> QED
      BY <3>1, <3>2
  <2>6. i \notin Drawn
    BY <1>2 DEF IInv, TypeOK, Drawn, Carries
  <2>7. Drawn' = Drawn \cup {i}
    BY <1>2 DEF IInv, TypeOK, Drawn, Carries
  <2>8. Cardinality(Drawn') = Cardinality(Drawn) + 1
    BY <2>6, <2>7, DrawnGrows
  <2>9. Ahead(next_ticket)' = 1
    BY <1>2, <2>1, <2>2, <2>3, DistanceIncLeft, NAssumption, ModAssumption DEF Ahead
  <2>10. \A j \in Id : pc'[j] # "wait"
    BY <1>2, <2>5 DEF IInv, TypeOK
  <2>11. \A j \in Id : Carries(j)' <=> j = i
    BY <1>2, <2>4 DEF IInv, TypeOK, Carries
  <2>12. MutualExclusion'
    BY <2>11 DEF MutualExclusion
  <2>13. TicketsDistinct'
    <3>1. Cardinality(Drawn) = 0
      BY <2>3 DEF IInv, TicketsDistinct
    <3>2. Ahead(next_ticket)' = Cardinality(Drawn')
      BY <2>8, <2>9, <3>1
    <3> QED
      BY <2>10, <3>2 DEF TicketsDistinct
  <2>14. Served'
    BY <1>2, <2>1, <2>2, NAssumption, ModAssumption DEF Served, Inc, Ticket
  <2>15. TestsTrue'
    BY <1>2 DEF IInv, TypeOK, TestsTrue, NoFullTurn
  <2>16. Owner'
    BY <1>2 DEF IInv, TypeOK, Owner
  <2> QED
    BY <2>12, <2>13, <2>14, <2>15, <2>16 DEF IInv
<1> QED
  BY <1>1, <1>2

(* The release serves the next ticket.                                      *)
LEMMA ReleaseStep ==
  ASSUME IInv, TypeOK', NEW i \in Id, Release(i)
  PROVE  IInv'
<1> USE DEF Release
<1>1. Carries(i)
  BY DEF Carries
<1>2. \A j \in Id : Carries(j) => j = i
  BY <1>1 DEF IInv, MutualExclusion
<1>3. \A j \in Id : ~Carries(j)'
  BY <1>2 DEF IInv, TypeOK, Carries
<1>4. i \in Drawn /\ Drawn' = Drawn \ {i}
  BY <1>1 DEF IInv, TypeOK, Drawn, Carries
<1>5. Cardinality(Drawn') = Cardinality(Drawn) - 1
  BY <1>4, DrawnShrinks
<1>6. next_ticket # now_serving
  BY <1>1 DEF IInv, Served
<1>7. next_ticket \in Ticket /\ now_serving \in Ticket
       /\ \A j \in Id : my_ticket[j] \in Ticket
  BY DEF IInv, TypeOK
<1>8. Ahead(next_ticket)' = Ahead(next_ticket) - 1
  BY <1>6, <1>7, DistanceIncRight DEF Ahead
<1>9. \A j \in Id : pc'[j] = "wait" => pc[j] = "wait" /\ my_ticket[j] # now_serving
  BY <1>1 DEF IInv, TypeOK, TicketsDistinct
<1>10. \A j \in Id : pc'[j] = "wait" => Ahead(my_ticket[j])' = Ahead(my_ticket[j]) - 1
  BY <1>7, <1>9, DistanceIncRight DEF Ahead
<1>11. Ahead(next_ticket) \in Nat /\ \A j \in Id : Ahead(my_ticket[j]) \in Nat
  BY <1>7, DistanceType DEF Ahead
<1>12. TicketsDistinct'
  <2>1. Ahead(next_ticket)' = Cardinality(Drawn')
    BY <1>5, <1>8 DEF IInv, TicketsDistinct
  <2>2. \A j \in Id : pc'[j] = "wait" => Ahead(my_ticket[j])' < Ahead(next_ticket)'
    BY <1>8, <1>9, <1>10, <1>11 DEF IInv, TicketsDistinct
  <2>3. \A j, k \in Id : pc'[j] = "wait" /\ pc'[k] = "wait"
                           /\ my_ticket'[j] = my_ticket'[k] => j = k
    BY <1>9 DEF IInv, TicketsDistinct
  <2> QED
    BY <1>3, <2>1, <2>2, <2>3 DEF TicketsDistinct
<1>13. MutualExclusion' /\ Served'
  BY <1>3 DEF MutualExclusion, Served
<1>14. TestsTrue'
  BY <1>6 DEF IInv, TypeOK, TestsTrue
<1>15. Owner'
  BY DEF IInv, TypeOK, Owner
<1> QED
  BY <1>12, <1>13, <1>14, <1>15 DEF IInv

LEMMA NextIInv == IInv /\ [Step]_vars => IInv'
<1> SUFFICES ASSUME IInv, [Step]_vars PROVE IInv'
  OBVIOUS
<1>1. CASE UNCHANGED vars
  BY <1>1 DEF vars, IInv, TypeOK, MutualExclusion, TicketsDistinct, Served,
     TestsTrue, Owner, Ahead, Drawn, Carries
<1>2. ASSUME NEW i \in Id, Call(i) \/ Running(i), NoFullTurn PROVE IInv'
  <2> TypeOK'
    BY <1>2, TypeStep
  <2> QED
    BY <1>2, QuietStep, HolderStep, DrawStep, EnterStep, TestCasStep,
       ReleaseStep DEF Call, Running
<1> QED
  BY <1>1, <1>2 DEF Step, Next

(***************************************************************************)
(* The inductive invariant holds in every reachable state.                  *)
(***************************************************************************)
THEOREM Invariance == Spec => []IInv
  BY InitIInv, NextIInv, PTL DEF Spec

(***************************************************************************)
(* The ticket lock excludes, for any number of threads, although its        *)
(* counters wrap.                                                           *)
(***************************************************************************)
THEOREM Excludes == Spec => []MutualExclusion
<1>1. IInv => MutualExclusion
  BY DEF IInv
<1> QED
  BY <1>1, Invariance, PTL

(***************************************************************************)
(* No two waiting threads have the same ticket, and as many tickets are out *)
(* as threads have drawn.                                                   *)
(***************************************************************************)
THEOREM TicketsStayDistinct == Spec => []TicketsDistinct
<1>1. IInv => TicketsDistinct
  BY DEF IInv
<1> QED
  BY <1>1, Invariance, PTL

(***************************************************************************)
(* The owner checks of the lock never stop a correct program.               *)
(***************************************************************************)
THEOREM ChecksNeverFire == Spec => []NoFalseFatal
<1>1. IInv => NoFalseFatal
  BY DEF IInv, Owner, NoFalseFatal
<1> QED
  BY <1>1, Invariance, PTL

-----------------------------------------------------------------------------
(* The threads that have the lock, and what owner_id says of them, change   *)
(* neither while the lock below is drawn, tested, entered nor released.     *)
LEMMA BelowKeepsHeld ==
  ASSUME IInv, NEW i \in Id, Below(i)
  PROVE  owner_id' = owner_id /\ \A j \in Id : pc'[j] = "held" <=> pc[j] = "held"
  BY DEF Below, Draw, Enter, TestServed, TestCas, Release, IInv, TypeOK

(* A thread is not in sections before it has the lock.                      *)
LEMMA OwnerIsInside ==
  ASSUME NestIInv, NEW i \in Id, owner_id = i, ~Simple
  PROVE  pc[i] = "held" /\ depth_locked = sections[i] /\ sections[i] \in Nat \ {0}
  BY DEF NestIInv, NestTypeOK, DepthIsExact, IInv, Owner

(* Every step of a nested lock is one of the lock below, or leaves it.      *)
LEMMA BelowOrIdle ==
  ASSUME NestIInv, NEW i \in Id, SimpleCall(i) \/ NestCall(i) \/ NestRunning(i)
  PROVE  Call(i) \/ Running(i) \/ UNCHANGED vars
<1> IInv
  BY DEF NestIInv
<1>1. SetNestLock(i) => SetLock(i) \/ UNCHANGED vars
  BY DEF SetNestLock, Deepen, Calls, SetLock, IInv, Owner
<1>2. TestNestLock(i) => TestLock(i) \/ UNCHANGED vars
  BY DEF TestNestLock, Deepen
<1> QED
  BY <1>1, <1>2 DEF SimpleCall, NestCall, NestRunning, Below, SimpleOwn, OwnNest,
     UnsetNestLock, Call, Running

LEMMA StepBelow ==
  ASSUME NestIInv, NEW i \in Id, NoFullTurn,
         SimpleCall(i) \/ NestCall(i) \/ NestRunning(i)
  PROVE  IInv'
<1> IInv
  BY DEF NestIInv
<1>1. CASE UNCHANGED vars
  BY <1>1, NextIInv
<1>2. CASE Call(i) \/ Running(i)
  BY <1>2, NextIInv DEF Step, Next
<1> QED
  BY <1>1, <1>2, BelowOrIdle

(* One more section of the owner.                                           *)
LEMMA DeepenStep ==
  ASSUME NestIInv, NEW i \in Id, ~Simple, Deepen(i)
  PROVE  NestTypeOK' /\ DepthIsExact'
<1>1. pc[i] = "held" /\ depth_locked = sections[i] /\ sections[i] \in Nat \ {0}
  BY OwnerIsInside DEF Deepen
<1>2. \A j \in Id : j # i => sections[j] = 0
  BY DEF Deepen, NestIInv, NestTypeOK, DepthIsExact, Id
<1>3. UNCHANGED <<pc, owner_id>>
  BY DEF Deepen, vars
<1>4. sections' = [sections EXCEPT ![i] = @ + 1] /\ depth_locked' = depth_locked + 1
  BY DEF Deepen, Opens
<1>5. sections \in [Id -> Nat]
  BY DEF NestIInv, NestTypeOK
<1>6. NestTypeOK'
  BY <1>1, <1>4, <1>5 DEF NestTypeOK, Simple
<1>7. DepthIsExact'
  BY <1>1, <1>2, <1>3, <1>4, <1>5 DEF NestIInv, DepthIsExact, Simple, Deepen
<1> QED
  BY <1>6, <1>7

(* The first section of the thread that takes the lock.                     *)
LEMMA OwnStep ==
  ASSUME NestIInv, NEW i \in Id, OwnNest(i)
  PROVE  NestTypeOK' /\ DepthIsExact'
<1>1. sections' = [sections EXCEPT ![i] = @ + 1] /\ depth_locked' = 1 /\ owner_id' = i
  BY DEF OwnNest, Own, Opens
<1>2. sections \in [Id -> Nat] /\ pc \in [Id -> PC]
  BY DEF NestIInv, NestTypeOK, IInv, TypeOK
<1>3. pc[i] = "own" /\ pc' = [pc EXCEPT ![i] = "held"]
  BY DEF OwnNest, Own
<1>4. \A j \in Id : pc[j] # "held"
  BY <1>3 DEF NestIInv, IInv, MutualExclusion, Carries
<1>5. \A j \in Id : sections[j] = 0
  BY <1>2, <1>4 DEF NestIInv, DepthIsExact
<1>6. NestTypeOK'
  BY <1>1, <1>2 DEF NestTypeOK, Simple
<1>7. DepthIsExact'
  BY <1>1, <1>2, <1>3, <1>4, <1>5 DEF DepthIsExact, Simple
<1> QED
  BY <1>6, <1>7

(* One section less; the lock is let go with the last one.                  *)
LEMMA UnsetStep ==
  ASSUME NestIInv, NEW i \in Id, UnsetNestLock(i)
  PROVE  NestTypeOK' /\ DepthIsExact'
<1>1. ~Simple /\ pc[i] = "held" /\ owner_id = i
  BY DEF UnsetNestLock, NestIInv, IInv, Owner
<1>2. depth_locked = sections[i] /\ sections[i] \in Nat \ {0}
  BY <1>1, OwnerIsInside
<1>3. sections' = [sections EXCEPT ![i] = @ - 1] /\ depth_locked' = depth_locked - 1
  BY <1>1 DEF UnsetNestLock, Closes
<1>4. sections \in [Id -> Nat] /\ pc \in [Id -> PC]
  BY DEF NestIInv, NestTypeOK, IInv, TypeOK
<1>5. \A j \in Id : j # i => sections[j] = 0 /\ pc[j] # "held"
  BY <1>1, <1>4 DEF NestIInv, DepthIsExact, IInv, Owner, Id
<1>6. NestTypeOK'
  BY <1>2, <1>3, <1>4 DEF NestTypeOK, Simple
<1>7. CASE depth_locked = 1
  <2>1. pc' = [pc EXCEPT ![i] = "release"]
    BY <1>1, <1>7 DEF UnsetNestLock, UnsetLock
  <2>2. \A j \in Id : sections'[j] = 0 /\ pc'[j] # "held"
    BY <1>2, <1>3, <1>4, <1>5, <1>7, <2>1
  <2> QED
    BY <1>6, <2>2 DEF DepthIsExact
<1>8. CASE depth_locked # 1
  <2>1. UNCHANGED <<pc, owner_id>>
    BY <1>1, <1>8 DEF UnsetNestLock, vars
  <2>2. DepthIsExact'
    BY <1>1, <1>2, <1>3, <1>4, <1>5, <1>8, <2>1 DEF DepthIsExact, Simple
  <2> QED
    BY <1>6, <2>2
<1> QED
  BY <1>6, <1>7, <1>8

(* What leaves the sections and the threads that have the lock alone.       *)
LEMMA OutsideStep ==
  ASSUME NestIInv, UNCHANGED <<depth_locked, sections, owner_id>>,
         \A j \in Id : pc'[j] = "held" <=> pc[j] = "held"
  PROVE  NestTypeOK' /\ DepthIsExact'
  BY DEF NestIInv, NestTypeOK, DepthIsExact, Simple

LEMMA NestStep ==
  ASSUME NestIInv, NEW i \in Id, NoFullTurn,
         SimpleCall(i) \/ NestCall(i) \/ NestRunning(i)
  PROVE  NestIInv'
<1> IInv /\ pc \in [Id -> PC]
  BY DEF NestIInv, IInv, TypeOK
<1>1. IInv'
  BY StepBelow
<1>2. CASE Simple /\ UNCHANGED nest
  BY <1>1, <1>2 DEF nest, NestIInv, NestTypeOK, DepthIsExact, Simple
<1>3. CASE ~Simple /\ Deepen(i)
  BY <1>1, <1>3, DeepenStep DEF NestIInv
<1>4. CASE OwnNest(i)
  BY <1>1, <1>4, OwnStep DEF NestIInv
<1>5. CASE UnsetNestLock(i)
  BY <1>1, <1>5, UnsetStep DEF NestIInv
<1>6. CASE Below(i)
  BY <1>1, <1>6, BelowKeepsHeld, OutsideStep DEF Below, nest, NestIInv
<1>7. CASE NestCall(i) /\ ~Deepen(i)
  <2>1. UNCHANGED <<depth_locked, sections, owner_id>>
    BY <1>7 DEF NestCall, SetNestLock, TestNestLock, TestLock, nest
  <2>2. pc[i] # "held"
    BY <1>7 DEF NestCall, SetNestLock, TestNestLock, IInv, Owner
  <2>3. \A j \in Id : pc'[j] = "held" <=> pc[j] = "held"
    BY <1>7, <2>2 DEF NestCall, SetNestLock, TestNestLock, TestLock
  <2> QED
    BY <1>1, <2>1, <2>3, OutsideStep DEF NestIInv
<1> QED
  BY <1>2, <1>3, <1>4, <1>5, <1>6, <1>7
     DEF SimpleCall, NestCall, SetNestLock, TestNestLock, NestRunning, SimpleOwn

-----------------------------------------------------------------------------
(* The nested test-and-set lock.  Its word names the owner; who has it is   *)
(* who finds himself in the word.                                           *)
LEMMA TasTake ==
  ASSUME Tas!IInv, NEW i \in Id, Tas!Spin(i) \/ Tas!TestLock(i)
  PROVE  Tas!IInv'
<1> USE DEF Tas!Has, Tas!Goto, Tas!Simple, Tas!Id, Id
<1>1. /\ tas_poll = 0 /\ tas_poll' = i
      /\ tas_pc' = [tas_pc EXCEPT ![i] = "held"]
      /\ IF tas_depth_locked = -1
         THEN UNCHANGED <<tas_depth_locked, tas_sections>>
         ELSE tas_depth_locked' = 1 /\ tas_sections' = [tas_sections EXCEPT ![i] = @ + 1]
  BY DEF Tas!Spin, Tas!TestLock, Tas!Take, Tas!Opens
<1>2. Tas!TypeOK
  BY DEF Tas!IInv
<1>3. \A j \in Id : tas_pc[j] \in {"idle", "spin"} /\ tas_sections[j] = 0
  BY <1>1, <1>2 DEF Tas!IInv, Tas!DepthIsExact, Tas!TypeOK
<1>4. Tas!TypeOK'
  BY <1>1, <1>2 DEF Tas!TypeOK
<1>5. \A j \in Id : j # i => tas_pc'[j] \in {"idle", "spin"} /\ tas_sections'[j] = 0
  BY <1>1, <1>2, <1>3 DEF Tas!TypeOK
<1>6. tas_pc'[i] = "held"
  BY <1>1, <1>2 DEF Tas!TypeOK
<1>7. tas_depth_locked' # -1 => tas_depth_locked' = 1 /\ tas_sections'[i] = 1
  <2> SUFFICES ASSUME tas_depth_locked' # -1
               PROVE  tas_depth_locked' = 1 /\ tas_sections'[i] = 1
    OBVIOUS
  <2>1. tas_depth_locked' = 1 /\ tas_sections' = [tas_sections EXCEPT ![i] = @ + 1]
    BY <1>1
  <2>2. tas_sections'[i] = tas_sections[i] + 1
    BY <1>2, <2>1 DEF Tas!TypeOK
  <2> QED
    BY <1>3, <2>1, <2>2
<1>8. Tas!DepthIsExact'
  BY <1>1, <1>5, <1>6, <1>7 DEF Tas!DepthIsExact
<1> QED
  BY <1>4, <1>8 DEF Tas!IInv

LEMMA TasSet ==
  ASSUME Tas!IInv, NEW i \in Id, Tas!SetLock(i) \/ Tas!SetNestLock(i)
  PROVE  Tas!IInv'
  BY DEF Tas!SetLock, Tas!SetNestLock, Tas!IInv, Tas!TypeOK, Tas!DepthIsExact,
     Tas!Has, Tas!Goto, Tas!Simple, Tas!Id, Id

LEMMA TasDeepen ==
  ASSUME Tas!IInv, NEW i \in Id, Tas!Deepen(i)
  PROVE  Tas!IInv'
<1> USE DEF Tas!Has, Tas!Simple, Tas!Id, Id
<1>1. /\ tas_poll = i /\ tas_depth_locked # -1
      /\ UNCHANGED <<tas_poll, tas_pc>>
      /\ tas_depth_locked' = tas_depth_locked + 1
      /\ tas_sections' = [tas_sections EXCEPT ![i] = @ + 1]
  BY DEF Tas!Deepen, Tas!Opens
<1>2. Tas!TypeOK /\ Tas!DepthIsExact
  BY DEF Tas!IInv
<1>3. Tas!TypeOK'
  BY <1>1, <1>2 DEF Tas!TypeOK, Tas!DepthIsExact
<1>4. Tas!DepthIsExact'
  BY <1>1, <1>2 DEF Tas!TypeOK, Tas!DepthIsExact
<1> QED
  BY <1>3, <1>4 DEF Tas!IInv

LEMMA TasUnset ==
  ASSUME Tas!IInv, NEW i \in Id, Tas!UnsetLock(i) \/ Tas!UnsetNestLock(i)
  PROVE  Tas!IInv'
<1> USE DEF Tas!Has, Tas!Goto, Tas!Simple, Tas!Id, Id
<1>1. Tas!TypeOK /\ Tas!DepthIsExact
  BY DEF Tas!IInv
<1>2. tas_pc[i] = "held" /\ tas_poll = i
  BY <1>1 DEF Tas!UnsetLock, Tas!UnsetNestLock, Tas!DepthIsExact
<1>3. CASE Tas!UnsetLock(i)
  <2>1. /\ tas_depth_locked = -1
        /\ tas_pc' = [tas_pc EXCEPT ![i] = "idle"] /\ tas_poll' = 0
        /\ UNCHANGED <<tas_depth_locked, tas_sections>>
    BY <1>2, <1>3 DEF Tas!UnsetLock
  <2>2. \A j \in Id : tas_sections'[j] = 0
    BY <1>1, <2>1 DEF Tas!TypeOK
  <2>3. \A j \in Id : tas_pc'[j] \in {"idle", "spin"}
    BY <1>1, <1>2, <2>1 DEF Tas!TypeOK, Tas!DepthIsExact
  <2>4. Tas!TypeOK'
    BY <1>1, <2>1 DEF Tas!TypeOK
  <2>5. Tas!DepthIsExact'
    BY <2>1, <2>2, <2>3 DEF Tas!DepthIsExact
  <2> QED
    BY <2>4, <2>5 DEF Tas!IInv
<1>4. CASE Tas!UnsetNestLock(i)
  <2>1. /\ tas_depth_locked # -1
        /\ tas_depth_locked' = tas_depth_locked - 1
        /\ tas_sections' = [tas_sections EXCEPT ![i] = @ - 1]
        /\ IF tas_depth_locked = 1
           THEN tas_pc' = [tas_pc EXCEPT ![i] = "idle"] /\ tas_poll' = 0
           ELSE UNCHANGED <<tas_poll, tas_pc>>
    BY <1>2, <1>4 DEF Tas!UnsetNestLock, Tas!Closes
  <2>2. tas_depth_locked = tas_sections[i] /\ tas_sections[i] > 0
    BY <1>1, <1>2, <2>1 DEF Tas!DepthIsExact
  <2>3. Tas!TypeOK'
    BY <1>1, <2>1, <2>2 DEF Tas!TypeOK
  <2>4. \A j \in Id : j # i => tas_pc'[j] \in {"idle", "spin"} /\ tas_sections'[j] = tas_sections[j]
    BY <1>1, <1>2, <2>1 DEF Tas!TypeOK, Tas!DepthIsExact
  <2>5. \A j \in Id : j # i => ~(tas_sections'[j] > 0)
    BY <1>1, <1>2, <2>4 DEF Tas!TypeOK, Tas!DepthIsExact
  <2>6. tas_sections'[i] = tas_sections[i] - 1 /\ tas_sections[i] \in Nat
    BY <1>1, <2>1 DEF Tas!TypeOK
  <2>7. ASSUME tas_depth_locked = 1 PROVE Tas!DepthIsExact'
    <3>1. tas_pc'[i] = "idle" /\ tas_poll' = 0
      BY <1>1, <2>1, <2>7 DEF Tas!TypeOK
    <3>2. tas_sections'[i] = 0
      BY <2>2, <2>6, <2>7
    <3> QED
      BY <2>4, <2>5, <3>1, <3>2 DEF Tas!DepthIsExact
  <2>8. ASSUME tas_depth_locked # 1 PROVE Tas!DepthIsExact'
    <3>1. tas_pc'[i] = "held" /\ tas_poll' = i /\ tas_sections'[i] > 0
           /\ tas_depth_locked' = tas_sections'[i]
      BY <1>2, <2>1, <2>2, <2>6, <2>8
    <3> QED
      BY <2>4, <2>5, <3>1 DEF Tas!DepthIsExact
  <2>9. Tas!DepthIsExact'
    BY <2>7, <2>8
  <2> QED
    BY <2>3, <2>9 DEF Tas!IInv
<1> QED
  BY <1>3, <1>4

-----------------------------------------------------------------------------
UserIInv == NestIInv /\ Tas!IInv

LEMMA UserInitIInv == UserInit => UserIInv
<1> SUFFICES ASSUME UserInit PROVE UserIInv
  OBVIOUS
<1>1. IInv
  BY InitIInv DEF UserInit, NestInit
<1>2. NestTypeOK /\ DepthIsExact
  BY DEF UserInit, NestInit, Init, NestTypeOK, DepthIsExact, Simple
<1>3. Tas!IInv
  BY DEF UserInit, Tas!Init, Tas!IInv, Tas!TypeOK, Tas!DepthIsExact, Tas!Has,
     Tas!Simple, Tas!Id, Id
<1> QED
  BY <1>1, <1>2, <1>3 DEF UserIInv, NestIInv

LEMMA UserNextIInv == UserIInv /\ [UserNext]_all => UserIInv'
<1> SUFFICES ASSUME UserIInv, [UserNext]_all PROVE UserIInv'
  OBVIOUS
<1>1. ASSUME UNCHANGED nestVars PROVE NestIInv'
  <2>1. IInv'
    BY <1>1, NextIInv DEF nestVars, UserIInv, NestIInv
  <2> QED
    BY <1>1, <2>1, OutsideStep DEF UserIInv, NestIInv, nestVars, vars, nest
<1>2. ASSUME UNCHANGED tasVars PROVE Tas!IInv'
  BY <1>2 DEF tasVars, UserIInv, Tas!IInv, Tas!TypeOK, Tas!DepthIsExact, Tas!Has, Tas!Simple
<1>3. CASE TicketOnly(NestNext)
  BY <1>2, <1>3, NestStep DEF TicketOnly, NestNext, UserIInv
<1>4. CASE TasOnly(Tas!Next)
  BY <1>1, <1>4, TasTake, TasSet, TasDeepen, TasUnset
     DEF TasOnly, Tas!Next, Tas!Call, Tas!Running, Tas!Id, Id, UserIInv
<1>5. CASE DrdpaOnly(Drdpa!Next) \/ UNCHANGED all
  BY <1>1, <1>2, <1>5 DEF DrdpaOnly, all, UserIInv
<1> QED
  BY <1>3, <1>4, <1>5 DEF UserNext

(***************************************************************************)
(* The inductive invariant holds in every reachable state.                  *)
(***************************************************************************)
THEOREM UserInvariance == UserSafety => []UserIInv
  BY UserInitIInv, UserNextIInv, PTL DEF UserSafety

(***************************************************************************)
(* A nested lock, over the ticket lock or in the test-and-set word, counts  *)
(* the sections of its owner exactly and is let go by the last unset only,  *)
(* for any number of threads and any depth.                                 *)
(***************************************************************************)
THEOREM NestingStaysExact == UserSafety => []NestingIsExact
<1>1. UserIInv => NestingIsExact
  BY DEF UserIInv, NestIInv, Tas!IInv, NestingIsExact
<1> QED
  BY <1>1, UserInvariance, PTL

(***************************************************************************)
(* The ticket lock excludes also when it is nested, whose threads come to   *)
(* it while they may have it already.                                       *)
(***************************************************************************)
THEOREM NestedExcludes == UserSafety => []MutualExclusion
<1>1. UserIInv => MutualExclusion
  BY DEF UserIInv, NestIInv, IInv
<1> QED
  BY <1>1, UserInvariance, PTL

-----------------------------------------------------------------------------
(* The DRDPA lock: what a polling area is, and the places of its threads.   *)
AreaOf(n) == [size : {n}, poll : [0..n-1 -> Nat], freed : BOOLEAN]
AllAreas  == UNION {AreaOf(n) : n \in Nat \ {0}}

DrdpaTesting  == {"test_polls", "test_mask", "test_poll", "test_cas"}
DrdpaDrawn    == {"mask", "polls", "poll"}
Deciding      == {"enter", "size", "install"}
Installed     == {"remask", "cleanup", "own", "held", "release"}
DrdpaTicketed == DrdpaDrawn \cup Deciding \cup {"remask", "cleanup", "own"}
DrdpaPCs      ==
  DrdpaTesting \cup DrdpaDrawn \cup Deciding \cup Installed \cup {"idle", "draw", "fatal"}

DrdpaTyped ==
  /\ dr_next_ticket \in 0..MaxTicket /\ dr_now_serving \in 0..MaxTicket
  /\ cleanup_ticket \in 0..MaxTicket
  /\ dr_owner_id \in Drdpa!Id \cup {0}
  /\ areas \in Seq(AllAreas)
  /\ polls \in Drdpa!Areas /\ old_polls \in Drdpa!Areas \cup {0}
  /\ mask \in Nat /\ num_polls \in Nat
  /\ dr_pc \in [Drdpa!Id -> DrdpaPCs]
  /\ ticket \in [Drdpa!Id -> 0..MaxTicket]
  /\ my_mask \in [Drdpa!Id -> Nat]
  /\ my_polls \in [Drdpa!Id -> Drdpa!Areas \cup {0}]
  /\ fault \in Drdpa!Id \cup {0}

(* s is the number that is served, or will be next.                         *)
DrdpaTickets(s) ==
  /\ s <= dr_next_ticket
  /\ \A i \in Drdpa!Id :
       /\ dr_pc[i] \in DrdpaTicketed => s <= ticket[i] /\ ticket[i] < dr_next_ticket
       /\ dr_pc[i] \in DrdpaTicketed \ DrdpaDrawn => ticket[i] = s
       /\ dr_pc[i] \in {"size", "install"} \cup Installed => dr_now_serving = s
       /\ Drdpa!Carries(i) => s < dr_next_ticket
       /\ dr_pc[i] \in DrdpaTesting => ticket[i] < MaxTicket
       /\ dr_pc[i] = "test_cas" => ticket[i] <= s
  /\ \A i, j \in Drdpa!Id : i # j =>
       /\ dr_pc[i] \in DrdpaTicketed /\ dr_pc[j] \in DrdpaTicketed => ticket[i] # ticket[j]
       /\ Drdpa!Carries(i) => ~Drdpa!Carries(j) /\ (dr_pc[j] \in DrdpaDrawn => ticket[j] # s)

(* The values in the areas, of which the current one has the highest.       *)
Polled(s) ==
  \A p \in Drdpa!Areas : \A k \in 0..areas[p].size - 1 :
    /\ areas[p].poll[k] <= s
    /\ p < polls /\ areas[p].poll[k] = s => \E i \in Drdpa!Id : dr_pc[i] \in Installed

(* Which areas there are, whose they are, and what pollers may look at.     *)
Layout ==
  /\ old_polls # 0 => old_polls = polls - 1
  /\ \A p \in Drdpa!Areas : areas[p].freed <=> p < polls /\ p # old_polls
  /\ (\A i \in Drdpa!Id : dr_pc[i] # "install") => polls = Len(areas)
  /\ \A i \in Drdpa!Id : dr_pc[i] = "install" => Len(areas) = polls + 1

Current ==
  /\ (\A i \in Drdpa!Id : dr_pc[i] # "remask") => num_polls = areas[polls].size
  /\ \A i \in Drdpa!Id :
       /\ dr_pc[i] \in Deciding => my_polls[i] = polls
       /\ dr_pc[i] \in {"size", "install"} => old_polls = 0

Pollers ==
  \A i \in Drdpa!Id :
    /\ dr_pc[i] \in {"test_mask", "test_poll"} => my_polls[i] # 0
    /\ dr_pc[i] = "poll" =>
         \/ my_polls[i] = polls
         \/ /\ my_polls[i] = old_polls /\ old_polls # 0
            /\ \/ \E j \in Drdpa!Id : dr_pc[j] \in {"remask", "cleanup"}
               \/ ticket[i] < cleanup_ticket

Configured == Layout /\ Current /\ Pollers

(* Until an area is contracted the masks in use fit the areas they name.    *)
Sized ==
  ~Drdpa!Contracted =>
    /\ mask < areas[polls].size
    /\ \A i \in Drdpa!Id :
         /\ dr_pc[i] = "polls" => my_mask[i] < areas[polls].size
         /\ dr_pc[i] \in {"poll", "enter", "size"} => my_mask[i] < areas[my_polls[i]].size
         /\ dr_pc[i] \in {"install", "remask"} => my_mask[i] < areas[Len(areas)].size

(* owner_id names the thread in its critical section, and no call fails.    *)
DrdpaOwner == \A i \in Drdpa!Id : dr_pc[i] # "fatal" /\ (dr_pc[i] = "held" <=> dr_owner_id = i)

DrdpaInv(s) ==
  /\ DrdpaTyped /\ DrdpaTickets(s) /\ Polled(s) /\ Configured /\ Sized
  /\ DrdpaOwner /\ Drdpa!ExpandsSafely

DrdpaIInv == \E s \in Nat : DrdpaInv(s)
-----------------------------------------------------------------------------
(* What an area is, and what becomes of areas when one is freed, has a word *)
(* written, or is new.                                                      *)
LEMMA AreaFacts ==
  ASSUME NEW a \in AllAreas
  PROVE  /\ a.size \in Nat \ {0} /\ a.poll \in [0..a.size-1 -> Nat] /\ a.freed \in BOOLEAN
         /\ a = [size |-> a.size, poll |-> a.poll, freed |-> a.freed]
  BY DEF AllAreas, AreaOf

LEMMA IsArea ==
  ASSUME NEW n \in Nat \ {0}, NEW f \in [0..n-1 -> Nat], NEW b \in BOOLEAN
  PROVE  [size |-> n, poll |-> f, freed |-> b] \in AllAreas
  BY DEF AllAreas, AreaOf

LEMMA AreaUpdates ==
  ASSUME NEW a \in AllAreas, NEW f \in [0..a.size-1 -> Nat]
  PROVE  /\ [a EXCEPT !.freed = TRUE] = [size |-> a.size, poll |-> a.poll, freed |-> TRUE]
         /\ [a EXCEPT !.poll = f] = [size |-> a.size, poll |-> f, freed |-> a.freed]
         /\ {[a EXCEPT !.freed = TRUE], [a EXCEPT !.poll = f]} \subseteq AllAreas
<1>1. /\ a.size \in Nat \ {0} /\ a.poll \in [0..a.size-1 -> Nat] /\ a.freed \in BOOLEAN
      /\ a = [size |-> a.size, poll |-> a.poll, freed |-> a.freed]
  BY AreaFacts
<1> DEFINE n == a.size  g == a.poll  b == a.freed
<1>2. [size |-> n, poll |-> g, freed |-> TRUE] \in AllAreas
  BY <1>1, IsArea
<1>3. [size |-> n, poll |-> f, freed |-> b] \in AllAreas
  BY <1>1, IsArea
<1>4. a = [size |-> n, poll |-> g, freed |-> b]
  BY <1>1
<1> HIDE DEF n, g, b
<1>5. \A c : [a EXCEPT !.freed = c] = [size |-> n, poll |-> g, freed |-> c]
  BY <1>4
<1>6. [a EXCEPT !.poll = f] = [size |-> n, poll |-> f, freed |-> b]
  BY <1>4
<1> QED
  BY <1>2, <1>3, <1>5, <1>6 DEF n, g, b

LEMMA Freeing ==
  ASSUME areas \in Seq(AllAreas), NEW p \in Drdpa!Areas
  PROVE  /\ Drdpa!Free(p) \in Seq(AllAreas) /\ Len(Drdpa!Free(p)) = Len(areas)
         /\ \A q \in Drdpa!Areas : /\ Drdpa!Free(p)[q].size = areas[q].size
                                   /\ Drdpa!Free(p)[q].poll = areas[q].poll
                                   /\ Drdpa!Free(p)[q].freed = (q = p \/ areas[q].freed)
<1> DEFINE e == [areas[p] EXCEPT !.freed = TRUE]
<1>1. areas[p] \in AllAreas
  BY DEF Drdpa!Areas
<1>2. areas[p].poll \in [0..areas[p].size-1 -> Nat]
  BY <1>1, AreaFacts
<1>3. /\ e = [size |-> areas[p].size, poll |-> areas[p].poll, freed |-> TRUE]
      /\ e \in AllAreas
  BY <1>1, <1>2, AreaUpdates
<1>4. Drdpa!Free(p) = [areas EXCEPT ![p] = e]
  BY DEF Drdpa!Free
<1>5. e.size = areas[p].size /\ e.poll = areas[p].poll /\ e.freed = TRUE
  BY <1>3
<1>6. e \in AllAreas
  BY <1>3
<1> HIDE DEF e
<1>7. Drdpa!Free(p) \in Seq(AllAreas) /\ Len(Drdpa!Free(p)) = Len(areas)
  BY <1>4, <1>6 DEF Drdpa!Areas
<1>8. \A q \in Drdpa!Areas : Drdpa!Free(p)[q] = IF q = p THEN e ELSE areas[q]
  BY <1>4 DEF Drdpa!Areas
<1>9. \A q \in Drdpa!Areas : areas[q].freed \in BOOLEAN
  BY AreaFacts DEF Drdpa!Areas
<1> QED
  BY <1>5, <1>7, <1>8, <1>9

Poked(p, k, t) == [areas EXCEPT ![p].poll[k] = t]

LEMMA Poking ==
  ASSUME areas \in Seq(AllAreas), NEW p \in Drdpa!Areas, NEW k \in 0..areas[p].size - 1,
         NEW t \in Nat
  PROVE  /\ Poked(p, k, t) \in Seq(AllAreas) /\ Len(Poked(p, k, t)) = Len(areas)
         /\ \A q \in Drdpa!Areas :
              /\ Poked(p, k, t)[q].size = areas[q].size
              /\ Poked(p, k, t)[q].freed = areas[q].freed
              /\ \A j \in 0..areas[q].size - 1 :
                   Poked(p, k, t)[q].poll[j] = IF q = p /\ j = k THEN t ELSE areas[q].poll[j]
<1> DEFINE f == [areas[p].poll EXCEPT ![k] = t]
           e == [areas[p] EXCEPT !.poll = f]
<1>1. areas[p] \in AllAreas
  BY DEF Drdpa!Areas
<1>2. f \in [0..areas[p].size-1 -> Nat]
  BY <1>1, AreaFacts
<1>3. \A j \in 0..areas[p].size-1 : f[j] = IF j = k THEN t ELSE areas[p].poll[j]
  BY <1>1, AreaFacts
<1>4. Poked(p, k, t) = [areas EXCEPT ![p] = e]
  BY DEF Poked
<1> HIDE DEF f
<1>5. /\ e = [size |-> areas[p].size, poll |-> f, freed |-> areas[p].freed]
      /\ e \in AllAreas
  BY <1>1, <1>2, AreaUpdates
<1> HIDE DEF e
<1> QED
  BY <1>1, <1>3, <1>4, <1>5 DEF Drdpa!Areas

LEMMA Growing ==
  ASSUME areas \in Seq(AllAreas), NEW a \in AllAreas
  PROVE  /\ Append(areas, a) \in Seq(AllAreas) /\ Len(Append(areas, a)) = Len(areas) + 1
         /\ Append(areas, a)[Len(areas) + 1] = a
         /\ \A q \in Drdpa!Areas : Append(areas, a)[q] = areas[q]
  BY DEF Drdpa!Areas

-----------------------------------------------------------------------------
USE DEF Drdpa!Goto, Drdpa!Forget, Drdpa!ReadMask, Drdpa!ReadPolls, Drdpa!lock,
        Drdpa!config, Drdpa!locals, DrdpaPCs, DrdpaTesting, DrdpaDrawn, Deciding, Installed

(* One lemma per action.  Most leave the numbers and the areas alone.       *)

LEMMA SetLockStep ==
  ASSUME Drdpa!Assumptions, NEW s \in Nat, DrdpaInv(s), fault = 0, NEW i \in Drdpa!Id,
         Drdpa!SetLock(i)
  PROVE  DrdpaInv(s)'
<1> USE DEF DrdpaInv, Drdpa!SetLock, Drdpa!Assumptions
<1>1. DrdpaTyped'
  BY DEF DrdpaTyped, Drdpa!Areas
<1>2. DrdpaTickets(s)'
  BY DEF DrdpaTyped, DrdpaTickets, DrdpaTicketed, Drdpa!Carries
<1>3. Polled(s)'
  BY DEF DrdpaTyped, Drdpa!Areas, Polled
<1>4. Configured'
  BY DEF DrdpaTyped, Drdpa!Areas, Configured, Layout, Current, Pollers
<1>5. Sized'
  BY DEF DrdpaTyped, Drdpa!Areas, Sized, Drdpa!Contracted
<1>6. DrdpaOwner'
  BY DEF DrdpaTyped, Drdpa!Areas, DrdpaOwner
<1>7. Drdpa!ExpandsSafely'
  BY DEF Drdpa!ExpandsSafely, Drdpa!AccessInArea
<1> QED
  BY <1>1, <1>2, <1>3, <1>4, <1>5, <1>6, <1>7

LEMMA DrdpaDrawStep ==
  ASSUME Drdpa!Assumptions, NEW s \in Nat, DrdpaInv(s), fault = 0, NEW i \in Drdpa!Id,
         Drdpa!Draw(i)
  PROVE  DrdpaInv(s)'
<1> USE DEF DrdpaInv, Drdpa!Draw, Drdpa!Assumptions
<1>1. DrdpaTyped'
  BY DEF DrdpaTyped, Drdpa!Areas
<1>2. DrdpaTickets(s)'
  BY DEF DrdpaTyped, DrdpaTickets, DrdpaTicketed, Drdpa!Carries
<1>3. Polled(s)'
  BY DEF DrdpaTyped, Drdpa!Areas, Polled
<1>4. Configured'
  BY DEF DrdpaTyped, Drdpa!Areas, Configured, Layout, Current, Pollers
<1>5. Sized'
  BY DEF DrdpaTyped, Drdpa!Areas, Sized, Drdpa!Contracted
<1>6. DrdpaOwner'
  BY DEF DrdpaTyped, Drdpa!Areas, DrdpaOwner
<1>7. Drdpa!ExpandsSafely'
  BY DEF Drdpa!ExpandsSafely, Drdpa!AccessInArea
<1> QED
  BY <1>1, <1>2, <1>3, <1>4, <1>5, <1>6, <1>7

LEMMA AcqMaskStep ==
  ASSUME Drdpa!Assumptions, NEW s \in Nat, DrdpaInv(s), fault = 0, NEW i \in Drdpa!Id,
         Drdpa!AcqMask(i)
  PROVE  DrdpaInv(s)'
<1> USE DEF DrdpaInv, Drdpa!AcqMask, Drdpa!Assumptions
<1>1. DrdpaTyped'
  BY DEF DrdpaTyped, Drdpa!Areas
<1>2. DrdpaTickets(s)'
  BY DEF DrdpaTyped, DrdpaTickets, DrdpaTicketed, Drdpa!Carries
<1>3. Polled(s)'
  BY DEF DrdpaTyped, Drdpa!Areas, Polled
<1>4. Configured'
  BY DEF DrdpaTyped, Drdpa!Areas, Configured, Layout, Current, Pollers
<1>5. Sized'
  BY DEF DrdpaTyped, Drdpa!Areas, Sized, Drdpa!Contracted
<1>6. DrdpaOwner'
  BY DEF DrdpaTyped, Drdpa!Areas, DrdpaOwner
<1>7. Drdpa!ExpandsSafely'
  BY DEF Drdpa!ExpandsSafely, Drdpa!AccessInArea
<1> QED
  BY <1>1, <1>2, <1>3, <1>4, <1>5, <1>6, <1>7

LEMMA AcqPollsStep ==
  ASSUME Drdpa!Assumptions, NEW s \in Nat, DrdpaInv(s), fault = 0, NEW i \in Drdpa!Id,
         Drdpa!AcqPolls(i)
  PROVE  DrdpaInv(s)'
<1> USE DEF DrdpaInv, Drdpa!AcqPolls, Drdpa!Assumptions
<1>1. DrdpaTyped'
  BY DEF DrdpaTyped, Drdpa!Areas
<1>2. DrdpaTickets(s)'
  BY DEF DrdpaTyped, DrdpaTickets, DrdpaTicketed, Drdpa!Carries
<1>3. Polled(s)'
  BY DEF DrdpaTyped, Drdpa!Areas, Polled
<1>4. Configured'
  BY DEF DrdpaTyped, Drdpa!Areas, Configured, Layout, Current, Pollers
<1>5. Sized'
  BY DEF DrdpaTyped, Drdpa!Areas, Sized, Drdpa!Contracted
<1>6. DrdpaOwner'
  BY DEF DrdpaTyped, Drdpa!Areas, DrdpaOwner
<1>7. Drdpa!ExpandsSafely'
  BY DEF Drdpa!ExpandsSafely, Drdpa!AccessInArea
<1> QED
  BY <1>1, <1>2, <1>3, <1>4, <1>5, <1>6, <1>7

LEMMA KeepStep ==
  ASSUME Drdpa!Assumptions, NEW s \in Nat, DrdpaInv(s), fault = 0, NEW i \in Drdpa!Id,
         Drdpa!Keep(i)
  PROVE  DrdpaInv(s)'
<1> USE DEF DrdpaInv, Drdpa!Keep, Drdpa!Assumptions
<1>1. DrdpaTyped'
  BY DEF DrdpaTyped, Drdpa!Areas
<1>2. DrdpaTickets(s)'
  BY DEF DrdpaTyped, DrdpaTickets, DrdpaTicketed, Drdpa!Carries
<1>3. Polled(s)'
  BY DEF DrdpaTyped, Drdpa!Areas, Polled
<1>4. Configured'
  BY DEF DrdpaTyped, Drdpa!Areas, Configured, Layout, Current, Pollers
<1>5. Sized'
  BY DEF DrdpaTyped, Drdpa!Areas, Sized, Drdpa!Contracted
<1>6. DrdpaOwner'
  BY DEF DrdpaTyped, Drdpa!Areas, DrdpaOwner
<1>7. Drdpa!ExpandsSafely'
  BY DEF Drdpa!ExpandsSafely, Drdpa!AccessInArea
<1> QED
  BY <1>1, <1>2, <1>3, <1>4, <1>5, <1>6, <1>7

LEMMA DrdpaOwnStep ==
  ASSUME Drdpa!Assumptions, NEW s \in Nat, DrdpaInv(s), fault = 0, NEW i \in Drdpa!Id,
         Drdpa!Own(i)
  PROVE  DrdpaInv(s)'
<1> USE DEF DrdpaInv, Drdpa!Own, Drdpa!Assumptions
<1>1. DrdpaTyped'
  BY DEF DrdpaTyped, Drdpa!Areas
<1>2. DrdpaTickets(s)'
  BY DEF DrdpaTyped, DrdpaTickets, DrdpaTicketed, Drdpa!Carries
<1>3. Polled(s)'
  BY DEF DrdpaTyped, Drdpa!Areas, Polled
<1>4. Configured'
  BY DEF DrdpaTyped, Drdpa!Areas, Configured, Layout, Current, Pollers
<1>5. Sized'
  BY DEF DrdpaTyped, Drdpa!Areas, Sized, Drdpa!Contracted
<1>6. DrdpaOwner'
  BY DEF DrdpaTyped, Drdpa!Areas, DrdpaOwner, DrdpaTickets, Drdpa!Carries, DrdpaTicketed
<1>7. Drdpa!ExpandsSafely'
  BY DEF Drdpa!ExpandsSafely, Drdpa!AccessInArea
<1> QED
  BY <1>1, <1>2, <1>3, <1>4, <1>5, <1>6, <1>7

LEMMA TestLockStep ==
  ASSUME Drdpa!Assumptions, NEW s \in Nat, DrdpaInv(s), fault = 0, NEW i \in Drdpa!Id,
         Drdpa!TestLock(i)
  PROVE  DrdpaInv(s)'
<1> USE DEF DrdpaInv, Drdpa!TestLock, Drdpa!Assumptions
<1>1. DrdpaTyped'
  BY DEF DrdpaTyped, Drdpa!Areas
<1>2. DrdpaTickets(s)'
  BY DEF DrdpaTyped, DrdpaTickets, DrdpaTicketed, Drdpa!Carries
<1>3. Polled(s)'
  BY DEF DrdpaTyped, Drdpa!Areas, Polled
<1>4. Configured'
  BY DEF DrdpaTyped, Drdpa!Areas, Configured, Layout, Current, Pollers
<1>5. Sized'
  BY DEF DrdpaTyped, Drdpa!Areas, Sized, Drdpa!Contracted
<1>6. DrdpaOwner'
  BY DEF DrdpaTyped, Drdpa!Areas, DrdpaOwner
<1>7. Drdpa!ExpandsSafely'
  BY DEF Drdpa!ExpandsSafely, Drdpa!AccessInArea
<1> QED
  BY <1>1, <1>2, <1>3, <1>4, <1>5, <1>6, <1>7

LEMMA TestPollsStep ==
  ASSUME Drdpa!Assumptions, NEW s \in Nat, DrdpaInv(s), fault = 0, NEW i \in Drdpa!Id,
         Drdpa!TestPolls(i)
  PROVE  DrdpaInv(s)'
<1> USE DEF DrdpaInv, Drdpa!TestPolls, Drdpa!Assumptions
<1>1. DrdpaTyped'
  BY DEF DrdpaTyped, Drdpa!Areas
<1>2. DrdpaTickets(s)'
  <2>1. \A j \in Drdpa!Id : dr_pc'[j] = IF j = i THEN "test_mask" ELSE dr_pc[j]
    BY DEF DrdpaTyped
  <2> QED
    BY <2>1 DEF DrdpaTickets, DrdpaTicketed, Drdpa!Carries
<1>3. Polled(s)'
  BY DEF DrdpaTyped, Drdpa!Areas, Polled
<1>4. Configured'
  <2>1. polls # 0
    BY DEF DrdpaTyped, Drdpa!Areas
  <2>2. Layout' /\ Current'
    BY DEF DrdpaTyped, Configured, Layout, Current, Drdpa!Areas
  <2>3. Pollers'
    BY <2>1 DEF DrdpaTyped, Configured, Pollers
  <2> QED
    BY <2>2, <2>3 DEF Configured
<1>5. Sized'
  BY DEF DrdpaTyped, Drdpa!Areas, Sized, Drdpa!Contracted
<1>6. DrdpaOwner'
  BY DEF DrdpaTyped, Drdpa!Areas, DrdpaOwner
<1>7. Drdpa!ExpandsSafely'
  BY DEF Drdpa!ExpandsSafely, Drdpa!AccessInArea
<1> QED
  BY <1>1, <1>2, <1>3, <1>4, <1>5, <1>6, <1>7

LEMMA TestMaskStep ==
  ASSUME Drdpa!Assumptions, NEW s \in Nat, DrdpaInv(s), fault = 0, NEW i \in Drdpa!Id,
         Drdpa!TestMask(i)
  PROVE  DrdpaInv(s)'
<1> USE DEF DrdpaInv, Drdpa!TestMask, Drdpa!Assumptions
<1>1. DrdpaTyped'
  BY DEF DrdpaTyped, Drdpa!Areas
<1>2. DrdpaTickets(s)'
  <2>1. \A j \in Drdpa!Id : dr_pc'[j] = IF j = i THEN "test_poll" ELSE dr_pc[j]
    BY DEF DrdpaTyped
  <2> QED
    BY <2>1 DEF DrdpaTickets, DrdpaTicketed, Drdpa!Carries
<1>3. Polled(s)'
  BY DEF DrdpaTyped, Drdpa!Areas, Polled
<1>4. Configured'
  BY DEF DrdpaTyped, Drdpa!Areas, Configured, Layout, Current, Pollers
<1>5. Sized'
  BY DEF DrdpaTyped, Drdpa!Areas, Sized, Drdpa!Contracted
<1>6. DrdpaOwner'
  BY DEF DrdpaTyped, Drdpa!Areas, DrdpaOwner
<1>7. Drdpa!ExpandsSafely'
  BY DEF Drdpa!ExpandsSafely, Drdpa!AccessInArea
<1> QED
  BY <1>1, <1>2, <1>3, <1>4, <1>5, <1>6, <1>7

LEMMA AreaTypes ==
  ASSUME NEW s \in Nat, DrdpaInv(s)
  PROVE  /\ \A p \in Drdpa!Areas : /\ areas[p] \in AllAreas /\ areas[p].size \in Nat \ {0}
                                   /\ areas[p].poll \in [0..areas[p].size-1 -> Nat]
                                   /\ areas[p].freed \in BOOLEAN
         /\ Len(areas) \in Nat \ {0} /\ Len(areas) \in Drdpa!Areas
         /\ polls \in Nat \ {0} /\ polls \in Drdpa!Areas
         /\ \A p \in 2..Len(areas) : p \in Drdpa!Areas /\ p - 1 \in Drdpa!Areas
<1>1. areas \in Seq(AllAreas) /\ polls \in Drdpa!Areas
  BY DEF DrdpaInv, DrdpaTyped
<1>2. \A p \in Drdpa!Areas : areas[p] \in AllAreas
  BY <1>1 DEF Drdpa!Areas
<1>3. Len(areas) \in Nat /\ polls \in 1..Len(areas)
  BY <1>1 DEF Drdpa!Areas
<1>4. \A p \in Drdpa!Areas : /\ areas[p].size \in Nat \ {0} /\ areas[p].freed \in BOOLEAN
                             /\ areas[p].poll \in [0..areas[p].size-1 -> Nat]
  BY <1>2, AreaFacts
<1>5. /\ Len(areas) \in Nat \ {0} /\ Len(areas) \in Drdpa!Areas
      /\ polls \in Nat \ {0} /\ polls \in Drdpa!Areas
      /\ \A p \in 2..Len(areas) : p \in Drdpa!Areas /\ p - 1 \in Drdpa!Areas
  BY <1>3 DEF Drdpa!Areas
<1> QED
  BY <1>2, <1>4, <1>5

(* What a poll word says: nothing above s, and s itself outside of the      *)
(* current area only while the holder has replaced it.                      *)
LEMMA PollWord ==
  ASSUME Drdpa!Assumptions, NEW s \in Nat, DrdpaInv(s), NEW p \in Drdpa!Areas,
         NEW t \in Nat, NEW m \in Nat, Drdpa!Accessible(p, Drdpa!Slot(t, m))
  PROVE  /\ Drdpa!Slot(t, m) \in 0..areas[p].size - 1
         /\ areas[p].poll[Drdpa!Slot(t, m)] \in Nat /\ areas[p].poll[Drdpa!Slot(t, m)] <= s
         /\ p < polls /\ areas[p].poll[Drdpa!Slot(t, m)] = s =>
              \E i \in Drdpa!Id : dr_pc[i] \in Installed
<1>1. areas[p] \in AllAreas
  BY DEF DrdpaInv, DrdpaTyped, Drdpa!Areas
<1>2. Drdpa!Slot(t, m) \in 0..areas[p].size - 1
  BY <1>1, AreaFacts DEF Drdpa!Accessible, Drdpa!Slot
<1>3. areas[p].poll[Drdpa!Slot(t, m)] \in Nat
  BY <1>1, <1>2, AreaFacts
<1> QED
  BY <1>2, <1>3 DEF DrdpaInv, Polled

(* A thread that draws polls an area that is not freed.                     *)
LEMMA PolledArea ==
  ASSUME Drdpa!Assumptions, NEW s \in Nat, DrdpaInv(s), NEW i \in Drdpa!Id, dr_pc[i] = "poll"
  PROVE  /\ my_polls[i] \in Drdpa!Areas /\ my_polls[i] \in {polls, polls - 1}
         /\ ~areas[my_polls[i]].freed
         /\ ~Drdpa!Contracted => Drdpa!Accessible(my_polls[i], Drdpa!Slot(ticket[i], my_mask[i]))
<1>1. /\ my_polls[i] \in Drdpa!Areas /\ my_polls[i] \in {polls, polls - 1}
      /\ ~areas[my_polls[i]].freed
  <2>1. \/ my_polls[i] = polls
        \/ my_polls[i] = old_polls /\ old_polls # 0 /\ old_polls = polls - 1
    BY DEF DrdpaInv, Configured, Layout, Pollers
  <2>2. old_polls \in Drdpa!Areas \cup {0}
    BY DEF DrdpaInv, DrdpaTyped
  <2> QED
    BY <2>1, <2>2, AreaTypes DEF DrdpaInv, Configured, Layout
<1>2. areas[my_polls[i]].size \in Nat
  BY <1>1, AreaTypes
<1>3. ticket[i] \in Nat /\ my_mask[i] \in Nat
  BY DEF DrdpaInv, DrdpaTyped, Drdpa!Areas, Drdpa!Assumptions
<1>4. Drdpa!Slot(ticket[i], my_mask[i]) <= my_mask[i]
  BY <1>3 DEF Drdpa!Slot
<1>5. ~Drdpa!Contracted => my_mask[i] < areas[my_polls[i]].size
  BY DEF DrdpaInv, Sized
<1>6. Drdpa!Slot(ticket[i], my_mask[i]) \in Nat
  BY <1>3 DEF Drdpa!Slot
<1> QED
  BY <1>1, <1>2, <1>3, <1>4, <1>5, <1>6 DEF Drdpa!Accessible

LEMMA AcqPollStep ==
  ASSUME Drdpa!Assumptions, NEW s \in Nat, DrdpaInv(s), fault = 0, NEW i \in Drdpa!Id,
         Drdpa!AcqPoll(i)
  PROVE  DrdpaInv(s)'
<1> DEFINE p == my_polls[i]  k == Drdpa!Slot(ticket[i], my_mask[i])
<1> dr_pc[i] = "poll" /\ UNCHANGED <<Drdpa!lock, Drdpa!config, Drdpa!locals>>
  BY DEF Drdpa!AcqPoll
<1>1. p \in Drdpa!Areas /\ p \in {polls, polls - 1} /\ (~Drdpa!Contracted => Drdpa!Accessible(p, k))
  BY PolledArea
<1>2. ticket[i] \in Nat /\ my_mask[i] \in Nat /\ dr_next_ticket \in Nat
  BY DEF DrdpaInv, DrdpaTyped, Drdpa!Areas, Drdpa!Assumptions
<1>3. Drdpa!Contracted' = Drdpa!Contracted /\ Sized'
  <2>1. \/ dr_pc' = dr_pc
        \/ dr_pc' = [dr_pc EXCEPT ![i] = "mask"]
        \/ dr_pc' = [dr_pc EXCEPT ![i] = "enter"]
    BY DEF Drdpa!AcqPoll
  <2> QED
    BY <2>1 DEF DrdpaInv, DrdpaTyped, Drdpa!Areas, Sized, Drdpa!Contracted
<1>4. CASE ~Drdpa!Accessible(p, k)
  <2> fault' = i /\ UNCHANGED dr_pc
    BY <1>4 DEF Drdpa!AcqPoll
  <2>1. Drdpa!ExpandsSafely'
    BY <1>1, <1>3, <1>4 DEF Drdpa!ExpandsSafely
  <2> QED
    BY <1>3, <2>1 DEF DrdpaInv, DrdpaTyped, Drdpa!Areas, DrdpaTickets, Drdpa!Carries,
       Polled, Configured, Layout, Current, Pollers, DrdpaOwner
<1>5. CASE Drdpa!Accessible(p, k) /\ areas[p].poll[k] < ticket[i]
  <2> dr_pc' = [dr_pc EXCEPT ![i] = "mask"] /\ UNCHANGED fault
    BY <1>5 DEF Drdpa!AcqPoll
  <2>1. DrdpaTyped' /\ Polled(s)' /\ Configured' /\ DrdpaOwner' /\ Drdpa!ExpandsSafely'
    BY DEF DrdpaInv, DrdpaTyped, Drdpa!Areas, Polled, Configured, Layout, Current, Pollers,
       DrdpaOwner, Drdpa!ExpandsSafely, Drdpa!AccessInArea
  <2>2. DrdpaTickets(s)'
    <3>1. \A j \in Drdpa!Id : dr_pc'[j] = IF j = i THEN "mask" ELSE dr_pc[j]
      BY DEF DrdpaInv, DrdpaTyped
    <3> QED
      BY <3>1 DEF DrdpaInv, DrdpaTickets, DrdpaTicketed, Drdpa!Carries
  <2> QED
    BY <1>3, <2>1, <2>2 DEF DrdpaInv
<1>6. CASE Drdpa!Accessible(p, k) /\ ~(areas[p].poll[k] < ticket[i])
  <2> dr_pc' = [dr_pc EXCEPT ![i] = "enter"] /\ UNCHANGED fault
    BY <1>6 DEF Drdpa!AcqPoll
  <2>1. ticket[i] = s /\ areas[p].poll[k] = s
    <3>1. areas[p].poll[k] \in Nat /\ areas[p].poll[k] <= s
      BY <1>1, <1>2, <1>6, PollWord
    <3>2. s <= ticket[i]
      BY DEF DrdpaInv, DrdpaTickets, DrdpaTicketed
    <3> QED
      BY <1>2, <1>6, <3>1, <3>2
  <2>2. \A j \in Drdpa!Id : ~Drdpa!Carries(j)
    BY <2>1 DEF DrdpaInv, DrdpaTickets, Drdpa!Carries
  <2>3. p = polls
    <3>1. ~(p < polls)
      BY <1>1, <1>2, <1>6, <2>1, <2>2, PollWord DEF Drdpa!Carries
    <3> QED
      BY <1>1, <3>1 DEF DrdpaInv, DrdpaTyped, Drdpa!Areas
  <2>4. DrdpaTyped' /\ Polled(s)' /\ DrdpaOwner' /\ Drdpa!ExpandsSafely'
    BY DEF DrdpaInv, DrdpaTyped, Drdpa!Areas, Polled, DrdpaOwner, Drdpa!ExpandsSafely,
       Drdpa!AccessInArea
  <2>5. DrdpaTickets(s)'
    <3>1. s < dr_next_ticket
      BY <2>1 DEF DrdpaInv, DrdpaTickets, DrdpaTicketed
    <3>2. \A j \in Drdpa!Id : j # i => (dr_pc[j] \in {"mask", "polls", "poll"} => ticket[j] # s)
      BY <2>1 DEF DrdpaInv, DrdpaTickets, DrdpaTicketed
    <3>3. \A j \in Drdpa!Id : dr_pc'[j] = IF j = i THEN "enter" ELSE dr_pc[j]
      BY DEF DrdpaInv, DrdpaTyped
    <3> QED
      BY <2>1, <2>2, <3>1, <3>2, <3>3 DEF DrdpaInv, DrdpaTickets, DrdpaTicketed, Drdpa!Carries
  <2>6. Configured'
    BY <2>3 DEF DrdpaInv, DrdpaTyped, Drdpa!Areas, Configured, Layout, Current, Pollers
  <2> QED
    BY <1>3, <2>4, <2>5, <2>6 DEF DrdpaInv
<1> QED
  BY <1>4, <1>5, <1>6

LEMMA TestPollStep ==
  ASSUME Drdpa!Assumptions, NEW s \in Nat, DrdpaInv(s), fault = 0, NEW i \in Drdpa!Id,
         Drdpa!TestPoll(i)
  PROVE  DrdpaInv(s)'
<1> DEFINE p == my_polls[i]  k == Drdpa!Slot(ticket[i], my_mask[i])
<1> dr_pc[i] = "test_poll" /\ UNCHANGED <<Drdpa!lock, Drdpa!config>>
  BY DEF Drdpa!TestPoll
<1>1. p \in Drdpa!Areas /\ ticket[i] \in Nat /\ my_mask[i] \in Nat
  BY DEF DrdpaInv, DrdpaTyped, Drdpa!Areas, Configured, Layout, Current, Pollers,
     Drdpa!Assumptions
<1>2. CASE ~Drdpa!Accessible(p, k)
  <2> fault' = i /\ UNCHANGED <<dr_pc, Drdpa!locals>>
    BY <1>2 DEF Drdpa!TestPoll
  <2>1. Drdpa!ExpandsSafely'
    BY DEF Drdpa!ExpandsSafely
  <2>2. DrdpaTyped' /\ DrdpaTickets(s)' /\ DrdpaOwner'
    BY DEF DrdpaInv, DrdpaTyped, Drdpa!Areas, DrdpaTickets, Drdpa!Carries, DrdpaOwner
  <2>3. Polled(s)' /\ Configured' /\ Sized'
    BY DEF DrdpaInv, Drdpa!Areas, Polled, Configured, Layout, Current, Pollers, Sized,
       Drdpa!Contracted
  <2> QED
    BY <2>1, <2>2, <2>3 DEF DrdpaInv
<1>3. CASE Drdpa!Accessible(p, k) /\ areas[p].poll[k] = ticket[i]
  <2> dr_pc' = [dr_pc EXCEPT ![i] = "test_cas"] /\ UNCHANGED <<fault, Drdpa!locals>>
    BY <1>3 DEF Drdpa!TestPoll
  <2>1. ticket[i] <= s
    BY <1>1, <1>3, PollWord
  <2>2. DrdpaTyped' /\ Polled(s)' /\ Configured' /\ DrdpaOwner' /\ Drdpa!ExpandsSafely'
    BY DEF DrdpaInv, DrdpaTyped, Drdpa!Areas, Polled, Configured, Layout, Current, Pollers,
       DrdpaOwner, Drdpa!ExpandsSafely, Drdpa!AccessInArea
  <2>3. DrdpaTickets(s)'
    <3>1. \A j \in Drdpa!Id : dr_pc'[j] = IF j = i THEN "test_cas" ELSE dr_pc[j]
      BY DEF DrdpaInv, DrdpaTyped
    <3> QED
      BY <2>1, <3>1 DEF DrdpaInv, DrdpaTickets, DrdpaTicketed, Drdpa!Carries
  <2>4. Sized'
    BY DEF DrdpaInv, DrdpaTyped, Drdpa!Areas, Sized, Drdpa!Contracted
  <2> QED
    BY <2>2, <2>3, <2>4 DEF DrdpaInv
<1>4. CASE Drdpa!Accessible(p, k) /\ areas[p].poll[k] # ticket[i]
  <2> dr_pc' = [dr_pc EXCEPT ![i] = "idle"] /\ Drdpa!Forget(i) /\ UNCHANGED fault
    BY <1>4 DEF Drdpa!TestPoll
  <2>1. DrdpaTyped' /\ Drdpa!ExpandsSafely'
    BY DEF DrdpaInv, DrdpaTyped, Drdpa!Areas, Drdpa!ExpandsSafely, Drdpa!AccessInArea,
       Drdpa!Assumptions
  <2>4. Polled(s)' /\ DrdpaOwner'
    BY DEF DrdpaInv, DrdpaTyped, Drdpa!Areas, Polled, DrdpaOwner
  <2>2. DrdpaTickets(s)'
    BY DEF DrdpaInv, DrdpaTyped, DrdpaTickets, DrdpaTicketed, Drdpa!Carries
  <2>3. Configured' /\ Sized'
    BY DEF DrdpaInv, DrdpaTyped, Drdpa!Areas, Configured, Layout, Current, Pollers, Sized,
       Drdpa!Contracted
  <2> QED
    BY <2>1, <2>2, <2>3, <2>4 DEF DrdpaInv
<1> QED
  BY <1>2, <1>3, <1>4

(* A test that finds its number still to be drawn finds it to be served.    *)
LEMMA DrdpaTestCasStep ==
  ASSUME Drdpa!Assumptions, NEW s \in Nat, DrdpaInv(s), fault = 0, NEW i \in Drdpa!Id,
         Drdpa!TestCas(i)
  PROVE  DrdpaInv(s)'
<1> dr_pc[i] = "test_cas" /\ UNCHANGED <<dr_owner_id, Drdpa!config, fault>>
  BY DEF Drdpa!TestCas
<1>1. CASE dr_next_ticket = ticket[i]
  <2> /\ dr_pc' = [dr_pc EXCEPT ![i] = "own"] /\ dr_next_ticket' = dr_next_ticket + 1
      /\ dr_now_serving' = ticket[i] /\ UNCHANGED Drdpa!locals
    BY <1>1 DEF Drdpa!TestCas
  <2>1. s = dr_next_ticket /\ ticket[i] = s /\ dr_next_ticket \in Nat /\ dr_next_ticket < MaxTicket
    BY <1>1 DEF DrdpaInv, DrdpaTickets, DrdpaTyped, Drdpa!Areas, Drdpa!Assumptions
  <2>2. \A j \in Drdpa!Id : ~Drdpa!Carries(j) /\ dr_pc[j] \notin DrdpaTicketed
    BY <2>1 DEF DrdpaInv, DrdpaTickets, DrdpaTyped, Drdpa!Areas, Drdpa!Assumptions
  <2>3. DrdpaTyped'
    BY <2>1 DEF DrdpaInv, DrdpaTyped, Drdpa!Areas, Drdpa!Assumptions
  <2>4. DrdpaTickets(s)'
    BY <2>1, <2>2 DEF DrdpaInv, DrdpaTyped, DrdpaTickets, DrdpaTicketed, Drdpa!Carries
  <2>5. Polled(s)' /\ DrdpaOwner' /\ Drdpa!ExpandsSafely'
    BY DEF DrdpaInv, DrdpaTyped, Drdpa!Areas, Polled, DrdpaOwner, Drdpa!ExpandsSafely,
       Drdpa!AccessInArea
  <2>6. Configured' /\ Sized'
    BY DEF DrdpaInv, DrdpaTyped, Drdpa!Areas, Configured, Layout, Current, Pollers, Sized,
       Drdpa!Contracted
  <2> QED
    BY <2>3, <2>4, <2>5, <2>6 DEF DrdpaInv
<1>2. CASE dr_next_ticket # ticket[i]
  <2> /\ dr_pc' = [dr_pc EXCEPT ![i] = "idle"] /\ Drdpa!Forget(i)
      /\ UNCHANGED <<dr_next_ticket, dr_now_serving>>
    BY <1>2 DEF Drdpa!TestCas
  <2>1. DrdpaTyped' /\ Drdpa!ExpandsSafely'
    BY DEF DrdpaInv, DrdpaTyped, Drdpa!Areas, Drdpa!ExpandsSafely, Drdpa!AccessInArea,
       Drdpa!Assumptions
  <2>4. Polled(s)' /\ DrdpaOwner'
    BY DEF DrdpaInv, DrdpaTyped, Drdpa!Areas, Polled, DrdpaOwner
  <2>2. DrdpaTickets(s)'
    BY DEF DrdpaInv, DrdpaTyped, DrdpaTickets, DrdpaTicketed, Drdpa!Carries
  <2>3. Configured' /\ Sized'
    BY DEF DrdpaInv, DrdpaTyped, Drdpa!Areas, Configured, Layout, Current, Pollers, Sized,
       Drdpa!Contracted
  <2> QED
    BY <2>1, <2>2, <2>3, <2>4 DEF DrdpaInv
<1> QED
  BY <1>1, <1>2

LEMMA UnsetLockStep ==
  ASSUME Drdpa!Assumptions, NEW s \in Nat, DrdpaInv(s), fault = 0, NEW i \in Drdpa!Id,
         Drdpa!UnsetLock(i)
  PROVE  DrdpaInv(s)'
<1>1. /\ dr_pc[i] = "held" /\ dr_owner_id = i /\ dr_owner_id' = 0
      /\ dr_pc' = [dr_pc EXCEPT ![i] = "release"]
      /\ UNCHANGED <<dr_next_ticket, dr_now_serving, Drdpa!config, Drdpa!locals, fault>>
  BY DEF Drdpa!UnsetLock, DrdpaInv, DrdpaOwner
<1>2. DrdpaTyped' /\ Polled(s)' /\ Drdpa!ExpandsSafely'
  BY <1>1 DEF DrdpaInv, DrdpaTyped, Drdpa!Areas, Polled, Drdpa!ExpandsSafely, Drdpa!AccessInArea
<1>3. DrdpaTickets(s)'
  BY <1>1 DEF DrdpaInv, DrdpaTyped, DrdpaTickets, DrdpaTicketed, Drdpa!Carries
<1>4. Configured' /\ Sized'
  BY <1>1 DEF DrdpaInv, DrdpaTyped, Drdpa!Areas, Configured, Layout, Current, Pollers,
     Sized, Drdpa!Contracted
<1>5. DrdpaOwner'
  BY <1>1 DEF DrdpaInv, DrdpaTyped, Drdpa!Areas, DrdpaOwner, Drdpa!Id, Drdpa!Assumptions
<1> QED
  BY <1>2, <1>3, <1>4, <1>5 DEF DrdpaInv

-----------------------------------------------------------------------------
(* The holder is alone behind its ticket.                                   *)
LEMMA Alone ==
  ASSUME Drdpa!Assumptions, NEW s \in Nat, DrdpaInv(s), NEW i \in Drdpa!Id, Drdpa!Carries(i)
  PROVE  \A j \in Drdpa!Id : j # i =>
           /\ dr_pc[j] \notin Deciding \cup Installed
           /\ dr_pc[j] \in DrdpaDrawn => ticket[j] > s
  BY DEF DrdpaInv, DrdpaTickets, DrdpaTicketed, Drdpa!Carries, DrdpaTyped, Drdpa!Areas,
     Drdpa!Assumptions

LEMMA ActivePolls ==
  ASSUME Drdpa!Assumptions, NEW s \in Nat, DrdpaInv(s)
  PROVE  \A j \in Drdpa!Id : dr_pc[j] \in {"poll", "enter", "size", "install"} =>
           my_polls[j] \in Drdpa!Areas
  BY DEF DrdpaInv, DrdpaTyped, Drdpa!Areas, Configured, Current, Pollers

LEMMA SizesKept ==
  ASSUME Drdpa!Assumptions, NEW s \in Nat, DrdpaInv(s), Len(areas') = Len(areas),
         \A q \in Drdpa!Areas : areas'[q].size = areas[q].size
  PROVE  Drdpa!Contracted' = Drdpa!Contracted
<1>1. \A q \in 2..Len(areas) : /\ areas'[q].size = areas[q].size
                               /\ areas'[q - 1].size = areas[q - 1].size
  BY AreaTypes
<1> QED
  BY <1>1 DEF Drdpa!Contracted

LEMMA DrdpaEnterStep ==
  ASSUME Drdpa!Assumptions, NEW s \in Nat, DrdpaInv(s), fault = 0, NEW i \in Drdpa!Id,
         Drdpa!Enter(i)
  PROVE  DrdpaInv(s)'
<1>1. dr_pc[i] = "enter" /\ ticket[i] = s /\ dr_now_serving' = s
  BY DEF Drdpa!Enter, DrdpaInv, DrdpaTickets, DrdpaTicketed
<1>2. Drdpa!Carries(i)
  BY <1>1 DEF Drdpa!Carries
<1>3. /\ areas' = IF old_polls # 0 /\ s >= cleanup_ticket THEN Drdpa!Free(old_polls) ELSE areas
      /\ old_polls' = IF old_polls # 0 /\ s >= cleanup_ticket THEN 0 ELSE old_polls
      /\ cleanup_ticket' = IF old_polls # 0 /\ s >= cleanup_ticket THEN 0 ELSE cleanup_ticket
      /\ UNCHANGED <<dr_next_ticket, dr_owner_id, polls, mask, num_polls, Drdpa!locals, fault>>
  BY <1>1 DEF Drdpa!Enter
<1>11. PICK to \in {"size", "own"} :
         dr_pc' = [dr_pc EXCEPT ![i] = to] /\ (to = "size" => old_polls' = 0)
  BY <1>1 DEF Drdpa!Enter
<1>4. /\ areas' \in Seq(AllAreas) /\ Len(areas') = Len(areas)
      /\ \A q \in Drdpa!Areas :
           /\ areas'[q].size = areas[q].size /\ areas'[q].poll = areas[q].poll
           /\ areas'[q].freed <=> areas[q].freed \/ (q = old_polls /\ old_polls' = 0)
  <2>1. CASE old_polls # 0 /\ s >= cleanup_ticket
    <3>1. areas \in Seq(AllAreas) /\ old_polls \in Drdpa!Areas
      BY <2>1 DEF DrdpaInv, DrdpaTyped, Drdpa!Areas
    <3> QED
      BY <1>3, <2>1, <3>1, Freeing
  <2>2. CASE ~(old_polls # 0 /\ s >= cleanup_ticket)
    BY <1>3, <2>2 DEF DrdpaInv, DrdpaTyped, Drdpa!Areas
  <2> QED
    BY <2>1, <2>2
<1>5. DrdpaTyped'
  <2>1. s \in 0..MaxTicket /\ 0 \in 0..MaxTicket
    BY <1>1 DEF DrdpaInv, DrdpaTyped, Drdpa!Areas, Drdpa!Assumptions
  <2> QED
    BY <1>1, <1>3, <1>4, <1>11, <2>1 DEF DrdpaInv, DrdpaTyped, Drdpa!Areas
<1>6. DrdpaTickets(s)'
  <2>1. \A j \in Drdpa!Id : IF j = i THEN dr_pc'[j] \in {"size", "own"} ELSE dr_pc'[j] = dr_pc[j]
    BY <1>11 DEF DrdpaInv, DrdpaTyped, Drdpa!Areas
  <2>2. \A j \in Drdpa!Id : j # i => dr_pc[j] \notin Deciding \cup Installed
    BY <1>2, Alone
  <2>3. \A j \in Drdpa!Id : Drdpa!Carries(j)' <=> j = i
    BY <2>1, <2>2 DEF Drdpa!Carries
  <2>4. \A j \in Drdpa!Id : dr_pc'[j] \in DrdpaTicketed <=> dr_pc[j] \in DrdpaTicketed
    BY <1>1, <2>1 DEF DrdpaTicketed
  <2>5. UNCHANGED <<dr_next_ticket, ticket>> /\ dr_now_serving' = s
    BY <1>1, <1>3
  <2> QED
    BY <1>1, <1>2, <2>1, <2>2, <2>3, <2>4, <2>5 DEF DrdpaInv, DrdpaTickets, DrdpaTicketed
<1>7. Polled(s)'
  <2>1. \A j \in Drdpa!Id : dr_pc[j] \in Installed => dr_pc'[j] \in Installed
    BY <1>1, <1>11 DEF DrdpaInv, DrdpaTyped, Drdpa!Areas
  <2> QED
    BY <1>3, <1>4, <2>1 DEF DrdpaInv, Polled, Drdpa!Areas
<1>8. Configured'
  <2>1. ASSUME NEW j \in Drdpa!Id, dr_pc[j] = "poll"
        PROVE  \/ my_polls[j] = polls
               \/ my_polls[j] = old_polls /\ old_polls # 0 /\ ticket[j] < cleanup_ticket
    BY <1>1, <1>2, <2>1, Alone DEF DrdpaInv, Configured, Pollers
  <2>2. ASSUME NEW j \in Drdpa!Id, dr_pc[j] = "poll"
        PROVE  ticket[j] > s /\ ticket[j] \in Nat
    <3>1. j # i
      BY <1>1, <2>2
    <3>2. ticket[j] > s
      BY <1>2, <2>2, <3>1, Alone
    <3> QED
      BY <3>2 DEF DrdpaInv, DrdpaTyped, Drdpa!Areas, Drdpa!Assumptions
  <2>3. Layout'
    <3>1. \A j \in Drdpa!Id : dr_pc'[j] = IF j = i THEN to ELSE dr_pc[j]
      BY <1>11 DEF DrdpaInv, DrdpaTyped
    <3>2. Drdpa!Areas' = Drdpa!Areas /\ 0 \notin Drdpa!Areas
      BY <1>4 DEF Drdpa!Areas
    <3>3. \A p \in Drdpa!Areas : areas'[p].freed <=> p < polls /\ p # old_polls'
      BY <1>3, <1>4, <3>2, AreaTypes DEF DrdpaInv, Configured, Layout
    <3>4. old_polls' # 0 => old_polls' = polls' - 1
      BY <1>3 DEF DrdpaInv, Configured, Layout
    <3> QED
      BY <1>1, <1>3, <1>4, <3>1, <3>2, <3>3, <3>4 DEF DrdpaInv, Configured, Layout
  <2>4. Current'
    BY <1>1, <1>2, <1>3, <1>4, <1>11, Alone DEF DrdpaInv, DrdpaTyped, Drdpa!Areas,
       Configured, Current
  <2>5. cleanup_ticket \in Nat
    BY DEF DrdpaInv, DrdpaTyped, Drdpa!Areas, Drdpa!Assumptions
  <2>6. Pollers'
    BY <1>1, <1>3, <1>11, <2>1, <2>2, <2>5 DEF DrdpaInv, DrdpaTyped, Drdpa!Areas,
       Configured, Pollers
  <2> QED
    BY <2>3, <2>4, <2>6 DEF Configured
<1>9. Sized'
  <2>1. Drdpa!Contracted' = Drdpa!Contracted
    BY <1>4, SizesKept
  <2>2. \A j \in Drdpa!Id : dr_pc'[j] \in {"poll", "enter", "size"} => my_polls[j] \in Drdpa!Areas
    BY <1>1, <1>11, ActivePolls DEF DrdpaInv, DrdpaTyped, Drdpa!Areas
  <2>3. \A j \in Drdpa!Id : dr_pc'[j] = dr_pc[j] \/ (j = i /\ dr_pc'[j] \in {"size", "own"})
    BY <1>11 DEF DrdpaInv, DrdpaTyped, Drdpa!Areas
  <2>4. /\ UNCHANGED <<polls, mask, my_mask, my_polls>>
        /\ polls \in Drdpa!Areas /\ Len(areas) \in Drdpa!Areas
    BY <1>3 DEF DrdpaInv, DrdpaTyped, Drdpa!Areas
  <2> QED
    BY <1>1, <1>4, <2>1, <2>2, <2>3, <2>4 DEF DrdpaInv, Sized
<1>10. DrdpaOwner' /\ Drdpa!ExpandsSafely'
  BY <1>1, <1>3, <1>11 DEF DrdpaInv, DrdpaTyped, Drdpa!Areas, DrdpaOwner,
     Drdpa!ExpandsSafely, Drdpa!AccessInArea
<1> QED
  BY <1>5, <1>6, <1>7, <1>8, <1>9, <1>10 DEF DrdpaInv

(* A new area with values that have been served, and a mask that names its  *)
(* words as long as no area is smaller than the one before.                 *)
LEMMA ReconfigureStep ==
  ASSUME Drdpa!Assumptions, NEW s \in Nat, DrdpaInv(s), fault = 0, NEW i \in Drdpa!Id,
         NEW m \in Nat, NEW a \in AllAreas, ~a.freed,
         \A k \in 0..a.size - 1 : a.poll[k] <= s,
         ~Drdpa!Contracted /\ areas[Len(areas)].size <= a.size => m < a.size,
         Drdpa!Reconfigure(i, m, a)
  PROVE  DrdpaInv(s)'
<1>1. /\ dr_pc[i] = "size" /\ dr_pc' = [dr_pc EXCEPT ![i] = "install"]
      /\ areas' = Append(areas, a) /\ my_mask' = [my_mask EXCEPT ![i] = m]
      /\ UNCHANGED <<dr_next_ticket, dr_now_serving, dr_owner_id, polls, old_polls, mask,
                     num_polls, cleanup_ticket, ticket, my_polls, fault>>
  BY DEF Drdpa!Reconfigure
<1>2. /\ areas' \in Seq(AllAreas) /\ Len(areas) \in Nat /\ Len(areas') = Len(areas) + 1
      /\ areas'[Len(areas) + 1] = a
      /\ \A q \in Drdpa!Areas : areas'[q] = areas[q]
  BY <1>1, Growing DEF DrdpaInv, DrdpaTyped, Drdpa!Areas
<1>3. Drdpa!Carries(i)
  BY <1>1 DEF Drdpa!Carries
<1>4. polls = Len(areas) /\ old_polls = 0
  BY <1>1, <1>3, Alone DEF DrdpaInv, Configured, Layout, Current, Pollers
<1>5. DrdpaTyped'
  <2>1. Drdpa!Areas \subseteq Drdpa!Areas'
    BY <1>2 DEF Drdpa!Areas
  <2> QED
    BY <1>1, <1>2, <2>1 DEF DrdpaInv, DrdpaTyped
<1>6. DrdpaTickets(s)'
  <2>1. \A j \in Drdpa!Id : dr_pc'[j] = IF j = i THEN "install" ELSE dr_pc[j]
    BY <1>1 DEF DrdpaInv, DrdpaTyped
  <2> QED
    BY <1>1, <2>1 DEF DrdpaInv, DrdpaTickets, DrdpaTicketed, Drdpa!Carries
<1>7. Polled(s)'
  <2>1. \A j \in Drdpa!Id : dr_pc[j] \in Installed => dr_pc'[j] \in Installed
    BY <1>1 DEF DrdpaInv, DrdpaTyped, Drdpa!Areas
  <2>2. ~(Len(areas) + 1 < polls)
    BY <1>4
  <2>3. Drdpa!Areas' = Drdpa!Areas \cup {Len(areas) + 1}
    BY <1>2 DEF Drdpa!Areas
  <2> QED
    BY <1>1, <1>2, <2>1, <2>2, <2>3 DEF DrdpaInv, Polled
<1>8. Configured'
  <2>1. Drdpa!Areas' = Drdpa!Areas \cup {Len(areas) + 1}
    BY <1>2 DEF Drdpa!Areas
  <2>2. Layout'
    BY <1>1, <1>2, <1>4, <2>1 DEF DrdpaInv, DrdpaTyped, Drdpa!Areas, Configured, Layout
  <2>3. Current'
    BY <1>1, <1>2, <1>4 DEF DrdpaInv, DrdpaTyped, Drdpa!Areas, Configured, Current
  <2>4. Pollers'
    BY <1>1 DEF DrdpaInv, DrdpaTyped, Drdpa!Areas, Configured, Pollers
  <2> QED
    BY <2>2, <2>3, <2>4 DEF Configured
<1>9. Sized'
  <2>1. Drdpa!Contracted => Drdpa!Contracted'
    <3>1. 2..Len(areas) \subseteq 2..Len(areas')
      BY <1>2
    <3> QED
      BY <1>2, <3>1, AreaTypes DEF Drdpa!Contracted
  <2>2. ~Drdpa!Contracted' => areas[Len(areas)].size <= a.size
    <3>1. a.size \in Nat /\ areas[Len(areas)].size \in Nat /\ Len(areas) \in Nat \ {0}
      BY AreaTypes, AreaFacts
    <3>2. Len(areas) + 1 \in 2..Len(areas') /\ Len(areas) \in Drdpa!Areas
      BY <1>2, <3>1 DEF Drdpa!Areas
    <3>3. areas'[Len(areas) + 1] = a /\ areas'[Len(areas)] = areas[Len(areas)]
      BY <1>2, <3>2
    <3>4. (Len(areas) + 1) - 1 = Len(areas)
      BY <3>1
    <3>5. ~Drdpa!Contracted' => ~(a.size < areas[Len(areas)].size)
      BY <3>2, <3>3, <3>4 DEF Drdpa!Contracted
    <3> QED
      BY <3>1, <3>5
  <2>3. \A j \in Drdpa!Id : j # i => dr_pc'[j] \notin {"install", "remask", "enter", "size"}
    BY <1>1, <1>3, Alone
  <2> QED
    <3>1. \A j \in Drdpa!Id : dr_pc'[j] = IF j = i THEN "install" ELSE dr_pc[j]
      BY <1>1 DEF DrdpaInv, DrdpaTyped
    <3>2. \A j \in Drdpa!Id : my_mask'[j] = IF j = i THEN m ELSE my_mask[j]
      BY <1>1 DEF DrdpaInv, DrdpaTyped
    <3>3. areas'[polls] = areas[polls]
      BY <1>2, AreaTypes
    <3>4. \A j \in Drdpa!Id : dr_pc[j] = "poll" => areas'[my_polls[j]] = areas[my_polls[j]]
      BY <1>2, ActivePolls
    <3>5. areas'[Len(areas')] = a
      BY <1>2
    <3>6. SUFFICES ASSUME ~Drdpa!Contracted' PROVE Sized'
      BY DEF Sized
    <3>7. m < a.size /\ mask < areas[polls].size
      BY <2>1, <2>2, <3>6 DEF DrdpaInv, Sized
    <3>8. \A j \in Drdpa!Id : /\ dr_pc[j] = "polls" => my_mask[j] < areas[polls].size
                              /\ dr_pc[j] = "poll" => my_mask[j] < areas[my_polls[j]].size
      BY <2>1, <3>6 DEF DrdpaInv, Sized
    <3>9. UNCHANGED <<polls, mask, my_polls>>
      BY <1>1
    <3>10. \A j \in Drdpa!Id :
             dr_pc'[j] = "polls" => my_mask'[j] < areas'[polls].size
      BY <3>1, <3>2, <3>3, <3>8
    <3>11. \A j \in Drdpa!Id : dr_pc'[j] \in {"poll", "enter", "size"} =>
             my_mask'[j] < areas'[my_polls[j]].size
      BY <2>3, <3>1, <3>2, <3>4, <3>8
    <3>12. \A j \in Drdpa!Id : dr_pc'[j] \in {"install", "remask"} => my_mask'[j] < a.size
      BY <2>3, <3>1, <3>2, <3>7
    <3> QED
      BY <3>3, <3>5, <3>7, <3>9, <3>10, <3>11, <3>12 DEF Sized
<1>10. DrdpaOwner' /\ Drdpa!ExpandsSafely'
  BY <1>1 DEF DrdpaInv, DrdpaTyped, Drdpa!Areas, DrdpaOwner, Drdpa!ExpandsSafely,
     Drdpa!AccessInArea
<1> QED
  BY <1>5, <1>6, <1>7, <1>8, <1>9, <1>10 DEF DrdpaInv

LEMMA InstallStep ==
  ASSUME Drdpa!Assumptions, NEW s \in Nat, DrdpaInv(s), fault = 0, NEW i \in Drdpa!Id,
         Drdpa!Install(i)
  PROVE  DrdpaInv(s)'
<1>1. /\ dr_pc[i] = "install" /\ dr_pc' = [dr_pc EXCEPT ![i] = "remask"]
      /\ old_polls' = my_polls[i] /\ polls' = Len(areas)
      /\ UNCHANGED <<Drdpa!lock, mask, num_polls, cleanup_ticket, areas, Drdpa!locals, fault>>
  BY DEF Drdpa!Install
<1>2. Drdpa!Carries(i)
  BY <1>1 DEF Drdpa!Carries
<1>3. old_polls = 0 /\ old_polls' = polls /\ polls' = polls + 1 /\ Len(areas) = polls + 1
  BY <1>1 DEF DrdpaInv, Configured, Layout, Current, Pollers
<1>4. DrdpaTyped'
  BY <1>1, <1>3 DEF DrdpaInv, DrdpaTyped, Drdpa!Areas
<1>5. DrdpaTickets(s)'
  <2>1. \A j \in Drdpa!Id : dr_pc'[j] = IF j = i THEN "remask" ELSE dr_pc[j]
    BY <1>1 DEF DrdpaInv, DrdpaTyped
  <2> QED
    BY <1>1, <2>1 DEF DrdpaInv, DrdpaTickets, DrdpaTicketed, Drdpa!Carries
<1>6. Polled(s)'
  BY <1>1, <1>3 DEF DrdpaInv, DrdpaTyped, Drdpa!Areas, Polled
<1>7. Configured'
  <2>1. Layout'
    <3>1. \A p \in Drdpa!Areas : p <= polls + 1 /\ (areas[p].freed <=> p < polls)
      BY <1>3 DEF DrdpaInv, DrdpaTyped, Drdpa!Areas, Configured, Layout
    <3>2. polls \in Nat
      BY DEF DrdpaInv, DrdpaTyped, Drdpa!Areas
    <3>3. \A j \in Drdpa!Id : j # i => dr_pc[j] # "install"
      BY <1>2, Alone
    <3>4. \A j \in Drdpa!Id : dr_pc'[j] # "install"
      BY <1>1, <3>3 DEF DrdpaInv, DrdpaTyped, Drdpa!Areas
    <3> QED
      BY <1>1, <1>3, <3>1, <3>2, <3>4 DEF Layout, Drdpa!Areas
  <2>2. Current'
    BY <1>1, <1>2, <1>3, Alone DEF DrdpaInv, DrdpaTyped, Drdpa!Areas, Configured, Current
  <2>3. Pollers'
    BY <1>1, <1>3 DEF DrdpaInv, DrdpaTyped, Drdpa!Areas, Configured, Pollers
  <2> QED
    BY <2>1, <2>2, <2>3 DEF Configured
<1>8. Sized'
  <2>1. ~Drdpa!Contracted => areas[polls].size <= areas[polls'].size
    <3>1. areas[polls].size \in Nat /\ areas[polls'].size \in Nat /\ polls \in Nat \ {0}
      BY <1>3, AreaTypes DEF Drdpa!Areas
    <3> QED
      BY <1>3, <3>1 DEF Drdpa!Contracted
  <2>2. Drdpa!Contracted' = Drdpa!Contracted
    BY <1>1, SizesKept
  <2>3. \A j \in Drdpa!Id : dr_pc'[j] = dr_pc[j] \/ (j = i /\ dr_pc'[j] = "remask")
    BY <1>1 DEF DrdpaInv, DrdpaTyped, Drdpa!Areas
  <2>4. areas[polls].size \in Nat /\ areas[polls'].size \in Nat
    BY <1>3, AreaTypes DEF Drdpa!Areas
  <2>5. mask \in Nat /\ \A j \in Drdpa!Id : my_mask[j] \in Nat
    BY DEF DrdpaInv, DrdpaTyped, Drdpa!Areas
  <2>6. UNCHANGED <<areas, mask, my_mask, my_polls>>
    BY <1>1
  <2> QED
    BY <1>1, <2>1, <2>2, <2>3, <2>4, <2>5, <2>6 DEF DrdpaInv, Sized
<1>9. DrdpaOwner' /\ Drdpa!ExpandsSafely'
  BY <1>1 DEF DrdpaInv, DrdpaTyped, Drdpa!Areas, DrdpaOwner, Drdpa!ExpandsSafely,
     Drdpa!AccessInArea
<1> QED
  BY <1>4, <1>5, <1>6, <1>7, <1>8, <1>9 DEF DrdpaInv

LEMMA RemaskStep ==
  ASSUME Drdpa!Assumptions, NEW s \in Nat, DrdpaInv(s), fault = 0, NEW i \in Drdpa!Id,
         Drdpa!Remask(i)
  PROVE  DrdpaInv(s)'
<1>1. /\ dr_pc[i] = "remask" /\ dr_pc' = [dr_pc EXCEPT ![i] = "cleanup"]
      /\ num_polls' = areas[polls].size /\ mask' = my_mask[i]
      /\ UNCHANGED <<Drdpa!lock, polls, old_polls, cleanup_ticket, areas, Drdpa!locals, fault>>
  BY DEF Drdpa!Remask
<1>2. Drdpa!Carries(i)
  BY <1>1 DEF Drdpa!Carries
<1>3. polls = Len(areas)
  BY <1>1, <1>2, Alone DEF DrdpaInv, Configured, Layout, Current, Pollers
<1>4. areas[polls].size \in Nat
  BY AreaTypes DEF DrdpaInv, DrdpaTyped
<1>5. DrdpaTyped'
  BY <1>1, <1>4 DEF DrdpaInv, DrdpaTyped, Drdpa!Areas
<1>6. DrdpaTickets(s)'
  <2>1. \A j \in Drdpa!Id : dr_pc'[j] = IF j = i THEN "cleanup" ELSE dr_pc[j]
    BY <1>1 DEF DrdpaInv, DrdpaTyped
  <2> QED
    BY <1>1, <2>1 DEF DrdpaInv, DrdpaTickets, DrdpaTicketed, Drdpa!Carries
<1>7. Polled(s)' /\ Configured'
  BY <1>1, <1>2, Alone DEF DrdpaInv, DrdpaTyped, Drdpa!Areas, Polled, Configured, Layout,
     Current, Pollers
<1>8. Sized'
  BY <1>1, <1>3 DEF DrdpaInv, DrdpaTyped, Drdpa!Areas, Sized, Drdpa!Contracted
<1>9. DrdpaOwner' /\ Drdpa!ExpandsSafely'
  BY <1>1 DEF DrdpaInv, DrdpaTyped, Drdpa!Areas, DrdpaOwner, Drdpa!ExpandsSafely,
     Drdpa!AccessInArea
<1> QED
  BY <1>5, <1>6, <1>7, <1>8, <1>9 DEF DrdpaInv

LEMMA CleanupStep ==
  ASSUME Drdpa!Assumptions, NEW s \in Nat, DrdpaInv(s), fault = 0, NEW i \in Drdpa!Id,
         Drdpa!Cleanup(i)
  PROVE  DrdpaInv(s)'
<1>1. /\ dr_pc[i] = "cleanup" /\ dr_pc' = [dr_pc EXCEPT ![i] = "own"]
      /\ cleanup_ticket' = dr_next_ticket
      /\ UNCHANGED <<Drdpa!lock, polls, old_polls, mask, num_polls, areas, Drdpa!locals, fault>>
  BY DEF Drdpa!Cleanup
<1>2. DrdpaTyped' /\ Polled(s)'
  BY <1>1 DEF DrdpaInv, DrdpaTyped, Drdpa!Areas, Polled
<1>7. \A j \in Drdpa!Id : dr_pc'[j] = IF j = i THEN "own" ELSE dr_pc[j]
  BY <1>1 DEF DrdpaInv, DrdpaTyped
<1>3. DrdpaTickets(s)'
  BY <1>1, <1>7 DEF DrdpaInv, DrdpaTickets, DrdpaTicketed, Drdpa!Carries
<1>4. Configured'
  <2>1. \A j \in Drdpa!Id : dr_pc[j] = "poll" => ticket[j] < cleanup_ticket'
    BY <1>1 DEF DrdpaInv, DrdpaTickets, DrdpaTicketed
  <2> QED
    BY <1>1, <1>7, <2>1 DEF DrdpaInv, Drdpa!Areas, Configured, Layout, Current, Pollers
<1>5. Sized'
  BY <1>1 DEF DrdpaInv, DrdpaTyped, Drdpa!Areas, Sized, Drdpa!Contracted
<1>6. DrdpaOwner' /\ Drdpa!ExpandsSafely'
  BY <1>1 DEF DrdpaInv, DrdpaTyped, Drdpa!Areas, DrdpaOwner, Drdpa!ExpandsSafely,
     Drdpa!AccessInArea
<1> QED
  BY <1>2, <1>3, <1>4, <1>5, <1>6 DEF DrdpaInv

(* The word that is written is the next thread's, unless an area has been   *)
(* replaced by a smaller one.                                               *)
LEMMA DrdpaReleaseStep ==
  ASSUME Drdpa!Assumptions, NEW s \in Nat, DrdpaInv(s), fault = 0, NEW i \in Drdpa!Id,
         Drdpa!Release(i)
  PROVE  DrdpaInv(s)' \/ DrdpaInv(s + 1)'
<1>1. /\ dr_pc[i] = "release" /\ dr_now_serving = s /\ mask \in Nat
      /\ UNCHANGED <<Drdpa!lock, polls, old_polls, mask, num_polls, cleanup_ticket, Drdpa!locals>>
  BY DEF Drdpa!Release, DrdpaInv, DrdpaTyped, Drdpa!Areas, DrdpaTickets
<1>2. Drdpa!Carries(i)
  BY <1>1 DEF Drdpa!Carries
<1>3. polls \in Drdpa!Areas /\ areas \in Seq(AllAreas) /\ areas[polls].size \in Nat \ {0}
  BY AreaTypes DEF DrdpaInv, DrdpaTyped
<1>4. PICK k \in Nat : k = Drdpa!Slot(dr_now_serving + 1, mask) /\ k <= mask
  BY <1>1 DEF Drdpa!Slot
<1>5. CASE ~Drdpa!Accessible(polls, k)
  <2>1. fault' = i /\ UNCHANGED <<dr_pc, areas>>
    BY <1>4, <1>5 DEF Drdpa!Release
  <2>2. ~areas[polls].freed
    BY AreaTypes DEF DrdpaInv, Configured, Layout
  <2>3. Drdpa!Contracted
    BY <1>1, <1>3, <1>4, <1>5, <2>2 DEF DrdpaInv, Sized, Drdpa!Accessible
  <2>4. Drdpa!ExpandsSafely'
    BY <2>1, <2>3 DEF Drdpa!ExpandsSafely, Drdpa!Contracted
  <2> QED
    <3>1. DrdpaTyped' /\ DrdpaTickets(s)' /\ DrdpaOwner'
      BY <1>1, <2>1 DEF DrdpaInv, DrdpaTyped, Drdpa!Areas, DrdpaTickets, Drdpa!Carries,
         DrdpaOwner
    <3>2. Polled(s)' /\ Configured' /\ Sized'
      BY <1>1, <2>1 DEF DrdpaInv, Drdpa!Areas, Polled, Configured, Layout, Current,
         Pollers, Sized, Drdpa!Contracted
    <3> QED
      BY <2>4, <3>1, <3>2 DEF DrdpaInv
<1>6. CASE Drdpa!Accessible(polls, k)
  <2>1. dr_pc' = [dr_pc EXCEPT ![i] = "idle"] /\ areas' = Poked(polls, k, s + 1) /\ UNCHANGED fault
    BY <1>1, <1>4, <1>6 DEF Drdpa!Release, Poked
  <2>2. k \in 0..areas[polls].size - 1
    BY <1>3, <1>4, <1>6 DEF Drdpa!Accessible
  <2>3. /\ areas' \in Seq(AllAreas) /\ Len(areas') = Len(areas)
        /\ \A q \in Drdpa!Areas :
             /\ areas'[q].size = areas[q].size /\ areas'[q].freed = areas[q].freed
             /\ \A j \in 0..areas[q].size - 1 :
                  areas'[q].poll[j] = IF q = polls /\ j = k THEN s + 1 ELSE areas[q].poll[j]
    <3>1. s + 1 \in Nat
      OBVIOUS
    <3>2. /\ Poked(polls, k, s + 1) \in Seq(AllAreas) /\ Len(Poked(polls, k, s + 1)) = Len(areas)
          /\ \A q \in Drdpa!Areas :
               /\ Poked(polls, k, s + 1)[q].size = areas[q].size
               /\ Poked(polls, k, s + 1)[q].freed = areas[q].freed
               /\ \A j \in 0..areas[q].size - 1 :
                    Poked(polls, k, s + 1)[q].poll[j] =
                      IF q = polls /\ j = k THEN s + 1 ELSE areas[q].poll[j]
      BY <1>3, <2>2, <3>1, Poking
    <3> QED
      BY <2>1, <3>2
  <2>4. DrdpaTyped'
    BY <1>1, <2>1, <2>3 DEF DrdpaInv, DrdpaTyped, Drdpa!Areas
  <2>5. DrdpaTickets(s + 1)'
    <3>1. s < dr_next_ticket
      BY <1>2 DEF DrdpaInv, DrdpaTickets
    <3>2. \A j \in Drdpa!Id : j # i => dr_pc[j] \notin Deciding \cup Installed
                                 /\ (dr_pc[j] \in DrdpaDrawn => ticket[j] > s)
      BY <1>2, Alone
    <3> QED
      BY <1>1, <2>1, <3>1, <3>2 DEF DrdpaInv, DrdpaTyped, DrdpaTickets, DrdpaTicketed,
         Drdpa!Carries, Drdpa!Assumptions
  <2>6. Polled(s + 1)'
    <3>1. \A q \in Drdpa!Areas : \A j \in 0..areas[q].size - 1 :
             areas[q].poll[j] \in Nat /\ areas[q].poll[j] <= s
      BY AreaTypes DEF DrdpaInv, Polled
    <3>2. \A q \in Drdpa!Areas' : q \in Drdpa!Areas /\ areas'[q].size = areas[q].size
      BY <2>3 DEF Drdpa!Areas
    <3>3. ASSUME NEW q \in Drdpa!Areas, NEW j \in 0..areas[q].size - 1
          PROVE  areas'[q].poll[j] <= s + 1 /\ (q < polls => areas'[q].poll[j] # s + 1)
      <4>1. areas[q].poll[j] \in Nat /\ areas[q].poll[j] <= s
        BY <3>1
      <4>2. areas'[q].poll[j] = IF q = polls /\ j = k THEN s + 1 ELSE areas[q].poll[j]
        BY <2>3
      <4> QED
        BY <1>3, <4>1, <4>2 DEF Drdpa!Areas
    <3> QED
      BY <1>1, <3>2, <3>3 DEF Polled
  <2>7. Configured'
    <3>1. Layout'
      BY <1>1, <2>1, <2>3 DEF DrdpaInv, DrdpaTyped, Drdpa!Areas, Configured, Layout
    <3>2. Current'
      BY <1>1, <1>3, <2>1, <2>3 DEF DrdpaInv, DrdpaTyped, Drdpa!Areas, Configured, Current
    <3>3. Pollers'
      BY <1>1, <2>1 DEF DrdpaInv, DrdpaTyped, Drdpa!Areas, Configured, Pollers
    <3> QED
      BY <3>1, <3>2, <3>3 DEF Configured
  <2>8. Sized'
    <3>1. Drdpa!Contracted' = Drdpa!Contracted
      BY <2>3, SizesKept
    <3>2. \A j \in Drdpa!Id : dr_pc'[j] = dr_pc[j] \/ dr_pc'[j] = "idle"
      BY <2>1 DEF DrdpaInv, DrdpaTyped, Drdpa!Areas
    <3>3. UNCHANGED <<polls, mask, my_mask, my_polls>> /\ Len(areas) \in Drdpa!Areas
      BY <1>1 DEF DrdpaInv, DrdpaTyped, Drdpa!Areas
    <3>4. \A j \in Drdpa!Id : dr_pc'[j] \in {"poll", "enter", "size"} =>
             areas'[my_polls[j]].size = areas[my_polls[j]].size
      BY <2>3, <3>2, ActivePolls
    <3>5. areas'[polls].size = areas[polls].size /\ Len(areas') = Len(areas)
          /\ areas'[Len(areas)].size = areas[Len(areas)].size
      BY <1>3, <2>3, <3>3
    <3> QED
      BY <3>1, <3>2, <3>3, <3>4, <3>5 DEF DrdpaInv, Sized
  <2>9. DrdpaOwner' /\ Drdpa!ExpandsSafely'
    BY <1>1, <2>1 DEF DrdpaInv, DrdpaTyped, Drdpa!Areas, DrdpaOwner, Drdpa!ExpandsSafely,
       Drdpa!AccessInArea
  <2> QED
    BY <2>4, <2>5, <2>6, <2>7, <2>8, <2>9 DEF DrdpaInv
<1> QED
  BY <1>5, <1>6

-----------------------------------------------------------------------------
LEMMA Factors ==
  ASSUME NEW m \in Nat, NEW n \in Nat \ {0}, m < n, NEW f \in Nat \ {0}
  PROVE  (m + 1) * f - 1 < n * f
<1>1. PICK d \in Nat : n = m + 1 + d
  <2> WITNESS n - (m + 1) \in Nat
  <2> QED
    OBVIOUS
<1>2. n * f = (m + 1) * f + d * f
  BY <1>1
<1>3. d * f \in Nat /\ (m + 1) * f \in Nat
  BY <1>1
<1> QED
  BY <1>2, <1>3

LEMMA Products ==
  ASSUME NEW a \in Nat \ {0}, NEW b \in Nat \ {0}
  PROVE  a * b \in Nat \ {0}
  OBVIOUS

(* A new area, with the poll words that it is given.                        *)
LEMMA NewAreas ==
  ASSUME NEW n \in Nat \ {0}
  PROVE  /\ Drdpa!NewArea(n) \in AllAreas /\ Drdpa!NewArea(n).size = n /\ ~Drdpa!NewArea(n).freed
         /\ Drdpa!NewArea(n).poll = [k \in 0..n-1 |-> 0]
         /\ \A f \in [0..n-1 -> Nat] :
              LET a == [Drdpa!NewArea(n) EXCEPT !.poll = f]
              IN  a \in AllAreas /\ a.size = n /\ a.poll = f /\ ~a.freed
<1>1. [k \in 0..n-1 |-> 0] \in [0..n-1 -> Nat]
  OBVIOUS
<1>2. /\ Drdpa!NewArea(n) \in AllAreas /\ Drdpa!NewArea(n).size = n /\ ~Drdpa!NewArea(n).freed
      /\ Drdpa!NewArea(n).poll = [k \in 0..n-1 |-> 0]
  BY <1>1, IsArea DEF Drdpa!NewArea
<1>3. ASSUME NEW f \in [0..n-1 -> Nat]
      PROVE  /\ [Drdpa!NewArea(n) EXCEPT !.poll = f] \in AllAreas
             /\ [Drdpa!NewArea(n) EXCEPT !.poll = f].size = n
             /\ [Drdpa!NewArea(n) EXCEPT !.poll = f].poll = f
             /\ ~[Drdpa!NewArea(n) EXCEPT !.poll = f].freed
  BY <1>2, AreaUpdates
<1> QED
  BY <1>2, <1>3

LEMMA OneArea ==
  /\ Drdpa!NewArea(1) \in AllAreas /\ Drdpa!NewArea(1).size = 1 /\ ~Drdpa!NewArea(1).freed
  /\ Drdpa!NewArea(1).poll = [k \in 0..0 |-> 0]
  /\ \A f \in [0..0 -> Nat] :
              LET a == [Drdpa!NewArea(1) EXCEPT !.poll = f]
              IN  a \in AllAreas /\ a.size = 1 /\ a.poll = f /\ ~a.freed
<1>1. PICK n \in Nat \ {0} : n = 1
  OBVIOUS
<1>2. n - 1 = 0
  BY <1>1
<1>3. /\ Drdpa!NewArea(n) \in AllAreas /\ Drdpa!NewArea(n).size = n /\ ~Drdpa!NewArea(n).freed
         /\ Drdpa!NewArea(n).poll = [k \in 0..0 |-> 0]
  BY <1>2, NewAreas
<1>4. \A f \in [0..0 -> Nat] :
              LET a == [Drdpa!NewArea(n) EXCEPT !.poll = f]
              IN  a \in AllAreas /\ a.size = n /\ a.poll = f /\ ~a.freed
  BY <1>2, NewAreas
<1> QED
  BY <1>1, <1>3, <1>4

LEMMA ContractStep ==
  ASSUME Drdpa!Assumptions, NEW s \in Nat, DrdpaInv(s), fault = 0, NEW i \in Drdpa!Id,
         dr_pc[i] = "size", Drdpa!Contract(i)
  PROVE  DrdpaInv(s)'
<1>1. CASE num_polls > 1
  <2> DEFINE h == [Drdpa!NewArea(1).poll EXCEPT ![0] = ticket[i]]
             a == [Drdpa!NewArea(1) EXCEPT !.poll = h]
  <2>1. ticket[i] = s
    BY DEF DrdpaInv, DrdpaTickets, DrdpaTicketed
  <2>2. h \in [0..0 -> Nat] /\ \A k \in 0..0 : h[k] <= s
    BY <2>1, OneArea
  <2>3. Drdpa!Reconfigure(i, 0, a)
    BY <1>1 DEF Drdpa!Contract
  <2> HIDE DEF h
  <2>4. a \in AllAreas /\ a.size = 1 /\ a.poll = h /\ ~a.freed
    BY <2>2, OneArea
  <2> HIDE DEF a
  <2> QED
    BY <2>2, <2>3, <2>4, ReconfigureStep
<1>2. CASE ~(num_polls > 1)
  BY <1>2, KeepStep DEF Drdpa!Contract
<1> QED
  BY <1>1, <1>2

LEMMA ExpandStep ==
  ASSUME Drdpa!Assumptions, NEW s \in Nat, DrdpaInv(s), fault = 0, NEW i \in Drdpa!Id,
         dr_pc[i] = "size", Drdpa!Expand(i)
  PROVE  DrdpaInv(s)'
<1>1. CASE Drdpa!Waiting(i) > num_polls
  <2> DEFINE old == areas[my_polls[i]].poll
             G(n) == [k \in 0..n-1 |-> IF k < num_polls THEN old[k] ELSE 0]
             A(n) == [Drdpa!NewArea(n) EXCEPT !.poll = G(n)]
  <2>1. PICK f \in Drdpa!Growth(i) :
          Drdpa!Reconfigure(i, (my_mask[i] + 1) * f - 1, A(num_polls * f))
    BY <1>1 DEF Drdpa!Expand
  <2>2. f \in Nat \ {0}
    BY DEF Drdpa!Growth, Drdpa!Assumptions
  <2>3. /\ my_polls[i] = polls /\ polls \in Drdpa!Areas /\ num_polls = areas[polls].size
        /\ num_polls \in Nat \ {0} /\ old \in [0..num_polls - 1 -> Nat]
    <3>1. my_polls[i] = polls /\ polls \in Drdpa!Areas
      BY DEF DrdpaInv, DrdpaTyped, Configured, Current
    <3>2. \A j \in Drdpa!Id : dr_pc[j] # "remask"
      BY Alone DEF Drdpa!Carries
    <3>3. num_polls = areas[polls].size
      BY <3>2 DEF DrdpaInv, Configured, Current
    <3> QED
      BY <3>1, <3>3, AreaTypes
  <2>4. PICK n \in Nat \ {0} : n = num_polls * f
    BY <2>2, <2>3, Products
  <2>5. G(n) \in [0..n-1 -> Nat] /\ \A k \in 0..n-1 : G(n)[k] <= s
    <3>1. \A k \in 0..num_polls - 1 : old[k] <= s /\ old[k] \in Nat
      BY <2>3 DEF DrdpaInv, Polled
    <3>2. \A k \in 0..n-1 : k < num_polls => k \in 0..num_polls - 1
      BY <2>3, <2>4
    <3> QED
      BY <3>1, <3>2
  <2>6. Drdpa!Reconfigure(i, (my_mask[i] + 1) * f - 1, A(n))
    BY <2>1, <2>4
  <2> HIDE DEF G
  <2>7. A(n) \in AllAreas /\ A(n).size = n /\ A(n).poll = G(n) /\ ~A(n).freed
    BY <2>5, NewAreas
  <2>8. my_mask[i] \in Nat /\ (my_mask[i] + 1) * f - 1 \in Nat
    <3>1. my_mask[i] \in Nat
      BY DEF DrdpaInv, DrdpaTyped
    <3> QED
      BY <2>2, <3>1, Products
  <2>9. ~Drdpa!Contracted => (my_mask[i] + 1) * f - 1 < n
    <3>1. ~Drdpa!Contracted => my_mask[i] < num_polls
      BY <2>3 DEF DrdpaInv, Sized
    <3> QED
      BY <2>2, <2>3, <2>4, <2>8, <3>1, Factors
  <2> HIDE DEF A
  <2> QED
    BY <2>5, <2>6, <2>7, <2>8, <2>9, ReconfigureStep
<1>2. CASE ~(Drdpa!Waiting(i) > num_polls)
  BY <1>2, KeepStep DEF Drdpa!Expand
<1> QED
  BY <1>1, <1>2

LEMMA DrdpaInitIInv == ASSUME Drdpa!Assumptions, Drdpa!Init PROVE DrdpaInv(0)
<1> USE DEF Drdpa!Init, Drdpa!Assumptions
<1> DEFINE a == Drdpa!NewArea(1)
<1>2. a \in AllAreas
  BY OneArea
<1>4. a.size = 1 /\ ~a.freed /\ \A k \in 0..a.size - 1 : a.poll[k] <= 0
  BY OneArea
<1>5. areas = <<a>>
  OBVIOUS
<1> HIDE DEF a
<1>6. DrdpaTyped
  BY <1>2, <1>5 DEF DrdpaTyped, Drdpa!Areas
<1>7. DrdpaTickets(0)
  BY DEF DrdpaTickets, DrdpaTicketed, Drdpa!Carries
<1>8. Polled(0)
  BY <1>4, <1>5 DEF Polled, Drdpa!Areas
<1>9. Configured
  BY <1>4, <1>5 DEF Configured, Layout, Current, Pollers, Drdpa!Areas
<1>10. Sized
  BY <1>4, <1>5 DEF Sized
<1>11. DrdpaOwner /\ Drdpa!ExpandsSafely
  BY DEF DrdpaOwner, Drdpa!Id, Drdpa!ExpandsSafely, Drdpa!AccessInArea
<1> QED
  BY <1>6, <1>7, <1>8, <1>9, <1>10, <1>11 DEF DrdpaInv

LEMMA DrdpaNextIInv ==
  ASSUME Drdpa!Assumptions, DrdpaIInv, [Drdpa!Next]_(Drdpa!vars)
  PROVE  DrdpaIInv'
<1>1. PICK s \in Nat : DrdpaInv(s)
  BY DEF DrdpaIInv
<1>2. CASE UNCHANGED Drdpa!vars
  <2> UNCHANGED <<Drdpa!lock, Drdpa!config, Drdpa!locals, dr_pc, fault>>
    BY <1>2 DEF Drdpa!vars
  <2>1. DrdpaTyped' /\ DrdpaTickets(s)' /\ DrdpaOwner'
    BY <1>1 DEF DrdpaInv, DrdpaTyped, Drdpa!Areas, DrdpaTickets, Drdpa!Carries, DrdpaOwner
  <2>2. Polled(s)' /\ Sized'
    BY <1>1 DEF DrdpaInv, Drdpa!Areas, Polled, Sized, Drdpa!Contracted
  <2>3. Layout' /\ Current'
    BY <1>1 DEF DrdpaInv, Drdpa!Areas, Configured, Layout, Current
  <2>4. Pollers'
    BY <1>1 DEF DrdpaInv, Drdpa!Areas, Configured, Pollers
  <2>5. Drdpa!ExpandsSafely'
    BY <1>1 DEF DrdpaInv, Drdpa!Areas, Drdpa!Contracted, Drdpa!ExpandsSafely, Drdpa!AccessInArea
  <2> QED
    BY <1>1, <2>1, <2>2, <2>3, <2>4, <2>5 DEF DrdpaInv, Configured, DrdpaIInv
<1>3. CASE Drdpa!Next
  <2> fault = 0
    BY <1>3 DEF Drdpa!Next
  <2>1. PICK i \in Drdpa!Id : Drdpa!Call(i) \/ Drdpa!Running(i)
    BY <1>3 DEF Drdpa!Next
  <2>2. CASE Drdpa!SetLock(i) \/ Drdpa!TestLock(i)
    BY <1>1, <2>2, SetLockStep, TestLockStep DEF DrdpaIInv
  <2>3. CASE Drdpa!Draw(i) \/ Drdpa!AcqMask(i) \/ Drdpa!AcqPolls(i) \/ Drdpa!AcqPoll(i)
    BY <1>1, <2>3, DrdpaDrawStep, AcqMaskStep, AcqPollsStep, AcqPollStep DEF DrdpaIInv
  <2>4. CASE Drdpa!Enter(i) \/ Drdpa!Size(i)
    BY <1>1, <2>4, DrdpaEnterStep, ContractStep, ExpandStep DEF Drdpa!Size, DrdpaIInv
  <2>5. CASE Drdpa!Install(i) \/ Drdpa!Remask(i) \/ Drdpa!Cleanup(i) \/ Drdpa!Own(i)
    BY <1>1, <2>5, InstallStep, RemaskStep, CleanupStep, DrdpaOwnStep DEF DrdpaIInv
  <2>6. CASE Drdpa!TestPolls(i) \/ Drdpa!TestMask(i) \/ Drdpa!TestPoll(i) \/ Drdpa!TestCas(i)
    BY <1>1, <2>6, TestPollsStep, TestMaskStep, TestPollStep, DrdpaTestCasStep DEF DrdpaIInv
  <2>7. CASE Drdpa!UnsetLock(i) \/ Drdpa!Release(i)
    <3>1. s + 1 \in Nat
      OBVIOUS
    <3> QED
      BY <1>1, <2>7, <3>1, UnsetLockStep, DrdpaReleaseStep DEF DrdpaIInv
  <2> QED
    BY <2>1, <2>2, <2>3, <2>4, <2>5, <2>6, <2>7 DEF Drdpa!Call, Drdpa!Running
<1> QED
  BY <1>2, <1>3

-----------------------------------------------------------------------------
(***************************************************************************)
(* At most one thread is between the poll that lets it in and the write     *)
(* that lets the next one in.                                               *)
(***************************************************************************)
DrdpaMutualExclusion == \A i, j \in Drdpa!Id : Drdpa!Carries(i) /\ Drdpa!Carries(j) => i = j

LEMMA Accounted == ASSUME Drdpa!Assumptions, DrdpaIInv PROVE Drdpa!AreasAccounted
<1>1. PICK s \in Nat : DrdpaInv(s)
  BY DEF DrdpaIInv
<1>2. polls \in Nat /\ polls \in Drdpa!Areas
  BY <1>1 DEF DrdpaInv, DrdpaTyped, Drdpa!Areas
<1>3. (\A i \in Drdpa!Id : dr_pc[i] # "install") => polls = Len(areas)
  BY <1>1 DEF DrdpaInv, Configured, Layout
<1>4. (\E i \in Drdpa!Id : dr_pc[i] = "install") => Len(areas) = polls + 1
  BY <1>1 DEF DrdpaInv, Configured, Layout
<1>5. \A p \in Drdpa!Areas : areas[p].freed <=> p < polls /\ p # old_polls
  BY <1>1 DEF DrdpaInv, Configured, Layout
<1> QED
  BY <1>2, <1>3, <1>4, <1>5 DEF Drdpa!AreasAccounted, Drdpa!Areas

LEMMA DrdpaTyping == ASSUME Drdpa!Assumptions, DrdpaIInv PROVE Drdpa!TypeOK
<1>1. PICK s \in Nat : DrdpaInv(s)
  BY DEF DrdpaIInv
<1>2. \A p \in Drdpa!Areas : DOMAIN areas[p].poll = 0..areas[p].size - 1
  BY <1>1, AreaTypes
<1>3. dr_pc \in [Drdpa!Id -> DrdpaPCs]
  BY <1>1 DEF DrdpaInv, DrdpaTyped
<1> QED
  BY <1>1, <1>2, <1>3 DEF DrdpaInv, DrdpaTyped, Drdpa!TypeOK

LEMMA DrdpaAlways == ASSUME Drdpa!Assumptions PROVE Drdpa!Spec => []DrdpaIInv
<1>1. Drdpa!Init => DrdpaIInv
  BY DrdpaInitIInv DEF DrdpaIInv
<1>2. DrdpaIInv /\ [Drdpa!Next]_(Drdpa!vars) => DrdpaIInv'
  BY DrdpaNextIInv
<1> QED
  BY <1>1, <1>2, PTL DEF Drdpa!Spec

(***************************************************************************)
(* The types of the lock's fields, of its areas and of the locals.          *)
(***************************************************************************)
THEOREM DrdpaTypeCorrect == ASSUME Drdpa!Assumptions PROVE Drdpa!Spec => []Drdpa!TypeOK
BY DrdpaAlways, DrdpaTyping, PTL

(***************************************************************************)
(* The lock excludes: whatever is expanded, contracted and tested, one      *)
(* thread at a time is in the critical section or in the lock's code around *)
(* it, where the fields are read and written without atomics.               *)
(***************************************************************************)
THEOREM DrdpaExclusion == ASSUME Drdpa!Assumptions PROVE Drdpa!Spec => []DrdpaMutualExclusion
<1>1. DrdpaIInv => DrdpaMutualExclusion
  BY DEF DrdpaIInv, DrdpaInv, DrdpaTickets, DrdpaMutualExclusion
<1> QED
  BY <1>1, DrdpaAlways, PTL

(***************************************************************************)
(* Every area is freed once and only when nobody can still poll it, and     *)
(* accesses stay within areas: but for a test, or after a contraction.      *)
(***************************************************************************)
THEOREM AreasSafe ==
  ASSUME Drdpa!Assumptions
  PROVE  Drdpa!Spec => [](Drdpa!ExpandsSafely /\ Drdpa!AreasAccounted)
<1>1. DrdpaIInv => Drdpa!ExpandsSafely
  BY DEF DrdpaIInv, DrdpaInv
<1> QED
  BY <1>1, Accounted, DrdpaAlways, PTL

(***************************************************************************)
(* The checks of owner_id never refuse the call of a thread that sets the   *)
(* lock when it does not have it and unsets it when it has.                 *)
(***************************************************************************)
THEOREM DrdpaNobodyRefused ==
  ASSUME Drdpa!Assumptions
  PROVE  Drdpa!Spec => [](\A i \in Drdpa!Id : dr_pc[i] # "fatal")
<1>1. DrdpaIInv => \A i \in Drdpa!Id : dr_pc[i] # "fatal"
  BY DEF DrdpaIInv, DrdpaInv, DrdpaOwner
<1> QED
  BY <1>1, DrdpaAlways, PTL

(***************************************************************************)
(* The areas of a DRDPA lock that a program chooses are safe: steps of a    *)
(* lock of another kind leave them alone.                                   *)
(***************************************************************************)
THEOREM AreasStaySafe == UserSafety => []AreasAreSafe
<1>1. UserInit => Drdpa!Init
  BY DEF UserInit
<1>2. [UserNext]_all => [Drdpa!Next]_(Drdpa!vars)
  BY DEF UserNext, TasOnly, TicketOnly, DrdpaOnly, all, drVars, Drdpa!vars, Drdpa!lock,
     Drdpa!config, Drdpa!locals
<1>3. Drdpa!Spec => [](Drdpa!ExpandsSafely /\ Drdpa!AreasAccounted)
  BY AreasSafe, DrdpaAssumption
<1> QED
  BY <1>1, <1>2, <1>3, PTL DEF UserSafety, AreasAreSafe, Drdpa!Spec

-----------------------------------------------------------------------------
(* The threads in a set by their keys: how many come before one.            *)
Before(W, key, i) == {j \in W : key[j] < key[i]}
Place(W, key, i)  == Cardinality(Before(W, key, i))

HasKeys(W, key) ==
  /\ IsFiniteSet(W)
  /\ \A i \in W : key[i] \in Nat
  /\ \A i, j \in W : key[i] = key[j] => i = j

LEMMA PlaceType ==
  ASSUME NEW W, NEW key, HasKeys(W, key), NEW i \in W
  PROVE  Place(W, key, i) \in 0..Cardinality(W) - 1
<1>1. Before(W, key, i) \subseteq W \ {i}
  BY DEF Before, HasKeys
<1>2. IsFiniteSet(W \ {i}) /\ Cardinality(W \ {i}) = Cardinality(W) - 1
  BY FS_RemoveElement DEF HasKeys
<1>3. IsFiniteSet(Before(W, key, i)) /\ Cardinality(Before(W, key, i)) <= Cardinality(W \ {i})
  BY <1>1, <1>2, FS_Subset
<1>4. Cardinality(Before(W, key, i)) \in Nat /\ Cardinality(W) \in Nat
  BY <1>3, FS_CardinalityType DEF HasKeys
<1> QED
  BY <1>2, <1>3, <1>4 DEF Place

LEMMA PlaceGrows ==
  ASSUME NEW W, NEW key, HasKeys(W, key), NEW i \in W, NEW j \in W, key[i] < key[j]
  PROVE  Place(W, key, i) < Place(W, key, j)
<1> DEFINE A == Before(W, key, i)
           B == Before(W, key, j)
<1>1. A \subseteq B \ {i} /\ i \in B /\ B \subseteq W
  <2>1. ASSUME NEW x \in A PROVE x \in B /\ x # i
    <3>1. x \in W /\ key[x] < key[i] /\ key[x] \in Nat /\ key[i] \in Nat /\ key[j] \in Nat
      BY <2>1 DEF Before, HasKeys
    <3> QED
      BY <3>1 DEF Before
  <2> QED
    BY <2>1 DEF Before
<1>2. IsFiniteSet(B)
  BY <1>1, FS_Subset DEF HasKeys
<1> HIDE DEF A, B
<1>3. IsFiniteSet(B \ {i}) /\ Cardinality(B \ {i}) = Cardinality(B) - 1
  BY <1>1, <1>2, FS_RemoveElement
<1>4. IsFiniteSet(A) /\ Cardinality(A) <= Cardinality(B \ {i})
  BY <1>1, <1>3, FS_Subset
<1>5. Cardinality(A) \in Nat /\ Cardinality(B) \in Nat
  BY <1>2, <1>4, FS_CardinalityType
<1> QED
  BY <1>3, <1>4, <1>5 DEF Place, A, B

LEMMA PlaceInjective ==
  ASSUME NEW W, NEW key, HasKeys(W, key), NEW i \in W, NEW j \in W,
         Place(W, key, i) = Place(W, key, j)
  PROVE  i = j
<1>1. Place(W, key, i) \in Nat
  <2>1. Place(W, key, i) \in 0..Cardinality(W) - 1
    BY PlaceType
  <2> QED
    BY <2>1
<1>2. ~(key[i] < key[j]) /\ ~(key[j] < key[i])
  BY <1>1, PlaceGrows
<1>3. key[i] \in Nat /\ key[j] \in Nat
  BY DEF HasKeys
<1>4. key[i] = key[j]
  BY <1>2, <1>3
<1> QED
  BY <1>4 DEF HasKeys

(* Every place is taken.                                                    *)
LEMMA PlacesAreTaken ==
  ASSUME NEW W, NEW key, HasKeys(W, key), NEW n \in 0..Cardinality(W) - 1
  PROVE  \E i \in W : Place(W, key, i) = n
<1> DEFINE c == Cardinality(W)
           T == 0..c - 1
           f == [i \in W |-> Place(W, key, i)]
<1>1. c \in Nat
  BY FS_CardinalityType DEF HasKeys
<1>2. IsFiniteSet(T) /\ Cardinality(T) = c
  <2> HIDE DEF c
  <2>1. 0 \in Int /\ c - 1 \in Int
    BY <1>1
  <2>2. IsFiniteSet(T) /\ Cardinality(T) = IF 0 > c - 1 THEN 0 ELSE (c - 1) - 0 + 1
    BY <2>1, FS_Interval
  <2> QED
    BY <1>1, <2>2
<1>3. f \in [W -> T]
  BY PlaceType
<1>4. \A i, j \in W : f[i] = f[j] => i = j
  BY PlaceInjective
<1> HIDE DEF f, T, c
<1>5. f \in Injection(W, T)
  BY <1>3, <1>4 DEF Injection, IsInjective
<1>6. f \in Surjection(W, T)
  BY <1>2, <1>5, FS_Injection DEF c
<1>7. n \in T
  BY DEF T, c
<1>8. \E i \in W : f[i] = n
  BY <1>6, <1>7 DEF Surjection
<1> QED
  BY <1>8 DEF f

LEMMA InOrderAt ==
  ASSUME NEW W, NEW key, HasKeys(W, key), NEW i \in W
  PROVE  /\ Place(W, key, i) + 1 \in 1..Cardinality(W)
         /\ InOrder(W, key)[Place(W, key, i) + 1] = i
<1>1. PICK n : n = Place(W, key, i)
  OBVIOUS
<1>2. n \in 0..Cardinality(W) - 1 /\ Cardinality(W) \in Nat
  BY <1>1, PlaceType, FS_CardinalityType DEF HasKeys
<1>3. n + 1 \in 1..Cardinality(W) /\ (n + 1) - 1 = n
  BY <1>2
<1>4. InOrder(W, key)[n + 1] = CHOOSE j \in W : Place(W, key, j) = n
  BY <1>3 DEF InOrder, Place, Before
<1>5. \A j \in W : Place(W, key, j) = n => j = i
  BY <1>1, PlaceInjective
<1>6. (CHOOSE j \in W : Place(W, key, j) = n) = i
  BY <1>1, <1>5
<1> QED
  BY <1>1, <1>3, <1>4, <1>6

LEMMA InOrderIs ==
  ASSUME NEW W, NEW key, HasKeys(W, key)
  PROVE  /\ InOrder(W, key) \in Seq(W) /\ Len(InOrder(W, key)) = Cardinality(W)
         /\ \A k \in 1..Cardinality(W) :
              \E i \in W : InOrder(W, key)[k] = i /\ Place(W, key, i) + 1 = k
<1>1. Cardinality(W) \in Nat
  BY FS_CardinalityType DEF HasKeys
<1>2. ASSUME NEW k \in 1..Cardinality(W)
      PROVE  \E i \in W : InOrder(W, key)[k] = i /\ Place(W, key, i) + 1 = k
  <2>1. k - 1 \in 0..Cardinality(W) - 1 /\ (k - 1) + 1 = k
    BY <1>1
  <2>2. PICK i \in W : Place(W, key, i) = k - 1
    BY <2>1, PlacesAreTaken
  <2>3. Place(W, key, i) + 1 = k
    BY <2>1, <2>2
  <2> QED
    BY <2>3, InOrderAt
<1>3. InOrder(W, key) = [k \in 1..Cardinality(W) |-> InOrder(W, key)[k]]
  BY DEF InOrder
<1>4. \A k \in 1..Cardinality(W) : InOrder(W, key)[k] \in W
  BY <1>2
<1>5. PICK n, q : n = Cardinality(W) /\ q = InOrder(W, key)
  OBVIOUS
<1>6. q \in [1..n -> W] /\ n \in Nat
  BY <1>1, <1>3, <1>4, <1>5
<1>7. q \in Seq(W) /\ Len(q) = n
  BY <1>6
<1> QED
  BY <1>2, <1>5, <1>7

(* The same order by other keys; one more thread behind or before all.      *)
Alike(W, key, new) == \A i, j \in W : key[i] < key[j] <=> new[i] < new[j]

LEMMA SameOrder ==
  ASSUME NEW W, NEW key, NEW new, HasKeys(W, key), HasKeys(W, new), Alike(W, key, new)
  PROVE  InOrder(W, new) = InOrder(W, key)
<1>1. \A i \in W : Before(W, new, i) = Before(W, key, i)
  BY DEF Before, Alike
<1>2. \A i \in W : Place(W, new, i) = Place(W, key, i)
  BY <1>1 DEF Place
<1>3. ASSUME NEW k \in 1..Cardinality(W) PROVE InOrder(W, new)[k] = InOrder(W, key)[k]
  <2>1. PICK i \in W : InOrder(W, key)[k] = i /\ Place(W, key, i) + 1 = k
    BY InOrderIs
  <2>2. InOrder(W, new)[Place(W, new, i) + 1] = i
    BY InOrderAt
  <2> QED
    BY <1>2, <2>1, <2>2
<1>4. PICK n, q, r : n = Cardinality(W) /\ q = InOrder(W, key) /\ r = InOrder(W, new)
  OBVIOUS
<1>5. q \in Seq(W) /\ r \in Seq(W) /\ Len(q) = n /\ Len(r) = n /\ \A k \in 1..n : r[k] = q[k]
  BY <1>3, <1>4, InOrderIs
<1> QED
  BY <1>4, <1>5

LEMMA LastInOrder ==
  ASSUME NEW W, NEW key, NEW new, NEW i, i \notin W, HasKeys(W, key), HasKeys(W \cup {i}, new),
         Alike(W, key, new), \A x \in W : new[x] < new[i]
  PROVE  InOrder(W \cup {i}, new) = Append(InOrder(W, key), i)
<1> DEFINE V == W \cup {i}
<1>1. IsFiniteSet(W) /\ Cardinality(V) = Cardinality(W) + 1 /\ Cardinality(W) \in Nat
  BY FS_AddElement, FS_CardinalityType DEF HasKeys
<1>2. new[i] \in Nat /\ \A x \in W : new[x] \in Nat /\ new[x] < new[i]
  BY DEF HasKeys
<1>3. ~(new[i] < new[i]) /\ \A x \in W : ~(new[i] < new[x])
  BY <1>2
<1>4. \A x \in W : Before(V, new, x) = Before(W, key, x)
  BY <1>3 DEF Before, Alike
<1>5. Before(V, new, i) = W
  BY <1>2, <1>3 DEF Before
<1>6. Place(V, new, i) = Cardinality(W) /\ \A x \in W : Place(V, new, x) = Place(W, key, x)
  BY <1>4, <1>5 DEF Place
<1> HIDE DEF V
<1>7. HasKeys(V, new) /\ i \in V /\ W \subseteq V
  BY DEF V
<1>8. PICK n, q, r : n = Cardinality(W) /\ q = InOrder(W, key) /\ r = InOrder(V, new)
  OBVIOUS
<1>9. /\ n \in Nat /\ q \in Seq(W) /\ Len(q) = n /\ r \in Seq(V) /\ Len(r) = n + 1
  BY <1>1, <1>7, <1>8, InOrderIs
<1>10. r[n + 1] = i
  BY <1>6, <1>7, <1>8, InOrderAt
<1>11. ASSUME NEW k \in 1..n PROVE r[k] = q[k]
  <2>1. PICK x \in W : q[k] = x /\ Place(W, key, x) + 1 = k
    BY <1>8, InOrderIs
  <2>2. InOrder(V, new)[Place(V, new, x) + 1] = x
    BY <1>7, InOrderAt
  <2> QED
    BY <1>6, <1>8, <2>1, <2>2
<1>12. r = Append(q, i)
  <2>1. PICK s : s = Append(q, i)
    OBVIOUS
  <2>2. q \in Seq(V)
    BY <1>7, <1>9
  <2>3. s \in Seq(V) /\ Len(s) = n + 1 /\ s[n + 1] = i /\ \A k \in 1..n : s[k] = q[k]
    BY <1>7, <1>9, <2>1, <2>2
  <2>4. \A k \in 1..n + 1 : s[k] = r[k]
    <3>1. ASSUME NEW k \in 1..n + 1 PROVE s[k] = r[k]
      <4>1. CASE k = n + 1
        BY <1>10, <2>3, <4>1
      <4>2. CASE k # n + 1
        <5>1. k \in 1..n
          BY <1>9, <4>2
        <5> QED
          BY <1>11, <2>3, <5>1
      <4> QED
        BY <4>1, <4>2
    <3> QED
      BY <3>1
  <2>5. s = r
    BY <1>9, <2>3, <2>4
  <2> QED
    BY <2>1, <2>5
<1> QED
  BY <1>8, <1>12 DEF V

LEMMA FirstInOrder ==
  ASSUME NEW W, NEW key, NEW new, NEW i, i \notin W, HasKeys(W, new), HasKeys(W \cup {i}, key),
         Alike(W, key, new), \A x \in W : key[i] < key[x]
  PROVE  /\ InOrder(W \cup {i}, key) # <<>> /\ Head(InOrder(W \cup {i}, key)) = i
         /\ Tail(InOrder(W \cup {i}, key)) = InOrder(W, new)
<1> DEFINE V == W \cup {i}
<1>1. IsFiniteSet(W) /\ Cardinality(V) = Cardinality(W) + 1 /\ Cardinality(W) \in Nat
  BY FS_AddElement, FS_CardinalityType DEF HasKeys
<1>2. key[i] \in Nat /\ \A x \in W : key[x] \in Nat /\ key[i] < key[x]
  BY DEF HasKeys
<1>3. ~(key[i] < key[i]) /\ \A x \in W : ~(key[x] < key[i])
  BY <1>2
<1>4. ASSUME NEW x \in W PROVE Place(V, key, x) = Place(W, new, x) + 1
  <2>1. PICK B : B = Before(W, new, x)
    OBVIOUS
  <2>2. Before(V, key, x) = B \cup {i} /\ i \notin B /\ B \subseteq W
    BY <1>2, <2>1 DEF Before, Alike
  <2>3. IsFiniteSet(B)
    BY <1>1, <2>2, FS_Subset
  <2>4. Cardinality(B \cup {i}) = Cardinality(B) + 1
    BY <2>2, <2>3, FS_AddElement
  <2> QED
    BY <2>1, <2>2, <2>4 DEF Place
<1>5. Place(V, key, i) = 0
  <2>1. \A x \in V : ~(key[x] < key[i])
    BY <1>3
  <2>2. Before(V, key, i) = {}
    BY <2>1 DEF Before
  <2> QED
    BY <2>2, FS_EmptySet DEF Place
<1> HIDE DEF V
<1>7. HasKeys(V, key) /\ i \in V /\ W \subseteq V
  BY DEF V
<1>8. PICK n, q, r : n = Cardinality(W) /\ q = InOrder(W, new) /\ r = InOrder(V, key)
  OBVIOUS
<1>9. /\ n \in Nat /\ q \in Seq(W) /\ Len(q) = n /\ r \in Seq(V) /\ Len(r) = n + 1
  BY <1>1, <1>7, <1>8, InOrderIs
<1>10. r[1] = i
  <2>1. InOrder(V, key)[Place(V, key, i) + 1] = i
    BY <1>7, InOrderAt
  <2>2. Place(V, key, i) + 1 = 1
    BY <1>5
  <2> QED
    BY <1>8, <2>1, <2>2
<1>11. ASSUME NEW k \in 1..n PROVE r[k + 1] = q[k]
  <2>1. PICK x \in W : q[k] = x /\ Place(W, new, x) + 1 = k
    BY <1>8, InOrderIs
  <2>2. InOrder(V, key)[Place(V, key, x) + 1] = x
    BY <1>7, InOrderAt
  <2> QED
    BY <1>4, <1>8, <2>1, <2>2
<1>12. r # <<>> /\ Head(r) = i
  BY <1>9, <1>10
<1>13. Tail(r) = q
  <2>1. PICK s : s = Tail(r)
    OBVIOUS
  <2>2. s \in Seq(V) /\ Len(s) = n /\ \A k \in 1..n : s[k] = r[k + 1]
    BY <1>9, <1>12, <2>1
  <2>3. q \in Seq(V)
    BY <1>7, <1>9
  <2>4. s = q
    BY <1>9, <1>11, <2>2, <2>3
  <2> QED
    BY <2>1, <2>4
<1> QED
  BY <1>8, <1>12, <1>13 DEF V

-----------------------------------------------------------------------------
(* A step of FifoLock, of its two variables as values.                      *)
Turn(h, q, g, r) ==
  \/ g = h /\ r = q
  \/ h = 0 /\ g \in Id /\ r = q
  \/ /\ h # 0 /\ g = h
     /\ \E i \in Id : i # h /\ (\A k \in 1..Len(q) : q[k] # i) /\ r = Append(q, i)
  \/ h # 0 /\ q = <<>> /\ g = 0 /\ r = q
  \/ h # 0 /\ q # <<>> /\ g = Head(q) /\ r = Tail(q)

LEMMA NobodyInOrder ==
  ASSUME NEW key
  PROVE  HasKeys({}, key) /\ InOrder({}, key) = <<>>
<1>1. HasKeys({}, key) /\ Cardinality({}) = 0
  BY FS_EmptySet DEF HasKeys
<1>2. PICK q : q = InOrder({}, key)
  OBVIOUS
<1>3. q \in Seq({}) /\ Len(q) = 0
  BY <1>1, <1>2, InOrderIs
<1> QED
  BY <1>1, <1>2, <1>3

LEMMA Queueing ==
  ASSUME NEW W, NEW key, NEW new, NEW h, NEW i \in Id, i \notin W, i # h, h # 0,
         HasKeys(W, key), HasKeys(W \cup {i}, new), Alike(W, key, new),
         \A x \in W : new[x] < new[i]
  PROVE  Turn(h, InOrder(W, key), h, InOrder(W \cup {i}, new))
<1>1. PICK q, r : q = InOrder(W, key) /\ r = InOrder(W \cup {i}, new)
  OBVIOUS
<1>2. r = Append(q, i)
  BY <1>1, LastInOrder
<1>3. \A k \in 1..Len(q) : q[k] # i
  <2>1. q \in Seq(W)
    BY <1>1, InOrderIs
  <2> QED
    BY <2>1
<1> QED
  BY <1>1, <1>2, <1>3 DEF Turn

LEMMA HandingOver ==
  ASSUME NEW W, NEW key, NEW new, NEW h, NEW i, i \notin W, h # 0,
         HasKeys(W, new), HasKeys(W \cup {i}, key), Alike(W, key, new),
         \A x \in W : key[i] < key[x]
  PROVE  Turn(h, InOrder(W \cup {i}, key), i, InOrder(W, new))
<1>1. PICK q, r : q = InOrder(W \cup {i}, key) /\ r = InOrder(W, new)
  OBVIOUS
<1>2. q # <<>> /\ Head(q) = i /\ Tail(q) = r
  BY <1>1, FirstInOrder
<1> QED
  BY <1>1, <1>2 DEF Turn

-----------------------------------------------------------------------------
(* The ticket lock: one of the threads that have drawn is served.           *)
Order == [i \in Id |-> Ahead(my_ticket[i])]
InLine == Drawn \ Holders

LEMMA OrderIs ==
  ASSUME IInv
  PROVE  HasKeys(InLine, Order) /\ (\A i \in InLine : pc[i] = "wait" /\ Order[i] > 0)
          /\ IsFiniteSet(Drawn) /\ Drawn \subseteq Id /\ Holders \subseteq Drawn
<1>1. Drawn \subseteq Id /\ Holders \subseteq Drawn /\ IsFiniteSet(Drawn)
  BY DrawnFinite DEF Drawn, Holders
<1>2. IsFiniteSet(InLine) /\ InLine \subseteq Id
  BY <1>1, FS_Subset DEF InLine
<1>3. now_serving \in Ticket /\ \A i \in Id : my_ticket[i] \in Ticket
  BY DEF IInv, TypeOK
<1>4. ASSUME NEW i \in InLine
      PROVE  i \in Id /\ pc[i] = "wait" /\ my_ticket[i] # now_serving
  BY DEF InLine, Drawn, Holders
<1>5. ASSUME NEW i \in InLine
      PROVE  Order[i] = Distance(my_ticket[i], now_serving) /\ Order[i] \in Nat /\ Order[i] > 0
  <2>1. Order[i] = Distance(my_ticket[i], now_serving)
    BY <1>4 DEF Order, Ahead
  <2>2. PICK d : d = Distance(my_ticket[i], now_serving)
    OBVIOUS
  <2>3. d \in Nat /\ d # 0
    BY <1>3, <1>4, <2>2, DistanceType, DistanceZero
  <2> QED
    BY <2>1, <2>2, <2>3
<1>6. ASSUME NEW i \in InLine, NEW j \in InLine, Order[i] = Order[j] PROVE i = j
  <2>1. my_ticket[i] = my_ticket[j]
    BY <1>3, <1>4, <1>5, <1>6, DistanceInjective
  <2> QED
    BY <1>4, <2>1 DEF IInv, TicketsDistinct
<1> QED
  BY <1>1, <1>2, <1>4, <1>5, <1>6 DEF HasKeys

(* As many tickets are out as threads have drawn, so that one of them is    *)
(* the one that is served.                                                  *)
LEMMA SomebodyServed ==
  ASSUME IInv, Drawn # {}
  PROVE  Holders # {}
<1> SUFFICES ASSUME Holders = {} PROVE FALSE
  OBVIOUS
<1> DEFINE c == Cardinality(Drawn)
<1>1. InLine = Drawn
  BY DEF InLine
<1>2. c \in Nat /\ HasKeys(Drawn, Order) /\ \A i \in Drawn : pc[i] = "wait" /\ Order[i] > 0
  BY <1>1, OrderIs, DrawnFinite
<1>3. \A i \in Drawn : Order[i] < c
  <2>1. ASSUME NEW i \in Drawn PROVE Order[i] < c
    <3>1. i \in Id /\ pc[i] = "wait"
      BY <1>2 DEF Drawn
    <3>2. Ahead(my_ticket[i]) < Ahead(next_ticket) /\ Ahead(next_ticket) = c
      BY <3>1 DEF IInv, TicketsDistinct
    <3> QED
      BY <3>1, <3>2 DEF Order
  <2> QED
    BY <2>1
<1> HIDE DEF c
<1>4. PICK t, o : t = 1..c - 1 /\ o = [i \in Drawn |-> Order[i]]
  OBVIOUS
<1>5. o \in [Drawn -> t]
  <2>1. \A i \in Drawn : Order[i] \in Nat /\ Order[i] > 0 /\ Order[i] < c
    BY <1>2, <1>3 DEF HasKeys
  <2>2. \A i \in Drawn : Order[i] \in t
    BY <1>2, <1>4, <2>1
  <2> QED
    BY <1>4, <2>2
<1>6. IsFiniteSet(t) /\ Cardinality(t) < c
  <2>1. 1 \in Int /\ c - 1 \in Int
    BY <1>2
  <2>2. IsFiniteSet(t) /\ Cardinality(t) = IF 1 > c - 1 THEN 0 ELSE (c - 1) - 1 + 1
    BY <1>4, <2>1, FS_Interval
  <2>3. c > 0
    <3>1. PICK i \in Drawn : TRUE
      OBVIOUS
    <3>2. Order[i] \in Nat /\ Order[i] < c
      BY <1>2, <1>3 DEF HasKeys
    <3> QED
      BY <1>2, <3>2
  <2> QED
    BY <1>2, <2>2, <2>3
<1>7. \E i, j \in Drawn : i # j /\ o[i] = o[j]
  BY <1>5, <1>6, DrawnFinite, FS_PigeonHole DEF c
<1> QED
  BY <1>2, <1>4, <1>7 DEF HasKeys

LEMMA HolderIs ==
  ASSUME IInv
  PROVE  /\ Drawn = {} => Holder = 0 /\ InLine = {}
         /\ \A h \in Holders : Holder = h /\ Holders = {h}
         /\ Drawn # {} => \E h \in Drawn : Holders = {h} /\ Holder = h
<1>1. Drawn = {} => Holders = {}
  BY DEF Holders
<1>2. Holders = {} => Holder = 0
  BY DEF Holder
<1>3. ASSUME NEW h \in Holders PROVE Holder = h /\ Holders = {h}
  <2>1. \A x, y \in Holders : x = y
    BY DEF Holders, Drawn, IInv, MutualExclusion, TicketsDistinct, Carries
  <2>2. Holders = {h}
    BY <1>3, <2>1
  <2>3. (CHOOSE x \in Holders : TRUE) = h
    BY <2>2
  <2> QED
    BY <2>2, <2>3 DEF Holder
<1>4. Drawn # {} => \E h \in Drawn : Holders = {h} /\ Holder = h
  <2> SUFFICES ASSUME Drawn # {} PROVE \E h \in Drawn : Holders = {h} /\ Holder = h
    OBVIOUS
  <2>1. PICK h \in Holders : TRUE
    BY SomebodyServed
  <2>2. h \in Drawn
    BY DEF Holders
  <2> QED
    BY <1>3, <2>2
<1> QED
  BY <1>1, <1>2, <1>3, <1>4 DEF InLine

TicketView ==
  /\ HasKeys(InLine, Order)
  /\ \A i \in InLine : pc[i] = "wait" /\ Order[i] > 0
  /\ Drawn \subseteq Id /\ Holders \subseteq Drawn
  /\ Drawn = {} => Holder = 0 /\ InLine = {}
  /\ \A h \in Holders : Holder = h /\ Holders = {h}
  /\ Drawn # {} => \E h \in Drawn : Holders = {h} /\ Holder = h

LEMMA ViewIs == (IInv => TicketView) /\ (IInv' => TicketView')
<1>1. IInv => TicketView
  BY OrderIs, HolderIs DEF TicketView
<1>2. IInv' => TicketView'
  BY <1>1, PTL
<1> QED
  BY <1>1, <1>2

TicketTurn == Turn(Holder, Queue, Holder', Queue')

LEMMA QueueIs == Queue = InOrder(InLine, Order) /\ Queue' = InOrder(InLine', Order')
<1>1. Queue = InOrder(InLine, Order)
  BY DEF Queue, InLine, Order
<1>2. Queue' = InOrder(InLine', Order')
  BY DEF Queue, InLine, Order
<1> QED
  BY <1>1, <1>2

(* The served thread and the others stay as they are.                       *)
LEMMA LineStays ==
  ASSUME IInv, IInv', Drawn' = Drawn, Holders' = Holders,
         \A j \in InLine : Order'[j] = Order[j]
  PROVE  TicketTurn
<1>1. InLine' = InLine /\ Holder' = Holder
  BY DEF InLine, Holder
<1>2. HasKeys(InLine, Order) /\ HasKeys(InLine, Order')
  BY <1>1, ViewIs DEF TicketView
<1>3. Alike(InLine, Order, Order')
  BY DEF Alike
<1>4. PICK W, K, L : W = InLine /\ K = Order /\ L = Order'
  OBVIOUS
<1>5. InOrder(W, L) = InOrder(W, K)
  BY <1>2, <1>3, <1>4, SameOrder
<1> QED
  BY <1>1, <1>4, <1>5, QueueIs DEF TicketTurn, Turn

(* Nobody had drawn: the thread is served at once.                          *)
LEMMA LineOpens ==
  ASSUME IInv, IInv', NEW i \in Id, Drawn = {}, Drawn' = {i}
  PROVE  TicketTurn
<1>1. Holder = 0 /\ InLine = {}
  BY ViewIs DEF TicketView
<1>2. Holder' = i /\ Holders' = {i}
  BY ViewIs DEF TicketView
<1>3. InLine' = {}
  BY <1>2 DEF InLine
<1>4. Queue' = Queue
  BY <1>1, <1>3, QueueIs, NobodyInOrder
<1> QED
  BY <1>1, <1>2, <1>4 DEF TicketTurn, Turn

LEMMA DrawTurn ==
  ASSUME IInv, IInv', NEW i \in Id, Draw(i)
  PROVE  TicketTurn
<1>1. i \notin Drawn /\ Drawn' = Drawn \cup {i}
  BY DEF Draw, IInv, TypeOK, Drawn, Carries
<1>2. CASE Drawn = {}
  BY <1>1, <1>2, LineOpens
<1>3. CASE Drawn # {}
  <2>1. PICK h \in Drawn : Holders = {h} /\ Holder = h
    BY <1>3, ViewIs DEF TicketView
  <2>2. h \in Id /\ h # i
    BY <1>1 DEF Drawn
  <2>3. h \in Holders' /\ now_serving' = now_serving
    <3>1. Carries(h) \/ my_ticket[h] = now_serving
      BY <2>1 DEF Holders
    <3>2. now_serving' = now_serving /\ my_ticket'[h] = my_ticket[h] /\ pc'[h] = pc[h]
      BY <2>2 DEF Draw, IInv, TypeOK
    <3>3. h \in Drawn'
      BY <1>1
    <3> QED
      BY <3>1, <3>2, <3>3, <2>2 DEF Holders, Carries, Drawn
  <2>4. Holders' = {h} /\ Holder' = h
    BY <2>3, ViewIs DEF TicketView
  <2>5. i \notin InLine /\ InLine' = InLine \cup {i} /\ InLine \subseteq Id
    BY <1>1, <2>1, <2>2, <2>4 DEF InLine, Drawn
  <2>6. \A j \in InLine : Order'[j] = Order[j]
    <3>1. \A j \in InLine : my_ticket'[j] = my_ticket[j]
      BY <2>5 DEF Draw, IInv, TypeOK
    <3> QED
      BY <2>3, <2>5, <3>1 DEF Order, Ahead
  <2>7. \A j \in InLine : Order'[j] < Order'[i]
    <3>1. Order'[i] = Ahead(next_ticket)
      BY DEF Draw, Order, Ahead, IInv, TypeOK
    <3>2. \A j \in InLine : Order[j] < Ahead(next_ticket)
      BY <2>5, ViewIs DEF TicketView, IInv, TicketsDistinct, Order
    <3> QED
      BY <2>6, <3>1, <3>2
  <2>8. HasKeys(InLine, Order) /\ HasKeys(InLine \cup {i}, Order')
    BY <2>5, ViewIs DEF TicketView
  <2>9. PICK W, K, L : W = InLine /\ K = Order /\ L = Order'
    OBVIOUS
  <2>10. Alike(W, K, L)
    BY <2>6, <2>9 DEF Alike
  <2>11. h # 0
    BY <2>2 DEF Id
  <2>12. Turn(h, InOrder(W, K), h, InOrder(W \cup {i}, L))
    <3>1. i \notin W /\ HasKeys(W, K) /\ HasKeys(W \cup {i}, L) /\ \A x \in W : L[x] < L[i]
      BY <2>5, <2>7, <2>8, <2>9
    <3> QED
      BY <2>2, <2>10, <2>11, <3>1, Queueing
  <2>13. Queue = InOrder(W, K) /\ Queue' = InOrder(W \cup {i}, L)
    BY <2>5, <2>9, QueueIs
  <2> QED
    BY <2>1, <2>4, <2>12, <2>13 DEF TicketTurn
<1> QED
  BY <1>2, <1>3

LEMMA ReleaseTurn ==
  ASSUME IInv, IInv', NEW i \in Id, Release(i)
  PROVE  TicketTurn
<1>1. Carries(i) /\ i \in Drawn /\ Drawn' = Drawn \ {i}
  <2>1. Carries(i) /\ i \in Drawn
    BY DEF Release, Drawn, Carries
  <2>2. Drawn' = Drawn \ {i}
    BY DEF Release, IInv, TypeOK, Drawn, Carries
  <2> QED
    BY <2>1, <2>2
<1>2. Holders = {i} /\ Holder = i
  <2>1. i \in Holders
    BY <1>1 DEF Holders
  <2> QED
    BY <2>1, ViewIs DEF TicketView
<1>3. InLine = Drawn' /\ i # 0
  BY <1>1, <1>2 DEF InLine, Id
<1>4. CASE Drawn' = {}
  <2>1. Holder' = 0 /\ InLine' = {} /\ InLine = {}
    BY <1>3, <1>4, ViewIs DEF TicketView
  <2>2. Queue = <<>> /\ Queue' = <<>>
    BY <2>1, QueueIs, NobodyInOrder
  <2> QED
    BY <1>2, <1>3, <2>1, <2>2 DEF TicketTurn, Turn
<1>5. CASE Drawn' # {}
  <2>1. PICK h \in Drawn' : Holders' = {h} /\ Holder' = h
    BY <1>5, ViewIs DEF TicketView
  <2>2. InLine = InLine' \cup {h} /\ h \notin InLine' /\ InLine \subseteq Id /\ h \in Id
    BY <1>3, <2>1 DEF InLine, Drawn
  <2>3. /\ HasKeys(InLine' \cup {h}, Order) /\ HasKeys(InLine', Order')
        /\ \A j \in InLine : pc[j] = "wait"
        /\ \A j \in InLine' : Order'[j] > 0
    BY <2>2, ViewIs DEF TicketView
  <2>4. now_serving \in Ticket /\ now_serving' = Inc(now_serving) /\ my_ticket' = my_ticket
         /\ \A j \in Id : my_ticket[j] \in Ticket
    BY DEF Release, IInv, TypeOK
  <2>5. ASSUME NEW j \in InLine PROVE Order'[j] = Order[j] - 1
    <3>1. my_ticket[j] # now_serving /\ j \in Id
      BY <1>1, <2>2, <2>3 DEF IInv, TicketsDistinct
    <3>2. Distance(my_ticket[j], Inc(now_serving)) = Distance(my_ticket[j], now_serving) - 1
      BY <2>4, <3>1, DistanceIncRight
    <3>3. Order'[j] = Distance(my_ticket[j], Inc(now_serving))
      BY <2>4, <3>1 DEF Order, Ahead
    <3> QED
      BY <3>1, <3>2, <3>3 DEF Order, Ahead
  <2>6. Order'[h] = 0
    <3>1. pc[h] = "wait" /\ ~Carries(h)'
      BY <2>2, <2>3 DEF Release, IInv, TypeOK, Carries
    <3>2. my_ticket'[h] = now_serving'
      BY <2>1, <3>1 DEF Holders
    <3>3. now_serving' \in Ticket
      BY DEF IInv, TypeOK
    <3>4. Distance(my_ticket'[h], now_serving') = 0
      BY <3>2, <3>3, DistanceZero
    <3> QED
      BY <2>2, <3>4 DEF Order, Ahead
  <2>7. PICK W, K, L : W = InLine' /\ K = Order /\ L = Order'
    OBVIOUS
  <2>8. HasKeys(W \cup {h}, K) /\ HasKeys(W, L) /\ h \notin W
    BY <2>2, <2>3, <2>7
  <2>9. \A x \in W \cup {h} : K[x] \in Nat /\ L[x] = K[x] - 1
    BY <2>2, <2>5, <2>7, <2>8 DEF HasKeys
  <2>10. \A x \in W : L[x] > 0
    BY <2>3, <2>7
  <2>11. L[h] = 0
    BY <2>6, <2>7
  <2>12. Alike(W, K, L) /\ \A x \in W : K[h] < K[x]
    BY <2>9, <2>10, <2>11 DEF Alike
  <2>13. Turn(i, InOrder(W \cup {h}, K), h, InOrder(W, L))
    BY <1>3, <2>8, <2>12, HandingOver
  <2>14. Queue = InOrder(W \cup {h}, K) /\ Queue' = InOrder(W, L)
    BY <2>2, <2>7, QueueIs
  <2> QED
    BY <1>2, <2>1, <2>13, <2>14 DEF TicketTurn
<1> QED
  BY <1>4, <1>5

LEMMA TestTurn ==
  ASSUME IInv, IInv', NEW i \in Id, TestCas(i), my_ticket[i] = next_ticket
  PROVE  TicketTurn
<1>1. next_ticket = now_serving /\ next_ticket \in Ticket
  BY DEF TestCas, IInv, TypeOK, TestsTrue
<1>2. Cardinality(Drawn) = 0
  BY <1>1, DistanceZero DEF IInv, TicketsDistinct, Ahead
<1>3. Drawn = {}
  BY <1>2, DrawnFinite, FS_EmptySet
<1>4. Drawn' = Drawn \cup {i}
  BY DEF TestCas, IInv, TypeOK, Drawn, Carries
<1> QED
  BY <1>3, <1>4, LineOpens

(* What leaves the tickets of the threads in line, and whom is served.      *)
LEMMA OtherTurn ==
  ASSUME IInv, IInv', NEW i \in Id,
         \/ SetLock(i) \/ TestLock(i) \/ TestServed(i) \/ Enter(i) \/ Own(i) \/ UnsetLock(i)
         \/ TestCas(i) /\ my_ticket[i] # next_ticket
  PROVE  TicketTurn
<1> USE DEF SetLock, TestLock, TestServed, Enter, Own, UnsetLock, TestCas, IInv, TypeOK
<1>1. now_serving' = now_serving
  OBVIOUS
<1>2. Drawn' = Drawn
  BY DEF Drawn, Carries, Owner
<1>3. \A j \in Id : j # i => pc'[j] = pc[j] /\ my_ticket'[j] = my_ticket[j]
  OBVIOUS
<1>4. i \in Holders' <=> i \in Holders
  BY <1>1, <1>2 DEF Holders, Drawn, Carries, Owner
<1>5. Holders' = Holders
  <2>1. \A j \in Id : j \in Holders' <=> j \in Holders
    BY <1>1, <1>2, <1>3, <1>4 DEF Holders, Carries
  <2>2. Holders \subseteq Id /\ Holders' \subseteq Id
    BY DEF Holders, Drawn
  <2> QED
    BY <2>1, <2>2
<1>6. i \notin InLine
  BY DEF InLine, Drawn, Holders, Carries, Owner
<1>7. \A j \in InLine : Order'[j] = Order[j]
  BY <1>1, <1>3, <1>6 DEF InLine, Drawn, Order, Ahead
<1> QED
  BY <1>2, <1>5, <1>7, LineStays

LEMMA NestTurn ==
  ASSUME NestIInv, NEW i \in Id, NoFullTurn,
         SimpleCall(i) \/ NestCall(i) \/ NestRunning(i)
  PROVE  TicketTurn
<1>1. IInv /\ IInv'
  BY StepBelow DEF NestIInv
<1>2. CASE Call(i) \/ Running(i)
  BY <1>1, <1>2, DrawTurn, ReleaseTurn, TestTurn, OtherTurn DEF Call, Running
<1>3. CASE UNCHANGED vars
  <2>1. Holder' = Holder /\ Queue' = Queue
    BY <1>3 DEF vars, Holder, Holders, Queue, InOrder, Drawn, Carries, Ahead
  <2> QED
    BY <2>1 DEF TicketTurn, Turn
<1> QED
  BY <1>2, <1>3, BelowOrIdle

-----------------------------------------------------------------------------
(* The DRDPA lock: it serves the thread that carries it, or the first one.  *)
DrdpaLine == Drdpa!Waiters \ {Drdpa!Holder}

LEMMA Subkeys ==
  ASSUME NEW W, NEW key, NEW V, HasKeys(W, key), V \subseteq W
  PROVE  HasKeys(V, key)
  BY FS_Subset DEF HasKeys

DrdpaView ==
  /\ HasKeys(Drdpa!Waiters, ticket) /\ Drdpa!Waiters \subseteq Id /\ Drdpa!Served \subseteq Id
  /\ Drdpa!Served \cap Drdpa!Waiters = {}
  /\ \A h \in Drdpa!Served : Drdpa!Served = {h} /\ Drdpa!Holder = h
  /\ Drdpa!Served = {} /\ Drdpa!Waiters = {} => Drdpa!Holder = 0
  /\ Drdpa!Served = {} /\ Drdpa!Waiters # {} =>
       \E h \in Drdpa!Waiters : /\ Drdpa!Holder = h
                                /\ \A x \in Drdpa!Waiters \ {h} : ticket[h] < ticket[x]

LEMMA EarliestIs ==
  ASSUME NEW W, NEW key, HasKeys(W, key), W # {}
  PROVE  \E h \in W : \A x \in W \ {h} : key[h] < key[x]
<1>1. Cardinality(W) \in Nat /\ Cardinality(W) # 0
  BY FS_CardinalityType, FS_EmptySet DEF HasKeys
<1>2. 0 \in 0..Cardinality(W) - 1
  BY <1>1
<1>3. PICK h \in W : Place(W, key, h) = 0
  BY <1>2, PlacesAreTaken
<1>4. IsFiniteSet(Before(W, key, h))
  BY FS_Subset DEF HasKeys, Before
<1>5. Before(W, key, h) = {}
  BY <1>3, <1>4, FS_EmptySet DEF Place
<1>6. ASSUME NEW x \in W \ {h} PROVE key[h] < key[x]
  <2>1. ~(key[x] < key[h]) /\ key[x] # key[h] /\ key[x] \in Nat /\ key[h] \in Nat
    BY <1>5, <1>6 DEF Before, HasKeys
  <2> QED
    BY <2>1
<1> QED
  BY <1>6

LEMMA DrdpaViewOf ==
  ASSUME NEW s \in Nat, DrdpaInv(s)
  PROVE  DrdpaView
<1> USE DrdpaAssumption DEF Drdpa!Assumptions
<1>1. Drdpa!Waiters \subseteq Id /\ Drdpa!Served \subseteq Id /\ Drdpa!Id = Id
  BY DEF Drdpa!Waiters, Drdpa!Served, Drdpa!Id, Id
<1>2. HasKeys(Drdpa!Waiters, ticket)
  <2>1. IsFiniteSet(Id)
    BY NAssumption, FS_Interval DEF Id
  <2>2. IsFiniteSet(Drdpa!Waiters)
    BY <1>1, <2>1, FS_Subset
  <2>3. \A i \in Drdpa!Waiters : ticket[i] \in Nat /\ dr_pc[i] \in DrdpaTicketed /\ i \in Drdpa!Id
    BY DEF Drdpa!Waiters, DrdpaInv, DrdpaTyped, DrdpaTicketed
  <2>4. \A i, j \in Drdpa!Waiters : ticket[i] = ticket[j] => i = j
    BY <2>3 DEF DrdpaInv, DrdpaTickets
  <2> QED
    BY <2>2, <2>3, <2>4 DEF HasKeys
<1>3. Drdpa!Served \cap Drdpa!Waiters = {}
  BY DEF Drdpa!Served, Drdpa!Waiters, Drdpa!Carries
<1>4. ASSUME NEW h \in Drdpa!Served PROVE Drdpa!Served = {h} /\ Drdpa!Holder = h
  <2>1. \A x, y \in Drdpa!Served : x = y
    BY DEF Drdpa!Served, DrdpaInv, DrdpaTickets
  <2>2. Drdpa!Served = {h}
    BY <2>1
  <2>3. (CHOOSE x \in Drdpa!Served : TRUE) = h
    BY <2>2
  <2> QED
    BY <2>2, <2>3 DEF Drdpa!Holder
<1>5. ASSUME Drdpa!Served = {}, Drdpa!Waiters = {} PROVE Drdpa!Holder = 0
  BY <1>5 DEF Drdpa!Holder, Drdpa!First
<1>6. ASSUME Drdpa!Served = {}, Drdpa!Waiters # {}
      PROVE  \E h \in Drdpa!Waiters : /\ Drdpa!Holder = h
                                      /\ \A x \in Drdpa!Waiters \ {h} : ticket[h] < ticket[x]
  <2>1. PICK h \in Drdpa!Waiters : \A x \in Drdpa!Waiters \ {h} : ticket[h] < ticket[x]
    BY <1>2, <1>6, EarliestIs
  <2>2. \A x \in Drdpa!Waiters : ticket[x] \in Nat
    BY <1>2 DEF HasKeys
  <2>3. Drdpa!First = {h}
    <3>1. h \in Drdpa!First
      BY <2>1, <2>2 DEF Drdpa!First
    <3>2. \A x \in Drdpa!Waiters \ {h} : ~(ticket[x] <= ticket[h])
      BY <2>1, <2>2
    <3> QED
      BY <3>1, <3>2 DEF Drdpa!First
  <2>4. (CHOOSE x \in Drdpa!First : TRUE) = h
    BY <2>3
  <2>5. Drdpa!Holder = h
    BY <1>6, <2>3, <2>4 DEF Drdpa!Holder
  <2> QED
    BY <2>1, <2>5
<1> QED
  BY <1>1, <1>2, <1>3, <1>4, <1>5, <1>6 DEF DrdpaView

LEMMA DrdpaViewIs == (DrdpaIInv => DrdpaView) /\ (DrdpaIInv' => DrdpaView')
<1>1. DrdpaIInv => DrdpaView
  BY DrdpaViewOf DEF DrdpaIInv
<1>2. DrdpaIInv' => DrdpaView'
  BY <1>1, PTL
<1> QED
  BY <1>1, <1>2

DrdpaTurn == Turn(Drdpa!Holder, DrdpaQueue, Drdpa!Holder', DrdpaQueue')

LEMMA DrdpaQueueIs ==
  DrdpaQueue = InOrder(DrdpaLine, ticket) /\ DrdpaQueue' = InOrder(DrdpaLine', ticket')
<1>1. DrdpaQueue = InOrder(DrdpaLine, ticket)
  BY DEF DrdpaQueue, DrdpaLine
<1>2. DrdpaQueue' = InOrder(DrdpaLine', ticket')
  BY DEF DrdpaQueue, DrdpaLine
<1> QED
  BY <1>1, <1>2

(* The line of a thread that is served is as it was.                        *)
LEMMA DrdpaLineStays ==
  ASSUME DrdpaIInv, DrdpaIInv', DrdpaLine' = DrdpaLine, Drdpa!Holder' = Drdpa!Holder,
         \A j \in DrdpaLine : ticket'[j] = ticket[j]
  PROVE  DrdpaTurn
<1>1. DrdpaLine \subseteq Drdpa!Waiters /\ DrdpaLine' \subseteq Drdpa!Waiters'
  BY DEF DrdpaLine
<1>2. HasKeys(DrdpaLine, ticket) /\ HasKeys(DrdpaLine', ticket')
  BY <1>1, DrdpaViewIs, Subkeys DEF DrdpaView
<1>3. PICK W, K, L : W = DrdpaLine /\ K = ticket /\ L = ticket'
  OBVIOUS
<1>4. HasKeys(W, K) /\ HasKeys(W, L) /\ Alike(W, K, L)
  BY <1>2, <1>3 DEF Alike
<1>5. InOrder(W, L) = InOrder(W, K)
  BY <1>4, SameOrder
<1> QED
  BY <1>3, <1>5, DrdpaQueueIs DEF DrdpaTurn, Turn

(* Nothing but the places of its thread within or without the lock.         *)
LEMMA DrdpaAllStay ==
  ASSUME DrdpaIInv, DrdpaIInv', Drdpa!Served' = Drdpa!Served, Drdpa!Waiters' = Drdpa!Waiters,
         \A j \in Drdpa!Waiters : ticket'[j] = ticket[j]
  PROVE  DrdpaTurn
<1>1. Drdpa!First' = Drdpa!First
  BY DEF Drdpa!First
<1>2. Drdpa!Holder' = Drdpa!Holder
  BY <1>1 DEF Drdpa!Holder
<1>3. DrdpaLine' = DrdpaLine /\ \A j \in DrdpaLine : ticket'[j] = ticket[j]
  BY <1>2 DEF DrdpaLine
<1> QED
  BY <1>2, <1>3, DrdpaLineStays

LEMMA DrdpaOtherTurn ==
  ASSUME DrdpaIInv, DrdpaIInv', NEW i \in Drdpa!Id,
         \/ Drdpa!SetLock(i) \/ Drdpa!AcqMask(i) \/ Drdpa!AcqPolls(i)
         \/ Drdpa!Enter(i) \/ Drdpa!Install(i) \/ Drdpa!Remask(i) \/ Drdpa!Cleanup(i)
         \/ Drdpa!Own(i) \/ Drdpa!TestLock(i) \/ Drdpa!TestPolls(i) \/ Drdpa!TestMask(i)
         \/ Drdpa!TestPoll(i) \/ Drdpa!UnsetLock(i)
         \/ Drdpa!TestCas(i) /\ dr_next_ticket # ticket[i]
         \/ Drdpa!Release(i) /\ dr_pc' = dr_pc
         \/ Drdpa!AcqPoll(i) /\ dr_pc'[i] # "enter"
         \/ Drdpa!Size(i)
  PROVE  DrdpaTurn
<1>1. PICK s \in Nat : DrdpaInv(s)
  BY DEF DrdpaIInv
<1>2. dr_pc \in [Drdpa!Id -> DrdpaPCs] /\ ticket \in [Drdpa!Id -> 0..MaxTicket]
       /\ \A j \in Drdpa!Id : dr_pc[j] = "held" => dr_owner_id = j
  BY <1>1 DEF DrdpaInv, DrdpaTyped, DrdpaOwner
<1>3. \A j \in Drdpa!Id : j # i => dr_pc'[j] = dr_pc[j] /\ ticket'[j] = ticket[j]
  BY <1>2 DEF Drdpa!SetLock, Drdpa!AcqMask, Drdpa!AcqPolls, Drdpa!Enter, Drdpa!Install,
     Drdpa!Remask, Drdpa!Cleanup, Drdpa!Own, Drdpa!TestLock, Drdpa!TestPolls, Drdpa!TestMask,
     Drdpa!TestPoll, Drdpa!UnsetLock, Drdpa!TestCas, Drdpa!Release, Drdpa!AcqPoll, Drdpa!Size,
     Drdpa!Contract, Drdpa!Expand, Drdpa!Reconfigure, Drdpa!Keep
<1>4. Drdpa!Carries(i)' <=> Drdpa!Carries(i)
  BY <1>2 DEF Drdpa!SetLock, Drdpa!AcqMask, Drdpa!AcqPolls, Drdpa!Enter, Drdpa!Install,
     Drdpa!Remask, Drdpa!Cleanup, Drdpa!Own, Drdpa!TestLock, Drdpa!TestPolls, Drdpa!TestMask,
     Drdpa!TestPoll, Drdpa!UnsetLock, Drdpa!TestCas, Drdpa!Release, Drdpa!AcqPoll, Drdpa!Size,
     Drdpa!Contract, Drdpa!Expand, Drdpa!Reconfigure, Drdpa!Keep, Drdpa!Carries
<1>5. dr_pc'[i] \in DrdpaDrawn <=> dr_pc[i] \in DrdpaDrawn
  BY <1>2 DEF Drdpa!SetLock, Drdpa!AcqMask, Drdpa!AcqPolls, Drdpa!Enter, Drdpa!Install,
     Drdpa!Remask, Drdpa!Cleanup, Drdpa!Own, Drdpa!TestLock, Drdpa!TestPolls, Drdpa!TestMask,
     Drdpa!TestPoll, Drdpa!UnsetLock, Drdpa!TestCas, Drdpa!Release, Drdpa!AcqPoll, Drdpa!Size,
     Drdpa!Contract, Drdpa!Expand, Drdpa!Reconfigure, Drdpa!Keep
<1>6. dr_pc[i] \in DrdpaDrawn => ticket'[i] = ticket[i]
  BY <1>2 DEF Drdpa!SetLock, Drdpa!AcqMask, Drdpa!AcqPolls, Drdpa!Enter, Drdpa!Install,
     Drdpa!Remask, Drdpa!Cleanup, Drdpa!Own, Drdpa!TestLock, Drdpa!TestPolls, Drdpa!TestMask,
     Drdpa!TestPoll, Drdpa!UnsetLock, Drdpa!TestCas, Drdpa!Release, Drdpa!AcqPoll, Drdpa!Size,
     Drdpa!Contract, Drdpa!Expand, Drdpa!Reconfigure, Drdpa!Keep
<1>7. Drdpa!Served' = Drdpa!Served
  BY <1>3, <1>4 DEF Drdpa!Served, Drdpa!Carries
<1>8. Drdpa!Waiters' = Drdpa!Waiters
  BY <1>3, <1>5 DEF Drdpa!Waiters
<1>9. \A j \in Drdpa!Waiters : ticket'[j] = ticket[j]
  BY <1>3, <1>6 DEF Drdpa!Waiters
<1> QED
  BY <1>7, <1>8, <1>9, DrdpaAllStay

(* The poll that ends a wait ends that of the first in line.                *)
LEMMA DrdpaPollTurn ==
  ASSUME DrdpaIInv, DrdpaIInv', NEW i \in Drdpa!Id, Drdpa!AcqPoll(i), dr_pc'[i] = "enter"
  PROVE  DrdpaTurn
<1>1. /\ dr_pc[i] = "poll" /\ ticket' = ticket
      /\ \A j \in Drdpa!Id : j # i => dr_pc'[j] = dr_pc[j]
  BY DEF Drdpa!AcqPoll, DrdpaIInv, DrdpaInv, DrdpaTyped
<1>2. i \in Drdpa!Served' /\ i \in Drdpa!Waiters /\ Drdpa!Waiters' = Drdpa!Waiters \ {i}
  BY <1>1 DEF Drdpa!Served, Drdpa!Carries, Drdpa!Waiters
<1>3. Drdpa!Served' = {i} /\ Drdpa!Holder' = i
  BY <1>2, DrdpaViewIs DEF DrdpaView
<1>4. Drdpa!Served = {}
  <2>1. \A j \in Drdpa!Served : j # i /\ j \in Drdpa!Served'
    BY <1>1 DEF Drdpa!Served, Drdpa!Carries
  <2> QED
    BY <1>3, <2>1
<1>5. ASSUME NEW j \in Drdpa!Waiters, j # i PROVE ~(ticket[j] < ticket[i])
  <2>1. PICK s \in Nat : DrdpaInv(s)'
    BY DEF DrdpaIInv
  <2>2. ticket'[i] = s
    BY <2>1 DEF DrdpaInv, DrdpaTickets, DrdpaTicketed
  <2>3. s <= ticket'[j]
    <3>1. j \in Drdpa!Id /\ dr_pc'[j] \in DrdpaTicketed
      BY <1>1, <1>5 DEF Drdpa!Waiters, DrdpaTicketed
    <3> QED
      BY <2>1, <3>1 DEF DrdpaInv, DrdpaTickets
  <2>4. ticket[j] \in Nat
    BY DrdpaViewIs DEF DrdpaView, HasKeys
  <2> QED
    BY <1>1, <2>2, <2>3, <2>4
<1>6. Drdpa!Holder = i
  <2>1. PICK h \in Drdpa!Waiters :
          Drdpa!Holder = h /\ \A x \in Drdpa!Waiters \ {h} : ticket[h] < ticket[x]
    BY <1>2, <1>4, DrdpaViewIs DEF DrdpaView
  <2> QED
    BY <1>2, <1>5, <2>1
<1>7. DrdpaLine' = DrdpaLine
  BY <1>2, <1>3, <1>6 DEF DrdpaLine
<1> QED
  BY <1>1, <1>3, <1>6, <1>7, DrdpaLineStays

(* A successful test finds nobody.                                          *)
LEMMA DrdpaTestTurn ==
  ASSUME DrdpaIInv, DrdpaIInv', NEW i \in Drdpa!Id, Drdpa!TestCas(i),
         dr_next_ticket = ticket[i]
  PROVE  DrdpaTurn
<1>1. PICK s \in Nat : DrdpaInv(s)
  BY DEF DrdpaIInv
<1>2. /\ dr_pc[i] = "test_cas" /\ dr_pc'[i] = "own"
      /\ \A j \in Drdpa!Id : j # i => dr_pc'[j] = dr_pc[j]
  BY <1>1 DEF Drdpa!TestCas, DrdpaInv, DrdpaTyped
<1>3. s = dr_next_ticket /\ dr_next_ticket \in Nat
  BY <1>1, <1>2, DrdpaAssumption DEF DrdpaInv, DrdpaTickets, DrdpaTyped, Drdpa!Assumptions
<1>4. \A j \in Drdpa!Id : ~Drdpa!Carries(j) /\ dr_pc[j] \notin DrdpaTicketed
  BY <1>1, <1>3, DrdpaAssumption DEF DrdpaInv, DrdpaTickets, DrdpaTyped, Drdpa!Assumptions
<1>5. Drdpa!Served = {} /\ Drdpa!Waiters = {}
  BY <1>4 DEF Drdpa!Served, Drdpa!Waiters, DrdpaTicketed
<1>6. Drdpa!Waiters' = {} /\ i \in Drdpa!Served'
  BY <1>2, <1>5 DEF Drdpa!Served, Drdpa!Waiters, Drdpa!Carries
<1>7. Drdpa!Holder = 0 /\ Drdpa!Holder' = i /\ i \in Id
  BY <1>5, <1>6, DrdpaViewIs DEF DrdpaView, Drdpa!Id, Id
<1>8. DrdpaQueue = <<>> /\ DrdpaQueue' = <<>>
  <2>1. DrdpaLine = {} /\ DrdpaLine' = {}
    BY <1>5, <1>6 DEF DrdpaLine
  <2> QED
    BY <2>1, DrdpaQueueIs, NobodyInOrder
<1> QED
  BY <1>7, <1>8 DEF DrdpaTurn, Turn

LEMMA DrdpaDrawTurn ==
  ASSUME DrdpaIInv, DrdpaIInv', NEW i \in Drdpa!Id, Drdpa!Draw(i)
  PROVE  DrdpaTurn
<1>1. PICK s \in Nat : DrdpaInv(s)
  BY DEF DrdpaIInv
<1>2. /\ dr_pc[i] = "draw" /\ dr_pc'[i] = "mask" /\ ticket'[i] = dr_next_ticket /\ i \in Id
      /\ \A j \in Drdpa!Id : j # i => dr_pc'[j] = dr_pc[j] /\ ticket'[j] = ticket[j]
  BY <1>1 DEF Drdpa!Draw, DrdpaInv, DrdpaTyped, Drdpa!Id, Id
<1>3. i \notin Drdpa!Waiters /\ Drdpa!Waiters' = Drdpa!Waiters \cup {i}
  BY <1>2 DEF Drdpa!Waiters
<1>4. Drdpa!Served' = Drdpa!Served /\ i \notin Drdpa!Served
  BY <1>2 DEF Drdpa!Served, Drdpa!Carries
<1>5. \A j \in Drdpa!Waiters : ticket'[j] = ticket[j] /\ ticket[j] < ticket'[i]
  <2>1. \A j \in Drdpa!Waiters : j \in Drdpa!Id /\ j # i /\ dr_pc[j] \in DrdpaTicketed
    BY <1>3 DEF Drdpa!Waiters, DrdpaTicketed
  <2> QED
    BY <1>1, <1>2, <2>1 DEF DrdpaInv, DrdpaTickets
<1>6. CASE Drdpa!Served = {} /\ Drdpa!Waiters = {}
  <2>1. Drdpa!Holder = 0 /\ Drdpa!Holder' = i
    BY <1>3, <1>4, <1>6, DrdpaViewIs DEF DrdpaView
  <2>2. DrdpaLine = {} /\ DrdpaLine' = {}
    BY <1>3, <1>6, <2>1 DEF DrdpaLine
  <2>3. DrdpaQueue' = DrdpaQueue
    BY <2>2, DrdpaQueueIs, NobodyInOrder
  <2> QED
    BY <1>2, <2>1, <2>3 DEF DrdpaTurn, Turn
<1>7. ASSUME Drdpa!Holder \in Id, Drdpa!Holder' = Drdpa!Holder, Drdpa!Holder # i
      PROVE  DrdpaTurn
  <2>1. DrdpaLine' = DrdpaLine \cup {i} /\ i \notin DrdpaLine /\ DrdpaLine \subseteq Drdpa!Waiters
    BY <1>3, <1>7 DEF DrdpaLine
  <2>2. HasKeys(DrdpaLine, ticket) /\ HasKeys(DrdpaLine', ticket')
    <3>1. DrdpaLine' \subseteq Drdpa!Waiters'
      BY DEF DrdpaLine
    <3> QED
      BY <2>1, <3>1, DrdpaViewIs, Subkeys DEF DrdpaView
  <2>3. PICK W, K, L, h : W = DrdpaLine /\ K = ticket /\ L = ticket' /\ h = Drdpa!Holder
    OBVIOUS
  <2>4. /\ HasKeys(W, K) /\ HasKeys(W \cup {i}, L) /\ i \notin W
        /\ \A x \in W : L[x] = K[x] /\ L[x] < L[i]
    BY <1>5, <2>1, <2>2, <2>3
  <2>5. Alike(W, K, L) /\ h # i /\ h # 0
    BY <1>7, <2>3, <2>4 DEF Alike, Id
  <2>6. Turn(h, InOrder(W, K), h, InOrder(W \cup {i}, L))
    BY <1>2, <2>4, <2>5, Queueing
  <2>7. DrdpaQueue = InOrder(W, K) /\ DrdpaQueue' = InOrder(W \cup {i}, L)
    BY <2>1, <2>3, DrdpaQueueIs
  <2> QED
    BY <1>7, <2>3, <2>6, <2>7 DEF DrdpaTurn
<1>8. CASE Drdpa!Served # {}
  <2>1. PICK h \in Drdpa!Served : TRUE
    BY <1>8
  <2>2. Drdpa!Holder = h /\ Drdpa!Holder' = h /\ h \in Id /\ h # i
    BY <1>4, <2>1, DrdpaViewIs DEF DrdpaView
  <2> QED
    BY <1>7, <2>2
<1>9. CASE Drdpa!Served = {} /\ Drdpa!Waiters # {}
  <2>1. PICK h \in Drdpa!Waiters :
          Drdpa!Holder = h /\ \A x \in Drdpa!Waiters \ {h} : ticket[h] < ticket[x]
    BY <1>9, DrdpaViewIs DEF DrdpaView
  <2>2. PICK g \in Drdpa!Waiters' :
          Drdpa!Holder' = g /\ \A x \in Drdpa!Waiters' \ {g} : ticket'[g] < ticket'[x]
    BY <1>3, <1>4, <1>9, DrdpaViewIs DEF DrdpaView
  <2>3. g = h
    <3> SUFFICES ASSUME g # h PROVE FALSE
      OBVIOUS
    <3>1. h \in Drdpa!Waiters' \ {g} /\ (g = i \/ g \in Drdpa!Waiters \ {h})
      BY <1>3, <2>1, <2>2
    <3>2. ticket'[g] < ticket[h]
      BY <1>5, <2>2, <3>1
    <3>3. ticket[h] < ticket'[g]
      BY <1>5, <2>1, <3>1
    <3>4. ticket[h] \in Nat /\ ticket'[g] \in Nat
      BY <2>1, <2>2, DrdpaViewIs DEF DrdpaView, HasKeys
    <3> QED
      BY <3>2, <3>3, <3>4
  <2>4. h \in Id /\ h # i
    BY <1>3, DrdpaViewIs DEF DrdpaView
  <2> QED
    BY <1>7, <2>1, <2>2, <2>3, <2>4
<1> QED
  BY <1>6, <1>8, <1>9

LEMMA DrdpaReleaseTurn ==
  ASSUME DrdpaIInv, DrdpaIInv', NEW i \in Drdpa!Id, Drdpa!Release(i), dr_pc' # dr_pc
  PROVE  DrdpaTurn
<1>1. /\ dr_pc[i] = "release" /\ dr_pc'[i] = "idle" /\ ticket' = ticket /\ i \in Id
      /\ \A j \in Drdpa!Id : j # i => dr_pc'[j] = dr_pc[j]
  BY DEF Drdpa!Release, DrdpaIInv, DrdpaInv, DrdpaTyped, Drdpa!Id, Id
<1>2. Drdpa!Served = {i} /\ Drdpa!Holder = i /\ i # 0
  <2>1. i \in Drdpa!Served
    BY <1>1 DEF Drdpa!Served, Drdpa!Carries
  <2> QED
    BY <1>1, <2>1, DrdpaViewIs DEF DrdpaView, Id
<1>3. Drdpa!Served' = {}
  <2>1. \A j \in Drdpa!Id : ~Drdpa!Carries(j)'
    BY <1>1, <1>2 DEF Drdpa!Served, Drdpa!Carries
  <2> QED
    BY <2>1 DEF Drdpa!Served
<1>4. Drdpa!Waiters' = Drdpa!Waiters /\ i \notin Drdpa!Waiters
  BY <1>1 DEF Drdpa!Waiters
<1>5. DrdpaLine = Drdpa!Waiters
  BY <1>2, <1>4 DEF DrdpaLine
<1>6. CASE Drdpa!Waiters = {}
  <2>1. Drdpa!Holder' = 0 /\ DrdpaLine = {} /\ DrdpaLine' = {}
    BY <1>3, <1>4, <1>5, <1>6, DrdpaViewIs DEF DrdpaView, DrdpaLine
  <2>2. DrdpaQueue = <<>> /\ DrdpaQueue' = <<>>
    BY <2>1, DrdpaQueueIs, NobodyInOrder
  <2> QED
    BY <1>2, <2>1, <2>2 DEF DrdpaTurn, Turn
<1>7. CASE Drdpa!Waiters # {}
  <2>1. PICK h \in Drdpa!Waiters :
          Drdpa!Holder' = h /\ \A x \in Drdpa!Waiters \ {h} : ticket[h] < ticket[x]
    BY <1>1, <1>3, <1>4, <1>7, DrdpaViewIs DEF DrdpaView
  <2>2. PICK W, K : W = DrdpaLine' /\ K = ticket
    OBVIOUS
  <2>3. DrdpaLine = W \cup {h} /\ h \notin W /\ W \subseteq Drdpa!Waiters
    BY <1>4, <1>5, <2>1, <2>2 DEF DrdpaLine
  <2>4. HasKeys(W, K) /\ HasKeys(W \cup {h}, K)
    BY <1>5, <2>2, <2>3, DrdpaViewIs, Subkeys DEF DrdpaView
  <2>5. Alike(W, K, K) /\ \A x \in W : K[h] < K[x]
    BY <2>1, <2>2, <2>3 DEF Alike
  <2>6. Turn(i, InOrder(W \cup {h}, K), h, InOrder(W, K))
    BY <1>2, <2>3, <2>4, <2>5, HandingOver
  <2>7. DrdpaQueue = InOrder(W \cup {h}, K) /\ DrdpaQueue' = InOrder(W, K)
    BY <1>1, <2>2, <2>3, DrdpaQueueIs
  <2> QED
    BY <1>2, <2>1, <2>6, <2>7 DEF DrdpaTurn
<1> QED
  BY <1>6, <1>7

LEMMA DrdpaStepTurn ==
  ASSUME DrdpaIInv, DrdpaIInv', Drdpa!Next
  PROVE  DrdpaTurn
<1>1. PICK i \in Drdpa!Id : Drdpa!Call(i) \/ Drdpa!Running(i)
  BY DEF Drdpa!Next
<1>2. CASE Drdpa!Draw(i)
  BY <1>2, DrdpaDrawTurn
<1>3. CASE Drdpa!AcqPoll(i)
  BY <1>3, DrdpaPollTurn, DrdpaOtherTurn
<1>4. CASE Drdpa!TestCas(i)
  BY <1>4, DrdpaTestTurn, DrdpaOtherTurn
<1>5. CASE Drdpa!Release(i)
  BY <1>5, DrdpaReleaseTurn, DrdpaOtherTurn
<1>6. CASE Drdpa!SetLock(i) \/ Drdpa!AcqMask(i) \/ Drdpa!AcqPolls(i) \/ Drdpa!Enter(i)
           \/ Drdpa!Size(i) \/ Drdpa!Install(i) \/ Drdpa!Remask(i) \/ Drdpa!Cleanup(i)
           \/ Drdpa!Own(i) \/ Drdpa!TestLock(i) \/ Drdpa!TestPolls(i) \/ Drdpa!TestMask(i)
           \/ Drdpa!TestPoll(i) \/ Drdpa!UnsetLock(i)
  BY <1>6, DrdpaOtherTurn
<1> QED
  BY <1>1, <1>2, <1>3, <1>4, <1>5, <1>6 DEF Drdpa!Call, Drdpa!Running

-----------------------------------------------------------------------------
LEMMA TurnIsStep ==
  ASSUME kind' = kind, IF kind = "drdpa" THEN DrdpaTurn ELSE TicketTurn
  PROVE  [Fifo!Next]_(Fifo!vars)
<1>1. PICK h, q, g, r : /\ h = (IF kind = "drdpa" THEN Drdpa!Holder ELSE Holder)
                        /\ q = (IF kind = "drdpa" THEN DrdpaQueue ELSE Queue)
                        /\ g = (IF kind' = "drdpa" THEN Drdpa!Holder' ELSE Holder')
                        /\ r = (IF kind' = "drdpa" THEN DrdpaQueue' ELSE Queue')
  OBVIOUS
<1>2. Turn(h, q, g, r)
  BY <1>1 DEF DrdpaTurn, TicketTurn
<1>3. CASE g = h /\ r = q
  BY <1>1, <1>3 DEF Fifo!vars
<1>4. CASE h = 0 /\ g \in Id /\ r = q
  BY <1>1, <1>4 DEF Fifo!Next, Fifo!Acquire
<1>5. CASE /\ h # 0 /\ g = h
           /\ \E i \in Id : i # h /\ (\A k \in 1..Len(q) : q[k] # i) /\ r = Append(q, i)
  <2>1. PICK i \in Id : i # h /\ (\A k \in 1..Len(q) : q[k] # i) /\ r = Append(q, i)
    BY <1>5
  <2>2. i \notin Fifo!Queued
    BY <1>1, <2>1 DEF Fifo!Queued
  <2>3. Fifo!Enqueue(i)
    BY <1>1, <1>5, <2>1, <2>2 DEF Fifo!Enqueue
  <2> QED
    BY <2>3 DEF Fifo!Next
<1>6. CASE h # 0 /\ q = <<>> /\ g = 0 /\ r = q
  BY <1>1, <1>6 DEF Fifo!Next, Fifo!Release
<1>7. CASE h # 0 /\ q # <<>> /\ g = Head(q) /\ r = Tail(q)
  BY <1>1, <1>7 DEF Fifo!Next, Fifo!HandOff
<1> QED
  BY <1>2, <1>3, <1>4, <1>5, <1>6, <1>7 DEF Turn

LEMMA InitInOrder == UserInit => Fifo!Init
<1> SUFFICES ASSUME UserInit PROVE Fifo!Init
  OBVIOUS
<1>1. Holder = 0 /\ Queue = <<>>
  <2>1. Drawn = {}
    BY DEF UserInit, NestInit, Init, Drawn, Carries
  <2>2. Holder = 0 /\ InLine = {}
    BY <2>1, UserInitIInv, ViewIs DEF UserIInv, NestIInv, TicketView
  <2> QED
    BY <2>2, QueueIs, NobodyInOrder
<1>2. Drdpa!Holder = 0 /\ DrdpaQueue = <<>>
  <2>1. Drdpa!Served = {} /\ Drdpa!Waiters = {}
    BY DEF UserInit, Drdpa!Init, Drdpa!Served, Drdpa!Waiters, Drdpa!Carries
  <2>2. DrdpaIInv
    BY DrdpaInitIInv, DrdpaAssumption DEF UserInit, DrdpaIInv
  <2>3. Drdpa!Holder = 0 /\ DrdpaLine = {}
    BY <2>1, <2>2, DrdpaViewIs DEF DrdpaView, DrdpaLine
  <2> QED
    BY <2>3, DrdpaQueueIs, NobodyInOrder
<1> QED
  BY <1>1, <1>2 DEF Fifo!Init

LEMMA NextInOrder ==
  UserIInv /\ UserIInv' /\ DrdpaIInv /\ DrdpaIInv' /\ [UserNext]_all => [Fifo!Next]_(Fifo!vars)
<1> SUFFICES ASSUME UserIInv, UserIInv', DrdpaIInv, DrdpaIInv', [UserNext]_all
             PROVE  [Fifo!Next]_(Fifo!vars)
  OBVIOUS
<1>1. kind' = kind
  BY DEF UserNext, TasOnly, TicketOnly, DrdpaOnly, all
<1>2. ASSUME UNCHANGED vars PROVE TicketTurn
  <2>1. Holder' = Holder /\ Queue' = Queue
    BY <1>2 DEF vars, Holder, Holders, Queue, InOrder, Drawn, Carries, Ahead
  <2> QED
    BY <2>1 DEF TicketTurn, Turn
<1>3. CASE TicketOnly(NestNext)
  <2>1. TicketTurn
    BY <1>3, NestTurn DEF TicketOnly, NestNext, UserIInv
  <2> QED
    BY <1>1, <1>3, <2>1, TurnIsStep DEF TicketOnly
<1>4. CASE TasOnly(Tas!Next)
  <2>1. TicketTurn /\ kind = "tas"
    BY <1>2, <1>4 DEF TasOnly, nestVars
  <2> QED
    BY <1>1, <2>1, TurnIsStep
<1>5. CASE DrdpaOnly(Drdpa!Next)
  <2>1. DrdpaTurn /\ kind = "drdpa"
    BY <1>5, DrdpaStepTurn DEF DrdpaOnly
  <2> QED
    BY <1>1, <2>1, TurnIsStep
<1>6. CASE UNCHANGED all
  <2>1. TicketTurn
    BY <1>2, <1>6 DEF all, nestVars
  <2>2. DrdpaTurn
    <3>1. UNCHANGED <<dr_pc, ticket>>
      BY <1>6 DEF all, drVars
    <3>2. Drdpa!Holder' = Drdpa!Holder /\ Drdpa!Waiters' = Drdpa!Waiters
      BY <3>1 DEF Drdpa!Holder, Drdpa!Served, Drdpa!First, Drdpa!Waiters, Drdpa!Carries
    <3>3. DrdpaQueue' = DrdpaQueue
      BY <3>1, <3>2 DEF DrdpaQueue, InOrder
    <3> QED
      BY <3>2, <3>3 DEF DrdpaTurn, Turn
  <2> QED
    BY <1>1, <2>1, <2>2, TurnIsStep
<1> QED
  BY <1>3, <1>4, <1>5, <1>6 DEF UserNext

(***************************************************************************)
(* The ticket lock, simple or nested, and the DRDPA lock implement a first  *)
(* come, first served lock: for any number of threads, although the tickets *)
(* wrap, while areas are replaced and threads test the lock.                *)
(***************************************************************************)
THEOREM TicketsServedInOrder == UserSafety => ServedInOrder
<1>1. UserInit => Drdpa!Init
  BY DEF UserInit
<1>2. [UserNext]_all => [Drdpa!Next]_(Drdpa!vars)
  BY DEF UserNext, TasOnly, TicketOnly, DrdpaOnly, all, drVars, Drdpa!vars
<1>3. Drdpa!Spec => []DrdpaIInv
  BY DrdpaAlways, DrdpaAssumption
<1> QED
  BY <1>1, <1>2, <1>3, UserInvariance, InitInOrder, NextInOrder, PTL
     DEF UserSafety, ServedInOrder, Drdpa!Spec, Fifo!Safety
=============================================================================
