-------------------------- MODULE WaitLocks_proofs --------------------------
(***************************************************************************)
(* Mutual exclusion of the queuing lock and of the futex lock, that the     *)
(* former serves in the order of arrival and that no wake-up of the latter  *)
(* is lost, for every number of threads.                                    *)
(*                                                                          *)
(* In the queuing lock exclusion is not inductive by itself: the store of   *)
(* head_id in release and the store that wakes the next thread look at      *)
(* nothing before they write.  IInv says why they may: the queue is one     *)
(* list of threads that wait (OneList, LegalEnds, Links), and what the      *)
(* releasing thread has read of it stays true until it acts (NoStaleRead).  *)
(*                                                                          *)
(* In the futex lock NoLostWakeup follows the obligation to wake a sleeping *)
(* thread from the lock word to the thread that releases the lock, to the   *)
(* thread that it wakes and, when that one takes the lock, back into the    *)
(* word.  Seen adds that a thread goes to sleep only on a word that has the *)
(* bit set.                                                                 *)
(***************************************************************************)
EXTENDS MCWaitLocks, FiniteSetTheorems, WellFoundedInduction, TLAPS

USE DEF Goto, EndTurn, lock, thread, locals,
        Id, PC, AcqPC, HeldPC, RelPC, HandOffPC

(* The initial state satisfies the inductive invariant.                     *)
LEMMA InitIInv == Init => IInv
<1> SUFFICES ASSUME Init PROVE IInv
  OBVIOUS
<1>1. TypeOK
  BY DEF Init, TypeOK
<1>2. MutualExclusion
  BY DEF Init, MutualExclusion, Carries
<1>3. LegalEnds
  BY DEF Init, LegalEnds
<1>4. OneList
  BY DEF Init, OneList, Behind
<1>5. NoStaleRead
  BY DEF Init, NoStaleRead
<1>6. Links
  BY DEF Init, Links
<1>7. Spinning /\ Seen /\ Owner
  BY DEF Init, Spinning, Seen, Owner
<1> QED
  BY <1>1, <1>2, <1>3, <1>4, <1>5, <1>6, <1>7 DEF IInv

(* A step keeps every variable in its type.  That the head stored by        *)
(* release is a thread, and that release looks at a thread's successor,     *)
(* needs NoStaleRead.                                                       *)
LEMMA TypeStep == ASSUME IInv, NEW i \in Id, Running(i) \/ Call(i)
                  PROVE  TypeOK'
<1>1. CASE SetLock(i)
  BY <1>1 DEF SetLock, IInv, TypeOK
<1>2. CASE AcqReadHead(i)
  BY <1>2 DEF AcqReadHead, IInv, TypeOK
<1>3. CASE AcqFree(i)
  BY <1>3 DEF AcqFree, IInv, TypeOK
<1>4. CASE AcqHeld(i)
  BY <1>4 DEF AcqHeld, IInv, TypeOK
<1>5. CASE AcqReadTail(i)
  BY <1>5 DEF AcqReadTail, IInv, TypeOK
<1>6. CASE AcqTail(i)
  BY <1>6 DEF AcqTail, IInv, TypeOK
<1>7. CASE AcqCasFails(i)
  BY <1>7 DEF AcqCasFails, IInv, TypeOK
<1>8. CASE AcqLink(i)
  BY <1>8 DEF AcqLink, IInv, TypeOK
<1>9. CASE AcqWait(i)
  BY <1>9 DEF AcqWait, IInv, TypeOK
<1>10. CASE AcqOwn(i)
  BY <1>10 DEF AcqOwn, IInv, TypeOK
<1>11. CASE TestLock(i)
  BY <1>11 DEF TestLock, IInv, TypeOK
<1>12. CASE TestCas(i)
  BY <1>12 DEF TestCas, IInv, TypeOK
<1>13. CASE UnsetLock(i)
  BY <1>13 DEF UnsetLock, IInv, TypeOK
<1>14. CASE RelReadHead(i)
  BY <1>14 DEF RelReadHead, IInv, TypeOK
<1>15. CASE RelEmpty(i)
  BY <1>15 DEF RelEmpty, IInv, TypeOK
<1>16. CASE RelReadTail(i)
  BY <1>16 DEF RelReadTail, IInv, TypeOK
<1>17. CASE RelOne(i)
  BY <1>17 DEF RelOne, IInv, TypeOK
<1>18. CASE RelCasFails(i)
  BY <1>18 DEF RelCasFails, IInv, TypeOK
<1>19. CASE RelWait(i)
  BY <1>19 DEF RelWait, IInv, TypeOK, NoStaleRead
<1>20. CASE RelStore(i)
  BY <1>20 DEF RelStore, IInv, TypeOK, NoStaleRead
<1>21. CASE RelClear(i)
  BY <1>21 DEF RelClear, IInv, TypeOK
<1>22. CASE RelWake(i)
  BY <1>22 DEF RelWake, IInv, TypeOK
<1> QED
  BY <1>1, <1>2, <1>3, <1>4, <1>5, <1>6, <1>7, <1>8, <1>9, <1>10, <1>11,
     <1>12, <1>13, <1>14, <1>15, <1>16, <1>17, <1>18, <1>19, <1>20, <1>21,
     <1>22 DEF Running, Call

(***************************************************************************)
(* One lemma per action.  Each conjunct of the invariant is a step, which   *)
(* names the other conjuncts that its preservation rests on: where it names *)
(* none, the action does not disturb it.                                    *)
(***************************************************************************)
LEMMA SetLockStep == ASSUME IInv, TypeOK', NEW i \in Id, SetLock(i)
      PROVE  IInv'
<1> USE DEF SetLock, IInv, TypeOK
<1>1. MutualExclusion'
  BY DEF MutualExclusion, Carries
<1>2. LegalEnds'
  BY DEF LegalEnds, Waiting, Dequeued
<1>3. OneList'
  BY DEF OneList, Waiting, Dequeued, Behind
<1>4. NoStaleRead'
  BY DEF NoStaleRead, Waiting, Dequeued
<1>5. Links'
  BY DEF Links, Behind
<1>6. Spinning'
  BY DEF Spinning
<1>7. Seen'
  BY DEF Seen
<1>8. Owner'
  BY DEF Owner, MutualExclusion, Carries
<1> QED
  BY <1>1, <1>2, <1>3, <1>4, <1>5, <1>6, <1>7, <1>8

LEMMA AcqReadHeadStep == ASSUME IInv, TypeOK', NEW i \in Id, AcqReadHead(i)
      PROVE  IInv'
<1> USE DEF AcqReadHead, IInv, TypeOK
<1>1. MutualExclusion'
  BY DEF MutualExclusion, Carries
<1>2. LegalEnds'
  BY DEF LegalEnds, Waiting, Dequeued
<1>3. OneList'
  BY DEF OneList, Waiting, Dequeued, Behind
<1>4. NoStaleRead'
  BY DEF NoStaleRead, Waiting, Dequeued
<1>5. Links'
  BY DEF Links, Behind
<1>6. Spinning'
  BY DEF Spinning
<1>7. Seen'
  BY DEF Seen
<1>8. Owner'
  BY DEF Owner
<1> QED
  BY <1>1, <1>2, <1>3, <1>4, <1>5, <1>6, <1>7, <1>8

LEMMA AcqFreeStep == ASSUME IInv, TypeOK', NEW i \in Id, AcqFree(i)
      PROVE  IInv'
<1> USE DEF AcqFree, IInv, TypeOK
<1>1. MutualExclusion'
  BY DEF MutualExclusion, Carries
<1>2. LegalEnds'
  BY DEF LegalEnds, Waiting, Dequeued
<1>3. OneList'
  BY DEF OneList, Waiting, Dequeued, Behind
<1>4. NoStaleRead'
  BY DEF NoStaleRead, Waiting, Dequeued
<1>5. Links'
  BY DEF Links, Behind
<1>6. Spinning'
  BY DEF Spinning
<1>7. Seen'
  BY DEF Seen
<1>8. Owner'
  BY DEF Owner
<1> QED
  BY <1>1, <1>2, <1>3, <1>4, <1>5, <1>6, <1>7, <1>8

LEMMA AcqHeldStep == ASSUME IInv, TypeOK', NEW i \in Id, AcqHeld(i)
      PROVE  IInv'
<1> USE DEF AcqHeld, IInv, TypeOK
<1>1. MutualExclusion'
  BY DEF MutualExclusion, Carries, NoStaleRead
<1>2. LegalEnds'
  BY DEF LegalEnds, Waiting, Dequeued, NoStaleRead
<1>3. OneList'
  BY DEF OneList, Waiting, Dequeued, Behind, NoStaleRead
<1>4. NoStaleRead'
  BY DEF NoStaleRead, Waiting, Dequeued
<1>5. Links'
  BY DEF Links, Behind
<1>6. Spinning'
  BY DEF Spinning
<1>7. Seen'
  BY DEF Seen
<1>8. Owner'
  BY DEF Owner
<1> QED
  BY <1>1, <1>2, <1>3, <1>4, <1>5, <1>6, <1>7, <1>8

LEMMA AcqReadTailStep == ASSUME IInv, TypeOK', NEW i \in Id, AcqReadTail(i)
      PROVE  IInv'
<1> USE DEF AcqReadTail, IInv, TypeOK
<1>1. MutualExclusion'
  BY DEF MutualExclusion, Carries
<1>2. LegalEnds'
  BY DEF LegalEnds, Waiting, Dequeued
<1>3. OneList'
  BY DEF OneList, Waiting, Dequeued, Behind
<1>4. NoStaleRead'
  BY DEF NoStaleRead, Waiting, Dequeued
<1>5. Links'
  BY DEF Links, Behind
<1>6. Spinning'
  BY DEF Spinning
<1>7. Seen'
  BY DEF Seen
<1>8. Owner'
  BY DEF Owner
<1> QED
  BY <1>1, <1>2, <1>3, <1>4, <1>5, <1>6, <1>7, <1>8

LEMMA AcqTailStep == ASSUME IInv, TypeOK', NEW i \in Id, AcqTail(i)
      PROVE  IInv'
<1> USE DEF AcqTail, IInv, TypeOK
<1>1. MutualExclusion'
  BY DEF MutualExclusion, Carries
<1>2. LegalEnds'
  BY DEF LegalEnds, Waiting, Dequeued, NoStaleRead
<1>3. OneList'
  BY DEF OneList, Waiting, Dequeued, Behind, LegalEnds, NoStaleRead, Links
<1>4. NoStaleRead'
  BY DEF NoStaleRead, LegalEnds, MutualExclusion, Carries, Waiting,
         Dequeued
<1>5. Links'
  BY DEF Links, Behind, OneList, Waiting, Dequeued, LegalEnds, NoStaleRead
<1>6. Spinning'
  BY DEF Spinning
<1>7. Seen'
  BY DEF Seen
<1>8. Owner'
  BY DEF Owner
<1> QED
  BY <1>1, <1>2, <1>3, <1>4, <1>5, <1>6, <1>7, <1>8

LEMMA AcqCasFailsStep == ASSUME IInv, TypeOK', NEW i \in Id, AcqCasFails(i)
      PROVE  IInv'
<1> USE DEF AcqCasFails, IInv, TypeOK
<1>1. MutualExclusion'
  BY DEF MutualExclusion, Carries
<1>2. LegalEnds'
  BY DEF LegalEnds, Waiting, Dequeued
<1>3. OneList'
  BY DEF OneList, Waiting, Dequeued, Behind
<1>4. NoStaleRead'
  BY DEF NoStaleRead, Waiting, Dequeued
<1>5. Links'
  BY DEF Links, Behind
<1>6. Spinning'
  BY DEF Spinning
<1>7. Seen'
  BY DEF Seen
<1>8. Owner'
  BY DEF Owner
<1> QED
  BY <1>1, <1>2, <1>3, <1>4, <1>5, <1>6, <1>7, <1>8

LEMMA AcqLinkStep == ASSUME IInv, TypeOK', NEW i \in Id, AcqLink(i)
      PROVE  IInv'
<1> USE DEF AcqLink, IInv, TypeOK
<1>1. MutualExclusion'
  BY DEF MutualExclusion, Carries, NoStaleRead
<1>2. LegalEnds'
  BY DEF LegalEnds, Waiting, Dequeued
<1>3. OneList'
  BY DEF OneList, Waiting, Dequeued, Behind
<1>4. NoStaleRead'
  BY DEF NoStaleRead, LegalEnds, MutualExclusion, Carries, Waiting,
         Dequeued, OneList, Behind
<1>5. Links'
  BY DEF Links, Behind
<1>6. Spinning'
  BY DEF Spinning
<1>7. Seen'
  BY DEF Seen
<1>8. Owner'
  BY DEF Owner
<1> QED
  BY <1>1, <1>2, <1>3, <1>4, <1>5, <1>6, <1>7, <1>8

LEMMA AcqWaitStep == ASSUME IInv, TypeOK', NEW i \in Id, AcqWait(i)
      PROVE  IInv'
<1> USE DEF AcqWait, IInv, TypeOK
<1>1. MutualExclusion'
  BY DEF MutualExclusion, Carries
<1>2. LegalEnds'
  BY DEF LegalEnds, Waiting, Dequeued
<1>3. OneList'
  BY DEF OneList, Waiting, Dequeued, Behind
<1>4. NoStaleRead'
  BY DEF NoStaleRead, Waiting, Dequeued
<1>5. Links'
  BY DEF Links, Behind, OneList, Waiting
<1>6. Spinning'
  BY DEF Spinning
<1>7. Seen'
  BY DEF Seen
<1>8. Owner'
  BY DEF Owner
<1> QED
  BY <1>1, <1>2, <1>3, <1>4, <1>5, <1>6, <1>7, <1>8

LEMMA AcqOwnStep == ASSUME IInv, TypeOK', NEW i \in Id, AcqOwn(i)
      PROVE  IInv'
<1> USE DEF AcqOwn, IInv, TypeOK
<1>1. MutualExclusion'
  BY DEF MutualExclusion, Carries
<1>2. LegalEnds'
  BY DEF LegalEnds, Waiting, Dequeued
<1>3. OneList'
  BY DEF OneList, Waiting, Dequeued, Behind
<1>4. NoStaleRead'
  BY DEF NoStaleRead, Waiting, Dequeued
<1>5. Links'
  BY DEF Links, Behind
<1>6. Spinning'
  BY DEF Spinning
<1>7. Seen'
  BY DEF Seen
<1>8. Owner'
  BY DEF Owner, MutualExclusion, Carries
<1> QED
  BY <1>1, <1>2, <1>3, <1>4, <1>5, <1>6, <1>7, <1>8

LEMMA TestLockStep == ASSUME IInv, TypeOK', NEW i \in Id, TestLock(i)
      PROVE  IInv'
<1> USE DEF TestLock, IInv, TypeOK
<1>1. MutualExclusion'
  BY DEF MutualExclusion, Carries
<1>2. LegalEnds'
  BY DEF LegalEnds, Waiting, Dequeued
<1>3. OneList'
  BY DEF OneList, Waiting, Dequeued, Behind
<1>4. NoStaleRead'
  BY DEF NoStaleRead, Waiting, Dequeued
<1>5. Links'
  BY DEF Links, Behind
<1>6. Spinning'
  BY DEF Spinning
<1>7. Seen'
  BY DEF Seen
<1>8. Owner'
  BY DEF Owner
<1> QED
  BY <1>1, <1>2, <1>3, <1>4, <1>5, <1>6, <1>7, <1>8

LEMMA TestCasStep == ASSUME IInv, TypeOK', NEW i \in Id, TestCas(i)
      PROVE  IInv'
<1> USE DEF TestCas, IInv, TypeOK
<1>1. MutualExclusion'
  BY DEF MutualExclusion, Carries
<1>2. LegalEnds'
  BY DEF LegalEnds, Waiting, Dequeued
<1>3. OneList'
  BY DEF OneList, Waiting, Dequeued, Behind
<1>4. NoStaleRead'
  BY DEF NoStaleRead, Waiting, Dequeued
<1>5. Links'
  BY DEF Links, Behind
<1>6. Spinning'
  BY DEF Spinning
<1>7. Seen'
  BY DEF Seen
<1>8. Owner'
  BY DEF Owner
<1> QED
  BY <1>1, <1>2, <1>3, <1>4, <1>5, <1>6, <1>7, <1>8

LEMMA UnsetLockStep == ASSUME IInv, TypeOK', NEW i \in Id, UnsetLock(i)
      PROVE  IInv'
<1> USE DEF UnsetLock, IInv, TypeOK
<1>1. MutualExclusion'
  BY DEF MutualExclusion, Carries, Owner
<1>2. LegalEnds'
  BY DEF LegalEnds, Waiting, Dequeued
<1>3. OneList'
  BY DEF OneList, Waiting, Dequeued, Behind
<1>4. NoStaleRead'
  BY DEF NoStaleRead, Waiting, Dequeued
<1>5. Links'
  BY DEF Links, Behind
<1>6. Spinning'
  BY DEF Spinning
<1>7. Seen'
  BY DEF Seen
<1>8. Owner'
  BY DEF Owner
<1> QED
  BY <1>1, <1>2, <1>3, <1>4, <1>5, <1>6, <1>7, <1>8

LEMMA RelReadHeadStep == ASSUME IInv, TypeOK', NEW i \in Id, RelReadHead(i)
      PROVE  IInv'
<1> USE DEF RelReadHead, IInv, TypeOK
<1>1. MutualExclusion'
  BY DEF MutualExclusion, Carries
<1>2. LegalEnds'
  BY DEF LegalEnds, Waiting, Dequeued
<1>3. OneList'
  BY DEF OneList, Waiting, Dequeued, Behind
<1>4. NoStaleRead'
  BY DEF NoStaleRead, LegalEnds, MutualExclusion, Carries, Waiting,
         Dequeued
<1>5. Links'
  BY DEF Links, Behind
<1>6. Spinning'
  BY DEF Spinning
<1>7. Seen'
  BY DEF Seen
<1>8. Owner'
  BY DEF Owner
<1> QED
  BY <1>1, <1>2, <1>3, <1>4, <1>5, <1>6, <1>7, <1>8

LEMMA RelEmptyStep == ASSUME IInv, TypeOK', NEW i \in Id, RelEmpty(i)
      PROVE  IInv'
<1> USE DEF RelEmpty, IInv, TypeOK
<1>1. MutualExclusion'
  BY DEF MutualExclusion, Carries
<1>2. LegalEnds'
  BY DEF LegalEnds, Waiting, Dequeued
<1>3. OneList'
  BY DEF OneList, Waiting, Dequeued, Behind
<1>4. NoStaleRead'
  BY DEF NoStaleRead, Waiting, Dequeued
<1>5. Links'
  BY DEF Links, Behind
<1>6. Spinning'
  BY DEF Spinning
<1>7. Seen'
  BY DEF Seen
<1>8. Owner'
  BY DEF Owner
<1> QED
  BY <1>1, <1>2, <1>3, <1>4, <1>5, <1>6, <1>7, <1>8

LEMMA RelReadTailStep == ASSUME IInv, TypeOK', NEW i \in Id, RelReadTail(i)
      PROVE  IInv'
<1> USE DEF RelReadTail, IInv, TypeOK
<1>1. MutualExclusion'
  BY DEF MutualExclusion, Carries
<1>2. LegalEnds'
  BY DEF LegalEnds, Waiting, Dequeued
<1>3. OneList'
  BY DEF OneList, Waiting, Dequeued, Behind
<1>4. NoStaleRead'
  BY DEF NoStaleRead, Waiting, Dequeued
<1>5. Links'
  BY DEF Links, Behind
<1>6. Spinning'
  BY DEF Spinning
<1>7. Seen'
  BY DEF Seen, NoStaleRead, LegalEnds
<1>8. Owner'
  BY DEF Owner
<1> QED
  BY <1>1, <1>2, <1>3, <1>4, <1>5, <1>6, <1>7, <1>8

LEMMA RelOneStep == ASSUME IInv, TypeOK', NEW i \in Id, RelOne(i)
      PROVE  IInv'
<1> USE DEF RelOne, IInv, TypeOK
<1>1. MutualExclusion'
  BY DEF MutualExclusion, Carries
<1>2. LegalEnds'
  BY DEF LegalEnds, Waiting, Dequeued
<1>3. OneList'
  BY DEF OneList, Waiting, Dequeued, Behind, LegalEnds, NoStaleRead, Links,
         MutualExclusion, Carries
<1>4. NoStaleRead'
  BY DEF NoStaleRead, LegalEnds, MutualExclusion, Carries, Waiting,
         Dequeued, OneList, Behind
<1>5. Links'
  BY DEF Links, Behind
<1>6. Spinning'
  BY DEF Spinning
<1>7. Seen'
  BY DEF Seen
<1>8. Owner'
  BY DEF Owner
<1> QED
  BY <1>1, <1>2, <1>3, <1>4, <1>5, <1>6, <1>7, <1>8

LEMMA RelCasFailsStep == ASSUME IInv, TypeOK', NEW i \in Id, RelCasFails(i)
      PROVE  IInv'
<1> USE DEF RelCasFails, IInv, TypeOK
<1>1. MutualExclusion'
  BY DEF MutualExclusion, Carries
<1>2. LegalEnds'
  BY DEF LegalEnds, Waiting, Dequeued
<1>3. OneList'
  BY DEF OneList, Waiting, Dequeued, Behind
<1>4. NoStaleRead'
  BY DEF NoStaleRead, Waiting, Dequeued
<1>5. Links'
  BY DEF Links, Behind
<1>6. Spinning'
  BY DEF Spinning
<1>7. Seen'
  BY DEF Seen
<1>8. Owner'
  BY DEF Owner
<1> QED
  BY <1>1, <1>2, <1>3, <1>4, <1>5, <1>6, <1>7, <1>8

LEMMA RelWaitStep == ASSUME IInv, TypeOK', NEW i \in Id, RelWait(i)
      PROVE  IInv'
<1> USE DEF RelWait, IInv, TypeOK
<1>1. MutualExclusion'
  BY DEF MutualExclusion, Carries
<1>2. LegalEnds'
  BY DEF LegalEnds, Waiting, Dequeued
<1>3. OneList'
  BY DEF OneList, Waiting, Dequeued, Behind
<1>4. NoStaleRead'
  BY DEF NoStaleRead, Waiting, Dequeued
<1>5. Links'
  BY DEF Links, Behind
<1>6. Spinning'
  BY DEF Spinning
<1>7. Seen'
  BY DEF Seen
<1>8. Owner'
  BY DEF Owner
<1> QED
  BY <1>1, <1>2, <1>3, <1>4, <1>5, <1>6, <1>7, <1>8

LEMMA RelStoreStep == ASSUME IInv, TypeOK', NEW i \in Id, RelStore(i)
      PROVE  IInv'
<1> USE DEF RelStore, IInv, TypeOK
<1>1. MutualExclusion'
  BY DEF MutualExclusion, Carries, NoStaleRead
<1>2. LegalEnds'
  BY DEF LegalEnds, Waiting, Dequeued, NoStaleRead, Links, OneList, Behind
<1>3. OneList'
  BY DEF OneList, Waiting, Dequeued, Behind, LegalEnds, NoStaleRead, Links,
         MutualExclusion, Carries
<1>4. NoStaleRead'
  BY DEF NoStaleRead, LegalEnds, MutualExclusion, Carries, Waiting,
         Dequeued, OneList, Behind, Links
<1>5. Links'
  BY DEF Links, Behind, OneList, Waiting, Dequeued, LegalEnds, NoStaleRead
<1>6. Spinning'
  BY DEF Spinning
<1>7. Seen'
  BY DEF Seen
<1>8. Owner'
  BY DEF Owner
<1> QED
  BY <1>1, <1>2, <1>3, <1>4, <1>5, <1>6, <1>7, <1>8

LEMMA RelClearStep == ASSUME IInv, TypeOK', NEW i \in Id, RelClear(i)
      PROVE  IInv'
<1> USE DEF RelClear, IInv, TypeOK
<1>1. MutualExclusion'
  BY DEF MutualExclusion, Carries
<1>2. LegalEnds'
  BY DEF LegalEnds, Waiting, Dequeued
<1>3. OneList'
  BY DEF OneList, Waiting, Dequeued, Behind, NoStaleRead
<1>4. NoStaleRead'
  BY DEF NoStaleRead, LegalEnds, MutualExclusion, Carries, Waiting,
         Dequeued
<1>5. Links'
  BY DEF Links, Behind, OneList, Waiting, Dequeued, LegalEnds, NoStaleRead
<1>6. Spinning'
  BY DEF Spinning
<1>7. Seen'
  BY DEF Seen
<1>8. Owner'
  BY DEF Owner
<1> QED
  BY <1>1, <1>2, <1>3, <1>4, <1>5, <1>6, <1>7, <1>8

LEMMA RelWakeStep == ASSUME IInv, TypeOK', NEW i \in Id, RelWake(i)
      PROVE  IInv'
<1> USE DEF RelWake, IInv, TypeOK
<1>1. MutualExclusion'
  BY DEF MutualExclusion, Carries, NoStaleRead
<1>2. LegalEnds'
  BY DEF LegalEnds, Waiting, Dequeued
<1>3. OneList'
  BY DEF OneList, Waiting, Dequeued, Behind
<1>4. NoStaleRead'
  BY DEF NoStaleRead, LegalEnds, MutualExclusion, Carries, Waiting,
         Dequeued
<1>5. Links'
  BY DEF Links, Behind
<1>6. Spinning'
  BY DEF Spinning
<1>7. Seen'
  BY DEF Seen
<1>8. Owner'
  BY DEF Owner
<1> QED
  BY <1>1, <1>2, <1>3, <1>4, <1>5, <1>6, <1>7, <1>8

(* A stuttering step changes nothing that the invariant speaks about.       *)
LEMMA StutterStep == ASSUME IInv, UNCHANGED vars PROVE IInv'
<1> USE DEF vars, IInv
<1>1. TypeOK' /\ Spinning' /\ Seen' /\ Owner'
  BY DEF TypeOK, Spinning, Seen, Owner
<1>2. MutualExclusion' /\ LegalEnds' /\ NoStaleRead'
  BY DEF MutualExclusion, Carries, LegalEnds, NoStaleRead, Waiting, Dequeued
<1>3. OneList' /\ Links'
  BY DEF OneList, Links, Behind, Waiting, Dequeued
<1> QED
  BY <1>1, <1>2, <1>3

(* Every step preserves the inductive invariant.                            *)
LEMMA NextIInv == IInv /\ [Next]_vars => IInv'
<1> SUFFICES ASSUME IInv, [Next]_vars PROVE IInv'
  OBVIOUS
<1>1. CASE UNCHANGED vars
  BY <1>1, StutterStep
<1>2. ASSUME NEW i \in Id, Running(i) \/ Call(i) PROVE IInv'
  <2> TypeOK'
    BY <1>2, TypeStep
  <2> QED
    BY <1>2, SetLockStep, AcqReadHeadStep, AcqFreeStep, AcqHeldStep,
       AcqReadTailStep, AcqTailStep, AcqCasFailsStep, AcqLinkStep,
       AcqWaitStep, AcqOwnStep, TestLockStep, TestCasStep, UnsetLockStep,
       RelReadHeadStep, RelEmptyStep, RelReadTailStep, RelOneStep,
       RelCasFailsStep, RelWaitStep, RelStoreStep, RelClearStep,
       RelWakeStep DEF Running, Call
<1> QED
  BY <1>1, <1>2 DEF Next

(***************************************************************************)
(* The inductive invariant holds in every reachable state.                  *)
(***************************************************************************)
THEOREM Invariance == Spec => []IInv
  BY InitIInv, NextIInv, PTL DEF Spec

(***************************************************************************)
(* Type correctness: the queue's ends, links and locals are always threads, *)
(* 0 or -1.                                                                 *)
(***************************************************************************)
THEOREM TypeCorrect == Spec => []TypeOK
<1>1. IInv => TypeOK
  BY DEF IInv
<1> QED
  BY <1>1, Invariance, PTL

(***************************************************************************)
(* The lock excludes: for any number of threads, at most one carries it,    *)
(* and nobody does when its word says that it is free.                      *)
(***************************************************************************)
THEOREM Excludes == Spec => []MutualExclusion
<1>1. IInv => MutualExclusion
  BY DEF IInv
<1> QED
  BY <1>1, Invariance, PTL

(***************************************************************************)
(* The ends of the queue are in one of the four documented states, and the  *)
(* queue is one list.                                                       *)
(***************************************************************************)
THEOREM QueueIsSound == Spec => [](LegalEnds /\ OneList)
<1>1. IInv => LegalEnds /\ OneList
  BY DEF IInv
<1> QED
  BY <1>1, Invariance, PTL

(***************************************************************************)
(* What a thread has read of the queue is still true when it acts on it.    *)
(***************************************************************************)
THEOREM ReadsStayTrue == Spec => []NoStaleRead
<1>1. IInv => NoStaleRead
  BY DEF IInv
<1> QED
  BY <1>1, Invariance, PTL

(***************************************************************************)
(* The debug assertions of acquire, test and release never fire, and the    *)
(* owner checks of omp_set_lock and omp_unset_lock never stop a correct     *)
(* program.                                                                 *)
(***************************************************************************)
THEOREM ChecksNeverFire == Spec => [](DebugAsserts /\ NoFalseFatal)
<1>1. IInv => NoFalseFatal
  BY DEF IInv, Owner, NoFalseFatal
<1>2. ASSUME IInv, NEW i \in Id PROVE next_waiting[i] = 0 \/ pc[i] = "acq_link"
                                         \/ (pc[i] = "acq_wait" /\ spin_here[i])
  <2> DEFINE s == next_waiting[i]
  <2>1. s \in Id => Behind(i, s)
    BY DEF Behind
  <2>2. s \in Id => Waiting(i) \/ \E r \in Id : pc[r] = "rel_clear" /\ head[r] = i
    BY <1>2, <2>1 DEF IInv, OneList
  <2>3. s \in Id \cup {0}
    BY <1>2 DEF IInv, TypeOK
  <2>4. CASE s = 0
    BY <2>4
  <2>5. CASE Waiting(i)
    BY <1>2, <2>5 DEF Waiting, IInv, TypeOK
  <2>6. CASE \E r \in Id : pc[r] = "rel_clear" /\ head[r] = i
    BY <1>2, <2>6 DEF IInv, TypeOK, NoStaleRead
  <2> QED
    BY <2>2, <2>3, <2>4, <2>5, <2>6
<1>3. ASSUME IInv, NEW i \in Id PROVE pc[i] = "acq_tail" => tail_id # i
  BY <1>3 DEF IInv, LegalEnds, Waiting
<1>4. ASSUME IInv, NEW i \in Id PROVE pc[i] = "rel_read" => head_id # 0
  BY <1>4 DEF IInv, MutualExclusion, Carries
<1>5. IInv => DebugAsserts
  BY <1>2, <1>3, <1>4 DEF IInv, TypeOK, DebugAsserts, Carries, Spinning, Seen
<1> QED
  BY <1>1, <1>5, Invariance, PTL
-----------------------------------------------------------------------------
(* The futex lock.                                                          *)

USE DEF Futex!Goto, Futex!See, Futex!Word, Futex!Words, Futex!Free, Futex!Id,
        Futex!PC, Futex!Asleep, Futex!Obliged, Futex!Holds

LEMMA FutexInitIInv == Futex!Init => Futex!IInv
  BY FutexAssumption
  DEF Futex!Init, Futex!IInv, Futex!TypeOK, Futex!MutualExclusion, Futex!NoLostWakeup,
      Futex!NoFalseFatal, Futex!Seen

(* A thread that calls omp_set_lock does not own the word.                  *)
LEMMA FutexSetLockStep ==
  ASSUME Futex!IInv, NEW i \in Futex!Id, Futex!SetLock(i)
  PROVE  Futex!IInv'
<1> USE DEF Futex!SetLock
<1>1. Futex!TypeOK'
  BY DEF Futex!IInv, Futex!TypeOK
<1>2. Futex!MutualExclusion'
  BY DEF Futex!IInv, Futex!TypeOK, Futex!MutualExclusion, Futex!NoFalseFatal
<1>3. Futex!NoLostWakeup'
  BY DEF Futex!IInv, Futex!TypeOK, Futex!MutualExclusion, Futex!NoLostWakeup, Futex!Seen
<1>4. Futex!NoFalseFatal'
  BY DEF Futex!IInv, Futex!TypeOK, Futex!MutualExclusion, Futex!NoFalseFatal
<1>5. Futex!Seen'
  BY DEF Futex!IInv, Futex!TypeOK, Futex!MutualExclusion, Futex!Seen
<1> QED
  BY <1>1, <1>2, <1>3, <1>4, <1>5 DEF Futex!IInv

(* The word is free: nobody holds the lock, and the bit follows woken.      *)
LEMMA FutexTakeStep ==
  ASSUME Futex!IInv, NEW i \in Futex!Id, Futex!Take(i)
  PROVE  Futex!IInv'
<1> USE DEF Futex!Take
<1>1. Futex!TypeOK'
  BY DEF Futex!IInv, Futex!TypeOK
<1>2. Futex!MutualExclusion'
  BY DEF Futex!IInv, Futex!TypeOK, Futex!MutualExclusion, Futex!NoFalseFatal
<1>3. Futex!NoLostWakeup'
  BY DEF Futex!IInv, Futex!TypeOK, Futex!MutualExclusion, Futex!NoLostWakeup, Futex!Seen
<1>4. Futex!NoFalseFatal'
  BY DEF Futex!IInv, Futex!TypeOK, Futex!MutualExclusion, Futex!NoFalseFatal
<1>5. Futex!Seen'
  BY DEF Futex!IInv, Futex!TypeOK, Futex!MutualExclusion, Futex!Seen
<1> QED
  BY <1>1, <1>2, <1>3, <1>4, <1>5 DEF Futex!IInv

(* A thread only looks at the word.                                         *)
LEMMA FutexRefusedStep ==
  ASSUME Futex!IInv, NEW i \in Futex!Id, Futex!Refused(i)
  PROVE  Futex!IInv'
<1> USE DEF Futex!Refused
<1>1. Futex!TypeOK'
  BY DEF Futex!IInv, Futex!TypeOK
<1>2. Futex!MutualExclusion'
  BY DEF Futex!IInv, Futex!TypeOK, Futex!MutualExclusion, Futex!NoFalseFatal
<1>3. Futex!NoLostWakeup'
  BY DEF Futex!IInv, Futex!TypeOK, Futex!MutualExclusion, Futex!NoLostWakeup, Futex!Seen
<1>4. Futex!NoFalseFatal'
  BY DEF Futex!IInv, Futex!TypeOK, Futex!MutualExclusion, Futex!NoFalseFatal
<1>5. Futex!Seen'
  BY DEF Futex!IInv, Futex!TypeOK, Futex!MutualExclusion, Futex!Seen
<1> QED
  BY <1>1, <1>2, <1>3, <1>4, <1>5 DEF Futex!IInv

(* Setting the bit only adds an obligation.                                 *)
LEMMA FutexMarkStep ==
  ASSUME Futex!IInv, NEW i \in Futex!Id, Futex!Mark(i)
  PROVE  Futex!IInv'
<1>1. CASE poll = poll_val[i]
  <2>1. /\ fx_pc[i] = "mark" /\ poll.owner \in Futex!Id /\ poll \in Futex!Words
        /\ fx_pc' = [fx_pc EXCEPT ![i] = "wait"] /\ woken' = woken
    BY <1>1 DEF Futex!Mark, Futex!IInv, Futex!TypeOK, Futex!MutualExclusion, Futex!Seen
  <2>2. poll' = Futex!Word(poll.owner, TRUE)
    BY <1>1 DEF Futex!Mark
  <2>3. poll' \in Futex!Words /\ poll'.owner = poll.owner /\ poll'.wake
    BY <2>1, <2>2
  <2>4. poll_val' = [poll_val EXCEPT ![i] = poll']
    BY <1>1 DEF Futex!Mark
  <2>5. Futex!TypeOK'
    BY <2>1, <2>3, <2>4 DEF Futex!IInv, Futex!TypeOK
  <2>6. Futex!MutualExclusion'
    BY <2>1, <2>3 DEF Futex!IInv, Futex!TypeOK, Futex!MutualExclusion
  <2>7. Futex!NoLostWakeup'
    BY <2>3 DEF Futex!NoLostWakeup
  <2>8. Futex!NoFalseFatal'
    BY <2>1 DEF Futex!IInv, Futex!TypeOK, Futex!NoFalseFatal
  <2>9. Futex!Seen'
    <3> SUFFICES ASSUME NEW j \in Futex!Id
                 PROVE  /\ fx_pc'[j] = "mark" => poll_val'[j].owner # 0
                        /\ fx_pc'[j] = "wait" => poll_val'[j].wake
      BY DEF Futex!Seen
    <3>1. CASE j = i
      BY <3>1, <2>1, <2>3, <2>4 DEF Futex!IInv, Futex!TypeOK
    <3>2. CASE j # i
      BY <3>2, <2>1, <2>4 DEF Futex!IInv, Futex!TypeOK, Futex!Seen
    <3> QED
      BY <3>1, <3>2
  <2> QED
    BY <2>5, <2>6, <2>7, <2>8, <2>9 DEF Futex!IInv
<1>2. CASE poll # poll_val[i]
  <2>0. /\ fx_pc[i] = "mark" /\ fx_pc' = [fx_pc EXCEPT ![i] = "try"]
        /\ poll_val' = [poll_val EXCEPT ![i] = Futex!Word(0, FALSE)]
        /\ poll' = poll /\ woken' = woken
    BY <1>2 DEF Futex!Mark
  <2> USE <2>0
  <2>1. Futex!TypeOK'
    BY DEF Futex!IInv, Futex!TypeOK
  <2>2. Futex!MutualExclusion'
    BY DEF Futex!IInv, Futex!TypeOK, Futex!MutualExclusion
  <2>3. Futex!NoLostWakeup'
    BY DEF Futex!IInv, Futex!TypeOK, Futex!NoLostWakeup
  <2>4. Futex!NoFalseFatal'
    BY DEF Futex!IInv, Futex!TypeOK, Futex!NoFalseFatal
  <2>5. Futex!Seen'
    BY DEF Futex!IInv, Futex!TypeOK, Futex!Seen
  <2> QED
    BY <2>1, <2>2, <2>3, <2>4, <2>5 DEF Futex!IInv
<1> QED
  BY <1>1, <1>2

(* A thread goes to sleep only if the word it saw, with the bit, is there.  *)
LEMMA FutexWaitStep ==
  ASSUME Futex!IInv, NEW i \in Futex!Id, Futex!Wait(i)
  PROVE  Futex!IInv'
<1> USE DEF Futex!Wait
<1>1. Futex!TypeOK'
  BY DEF Futex!IInv, Futex!TypeOK
<1>2. Futex!MutualExclusion'
  BY DEF Futex!IInv, Futex!TypeOK, Futex!MutualExclusion, Futex!NoFalseFatal
<1>3. Futex!NoLostWakeup'
  BY DEF Futex!IInv, Futex!TypeOK, Futex!MutualExclusion, Futex!NoLostWakeup, Futex!Seen
<1>4. Futex!NoFalseFatal'
  BY DEF Futex!IInv, Futex!TypeOK, Futex!MutualExclusion, Futex!NoFalseFatal
<1>5. Futex!Seen'
  BY DEF Futex!IInv, Futex!TypeOK, Futex!MutualExclusion, Futex!Seen
<1> QED
  BY <1>1, <1>2, <1>3, <1>4, <1>5 DEF Futex!IInv

(* A thread less sleeps.                                                    *)
LEMMA FutexInterruptStep ==
  ASSUME Futex!IInv, NEW i \in Futex!Id, Futex!Interrupt(i)
  PROVE  Futex!IInv'
<1> USE DEF Futex!Interrupt
<1>1. Futex!TypeOK'
  BY DEF Futex!IInv, Futex!TypeOK
<1>2. Futex!MutualExclusion'
  BY DEF Futex!IInv, Futex!TypeOK, Futex!MutualExclusion, Futex!NoFalseFatal
<1>3. Futex!NoLostWakeup'
  BY DEF Futex!IInv, Futex!TypeOK, Futex!MutualExclusion, Futex!NoLostWakeup, Futex!Seen
<1>4. Futex!NoFalseFatal'
  BY DEF Futex!IInv, Futex!TypeOK, Futex!MutualExclusion, Futex!NoFalseFatal
<1>5. Futex!Seen'
  BY DEF Futex!IInv, Futex!TypeOK, Futex!MutualExclusion, Futex!Seen
<1> QED
  BY <1>1, <1>2, <1>3, <1>4, <1>5 DEF Futex!IInv

(* A test does not queue: the obligation stays with whoever has it.         *)
LEMMA FutexTestLockStep ==
  ASSUME Futex!IInv, NEW i \in Futex!Id, Futex!TestLock(i)
  PROVE  Futex!IInv'
<1> USE DEF Futex!TestLock
<1>1. Futex!TypeOK'
  BY DEF Futex!IInv, Futex!TypeOK
<1>2. Futex!MutualExclusion'
  BY DEF Futex!IInv, Futex!TypeOK, Futex!MutualExclusion, Futex!NoFalseFatal
<1>3. Futex!NoLostWakeup'
  BY DEF Futex!IInv, Futex!TypeOK, Futex!MutualExclusion, Futex!NoLostWakeup, Futex!Seen
<1>4. Futex!NoFalseFatal'
  BY DEF Futex!IInv, Futex!TypeOK, Futex!MutualExclusion, Futex!NoFalseFatal
<1>5. Futex!Seen'
  BY DEF Futex!IInv, Futex!TypeOK, Futex!MutualExclusion, Futex!Seen
<1> QED
  BY <1>1, <1>2, <1>3, <1>4, <1>5 DEF Futex!IInv

(* The holder owns the word.                                                *)
LEMMA FutexUnsetLockStep ==
  ASSUME Futex!IInv, NEW i \in Futex!Id, Futex!UnsetLock(i)
  PROVE  Futex!IInv'
<1> USE DEF Futex!UnsetLock
<1>1. Futex!TypeOK'
  BY DEF Futex!IInv, Futex!TypeOK
<1>2. Futex!MutualExclusion'
  BY DEF Futex!IInv, Futex!TypeOK, Futex!MutualExclusion, Futex!NoFalseFatal
<1>3. Futex!NoLostWakeup'
  BY DEF Futex!IInv, Futex!TypeOK, Futex!MutualExclusion, Futex!NoLostWakeup, Futex!Seen
<1>4. Futex!NoFalseFatal'
  BY DEF Futex!IInv, Futex!TypeOK, Futex!MutualExclusion, Futex!NoFalseFatal
<1>5. Futex!Seen'
  BY DEF Futex!IInv, Futex!TypeOK, Futex!MutualExclusion, Futex!Seen
<1> QED
  BY <1>1, <1>2, <1>3, <1>4, <1>5 DEF Futex!IInv

(* The obligation moves from the word to the releasing thread.              *)
LEMMA FutexReleaseStep ==
  ASSUME Futex!IInv, NEW i \in Futex!Id, Futex!Release(i)
  PROVE  Futex!IInv'
<1> USE DEF Futex!Release
<1>1. Futex!TypeOK'
  BY DEF Futex!IInv, Futex!TypeOK
<1>2. Futex!MutualExclusion'
  BY DEF Futex!IInv, Futex!TypeOK, Futex!MutualExclusion, Futex!NoFalseFatal
<1>3. Futex!NoLostWakeup'
  BY DEF Futex!IInv, Futex!TypeOK, Futex!MutualExclusion, Futex!NoLostWakeup, Futex!Seen
<1>4. Futex!NoFalseFatal'
  BY DEF Futex!IInv, Futex!TypeOK, Futex!MutualExclusion, Futex!NoFalseFatal
<1>5. Futex!Seen'
  BY DEF Futex!IInv, Futex!TypeOK, Futex!MutualExclusion, Futex!Seen
<1> QED
  BY <1>1, <1>2, <1>3, <1>4, <1>5 DEF Futex!IInv

LEMMA SameCardinality == ASSUME NEW W PROVE Futex!Cardinality(W) = Cardinality(W)
  BY DEF Futex!Cardinality, Cardinality

(* The obligation moves to the threads that are woken.                       *)
LEMMA FutexWakeStep ==
  ASSUME Futex!IInv, NEW i \in Futex!Id, Futex!Wake(i)
  PROVE  Futex!IInv'
<1>1. PICK W \in SUBSET Futex!Asleep :
        /\ W = Futex!Asleep \/ Cardinality(W) = Most
        /\ fx_pc' = [j \in Futex!Id |-> IF j = i THEN "idle"
                              ELSE IF j \in W THEN "try" ELSE fx_pc[j]]
        /\ woken' = [j \in Futex!Id |-> woken[j] \/ j \in W]
  BY SameCardinality DEF Futex!Wake, Futex!Wakeable
<1>2. fx_pc[i] = "wake" /\ i \notin W /\ poll' = poll /\ poll_val' = poll_val
  BY DEF Futex!Wake
<1>3. W = {} => Futex!Asleep = {}
  BY <1>1, FutexAssumption, FS_EmptySet DEF Futex!MostAssumption
<1>4. Futex!TypeOK'
  <2>1. fx_pc' \in [Futex!Id -> Futex!PC]
    BY <1>1 DEF Futex!IInv, Futex!TypeOK
  <2>2. woken' \in [Futex!Id -> BOOLEAN]
    BY <1>1, Zenon
  <2> QED
    BY <1>2, <2>1, <2>2 DEF Futex!IInv, Futex!TypeOK
<1>5. Futex!MutualExclusion'
  BY <1>1, <1>2 DEF Futex!IInv, Futex!TypeOK, Futex!MutualExclusion
<1>6. Futex!NoLostWakeup'
  <2>1. CASE Futex!Asleep = {}
    <3>1. Futex!Asleep' = {}
      BY <1>1, <2>1 DEF Futex!IInv, Futex!TypeOK
    <3> QED
      BY <3>1 DEF Futex!NoLostWakeup
  <2>2. CASE Futex!Asleep # {}
    <3>1. PICK j \in W : TRUE
      BY <1>3, <2>2
    <3>2. j \in Futex!Id /\ woken'[j] /\ fx_pc'[j] = "try"
      BY <1>1, <1>2, <3>1
    <3> QED
      BY <3>2 DEF Futex!NoLostWakeup
  <2> QED
    BY <2>1, <2>2
<1>7. Futex!NoFalseFatal'
  BY <1>1 DEF Futex!IInv, Futex!TypeOK, Futex!NoFalseFatal
<1>8. Futex!Seen'
  BY <1>1, <1>2 DEF Futex!IInv, Futex!TypeOK, Futex!Seen
<1> QED
  BY <1>4, <1>5, <1>6, <1>7, <1>8 DEF Futex!IInv

LEMMA FutexNextIInv == Futex!IInv /\ [Futex!Next]_(Futex!vars) => Futex!IInv'
<1> SUFFICES ASSUME Futex!IInv, [Futex!Next]_(Futex!vars) PROVE Futex!IInv'
  OBVIOUS
<1>1. CASE UNCHANGED Futex!vars
  BY <1>1 DEF Futex!vars, Futex!IInv, Futex!TypeOK, Futex!MutualExclusion,
              Futex!NoLostWakeup, Futex!NoFalseFatal, Futex!Seen
<1>2. ASSUME NEW i \in Futex!Id, Futex!Call(i) \/ Futex!Running(i) \/ Futex!Interrupt(i)
      PROVE  Futex!IInv'
  BY <1>2, FutexSetLockStep, FutexTakeStep, FutexRefusedStep, FutexMarkStep, FutexWaitStep,
     FutexInterruptStep, FutexTestLockStep, FutexUnsetLockStep, FutexReleaseStep, FutexWakeStep
     DEF Futex!Call, Futex!Running
<1> QED
  BY <1>1, <1>2 DEF Futex!Next

(***************************************************************************)
(* The inductive invariant of the futex lock holds in every reachable state.*)
(***************************************************************************)
THEOREM FutexInvariance == Futex!Spec => []Futex!IInv
  BY FutexInitIInv, FutexNextIInv, PTL DEF Futex!Spec

(***************************************************************************)
(* The owner checks of the futex lock never stop a correct program.         *)
(***************************************************************************)
THEOREM FutexChecksNeverFire == Futex!Spec => []Futex!NoFalseFatal
<1>1. Futex!IInv => Futex!NoFalseFatal
  BY DEF Futex!IInv
<1> QED
  BY <1>1, FutexInvariance, PTL

(* Either lock goes through steps of its own only.                          *)
LEMMA BothSpecs == WaitSafety => Spec /\ Futex!Spec
<1>1. WaitInit => Init /\ Futex!Init
  BY DEF WaitInit
<1>2. [WaitNext]_all => [Next]_vars /\ [Futex!Next]_(Futex!vars)
  BY DEF WaitNext, Queues, Sleeps, all, futexVars, Futex!vars
<1> QED
  BY <1>1, <1>2, PTL DEF WaitSafety, Spec, Futex!Spec

(***************************************************************************)
(* Whichever lock a program has excludes, for every number of threads.      *)
(***************************************************************************)
THEOREM BothExclude == WaitSafety => []LocksExclude
<1>1. IInv /\ Futex!IInv => LocksExclude
  BY DEF IInv, Futex!IInv, LocksExclude
<1> QED
  BY <1>1, BothSpecs, Invariance, FutexInvariance, PTL

(***************************************************************************)
(* No thread is left asleep without anybody obliged to wake it, for every   *)
(* number of threads and whatever tests and interrupted waits happen.       *)
(***************************************************************************)
THEOREM WakeupsAreKept == WaitSafety => []NoLostWakeup
<1>1. Futex!IInv => NoLostWakeup
  BY DEF Futex!IInv, NoLostWakeup
<1> QED
  BY <1>1, BothSpecs, FutexInvariance, PTL

-----------------------------------------------------------------------------
(* The order of the queuing lock.  The threads that wait are one list q     *)
(* (QueueView), the only one there is (OneQueue); every step of the lock    *)
(* leaves q as it is, appends to it the thread that queues or takes off it  *)
(* the thread that the lock passes to, and moves the holder with it (Turn). *)
HIDE DEF Id, Futex!Id

(* The list of the threads that wait.                                       *)
QueueView(q) ==
  /\ q \in Seq(Id)
  /\ \A k \in 1..Len(q) : Waiting(q[k])
  /\ \A i \in Id : Waiting(i) => \E k \in 1..Len(q) : q[k] = i
  /\ IsQueue(q)

LEMMA LeastNumber ==
  ASSUME NEW S \in SUBSET Nat, S # {}
  PROVE  \E x \in S : \A y \in S : x <= y
<1> DEFINE Less == {p \in Nat \X Nat : p[1] < p[2]}
<1>1. IsWellFoundedOn(Less, Nat)
  BY NatLessThanWellFounded DEF OpToRel
<1> HIDE DEF Less
<1>2. PICK x \in S : \A y \in S : ~(<<y, x>> \in Less)
  BY <1>1, WFMin
<1>3. \A y \in S : ~(y < x)
  BY <1>2 DEF Less
<1> QED
  BY <1>3

(* There is only one list of a length.                                      *)
LEMMA OneQueue ==
  ASSUME OneList, NEW q \in Seq(Id), NEW r \in Seq(Id), IsQueue(q), IsQueue(r), Len(q) = Len(r)
  PROVE  q = r
<1> DEFINE S == {k \in 1..Len(q) : q[k] # r[k]}
<1>1. S = {}
  <2> SUFFICES ASSUME S # {} PROVE FALSE
    OBVIOUS
  <2>1. S \in SUBSET Nat
    OBVIOUS
  <2>2. PICK k \in S : \A l \in S : k <= l
    BY <2>1, LeastNumber
  <2>3. k \in 1..Len(q) /\ q[k] # r[k] /\ q # <<>> /\ r # <<>>
    OBVIOUS
  <2>4. k # 1
    BY <2>3 DEF IsQueue
  <2>5. PICK n : n = k - 1
    OBVIOUS
  <2>6. n \in 1..Len(q) - 1 /\ n + 1 = k /\ n < k /\ n \in 1..Len(q)
    BY <2>3, <2>4, <2>5
  <2>7. q[n] = r[n]
    BY <2>2, <2>6
  <2>8. Behind(q[n], q[k]) /\ Behind(r[n], r[k])
    BY <2>6 DEF IsQueue
  <2>9. q[n] \in Id /\ q[k] \in Id /\ r[k] \in Id
    BY <2>3, <2>6
  <2> QED
    BY <2>3, <2>7, <2>8, <2>9 DEF OneList
<1>2. \A k \in 1..Len(q) : q[k] = r[k]
  BY <1>1
<1> QED
  BY <1>2

LEMMA QueueIs ==
  ASSUME OneList, NEW q, QueueView(q)
  PROVE  Queue = q
<1>1. /\ q \in Seq(Id) /\ IsQueue(q)
      /\ \A k \in 1..Len(q) : Waiting(q[k])
      /\ \A i \in Id : Waiting(i) => \E k \in 1..Len(q) : q[k] = i
  BY DEF QueueView
<1>2. PICK n : n = Len(q)
  OBVIOUS
<1>3. n \in Nat /\ q \in [1..n -> Waiters]
  BY <1>1, <1>2 DEF Waiters
<1>4. \A i \in Waiters : \E k \in 1..n : q[k] = i
  BY <1>1, <1>2 DEF Waiters
<1>5. \A k, l \in 1..n : q[k] = q[l] => k = l
  BY <1>1, <1>2 DEF IsQueue
<1>6. Cardinality(Waiters) = n
  <2>1. q \in Bijection(1..n, Waiters)
    BY <1>3, <1>4, <1>5 DEF Bijection, Injection, Surjection, IsInjective
  <2>2. ExistsBijection(1..n, Waiters)
    BY <2>1 DEF ExistsBijection
  <2>3. 1 \in Int /\ n \in Int
    BY <1>3
  <2>4. IsFiniteSet(1..n) /\ Cardinality(1..n) = IF 1 > n THEN 0 ELSE n - 1 + 1
    BY <2>3, FS_Interval
  <2>5. Cardinality(1..n) = n
    BY <1>3, <2>4
  <2> QED
    BY <2>2, <2>4, <2>5, FS_Bijection
<1>7. q \in Lists
  BY <1>1, <1>3, <1>6 DEF Lists
<1>8. ASSUME NEW r \in Lists PROVE r = q
  <2>1. r \in [1..n -> Waiters] /\ IsQueue(r)
    BY <1>6 DEF Lists
  <2>2. Waiters \subseteq Id
    BY DEF Waiters
  <2>3. r \in Seq(Id) /\ Len(r) = n
    BY <1>3, <2>1, <2>2
  <2> QED
    BY <1>1, <1>2, <2>1, <2>3, OneQueue
<1>9. (CHOOSE r \in Lists : TRUE) = q
  BY <1>7, <1>8
<1> QED
  BY <1>7, <1>9 DEF Queue

Unique == \A q : QueueView(q) => Queue = q

LEMMA UniqueIs == (IInv => Unique) /\ (IInv' => Unique')
<1>1. IInv => Unique
  BY QueueIs DEF IInv, Unique
<1>2. IInv' => Unique'
  BY <1>1, PTL
<1> QED
  BY <1>1, <1>2

-----------------------------------------------------------------------------
(* What becomes of the list.                                                *)
LEMMA QueueStays ==
  ASSUME NEW q, QueueView(q), UNCHANGED <<head_id, tail_id>>,
         \A i \in Id : Waiting(i)' <=> Waiting(i),
         \A p, i \in Id : Behind(p, i) /\ Waiting(p) => Behind(p, i)'
  PROVE  QueueView(q)'
<1>1. q \in Seq(Id) /\ Len(q) \in Nat /\ \A k \in 1..Len(q) : q[k] \in Id
  BY DEF QueueView
<1>2. \A k \in 1..Len(q) : Waiting(q[k])'
  BY <1>1 DEF QueueView
<1>3. \A i \in Id : Waiting(i)' => \E k \in 1..Len(q) : q[k] = i
  BY <1>1 DEF QueueView
<1>4. \A k \in 1..Len(q) - 1 : Behind(q[k], q[k + 1])'
  <2>1. ASSUME NEW k \in 1..Len(q) - 1 PROVE Behind(q[k], q[k + 1])'
    <3>1. k \in 1..Len(q) /\ k + 1 \in 1..Len(q)
      BY <1>1
    <3>2. Behind(q[k], q[k + 1]) /\ Waiting(q[k]) /\ q[k] \in Id /\ q[k + 1] \in Id
      BY <1>1, <3>1 DEF QueueView, IsQueue
    <3> QED
      BY <3>2
  <2> QED
    BY <2>1
<1>5. IsQueue(q)'
  BY <1>4 DEF QueueView, IsQueue
<1> QED
  BY <1>1, <1>2, <1>3, <1>5 DEF QueueView

LEMMA QueueGrows ==
  ASSUME NEW q, QueueView(q), NEW i \in Id, NEW t, t = tail_id, ~Waiting(i),
         \A j \in Id : Waiting(j)' <=> (Waiting(j) \/ j = i),
         \A p, j \in Id : Behind(p, j) /\ Waiting(p) => Behind(p, j)',
         tail_id' = i,
         IF q = <<>> THEN head_id' = i ELSE head_id' = head_id /\ Behind(t, i)'
  PROVE  QueueView(Append(q, i))' /\ \A k \in 1..Len(q) : q[k] # i
<1>1. q \in Seq(Id) /\ Len(q) \in Nat /\ \A k \in 1..Len(q) : q[k] \in Id /\ Waiting(q[k])
  BY DEF QueueView
<1>2. PICK r : r = Append(q, i)
  OBVIOUS
<1>3. PICK n \in Nat : n = Len(q)
  BY <1>1
<1>4. /\ r \in Seq(Id) /\ Len(r) = n + 1 /\ r[n + 1] = i
      /\ \A k \in 1..n : r[k] = q[k]
  BY <1>1, <1>2, <1>3
<1>5. \A k \in 1..n + 1 : k = n + 1 \/ k \in 1..n
  OBVIOUS
<1>6. \A k \in 1..Len(r) : Waiting(r[k])'
  BY <1>1, <1>3, <1>4, <1>5
<1>7. ASSUME NEW j \in Id, Waiting(j)' PROVE \E k \in 1..Len(r) : r[k] = j
  <2>1. CASE j = i
    <3>1. n + 1 \in 1..Len(r)
      BY <1>4
    <3> QED
      BY <1>4, <2>1, <3>1
  <2>2. CASE j # i
    <3>1. PICK k \in 1..n : q[k] = j
      BY <1>3, <1>7, <2>2 DEF QueueView
    <3>2. k \in 1..Len(r)
      BY <1>4
    <3> QED
      BY <1>4, <3>1, <3>2
  <2> QED
    BY <2>1, <2>2
<1>8. \A k \in 1..n : q[k] # i
  BY <1>1, <1>3
<1>9. \A k, l \in 1..Len(r) : r[k] = r[l] => k = l
  <2>1. \A k, l \in 1..n : q[k] = q[l] => k = l
    BY <1>3 DEF QueueView, IsQueue
  <2> QED
    BY <1>4, <1>5, <1>8, <2>1
<1>10. ASSUME NEW k \in 1..Len(r) - 1 PROVE Behind(r[k], r[k + 1])'
  <2>1. k \in 1..n
    BY <1>4
  <2>2. CASE k = n
    <3>1. q # <<>> /\ t = q[n]
      BY <1>3, <2>1, <2>2 DEF QueueView, IsQueue
    <3> QED
      BY <1>4, <2>1, <2>2, <3>1
  <2>3. CASE k # n
    <3>1. k \in 1..n - 1 /\ k + 1 \in 1..n
      BY <2>1, <2>3
    <3>2. Behind(q[k], q[k + 1]) /\ Waiting(q[k]) /\ q[k] \in Id /\ q[k + 1] \in Id
      BY <1>1, <1>3, <2>1, <3>1 DEF QueueView, IsQueue
    <3> QED
      BY <1>4, <2>1, <3>1, <3>2
  <2> QED
    BY <2>2, <2>3
<1>11. r # <<>> /\ head_id' = r[1] /\ tail_id' = r[Len(r)]
  <2>1. CASE q = <<>>
    <3>1. n = 0
      BY <1>3, <2>1
    <3>2. n + 1 = 1
      BY <3>1
    <3>3. Len(r) = 1 /\ r[1] = i
      BY <1>4, <3>2
    <3>4. r # <<>> /\ r[Len(r)] = i
      BY <3>3
    <3> QED
      BY <2>1, <3>3, <3>4
  <2>2. CASE q # <<>>
    <3>1. 1 \in 1..n /\ head_id = q[1]
      BY <1>1, <1>3, <2>2 DEF QueueView, IsQueue
    <3> QED
      BY <1>4, <2>2, <3>1
  <2> QED
    BY <2>1, <2>2
<1>12. IsQueue(r)'
  BY <1>9, <1>10, <1>11 DEF IsQueue
<1> QED
  BY <1>2, <1>3, <1>4, <1>6, <1>7, <1>8, <1>12 DEF QueueView

LEMMA QueueShrinks ==
  ASSUME NEW q, QueueView(q), q # <<>>,
         \A j \in Id : Waiting(j)' <=> (Waiting(j) /\ j # q[1]),
         \A p, j \in Id : Behind(p, j) /\ Waiting(p) => Behind(p, j)',
         IF Len(q) = 1 THEN head_id' <= 0 ELSE head_id' = q[2] /\ tail_id' = tail_id
  PROVE  QueueView(Tail(q))'
<1>1. q \in Seq(Id) /\ Len(q) \in Nat /\ \A k \in 1..Len(q) : q[k] \in Id /\ Waiting(q[k])
  BY DEF QueueView
<1>2. PICK r : r = Tail(q)
  OBVIOUS
<1>3. PICK n \in Nat : n = Len(q) - 1
  BY <1>1
<1>4. r \in Seq(Id) /\ Len(r) = n /\ Len(q) = n + 1 /\ \A k \in 1..n : r[k] = q[k + 1]
  BY <1>1, <1>2, <1>3
<1>5. \A k \in 1..n : k + 1 \in 1..n + 1 /\ k \in 1..n + 1
  OBVIOUS
<1>6. \A k, l \in 1..n + 1 : q[k] = q[l] => k = l
  BY <1>4 DEF QueueView, IsQueue
<1>7. \A k \in 1..n : q[k + 1] # q[1]
  <2>1. 1 \in 1..n + 1 /\ \A k \in 1..n : k + 1 # 1
    OBVIOUS
  <2> QED
    BY <1>5, <1>6, <2>1
<1>8. \A k \in 1..Len(r) : Waiting(r[k])'
  BY <1>1, <1>4, <1>5, <1>7
<1>9. ASSUME NEW j \in Id, Waiting(j)' PROVE \E k \in 1..Len(r) : r[k] = j
  <2>1. PICK k \in 1..n + 1 : q[k] = j
    BY <1>4, <1>9 DEF QueueView
  <2>2. k # 1
    BY <1>9, <2>1
  <2>3. PICK l : l = k - 1
    OBVIOUS
  <2>4. l \in 1..n /\ l + 1 = k
    BY <2>2, <2>3
  <2> QED
    BY <1>4, <2>1, <2>4
<1>10. \A k, l \in 1..Len(r) : r[k] = r[l] => k = l
  <2>1. ASSUME NEW k \in 1..n, NEW l \in 1..n, r[k] = r[l] PROVE k = l
    <3>1. k + 1 = l + 1
      BY <1>4, <1>5, <1>6, <2>1
    <3> QED
      BY <3>1
  <2> QED
    BY <1>4, <2>1
<1>11. ASSUME NEW k \in 1..Len(r) - 1 PROVE Behind(r[k], r[k + 1])'
  <2>1. k \in 1..n /\ k + 1 \in 1..n /\ k + 1 \in 1..Len(q) - 1
    BY <1>4
  <2>2. Behind(q[k + 1], q[(k + 1) + 1])
    BY <2>1 DEF QueueView, IsQueue
  <2>3. q[k + 1] \in Id /\ q[(k + 1) + 1] \in Id /\ Waiting(q[k + 1])
    BY <1>1, <1>4, <1>5, <2>1
  <2> QED
    BY <1>4, <2>1, <2>2, <2>3
<1>12. IF r = <<>> THEN head_id' <= 0 ELSE head_id' = r[1] /\ tail_id' = r[Len(r)]
  <2>1. CASE n = 0
    <3>1. Len(q) = 1 /\ r = <<>>
      BY <1>4, <2>1
    <3> QED
      BY <3>1
  <2>2. CASE n # 0
    <3>1. r # <<>> /\ Len(q) # 1 /\ 1 \in 1..n /\ n \in 1..n
      BY <1>4, <2>2
    <3>2. r[1] = q[2] /\ r[n] = q[Len(q)] /\ tail_id = q[Len(q)]
      BY <1>4, <3>1 DEF QueueView, IsQueue
    <3> QED
      BY <1>4, <3>1, <3>2
  <2> QED
    BY <2>1, <2>2
<1>13. IsQueue(r)'
  BY <1>10, <1>11, <1>12 DEF IsQueue
<1> QED
  BY <1>2, <1>4, <1>8, <1>9, <1>13 DEF QueueView

(* A step of FifoLock, of its two variables as values.                      *)
Turn(h, q, g, r) ==
  \/ g = h /\ r = q
  \/ h = 0 /\ g \in Id /\ r = q
  \/ /\ h # 0 /\ g = h
     /\ \E i \in Id : i # h /\ (\A k \in 1..Len(q) : q[k] # i) /\ r = Append(q, i)
  \/ h # 0 /\ q = <<>> /\ g = 0 /\ r = q
  \/ h # 0 /\ q # <<>> /\ g = Head(q) /\ r = Tail(q)

QueueTurn(q) == \E r : QueueView(r)' /\ Turn(Holder, q, Holder', r)

HolderView ==
  /\ (\A i \in Id : ~Carries(i)) => Holder = 0
  /\ \A i \in Id : Carries(i) => Holder = IF pc[i] \in HandOffPC THEN head[i] ELSE i
  /\ head_id # 0 => Holder \in Id
  /\ \A i \in Id : pc[i] \in AcqPC => Holder # i

LEMMA HolderIs == (IInv => HolderView) /\ (IInv' => HolderView')
<1>1. IInv => HolderView
  <2> SUFFICES ASSUME IInv PROVE HolderView
    OBVIOUS
  <2>1. (\A i \in Id : ~Carries(i)) => Holder = 0
    BY DEF Holder
  <2>2. ASSUME NEW i \in Id, Carries(i)
        PROVE  Holder = IF pc[i] \in HandOffPC THEN head[i] ELSE i
    <3>1. (CHOOSE j \in Id : Carries(j)) = i
      BY <2>2 DEF IInv, MutualExclusion
    <3> QED
      BY <2>2, <3>1 DEF Holder
  <2>3. \A i \in Id : pc[i] \in HandOffPC => head[i] \in Id /\ pc[head[i]] = "acq_wait"
    BY DEF IInv, TypeOK, NoStaleRead
  <2>4. ASSUME head_id # 0 PROVE Holder \in Id
    <3>1. PICK i \in Id : Carries(i)
      BY <2>4 DEF IInv, MutualExclusion
    <3> QED
      BY <2>2, <2>3, <3>1
  <2>5. ASSUME NEW i \in Id, pc[i] \in AcqPC PROVE Holder # i
    <3>1. ~Carries(i)
      BY <2>5 DEF Carries
    <3>2. i # 0
      BY NAssumption DEF Id
    <3> QED
      BY <2>1, <2>2, <2>3, <2>5, <3>1, <3>2
  <2> QED
    BY <2>1, <2>2, <2>4, <2>5 DEF HolderView
<1>2. IInv' => HolderView'
  BY <1>1, PTL
<1> QED
  BY <1>1, <1>2

(* Nothing changes but places within the lock's code.                       *)
LEMMA PlacesTurn ==
  ASSUME IInv, IInv', NEW q, QueueView(q), NEW i \in Id,
         \/ SetLock(i) \/ AcqReadHead(i) \/ AcqReadTail(i) \/ AcqCasFails(i) \/ AcqWait(i)
         \/ AcqOwn(i) \/ TestLock(i) \/ (TestCas(i) /\ head_id # 0)
         \/ UnsetLock(i) \/ RelReadHead(i) \/ RelReadTail(i) \/ RelCasFails(i) \/ RelWait(i)
  PROVE  QueueTurn(q)
<1> USE DEF SetLock, AcqReadHead, AcqReadTail, AcqCasFails, AcqWait, AcqOwn, TestLock,
            TestCas, UnsetLock, RelReadHead, RelReadTail, RelCasFails, RelWait, IInv, TypeOK
<1>1. UNCHANGED <<head_id, tail_id, next_waiting>>
  OBVIOUS
<1>2. \A j \in Id : j # i => /\ pc'[j] = pc[j] /\ spin_here'[j] = spin_here[j]
                             /\ head'[j] = head[j] /\ tail'[j] = tail[j]
  OBVIOUS
<1>3. pc[i] \notin HandOffPC /\ pc'[i] \notin HandOffPC
  OBVIOUS
<1>4. \A j \in Id : Dequeued(j)' <=> Dequeued(j)
  BY <1>2, <1>3 DEF Dequeued
<1>5. Waiting(i)' <=> Waiting(i)
  BY <1>4 DEF Waiting
<1>6. \A j \in Id : Waiting(j)' <=> Waiting(j)
  BY <1>2, <1>4, <1>5 DEF Waiting
<1>7. pc[i] # "acq_link" /\ pc'[i] # "acq_link"
  OBVIOUS
<1>8. \A p, j \in Id : Behind(p, j) => Behind(p, j)'
  BY <1>1, <1>2, <1>7 DEF Behind
<1>9. QueueView(q)'
  BY <1>1, <1>6, <1>8, QueueStays
<1>10. Carries(i)' <=> Carries(i)
  BY DEF Carries, Owner, NoStaleRead, Spinning
<1>11. \A j \in Id : Carries(j)' <=> Carries(j)
  BY <1>2, <1>10 DEF Carries
<1>12. Holder' = Holder
  <2>1. CASE \E j \in Id : Carries(j)
    <3>1. PICK j \in Id : Carries(j)
      BY <2>1
    <3>2. Carries(j)'
      BY <1>11, <3>1
    <3>3. pc'[j] \in HandOffPC <=> pc[j] \in HandOffPC
      BY <1>2, <1>3
    <3>4. pc[j] \in HandOffPC => head'[j] = head[j]
      BY <1>2, <1>3
    <3>5. PICK x, y, z, h : x = pc[j] /\ y = pc'[j] /\ z = head[j] /\ h = head'[j]
      OBVIOUS
    <3>6. Holder = (IF x \in HandOffPC THEN z ELSE j) /\ Holder' = IF y \in HandOffPC THEN h ELSE j
      BY <3>1, <3>2, <3>5, HolderIs DEF HolderView
    <3> QED
      BY <3>3, <3>4, <3>5, <3>6
  <2>2. CASE ~\E j \in Id : Carries(j)
    BY <1>11, <2>2, HolderIs DEF HolderView
  <2> QED
    BY <2>1, <2>2
<1> QED
  BY <1>9, <1>12 DEF QueueTurn, Turn

(* A free lock is taken.                                                    *)
LEMMA TakeTurn ==
  ASSUME IInv, IInv', NEW q, QueueView(q), NEW i \in Id,
         AcqFree(i) \/ (TestCas(i) /\ head_id = 0)
  PROVE  QueueTurn(q)
<1> USE DEF AcqFree, TestCas, IInv, TypeOK
<1>1. head_id = 0 /\ head_id' = -1 /\ UNCHANGED <<tail_id, next_waiting, head, tail>>
  OBVIOUS
<1>2. \A j \in Id : j # i => pc'[j] = pc[j] /\ spin_here'[j] = spin_here[j]
  OBVIOUS
<1>3. pc[i] \notin HandOffPC \cup {"acq_link", "acq_wait"} /\ pc'[i] = "acq_own"
  OBVIOUS
<1>4. \A j \in Id : Dequeued(j)' <=> Dequeued(j)
  BY <1>1, <1>2, <1>3 DEF Dequeued
<1>5. \A j \in Id : Waiting(j)' <=> Waiting(j)
  BY <1>2, <1>3, <1>4 DEF Waiting
<1>6. \A p, j \in Id : Behind(p, j) => Behind(p, j)'
  BY <1>1, <1>2, <1>3 DEF Behind
<1>7. q = <<>>
  <2> SUFFICES ASSUME q # <<>> PROVE FALSE
    OBVIOUS
  <2>1. head_id = q[1] /\ q[1] \in Id
    BY DEF QueueView, IsQueue
  <2> QED
    BY <1>1, <2>1, NAssumption DEF Id
<1>8. QueueView(q)'
  BY <1>1, <1>5, <1>7 DEF QueueView, IsQueue
<1>9. Holder = 0
  BY <1>1, HolderIs DEF HolderView, MutualExclusion
<1>10. Carries(i)'
  BY <1>3 DEF Carries
<1>11. Holder' = i
  BY <1>3, <1>10, HolderIs DEF HolderView
<1> QED
  BY <1>8, <1>9, <1>11 DEF QueueTurn, Turn

(* The lock is let go, with nobody in line.                                 *)
LEMMA EmptyTurn ==
  ASSUME IInv, IInv', NEW q, QueueView(q), NEW i \in Id, RelEmpty(i)
  PROVE  QueueTurn(q)
<1> USE DEF RelEmpty, IInv, TypeOK
<1>1. head_id = -1 /\ head_id' = 0 /\ UNCHANGED <<tail_id, next_waiting, spin_here>>
  OBVIOUS
<1>2. \A j \in Id : j # i => pc'[j] = pc[j] /\ tail'[j] = tail[j] /\ head'[j] = head[j]
  OBVIOUS
<1>3. pc[i] = "rel_cas_empty" /\ pc'[i] = "idle"
  OBVIOUS
<1>4. \A j \in Id : Dequeued(j)' <=> Dequeued(j)
  BY <1>2, <1>3 DEF Dequeued
<1>5. \A j \in Id : Waiting(j)' <=> Waiting(j)
  BY <1>1, <1>2, <1>3, <1>4 DEF Waiting
<1>7. q = <<>>
  <2> SUFFICES ASSUME q # <<>> PROVE FALSE
    OBVIOUS
  <2>1. head_id = q[1] /\ q[1] \in Id
    BY DEF QueueView, IsQueue
  <2> QED
    BY <1>1, <2>1, NAssumption DEF Id
<1>8. QueueView(q)'
  BY <1>1, <1>5, <1>7 DEF QueueView, IsQueue
<1>9. Holder # 0
  BY <1>1, HolderIs, NAssumption DEF HolderView, Id
<1>10. Holder' = 0
  BY <1>1, HolderIs DEF HolderView, MutualExclusion
<1> QED
  BY <1>7, <1>8, <1>9, <1>10 DEF QueueTurn, Turn

LEMMA HolderStays ==
  ASSUME IInv, IInv', \A j \in Id : Carries(j)' <=> Carries(j),
         \A j \in Id : Carries(j) => /\ pc'[j] \in HandOffPC <=> pc[j] \in HandOffPC
                                     /\ pc[j] \in HandOffPC => head'[j] = head[j]
  PROVE  Holder' = Holder
<1>1. CASE \E j \in Id : Carries(j)
  <2>1. PICK j \in Id : Carries(j)
    BY <1>1
  <2>2. PICK x, y, z, h : x = pc[j] /\ y = pc'[j] /\ z = head[j] /\ h = head'[j]
    OBVIOUS
  <2>3. Holder = (IF x \in HandOffPC THEN z ELSE j) /\ Holder' = IF y \in HandOffPC THEN h ELSE j
    BY <2>1, <2>2, HolderIs DEF HolderView
  <2> QED
    BY <2>1, <2>2, <2>3
<1>2. CASE ~\E j \in Id : Carries(j)
  BY <1>2, HolderIs DEF HolderView
<1> QED
  BY <1>1, <1>2

(* A thread enters the queue of a held lock that nobody waits for.          *)
LEMMA HeldTurn ==
  ASSUME IInv, IInv', NEW q, QueueView(q), NEW i \in Id, AcqHeld(i)
  PROVE  QueueTurn(q)
<1> USE DEF AcqHeld, IInv, TypeOK
<1>1. /\ head_id = -1 /\ head_id' = i /\ tail_id' = i
      /\ UNCHANGED <<next_waiting, spin_here, head, tail>>
  OBVIOUS
<1>2. \A j \in Id : j # i => pc'[j] = pc[j]
  OBVIOUS
<1>3. pc[i] = "acq_cas_held" /\ pc'[i] = "acq_wait" /\ spin_here[i]
  BY DEF NoStaleRead
<1>4. \A j \in Id : Dequeued(j)' <=> Dequeued(j)
  BY <1>1, <1>2, <1>3 DEF Dequeued
<1>5. ~Dequeued(i)
  BY <1>3 DEF Dequeued, NoStaleRead
<1>6. \A j \in Id : Waiting(j)' <=> Waiting(j) \/ j = i
  BY <1>1, <1>2, <1>3, <1>4, <1>5 DEF Waiting
<1>7. \A p, j \in Id : Behind(p, j) => Behind(p, j)'
  BY <1>1, <1>2, <1>3 DEF Behind
<1>8. ~Waiting(i)
  BY <1>3 DEF Waiting
<1>9. q = <<>>
  <2> SUFFICES ASSUME q # <<>> PROVE FALSE
    OBVIOUS
  <2>1. head_id = q[1] /\ q[1] \in Id
    BY DEF QueueView, IsQueue
  <2> QED
    BY <1>1, <2>1, NAssumption DEF Id
<1>10. PICK t : t = tail_id
  OBVIOUS
<1>11. IF q = <<>> THEN head_id' = i ELSE head_id' = head_id /\ Behind(t, i)'
  BY <1>1, <1>9
<1> HIDE DEF AcqHeld, IInv, TypeOK
<1>15. tail_id' = i
  BY <1>1
<1>16. QueueView(Append(q, i))' /\ \A k \in 1..Len(q) : q[k] # i
  BY <1>6, <1>7, <1>8, <1>10, <1>11, <1>15, QueueGrows
<1> USE DEF IInv, TypeOK
<1>12. \A j \in Id : Carries(j)' <=> Carries(j)
  BY <1>1, <1>2, <1>3 DEF Carries
<1>13. Holder' = Holder
  BY <1>1, <1>2, <1>3, <1>12, HolderStays
<1>14. Holder # 0 /\ Holder # i
  BY <1>1, <1>3, HolderIs, NAssumption DEF HolderView, Id
<1> QED
  BY <1>13, <1>14, <1>16 DEF QueueTurn, Turn

(* A thread enters a queue behind its tail.                                 *)
LEMMA TailTurn ==
  ASSUME IInv, IInv', NEW q, QueueView(q), NEW i \in Id, AcqTail(i)
  PROVE  QueueTurn(q)
<1> USE DEF AcqTail, IInv, TypeOK
<1>1. tail_id = tail[i] /\ tail_id' = i /\ UNCHANGED <<head_id, next_waiting, spin_here, head, tail>>
  OBVIOUS
<1>2. \A j \in Id : j # i => pc'[j] = pc[j]
  OBVIOUS
<1>3. pc[i] = "acq_cas_tail" /\ pc'[i] = "acq_link" /\ spin_here[i] /\ tail[i] # 0
  BY DEF NoStaleRead
<1>4. \A j \in Id : Dequeued(j)' <=> Dequeued(j)
  BY <1>1, <1>2, <1>3 DEF Dequeued
<1>5. ~Dequeued(i)
  BY <1>3 DEF Dequeued, NoStaleRead
<1>6. \A j \in Id : Waiting(j)' <=> Waiting(j) \/ j = i
  BY <1>1, <1>2, <1>3, <1>4, <1>5 DEF Waiting
<1>7. \A p, j \in Id : Behind(p, j) => Behind(p, j)'
  BY <1>1, <1>2, <1>3 DEF Behind
<1>8. ~Waiting(i)
  BY <1>3 DEF Waiting
<1>9. head_id # 0 /\ head_id # -1
  BY <1>1, <1>3 DEF LegalEnds
<1>10. PICK t : t = tail_id
  OBVIOUS
<1>11. Behind(t, i)'
  BY <1>1, <1>3, <1>10 DEF Behind
<1>12. q # <<>>
  BY <1>9 DEF QueueView, IsQueue
<1>13. QueueView(Append(q, i))' /\ \A k \in 1..Len(q) : q[k] # i
  BY <1>1, <1>6, <1>7, <1>8, <1>10, <1>11, <1>12, QueueGrows
<1>14. \A j \in Id : Carries(j)' <=> Carries(j)
  BY <1>1, <1>2, <1>3 DEF Carries
<1>15. Holder' = Holder
  BY <1>1, <1>2, <1>3, <1>14, HolderStays
<1>16. Holder # 0 /\ Holder # i
  BY <1>3, <1>9, HolderIs, NAssumption DEF HolderView, Id
<1> QED
  BY <1>13, <1>15, <1>16 DEF QueueTurn, Turn

(* It writes its link, which it was behind already.                         *)
LEMMA LinkTurn ==
  ASSUME IInv, IInv', NEW q, QueueView(q), NEW i \in Id, AcqLink(i)
  PROVE  QueueTurn(q)
<1> USE DEF AcqLink, IInv, TypeOK
<1>1. UNCHANGED <<head_id, tail_id, spin_here>>
  OBVIOUS
<1>2. \A j \in Id : j # i => pc'[j] = pc[j] /\ head'[j] = head[j] /\ tail'[j] = tail[j]
  OBVIOUS
<1>3. pc[i] = "acq_link" /\ pc'[i] = "acq_wait" /\ spin_here[i] /\ tail[i] \in Id
  BY DEF NoStaleRead
<1>4. PICK t \in Id : t = tail[i]
  BY <1>3
<1>5. next_waiting'[t] = i /\ \A p \in Id : p # t => next_waiting'[p] = next_waiting[p]
  BY <1>4
<1>6. \A j \in Id : Dequeued(j)' <=> Dequeued(j)
  BY <1>2, <1>3 DEF Dequeued
<1>7. \A j \in Id : Waiting(j)' <=> Waiting(j)
  BY <1>1, <1>2, <1>3, <1>6 DEF Waiting
<1>8. ASSUME NEW p \in Id, NEW j \in Id, Behind(p, j) PROVE Behind(p, j)'
  <2>1. Behind(t, i)
    BY <1>3, <1>4 DEF Behind
  <2>2. CASE p = t
    <3>1. j = i
      BY <1>8, <2>1, <2>2 DEF OneList
    <3> QED
      BY <1>5, <2>2, <3>1 DEF Behind
  <2>3. CASE p # t
    BY <1>2, <1>4, <1>5, <1>8, <2>3 DEF Behind
  <2> QED
    BY <2>2, <2>3
<1>9. QueueView(q)'
  BY <1>1, <1>7, <1>8, QueueStays
<1>10. \A j \in Id : Carries(j)' <=> Carries(j)
  BY <1>1, <1>2, <1>3 DEF Carries
<1>11. Holder' = Holder
  BY <1>2, <1>3, <1>10, HolderStays
<1> QED
  BY <1>9, <1>11 DEF QueueTurn, Turn

(* The one thread that waits gets the lock.                                 *)
LEMMA OneTurn ==
  ASSUME IInv, IInv', NEW q, QueueView(q), NEW i \in Id, RelOne(i)
  PROVE  QueueTurn(q)
<1> USE DEF RelOne, IInv, TypeOK
<1>1. PICK h : h = head[i]
  OBVIOUS
<1>2. /\ head_id = h /\ tail_id = h /\ head_id' = -1 /\ h > 0 /\ h \in Id
      /\ UNCHANGED <<next_waiting, spin_here, head, tail>>
  BY <1>1 DEF Seen
<1>3. \A j \in Id : j # i => pc'[j] = pc[j]
  OBVIOUS
<1>4. pc[i] = "rel_cas_one" /\ pc'[i] = "rel_clear"
  OBVIOUS
<1>5. \A j \in Id : pc[j] \notin HandOffPC
  BY <1>4 DEF MutualExclusion, Carries
<1>6. \A j \in Id : ~Dequeued(j) /\ (Dequeued(j)' <=> j = h)
  BY <1>1, <1>2, <1>3, <1>4, <1>5 DEF Dequeued
<1>7. q # <<>> /\ q[1] = h /\ q[Len(q)] = h /\ Len(q) \in Nat
  BY <1>2 DEF QueueView, IsQueue
<1>8. Len(q) = 1
  <2>1. 1 \in 1..Len(q) /\ Len(q) \in 1..Len(q)
    BY <1>7
  <2> QED
    BY <1>7, <2>1 DEF QueueView, IsQueue
<1>9. \A j \in Id : Waiting(j)' <=> Waiting(j) /\ j # q[1]
  BY <1>2, <1>3, <1>4, <1>6, <1>7 DEF Waiting
<1>10. \A p, j \in Id : Behind(p, j) => Behind(p, j)'
  BY <1>2, <1>3, <1>4 DEF Behind
<1>11. head_id' <= 0
  BY <1>2
<1>12. QueueView(Tail(q))'
  BY <1>7, <1>8, <1>9, <1>10, <1>11, QueueShrinks
<1>13. Carries(i) /\ Carries(i)'
  BY <1>4 DEF Carries
<1>14. Holder = i /\ Holder' = h
  BY <1>1, <1>2, <1>4, <1>13, HolderIs DEF HolderView
<1>15. i # 0 /\ Head(q) = q[1]
  BY <1>7, NAssumption DEF Id
<1> QED
  BY <1>7, <1>12, <1>14, <1>15 DEF QueueTurn, Turn

(* The first of several threads gets the lock.                              *)
LEMMA StoreTurn ==
  ASSUME IInv, IInv', NEW q, QueueView(q), NEW i \in Id, RelStore(i)
  PROVE  QueueTurn(q)
<1> USE DEF RelStore, IInv, TypeOK
<1>1. PICK h, n : h = head[i] /\ n = next[i]
  OBVIOUS
<1>2. /\ head_id = h /\ h > 0 /\ h \in Id /\ tail_id # h /\ n = next_waiting[h] /\ n \in Id
      /\ head_id' = n
      /\ UNCHANGED <<tail_id, next_waiting, spin_here, head, tail>>
  BY <1>1 DEF NoStaleRead
<1>3. \A j \in Id : j # i => pc'[j] = pc[j]
  OBVIOUS
<1>4. pc[i] = "rel_store" /\ pc'[i] = "rel_clear"
  OBVIOUS
<1>5. \A j \in Id : pc[j] \notin HandOffPC
  BY <1>4 DEF MutualExclusion, Carries
<1>6. \A j \in Id : ~Dequeued(j) /\ (Dequeued(j)' <=> j = h)
  BY <1>1, <1>2, <1>3, <1>4, <1>5 DEF Dequeued
<1>7. q # <<>> /\ q[1] = h /\ q[Len(q)] = tail_id /\ Len(q) \in Nat /\ Len(q) # 0
  <2> HIDE DEF RelStore, IInv, TypeOK
  <2>7. head_id = h /\ ~(h <= 0)
    BY <1>2, NAssumption DEF Id
  <2>8. q = <<>> => head_id <= 0
    BY DEF QueueView, IsQueue
  <2>3. q # <<>>
    BY <2>7, <2>8
  <2>4. q[1] = h
    BY <1>2, <2>3 DEF QueueView, IsQueue
  <2>5. q[Len(q)] = tail_id
    BY <2>3 DEF QueueView, IsQueue
  <2>6. q \in Seq(Id)
    BY DEF QueueView
  <2>1. q # <<>> /\ q[1] = h /\ q[Len(q)] = tail_id /\ q \in Seq(Id)
    BY <2>3, <2>4, <2>5, <2>6
  <2>2. Len(q) \in Nat /\ Len(q) # 0
    BY <2>1
  <2> QED
    BY <2>1, <2>2
<1>8. Len(q) # 1
  BY <1>2, <1>7
<1>9. q[2] = n
  <2> HIDE DEF RelStore, IInv, TypeOK
  <2>5. PICK m \in Nat : m = Len(q) /\ m # 0 /\ m # 1
    BY <1>7, <1>8
  <2>1. 1 \in 1..m - 1 /\ 1 + 1 = 2 /\ 2 \in 1..m
    BY <2>5
  <2> USE DEF IInv
  <2>2. Behind(q[1], q[2]) /\ q[2] \in Id
    BY <2>1, <2>5 DEF QueueView, IsQueue
  <2>3. Behind(h, n)
    BY <1>2 DEF Behind
  <2> QED
    BY <1>2, <1>7, <2>2, <2>3 DEF OneList
<1>10. \A j \in Id : Waiting(j)' <=> Waiting(j) /\ j # q[1]
  BY <1>2, <1>3, <1>4, <1>6, <1>7 DEF Waiting
<1>11. \A p, j \in Id : Behind(p, j) => Behind(p, j)'
  BY <1>2, <1>3, <1>4 DEF Behind
<1>12. QueueView(Tail(q))'
  BY <1>2, <1>7, <1>8, <1>9, <1>10, <1>11, QueueShrinks
<1>13. Carries(i) /\ Carries(i)'
  BY <1>4 DEF Carries
<1>14. Holder = i /\ Holder' = h
  BY <1>1, <1>2, <1>4, <1>13, HolderIs DEF HolderView
<1>15. i # 0 /\ Head(q) = q[1]
  BY <1>7, NAssumption DEF Id
<1> QED
  BY <1>7, <1>12, <1>14, <1>15 DEF QueueTurn, Turn

(* The link of the thread that left is cleared: it is on the queue no more. *)
LEMMA ClearTurn ==
  ASSUME IInv, IInv', NEW q, QueueView(q), NEW i \in Id, RelClear(i)
  PROVE  QueueTurn(q)
<1> USE DEF RelClear, IInv, TypeOK
<1>1. PICK h : h = head[i]
  OBVIOUS
<1>2. UNCHANGED <<head_id, tail_id, spin_here, head, tail>>
  OBVIOUS
<1>3. \A j \in Id : j # i => pc'[j] = pc[j]
  OBVIOUS
<1>4. pc[i] = "rel_clear" /\ pc'[i] = "rel_wake"
  OBVIOUS
<1>5. \A p \in Id : p # h => next_waiting'[p] = next_waiting[p]
  BY <1>1
<1>6. \A j \in Id : Dequeued(j)' <=> Dequeued(j)
  BY <1>2, <1>3, <1>4 DEF Dequeued
<1>7. \A j \in Id : Waiting(j)' <=> Waiting(j)
  BY <1>2, <1>3, <1>4, <1>6 DEF Waiting
<1>8. ~Waiting(h)
  BY <1>1, <1>4 DEF Waiting, Dequeued
<1>9. \A p, j \in Id : Behind(p, j) /\ Waiting(p) => Behind(p, j)'
  BY <1>2, <1>3, <1>4, <1>5, <1>8 DEF Behind
<1>10. QueueView(q)'
  BY <1>2, <1>7, <1>9, QueueStays
<1>11. \A j \in Id : Carries(j)' <=> Carries(j)
  BY <1>2, <1>3, <1>4 DEF Carries
<1>12. Holder' = Holder
  BY <1>2, <1>3, <1>4, <1>11, HolderStays
<1> QED
  BY <1>10, <1>12 DEF QueueTurn, Turn

(* The thread that left the queue sees that it has the lock.                *)
LEMMA WakeTurn ==
  ASSUME IInv, IInv', NEW q, QueueView(q), NEW i \in Id, RelWake(i)
  PROVE  QueueTurn(q)
<1> USE DEF RelWake, IInv, TypeOK
<1>1. PICK h : h = head[i]
  OBVIOUS
<1>2. UNCHANGED <<head_id, tail_id, next_waiting>>
  OBVIOUS
<1>3. \A j \in Id : j # i => pc'[j] = pc[j] /\ head'[j] = head[j] /\ tail'[j] = tail[j]
  OBVIOUS
<1>4. pc[i] = "rel_wake" /\ pc'[i] = "idle"
  OBVIOUS
<1>5. h \in Id /\ pc[h] = "acq_wait" /\ h # i
  BY <1>1, <1>4 DEF NoStaleRead
<1>6. ~spin_here'[h] /\ \A j \in Id : j # h => spin_here'[j] = spin_here[j]
  BY <1>1, <1>5
<1>7. \A j \in Id : j # h => (Dequeued(j)' <=> Dequeued(j))
  BY <1>1, <1>3, <1>4 DEF Dequeued
<1>8. ~Waiting(h)
  BY <1>1, <1>4 DEF Waiting, Dequeued
<1>9. ~Waiting(h)'
  BY <1>6 DEF Waiting
<1>10. \A j \in Id : Waiting(j)' <=> Waiting(j)
  <2>1. ASSUME NEW j \in Id, j # h PROVE Waiting(j)' <=> Waiting(j)
    BY <1>3, <1>4, <1>6, <1>7, <2>1 DEF Waiting
  <2> QED
    BY <1>8, <1>9, <2>1
<1>11. \A p, j \in Id : Behind(p, j) => Behind(p, j)'
  BY <1>2, <1>3, <1>4 DEF Behind
<1>12. QueueView(q)'
  BY <1>2, <1>10, <1>11, QueueStays
<1>13. Carries(i) /\ Carries(h)'
  BY <1>3, <1>4, <1>5, <1>6 DEF Carries
<1>14. pc'[h] \notin HandOffPC
  BY <1>3, <1>5
<1>15. Holder = h
  BY <1>1, <1>4, <1>13, HolderIs DEF HolderView
<1>16. Holder' = h
  <2>1. PICK x, y : x = pc'[h] /\ y = head'[h]
    OBVIOUS
  <2>2. Holder' = IF x \in HandOffPC THEN y ELSE h
    BY <1>5, <1>13, <2>1, HolderIs DEF HolderView
  <2> QED
    BY <1>14, <2>1, <2>2
<1> QED
  BY <1>12, <1>15, <1>16 DEF QueueTurn, Turn

LEMMA EveryTurn ==
  ASSUME IInv, IInv', NEW q, QueueView(q), NEW i \in Id, Running(i) \/ Call(i)
  PROVE  QueueTurn(q)
<1>1. TestCas(i) => head_id = 0 \/ head_id # 0
  OBVIOUS
<1> QED
  BY <1>1, PlacesTurn, TakeTurn, EmptyTurn, HeldTurn, TailTurn, LinkTurn, OneTurn,
     StoreTurn, ClearTurn, WakeTurn DEF Running, Call

LEMMA StutterTurn ==
  ASSUME NEW q, QueueView(q), UNCHANGED vars
  PROVE  QueueTurn(q)
<1> USE DEF vars
<1>1. QueueView(q)'
  BY DEF QueueView, IsQueue, Waiting, Dequeued, Behind
<1>2. Holder' = Holder
  BY DEF Holder, Carries
<1> QED
  BY <1>1, <1>2 DEF QueueTurn, Turn

LEMMA NextTurn ==
  ASSUME IInv, IInv', NEW q, QueueView(q), [Next]_vars
  PROVE  QueueTurn(q)
<1>1. CASE UNCHANGED vars
  BY <1>1, StutterTurn
<1>2. CASE Next
  BY <1>2, EveryTurn DEF Next
<1> QED
  BY <1>1, <1>2

(* A turn is a step of FifoLock.                                            *)
LEMMA TurnIsStep ==
  ASSUME IInv, IInv', NEW q, QueueView(q), QueueTurn(q)
  PROVE  [Abstract!Next]_(Abstract!vars)
<1>1. PICK r : QueueView(r)' /\ Turn(Holder, q, Holder', r)
  BY DEF QueueTurn
<1>2. Queue = q /\ Queue' = r
  BY <1>1, UniqueIs DEF Unique
<1>3. PICK h, g : h = Holder /\ g = Holder'
  OBVIOUS
<1>4. Turn(h, q, g, r)
  BY <1>1, <1>3
<1>5. CASE g = h /\ r = q
  BY <1>2, <1>3, <1>5 DEF Abstract!vars
<1>6. CASE h = 0 /\ g \in Id /\ r = q
  <2>1. Abstract!Acquire(g)
    BY <1>2, <1>3, <1>6 DEF Abstract!Acquire
  <2> QED
    BY <1>6, <2>1 DEF Abstract!Next
<1>7. CASE /\ h # 0 /\ g = h
           /\ \E i \in Id : i # h /\ (\A k \in 1..Len(q) : q[k] # i) /\ r = Append(q, i)
  <2>1. PICK i \in Id : i # h /\ (\A k \in 1..Len(q) : q[k] # i) /\ r = Append(q, i)
    BY <1>7
  <2>2. i \notin Abstract!Queued
    BY <1>2, <2>1 DEF Abstract!Queued
  <2>3. Abstract!Enqueue(i)
    BY <1>2, <1>3, <1>7, <2>1, <2>2 DEF Abstract!Enqueue
  <2> QED
    BY <2>3 DEF Abstract!Next
<1>8. CASE h # 0 /\ q = <<>> /\ g = 0 /\ r = q
  BY <1>2, <1>3, <1>8 DEF Abstract!Next, Abstract!Release
<1>9. CASE h # 0 /\ q # <<>> /\ g = Head(q) /\ r = Tail(q)
  BY <1>2, <1>3, <1>9 DEF Abstract!Next, Abstract!HandOff
<1> QED
  BY <1>4, <1>5, <1>6, <1>7, <1>8, <1>9 DEF Turn

(* The threads that wait always are one list.                               *)
Listed == \E q : QueueView(q)

LEMMA InitListed == Init => Listed
<1> SUFFICES ASSUME Init PROVE QueueView(<<>>)
  BY DEF Listed
<1>1. <<>> \in Seq(Id) /\ Len(<<>>) = 0
  OBVIOUS
<1>2. \A i \in Id : ~Waiting(i)
  BY DEF Init, Waiting
<1>3. IsQueue(<<>>)
  BY <1>1 DEF Init, IsQueue
<1> QED
  BY <1>1, <1>2, <1>3 DEF QueueView

LEMMA InitAbstract == Init => Abstract!Init
<1> SUFFICES ASSUME Init PROVE Holder = 0 /\ Queue = <<>>
  BY DEF Abstract!Init
<1>1. \A i \in Id : ~Carries(i)
  BY DEF Init, Carries
<1>2. Holder = 0
  BY <1>1 DEF Holder
<1>3. IInv /\ Unique
  BY InitIInv, UniqueIs
<1>4. PICK q : QueueView(q)
  BY InitListed DEF Listed
<1>5. q = <<>>
  <2> SUFFICES ASSUME q # <<>> PROVE FALSE
    OBVIOUS
  <2>1. head_id = q[1] /\ q[1] \in Id
    BY <1>4 DEF QueueView, IsQueue
  <2> QED
    BY <2>1, NAssumption DEF Init, Id
<1> QED
  BY <1>2, <1>3, <1>4, <1>5 DEF Unique

LEMMA ListedStep ==
  IInv /\ IInv' /\ Listed /\ [Next]_vars => Listed' /\ [Abstract!Next]_(Abstract!vars)
<1> SUFFICES ASSUME IInv, IInv', Listed, [Next]_vars
             PROVE  Listed' /\ [Abstract!Next]_(Abstract!vars)
  OBVIOUS
<1>1. PICK q : QueueView(q)
  BY DEF Listed
<1>2. QueueTurn(q)
  BY <1>1, NextTurn
<1>3. Listed'
  BY <1>2 DEF QueueTurn, Listed
<1> QED
  BY <1>1, <1>2, <1>3, TurnIsStep

(***************************************************************************)
(* The queuing lock serves in the order of arrival, for every number of     *)
(* threads: each of its steps is a step of FifoLock or leaves the holder    *)
(* and the queue alone.                                                     *)
(***************************************************************************)
THEOREM WaitersServedInOrder == WaitSafety => Abstract!Safety
<1>1. Spec => [](IInv /\ Listed)
  BY Invariance, InitListed, ListedStep, PTL DEF Spec
<1> QED
  BY <1>1, BothSpecs, InitAbstract, ListedStep, PTL DEF Spec, Abstract!Safety
=============================================================================
