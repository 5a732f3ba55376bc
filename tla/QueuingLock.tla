---------------------------- MODULE QueuingLock ----------------------------
(***************************************************************************)
(* The queuing lock of runtime/src/kmp_lock.cpp: an MCS-like lock whose     *)
(* queue is a list of threads threaded through th_next_waiting, with the    *)
(* two ends of the list, head_id and tail_id, side by side in one 64-bit    *)
(* word.  Threads are named by gtid + 1, as the code stores them.           *)
(*                                                                          *)
(* One action is one access to shared memory.  A double-word compare-and-   *)
(* store acts on head_id and tail_id together, a single-word one on one of  *)
(* them: the interplay of both with the plain store of head_id in release   *)
(* is what makes the algorithm delicate.                                    *)
(***************************************************************************)
EXTENDS Integers

CONSTANT N                   \* the number of threads that use the lock

ASSUME NAssumption == N \in Nat \ {0}

Id == 1..N

VARIABLES
  head_id, tail_id,          \* lck->lk.head_id, lck->lk.tail_id
  owner_id,                  \* lck->lk.owner_id
  spin_here, next_waiting,   \* th_spin_here, th_next_waiting of every thread
  pc,                        \* where every thread is in the lock's code
  head, tail, next           \* its local variables (next: the value that
                             \* KMP_WAIT_YIELD returned in release)

vars == <<head_id, tail_id, owner_id, spin_here, next_waiting,
          pc, head, tail, next>>

lock   == <<head_id, tail_id>>
thread == <<spin_here, next_waiting>>
locals == <<head, tail, next>>

AcqPC     == {"acq_read", "acq_cas_free", "acq_cas_held", "acq_tail",
              "acq_cas_tail"}
HeldPC    == {"acq_own", "held"}
RelPC     == {"rel_read", "rel_cas_empty", "rel_tail", "rel_cas_one",
              "rel_wait", "rel_store"}
HandOffPC == {"rel_clear", "rel_wake"}
PC        == AcqPC \cup HeldPC \cup RelPC \cup HandOffPC
               \cup {"idle", "test_cas", "acq_link", "acq_wait", "fatal"}

Init ==
  /\ head_id = 0 /\ tail_id = 0 /\ owner_id = 0
  /\ spin_here = [i \in Id |-> FALSE]
  /\ next_waiting = [i \in Id |-> 0]
  /\ pc = [i \in Id |-> "idle"]
  /\ head = [i \in Id |-> 0]
  /\ tail = [i \in Id |-> 0]
  /\ next = [i \in Id |-> 0]

(* The locals live in the body of a while (1): they are 0 outside of a turn. *)
EndTurn(i) ==
  /\ head' = [head EXCEPT ![i] = 0]
  /\ tail' = [tail EXCEPT ![i] = 0]
  /\ next' = [next EXCEPT ![i] = 0]

Goto(i, from, to) ==
  /\ pc[i] = from
  /\ pc' = [pc EXCEPT ![i] = to]

-----------------------------------------------------------------------------
(* omp_set_lock: the checks of the _with_checks entry point, then acquire.  *)
(* A thread never sets a lock that it holds, so LockIsAlreadyOwned ("fatal") *)
(* would be a mistake of the check.                                         *)

(* Mutant: spin_here is not set before the thread queues.                   *)
SetLock_SpinLate(i) ==
  /\ Goto(i, "idle", IF owner_id = i THEN "fatal" ELSE "acq_read")
  /\ UNCHANGED <<lock, owner_id, thread, locals>>

SetLock(i) ==
  /\ IF owner_id = i
     THEN Goto(i, "idle", "fatal") /\ UNCHANGED spin_here
     ELSE /\ Goto(i, "idle", "acq_read")
          /\ spin_here' = [spin_here EXCEPT ![i] = TRUE]
  /\ UNCHANGED <<lock, owner_id, next_waiting, locals>>

AcqReadHead(i) ==
  /\ \/ head_id = -1 /\ Goto(i, "acq_read", "acq_cas_held")
     \/ head_id = 0  /\ Goto(i, "acq_read", "acq_cas_free")
     \/ head_id > 0  /\ Goto(i, "acq_read", "acq_tail")
  /\ UNCHANGED <<lock, owner_id, thread, locals>>

(* Mutant: the head is stored without the compare.                          *)
AcqFree_NoCompare(i) ==
  /\ Goto(i, "acq_cas_free", "acq_own")
  /\ head_id' = -1
  /\ spin_here' = [spin_here EXCEPT ![i] = FALSE]
  /\ UNCHANGED <<tail_id, owner_id, next_waiting, locals>>

(* (0,0) -> (-1,0), and the caller has the lock.                            *)
AcqFree(i) ==
  /\ head_id = 0
  /\ Goto(i, "acq_cas_free", "acq_own")
  /\ head_id' = -1
  /\ spin_here' = [spin_here EXCEPT ![i] = FALSE]
  /\ UNCHANGED <<tail_id, owner_id, next_waiting, locals>>

(* (-1,0) -> (i,i), by one compare-and-store on both words.                 *)
AcqHeld(i) ==
  /\ head_id = -1 /\ tail_id = 0
  /\ Goto(i, "acq_cas_held", "acq_wait")
  /\ head_id' = i /\ tail_id' = i
  /\ UNCHANGED <<owner_id, thread, locals>>

AcqReadTail(i) ==
  /\ Goto(i, "acq_tail", IF tail_id = 0 THEN "acq_read" ELSE "acq_cas_tail")
  /\ tail' = [tail EXCEPT ![i] = tail_id]
  /\ UNCHANGED <<lock, owner_id, thread, head, next>>

(* (h,t) -> (h,i), whatever the head is by now.                             *)
AcqTail(i) ==
  /\ tail_id = tail[i]
  /\ Goto(i, "acq_cas_tail", "acq_link")
  /\ tail_id' = i
  /\ UNCHANGED <<head_id, owner_id, thread, locals>>

AcqCasFails(i) ==
  /\ \/ head_id # 0 /\ Goto(i, "acq_cas_free", "acq_read")
     \/ ~(head_id = -1 /\ tail_id = 0) /\ Goto(i, "acq_cas_held", "acq_read")
     \/ tail_id # tail[i] /\ Goto(i, "acq_cas_tail", "acq_read")
  /\ EndTurn(i)
  /\ UNCHANGED <<lock, owner_id, thread>>

AcqLink(i) ==
  /\ Goto(i, "acq_link", "acq_wait")
  /\ next_waiting' = [next_waiting EXCEPT ![tail[i]] = i]
  /\ EndTurn(i)
  /\ UNCHANGED <<lock, owner_id, spin_here>>

AcqWait(i) ==
  /\ ~spin_here[i]
  /\ Goto(i, "acq_wait", "acq_own")
  /\ UNCHANGED <<lock, owner_id, thread, locals>>

AcqOwn(i) ==
  /\ Goto(i, "acq_own", "held")
  /\ owner_id' = i
  /\ UNCHANGED <<lock, thread, locals>>

-----------------------------------------------------------------------------
(* omp_test_lock: one look at head_id, one compare-and-store.               *)

TestLock(i) ==
  /\ head_id = 0
  /\ Goto(i, "idle", "test_cas")
  /\ UNCHANGED <<lock, owner_id, thread, locals>>

TestCas(i) ==
  /\ \/ head_id = 0 /\ Goto(i, "test_cas", "acq_own") /\ head_id' = -1
     \/ head_id # 0 /\ Goto(i, "test_cas", "idle") /\ UNCHANGED head_id
  /\ UNCHANGED <<tail_id, owner_id, thread, locals>>

-----------------------------------------------------------------------------
(* omp_unset_lock: the owner check, then release.  Only the holder calls it, *)
(* so LockUnsettingFree and LockUnsettingSetByAnother would be mistakes.    *)

UnsetLock(i) ==
  /\ IF owner_id = i
     THEN Goto(i, "held", "rel_read") /\ owner_id' = 0
     ELSE Goto(i, "held", "fatal") /\ UNCHANGED owner_id
  /\ UNCHANGED <<lock, thread, locals>>

RelReadHead(i) ==
  /\ Goto(i, "rel_read", IF head_id = -1 THEN "rel_cas_empty" ELSE "rel_tail")
  /\ head' = [head EXCEPT ![i] = head_id]
  /\ UNCHANGED <<lock, owner_id, thread, tail, next>>

(* (-1,0) -> (0,0).                                                         *)
RelEmpty(i) ==
  /\ head_id = -1
  /\ Goto(i, "rel_cas_empty", "idle")
  /\ head_id' = 0
  /\ EndTurn(i)
  /\ UNCHANGED <<tail_id, owner_id, thread>>

RelReadTail(i) ==
  /\ Goto(i, "rel_tail", IF tail_id = head[i] THEN "rel_cas_one" ELSE "rel_wait")
  /\ tail' = [tail EXCEPT ![i] = tail_id]
  /\ UNCHANGED <<lock, owner_id, thread, head, next>>

(* Mutant: only the head is compared, so a thread that queued is dropped.   *)
RelOne_HeadOnly(i) ==
  /\ head_id = head[i]
  /\ Goto(i, "rel_cas_one", "rel_clear")
  /\ head_id' = -1 /\ tail_id' = 0
  /\ UNCHANGED <<owner_id, thread, locals>>

(* (h,h) -> (-1,0).                                                         *)
RelOne(i) ==
  /\ head_id = head[i] /\ tail_id = head[i]
  /\ Goto(i, "rel_cas_one", "rel_clear")
  /\ head_id' = -1 /\ tail_id' = 0
  /\ UNCHANGED <<owner_id, thread, locals>>

RelCasFails(i) ==
  /\ \/ head_id # -1 /\ Goto(i, "rel_cas_empty", "rel_read")
     \/ /\ ~(head_id = head[i] /\ tail_id = head[i])
        /\ Goto(i, "rel_cas_one", "rel_read")
  /\ EndTurn(i)
  /\ UNCHANGED <<lock, owner_id, thread>>

(* The thread behind the head has queued but may not have linked itself yet. *)
RelWait(i) ==
  /\ Goto(i, "rel_wait", "rel_store")
  /\ next_waiting[head[i]] # 0
  /\ next' = [next EXCEPT ![i] = next_waiting[head[i]]]
  /\ UNCHANGED <<lock, owner_id, thread, head, tail>>

(* (h,t) -> (h',t): a plain store, with no compare.                         *)
RelStore(i) ==
  /\ Goto(i, "rel_store", "rel_clear")
  /\ head_id' = next[i]
  /\ UNCHANGED <<tail_id, owner_id, thread, locals>>

RelClear(i) ==
  /\ Goto(i, "rel_clear", "rel_wake")
  /\ next_waiting' = [next_waiting EXCEPT ![head[i]] = 0]
  /\ UNCHANGED <<lock, owner_id, spin_here, locals>>

RelWake(i) ==
  /\ Goto(i, "rel_wake", "idle")
  /\ spin_here' = [spin_here EXCEPT ![head[i]] = FALSE]
  /\ EndTurn(i)
  /\ UNCHANGED <<lock, owner_id, next_waiting>>

-----------------------------------------------------------------------------
(* The steps a thread takes by itself once it is inside the lock's code.    *)
Running(i) ==
  \/ AcqReadHead(i) \/ AcqFree(i) \/ AcqHeld(i) \/ AcqReadTail(i)
  \/ AcqTail(i) \/ AcqCasFails(i) \/ AcqLink(i) \/ AcqWait(i) \/ AcqOwn(i)
  \/ TestCas(i)
  \/ RelReadHead(i) \/ RelEmpty(i) \/ RelReadTail(i) \/ RelOne(i)
  \/ RelCasFails(i) \/ RelWait(i) \/ RelStore(i) \/ RelClear(i) \/ RelWake(i)

(* The calls a program makes.                                               *)
Call(i) == SetLock(i) \/ TestLock(i) \/ UnsetLock(i)

Next == \E i \in Id : Running(i) \/ Call(i)

Spec == Init /\ [][Next]_vars

(* Every thread inside the lock's code keeps being scheduled, and a thread  *)
(* that holds the lock eventually unsets it.                                *)
FairSpec == Spec /\ \A i \in Id : WF_vars(Running(i) \/ UnsetLock(i))

-----------------------------------------------------------------------------
TypeOK ==
  /\ head_id \in Id \cup {0, -1}
  /\ tail_id \in Id \cup {0}
  /\ owner_id \in Id \cup {0}
  /\ spin_here \in [Id -> BOOLEAN]
  /\ next_waiting \in [Id -> Id \cup {0}]
  /\ pc \in [Id -> PC]
  /\ head \in [Id -> Id \cup {0, -1}]
  /\ tail \in [Id -> Id \cup {0}]
  /\ next \in [Id -> Id \cup {0}]

(* Thread i carries the lock: it holds it, is releasing it, is passing it   *)
(* on, or has been told that it has it and has not yet looked.              *)
Carries(i) ==
  \/ pc[i] \in HeldPC \cup RelPC \cup HandOffPC
  \/ pc[i] = "acq_wait" /\ ~spin_here[i]

(* Some releasing thread has taken i off the queue and is about to wake it. *)
Dequeued(i) == \E r \in Id : pc[r] \in HandOffPC /\ head[r] = i

Waiting(i) ==
  /\ pc[i] \in {"acq_link", "acq_wait"}
  /\ spin_here[i]
  /\ ~Dequeued(i)

(* i queued right behind p: the link is there, or i is about to write it.   *)
Behind(p, i) ==
  \/ next_waiting[p] = i
  \/ pc[i] = "acq_link" /\ tail[i] = p

(***************************************************************************)
(* Mutual exclusion: no two threads carry the lock at once, not even during *)
(* the hand-off from a releasing thread to the head of the queue, and a     *)
(* free lock is carried by nobody (kmp_lock.cpp acquire and release).       *)
(***************************************************************************)
MutualExclusion ==
  /\ \A i, j \in Id : Carries(i) /\ Carries(j) => i = j
  /\ head_id = 0 <=> \A i \in Id : ~Carries(i)

(***************************************************************************)
(* The two ends of the queue are always in one of the four states of the    *)
(* comment "First the states": (0,0), (-1,0), (h,h) or (h,t), and the ends  *)
(* of a queue are threads that really wait.                                 *)
(***************************************************************************)
LegalEnds ==
  /\ tail_id = 0 <=> head_id \in {0, -1}
  /\ head_id > 0 => Waiting(head_id) /\ pc[head_id] = "acq_wait"
  /\ tail_id > 0 => Waiting(tail_id)

(***************************************************************************)
(* The queue is one list: nobody is behind two threads, no two threads are  *)
(* behind one, nobody is behind the tail, and only a thread that is on the  *)
(* queue (or whose link is about to be cleared) has anyone behind it.       *)
(***************************************************************************)
OneList ==
  /\ \A p, q, i \in Id : Behind(p, i) /\ Behind(q, i) => p = q
  /\ \A p, i, j \in Id : Behind(p, i) /\ Behind(p, j) => i = j
  /\ \A p, i \in Id : Behind(p, i) =>
       /\ p # tail_id
       /\ Waiting(i)
       /\ Waiting(p) \/ \E r \in Id : pc[r] = "rel_clear" /\ head[r] = p

(***************************************************************************)
(* What a thread has read is still true when it acts on it: the head that a *)
(* releasing thread saw does not move under it, a tail that differed from   *)
(* the head still does, the successor it waited for is still the successor, *)
(* the thread it wakes is still spinning, and the thread that a queuing     *)
(* thread links itself behind is still waiting.  Only then are the plain    *)
(* stores to head_id and to another thread's fields harmless.               *)
(***************************************************************************)
NoStaleRead ==
  \A i \in Id :
    /\ pc[i] \in AcqPC \cup {"acq_link"} => spin_here[i]
    /\ pc[i] = "acq_cas_tail" => tail[i] # 0
    /\ pc[i] = "acq_link" => tail[i] # 0 /\ Waiting(tail[i])
    /\ pc[i] \in {"rel_tail", "rel_wait", "rel_store"} =>
         head[i] = head_id /\ head_id > 0
    /\ pc[i] \in {"rel_wait", "rel_store"} => tail_id # head_id
    /\ pc[i] = "rel_store" => next[i] # 0 /\ next[i] = next_waiting[head_id]
    /\ pc[i] \in HandOffPC =>
         head[i] > 0 /\ pc[head[i]] = "acq_wait" /\ spin_here[head[i]]

(***************************************************************************)
(* The debug assertions of the code: a thread that enters acquire, test or  *)
(* release neither spins nor has a successor, a thread just woken has none, *)
(* a thread never finds itself at the tail while it tries to queue, the     *)
(* releasing thread never sees head 0 or a hand-off to a tail of 0.         *)
(***************************************************************************)
DebugAsserts ==
  \A i \in Id :
    /\ pc[i] \in {"idle", "test_cas", "acq_own", "held", "rel_read"} =>
         ~spin_here[i] /\ next_waiting[i] = 0
    /\ Carries(i) => next_waiting[i] = 0
    /\ pc[i] = "acq_tail" => tail_id # i
    /\ pc[i] = "rel_read" => head_id # 0
    /\ pc[i] = "rel_wait" => head[i] > 0 /\ tail[i] > 0
    /\ pc[i] \in HandOffPC => head[i] > 0 /\ tail[i] > 0

(***************************************************************************)
(* The owner checks never stop a correct program, although omp_set_lock     *)
(* reads owner_id while other threads write it.                             *)
(***************************************************************************)
NoFalseFatal == \A i \in Id : pc[i] # "fatal"

(* The inductive invariant of the safety proof, WaitLocks_proofs.           *)
Links ==
  /\ \A p, i \in Id : next_waiting[p] = i => pc[i] = "acq_wait"
  /\ head_id > 0 => \A p \in Id :
       Behind(p, head_id) => \E r \in Id : pc[r] = "rel_clear" /\ head[r] = p

Spinning ==
  \A i \in Id : spin_here[i] => pc[i] \in AcqPC \cup {"acq_link", "acq_wait"}

Seen ==
  \A i \in Id : pc[i] \in {"rel_cas_one", "rel_wait", "rel_store"} \cup HandOffPC
                 => head[i] > 0 /\ tail[i] > 0

Owner ==
  \A i \in Id : pc[i] # "fatal" /\ (pc[i] = "held" <=> owner_id = i)

IInv ==
  /\ TypeOK
  /\ MutualExclusion
  /\ LegalEnds
  /\ OneList
  /\ NoStaleRead
  /\ Links
  /\ Spinning
  /\ Seen
  /\ Owner

(***************************************************************************)
(* A thread that has queued eventually holds the lock: its wake-up is never *)
(* lost, whether the link is written before or after the release reads it.  *)
(***************************************************************************)
QueuedGetsLock ==
  \A i \in Id : pc[i] \in {"acq_link", "acq_wait"} ~> pc[i] = "held"
=============================================================================
