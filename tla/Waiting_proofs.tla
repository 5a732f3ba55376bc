--------------------------- MODULE Waiting_proofs ---------------------------
(***************************************************************************)
(* Proofs about waiting threads.                                            *)
(*                                                                          *)
(* The deques of a team are queues, whatever the number of its threads and  *)
(* of its tasks and the size of a deque, as long as nobody gives it proxy   *)
(* tasks.  (With givers they are not: see TaskDeque's GiveGrow.)            *)
(*                                                                          *)
(* The ring is dealt with first: what is put in at the tail is appended to  *)
(* the queue, and what is taken at the tail or at the head is its last or   *)
(* its first task.  The rest is about the places of the tasks: a task that  *)
(* was not taken yet is either not created, or in the hands of the thread   *)
(* that creates it, or in one slot of one queue (OnePlace).  Checks before  *)
(* the lock may be stale, except one: a thread that pushes has a deque of   *)
(* the full size (Allocates).                                               *)
(*                                                                          *)
(* The deques of a team with givers are at least whole (Whole): whoever     *)
(* writes into one, even after it doubled a deque that was not full any     *)
(* more, writes within its buffer.                                          *)
(*                                                                          *)
(* And no wake-up is lost and th_sleep_loc is never dangling for whoever    *)
(* has the mutex, for any flag types, any number of stray wakers and of     *)
(* waits.  SleepersAreWoken is not inductive: whether a bit that was set    *)
(* before a release is seen depends on the releaser's position (BitSet),    *)
(* which is only known because wakers clear the bit with the mutex          *)
(* (MutexHeld) and clear th_sleep_loc with it (LocSet).                     *)
(***************************************************************************)
EXTENDS MCWaiting, TLAPS

TeamOnly ==
  /\ Proxies = {}
  /\ Nil \notin Tasks
  /\ InitialSize \in Nat \ {0}

-----------------------------------------------------------------------------
(* Arithmetic around the wrap of a ring with s slots.                       *)
LEMMA Around ==
  ASSUME NEW s \in Nat \ {0}, NEW i \in 0..2 * s - 1
  PROVE  i % s = IF i < s THEN i ELSE i - s
<1>1. CASE i < s
  BY <1>1
<1>2. CASE i >= s
  BY <1>2
<1> QED
  BY <1>1, <1>2

(* The slot at the tail is not one of the n occupied ones.                  *)
LEMMA SlotsDiffer ==
  ASSUME NEW s \in Nat \ {0}, NEW head \in 0..s-1, NEW n \in 0..s-1, NEW k \in 1..n
  PROVE  (head + k - 1) % s # (head + n) % s
<1>0. \A i \in 0..2 * s - 1 : i % s = IF i < s THEN i ELSE i - s
  BY Around
<1>1. (head + k - 1) % s = IF head + k - 1 < s THEN head + k - 1 ELSE head + k - 1 - s
  BY <1>0
<1>2. (head + n) % s = IF head + n < s THEN head + n ELSE head + n - s
  BY <1>0
<1> QED
  BY <1>1, <1>2

(* The slot before the tail is the last of the n occupied ones.             *)
LEMMA BeforeTail ==
  ASSUME NEW s \in Nat \ {0}, NEW head \in 0..s-1, NEW n \in 1..s
  PROVE  (((head + n) % s) + s - 1) % s = (head + (n - 1)) % s
<1> DEFINE tail == (head + n) % s
<1>0. \A i \in 0..2 * s - 1 : i % s = IF i < s THEN i ELSE i - s
  BY Around
<1>1. tail \in 0..s-1
  OBVIOUS
<1>2. tail = IF head + n < s THEN head + n ELSE head + n - s
  BY <1>0
<1>3. (head + (n - 1)) % s = IF head + n - 1 < s THEN head + n - 1 ELSE head + n - 1 - s
  BY <1>0
<1> HIDE DEF tail
<1>4. (tail + s - 1) % s = IF tail + s - 1 < s THEN tail + s - 1 ELSE tail - 1
  BY <1>0, <1>1
<1> QED
  BY <1>1, <1>2, <1>3, <1>4 DEF tail

(* The tail is a slot, and the one after it is behind n + 1 tasks.          *)
LEMMA AfterTail ==
  ASSUME NEW s \in Nat \ {0}, NEW head \in 0..s-1, NEW n \in 0..s-1
  PROVE  (head + n) % s \in 0..s-1 /\ (((head + n) % s) + 1) % s = (head + (n + 1)) % s
<1> DEFINE tail == (head + n) % s
<1>0. \A i \in 0..2 * s - 1 : i % s = IF i < s THEN i ELSE i - s
  BY Around
<1>1. tail \in 0..s-1
  OBVIOUS
<1>2. tail = IF head + n < s THEN head + n ELSE head + n - s
  BY <1>0
<1>3. (head + (n + 1)) % s = IF head + n + 1 < s THEN head + n + 1 ELSE head + n + 1 - s
  BY <1>0
<1> HIDE DEF tail
<1>4. (tail + 1) % s = IF tail + 1 < s THEN tail + 1 ELSE 0
  BY <1>0, <1>1
<1> QED
  BY <1>1, <1>2, <1>3, <1>4 DEF tail

(* Counted from the slot after the head, the k-th slot is the next one.     *)
LEMMA AfterHead ==
  ASSUME NEW s \in Nat \ {0}, NEW head \in 0..s-1, NEW k \in 1..s
  PROVE  (((head + 1) % s) + (k - 1)) % s = (head + k) % s
<1> DEFINE next == (head + 1) % s
<1>0. \A i \in 0..2 * s - 1 : i % s = IF i < s THEN i ELSE i - s
  BY Around
<1>1. next \in 0..s-1
  OBVIOUS
<1>2. next = IF head + 1 < s THEN head + 1 ELSE 0
  BY <1>0
<1> HIDE DEF next
<1>3. (next + (k - 1)) % s = IF next + (k - 1) < s THEN next + (k - 1)
                             ELSE next + (k - 1) - s
  BY <1>0, <1>1
<1>4. (head + k) % s = IF head + k < s THEN head + k ELSE head + k - s
  BY <1>0
<1> QED
  BY <1>1, <1>2, <1>3, <1>4 DEF next

Index   == 0..InitialSize - 1
Content == Items \cup {Nil}

(* A deque of which n tasks from head on are occupied.                      *)
Filled(slot, head, n) ==
  [alloc |-> TRUE, slot |-> slot, size |-> InitialSize, head |-> head,
   tail |-> (head + n) % InitialSize, ntasks |-> n]

(* A deque that is allocated and has its size.                              *)
LiveDeques ==
  {Filled(slot, head, n) : slot \in [Index -> Content], head \in Index, n \in 0..InitialSize}

Live(d) == d \in LiveDeques

LEMMA FilledQueue ==
  ASSUME TeamOnly, NEW slot \in [Index -> Content], NEW head \in Index,
         NEW n \in 0..InitialSize, NEW q, q = QueueOf(Filled(slot, head, n))
  PROVE  /\ q \in Seq(Content) /\ Len(q) = n
         /\ \A k \in 1..n : q[k] = slot[(head + k - 1) % InitialSize]
<1>1. ASSUME NEW k \in 1..n
      PROVE  slot[(head + k - 1) % InitialSize] \in Content
  BY DEF Index, TeamOnly
<1>2. q = [k \in 1..n |-> slot[(head + k - 1) % InitialSize]]
  BY DEF QueueOf, Filled, Wrap, Index, TeamOnly
<1> QED
  BY <1>1, <1>2

LEMMA LiveQueue ==
  ASSUME TeamOnly, NEW d, Live(d)
  PROVE  /\ QueueOf(d) \in Seq(Content) /\ Len(QueueOf(d)) = d.ntasks
         /\ d.ntasks \in 0..InitialSize /\ d.size = InitialSize
<1>1. PICK slot \in [Index -> Content], head \in Index, n \in 0..InitialSize :
        d = Filled(slot, head, n)
  BY DEF Live, LiveDeques
<1>2. QueueOf(d) \in Seq(Content) /\ Len(QueueOf(d)) = n
  BY <1>1, FilledQueue
<1>3. d.ntasks = n /\ d.size = InitialSize
  BY <1>1 DEF Filled
<1> QED
  BY <1>2, <1>3

(* A task is put in at the tail, if there is room.                          *)
LEMMA LiveInsert ==
  ASSUME TeamOnly, NEW d, Live(d), ~Full(d), NEW x \in Items
  PROVE  /\ d.tail \in DOMAIN d.slot
         /\ Live(Insert(d, x))
         /\ QueueOf(Insert(d, x)) = Append(QueueOf(d), x)
<1> USE DEF Index, TeamOnly
<1>1. PICK slot \in [Index -> Content], head \in Index, n \in 0..InitialSize :
        d = Filled(slot, head, n)
  BY DEF Live, LiveDeques
<1>2. n \in 0..InitialSize - 1 /\ n + 1 \in 0..InitialSize
  BY <1>1 DEF Full, Filled
<1>3. PICK tail \in Index : tail = (head + n) % InitialSize
  OBVIOUS
<1>4. PICK new \in [Index -> Content] : new = [slot EXCEPT ![tail] = x]
  BY DEF Content
<1>5. (tail + 1) % InitialSize = (head + (n + 1)) % InitialSize
  BY <1>2, <1>3, AfterTail
<1>6. d.tail = tail /\ d.tail \in DOMAIN d.slot
  BY <1>1, <1>3 DEF Filled
<1>7. Insert(d, x) = Filled(new, head, n + 1)
  <2>1. Insert(d, x) = [d EXCEPT !.slot = new, !.tail = (tail + 1) % InitialSize, !.ntasks = n + 1]
    BY <1>1, <1>4, <1>6 DEF Insert, Filled, Wrap
  <2> QED
    BY <1>1, <1>5, <2>1 DEF Filled
<1>8. ASSUME NEW k \in 1..n
      PROVE  new[(head + k - 1) % InitialSize] = slot[(head + k - 1) % InitialSize]
  <2>1. (head + k - 1) % InitialSize # tail
    BY <1>2, <1>3, SlotsDiffer
  <2>2. (head + k - 1) % InitialSize \in Index
    OBVIOUS
  <2> QED
    BY <1>4, <2>1, <2>2
<1>9. new[(head + (n + 1) - 1) % InitialSize] = x
  BY <1>3, <1>4
<1>10. PICK m \in 0..InitialSize : m = n + 1
  BY <1>2
<1> HIDE DEF Index, TeamOnly
<1>11. QueueOf(Insert(d, x)) = Append(QueueOf(d), x)
  <2> DEFINE q == QueueOf(d)
             r == QueueOf(Insert(d, x))
  <2>1. /\ q \in Seq(Content) /\ Len(q) = n
        /\ \A k \in 1..n : q[k] = slot[(head + k - 1) % InitialSize]
    BY <1>1, FilledQueue
  <2>3. /\ r \in Seq(Content) /\ Len(r) = m
        /\ \A k \in 1..m : r[k] = new[(head + k - 1) % InitialSize]
    BY <1>7, <1>10, FilledQueue
  <2>4. \A k \in 1..n : r[k] = q[k]
    BY <1>8, <1>10, <2>1, <2>3
  <2>5. r[n + 1] = x
    BY <1>9, <1>10, <2>3
  <2>6. x \in Content
    BY DEF Content
  <2> HIDE DEF q, r
  <2>7. r = Append(q, x)
    BY <1>10, <2>1, <2>3, <2>4, <2>5, <2>6
  <2> QED
    BY <2>7 DEF q, r
<1> QED
  BY <1>2, <1>6, <1>7, <1>11 DEF Live, LiveDeques

(* Its owner takes the task at the tail, if there is one.                   *)
LEMMA LiveRemove ==
  ASSUME TeamOnly, NEW d, Live(d), d.ntasks # 0,
         NEW e, e = [d EXCEPT !.tail = Last(d), !.ntasks = @ - 1]
  PROVE  /\ Live(e)
         /\ QueueOf(e) = SubSeq(QueueOf(d), 1, d.ntasks - 1)
         /\ d.slot[Last(d)] = QueueOf(d)[d.ntasks]
<1>1. PICK slot \in [Index -> Content], head \in Index, n \in 0..InitialSize :
        d = Filled(slot, head, n)
  BY DEF Live, LiveDeques
<1>2. n \in 1..InitialSize /\ d.ntasks = n
  BY <1>1 DEF Filled, TeamOnly
<1>3. PICK m \in 0..InitialSize : m = n - 1
  BY <1>2 DEF TeamOnly
<1>4. Last(d) = (head + m) % InitialSize
  <2>1. (((head + n) % InitialSize) + InitialSize - 1) % InitialSize
          = (head + (n - 1)) % InitialSize
    BY <1>2, BeforeTail DEF Index, TeamOnly
  <2>2. Last(d) = (((head + n) % InitialSize) + InitialSize - 1) % InitialSize
    BY <1>1 DEF Last, Wrap, Filled, TeamOnly
  <2> QED
    BY <1>3, <2>1, <2>2
<1>5. e = Filled(slot, head, m)
  BY <1>1, <1>3, <1>4 DEF Filled
<1> DEFINE q == QueueOf(d)
           r == QueueOf(e)
<1>6. /\ q \in Seq(Content) /\ Len(q) = n
      /\ \A k \in 1..n : q[k] = slot[(head + k - 1) % InitialSize]
  BY <1>1, FilledQueue
<1>7. /\ r \in Seq(Content) /\ Len(r) = m
      /\ \A k \in 1..m : r[k] = slot[(head + k - 1) % InitialSize]
  BY <1>5, FilledQueue
<1>8. r = SubSeq(q, 1, n - 1)
  <2> HIDE DEF q, r
  <2>1. \A k \in 1..n - 1 : r[k] = q[k]
    BY <1>2, <1>3, <1>6, <1>7
  <2> QED
    BY <1>2, <1>3, <1>6, <1>7, <2>1 DEF TeamOnly
<1>9. d.slot[Last(d)] = q[n]
  <2>1. head + n - 1 = head + m
    BY <1>2, <1>3 DEF Index, TeamOnly
  <2>2. d.slot = slot
    BY <1>1 DEF Filled
  <2> QED
    BY <1>2, <1>4, <1>6, <2>1, <2>2
<1> QED
  BY <1>2, <1>5, <1>8, <1>9 DEF Live, LiveDeques

(* A thief takes the task at the head, if there is one.                     *)
LEMMA LiveSteal ==
  ASSUME TeamOnly, NEW d, Live(d), d.ntasks # 0,
         NEW e, e = [d EXCEPT !.head = Wrap(d, @ + 1), !.ntasks = @ - 1]
  PROVE  /\ Live(e)
         /\ QueueOf(e) = Tail(QueueOf(d))
         /\ d.slot[d.head] = QueueOf(d)[1]
<1>1. PICK slot \in [Index -> Content], head \in Index, n \in 0..InitialSize :
        d = Filled(slot, head, n)
  BY DEF Live, LiveDeques
<1>2. n \in 1..InitialSize /\ d.ntasks = n
  BY <1>1 DEF Filled, TeamOnly
<1>3. PICK m \in 0..InitialSize : m = n - 1
  BY <1>2 DEF TeamOnly
<1>4. PICK next \in Index : next = (head + 1) % InitialSize
  BY DEF Index, TeamOnly
<1>5. ASSUME NEW k \in 1..n
      PROVE  (next + (k - 1)) % InitialSize = (head + k) % InitialSize
  <2>1. (((head + 1) % InitialSize) + (k - 1)) % InitialSize = (head + k) % InitialSize
    BY AfterHead DEF Index, TeamOnly
  <2> QED
    BY <1>4, <2>1
<1>6. e = Filled(slot, next, m)
  <2>1. (next + m) % InitialSize = (head + n) % InitialSize
    BY <1>2, <1>3, <1>5
  <2>2. e = [d EXCEPT !.head = next, !.ntasks = m]
    BY <1>1, <1>3, <1>4 DEF Filled, Wrap, TeamOnly
  <2> QED
    BY <1>1, <2>1, <2>2 DEF Filled
<1> DEFINE q == QueueOf(d)
           r == QueueOf(e)
<1>7. /\ q \in Seq(Content) /\ Len(q) = n
      /\ \A k \in 1..n : q[k] = slot[(head + k - 1) % InitialSize]
  BY <1>1, FilledQueue
<1>8. /\ r \in Seq(Content) /\ Len(r) = m
      /\ \A k \in 1..m : r[k] = slot[(next + k - 1) % InitialSize]
  BY <1>6, FilledQueue
<1>9. r = Tail(q)
  <2>1. ASSUME NEW k \in 1..m
        PROVE  r[k] = q[k + 1]
    <3>1. k \in 1..n /\ k + 1 \in 1..n
      BY <1>2, <1>3 DEF TeamOnly
    <3>2. next + k - 1 = next + (k - 1) /\ head + (k + 1) - 1 = head + k
      BY DEF Index, TeamOnly
    <3>3. q[k + 1] = slot[(head + (k + 1) - 1) % InitialSize]
      BY <1>7, <3>1
    <3> QED
      BY <1>5, <1>8, <3>1, <3>2, <3>3
  <2> HIDE DEF q, r
  <2> QED
    BY <1>2, <1>3, <1>7, <1>8, <2>1
<1>10. d.slot[d.head] = q[1]
  <2>1. (head + 1 - 1) % InitialSize = head
    BY DEF Index, TeamOnly
  <2>2. d.slot = slot /\ d.head = head
    BY <1>1 DEF Filled
  <2> QED
    BY <1>2, <1>7, <2>1, <2>2
<1> QED
  BY <1>6, <1>9, <1>10 DEF Live, LiveDeques

-----------------------------------------------------------------------------
(* The inductive invariant of a team that nobody gives proxy tasks to.      *)

Making(t) == pc[t] \in {"enable", "alloc", "size", "created", "push"}

TeamTypeOK ==
  /\ dq \in [Threads -> {NoDeque, NewDeque} \cup LiveDeques]
  /\ enabled \in BOOLEAN
  /\ fresh \subseteq Items
  /\ taken \in [Content -> 0..1]
  /\ pc \in [Threads -> {"idle", "enable", "alloc", "size", "created", "push", "remove", "steal"}]
  /\ item \in [Threads -> Content]
  /\ at \in [Threads -> Threads \cup {0}]
  /\ \A t \in Threads : pc[t] = "steal" => at[t] \in Threads

(* What a deque is, follows from where its owner is.                        *)
Allocates ==
  \A t \in Threads :
    /\ pc[t] = "alloc" => dq[t] = NoDeque
    /\ pc[t] = "size" <=> dq[t] = NewDeque
    /\ pc[t] \in {"created", "push"} => Live(dq[t])

Queued(x) == \E t \in Threads : \E k \in 1..Len(Queue[t]) : Queue[t][k] = x

Untouched(x) == taken[x] = 0 /\ ~Queued(x)

(* A task that was not taken yet is in one place.                           *)
OnePlace ==
  /\ taken[Nil] = 0
  /\ Queue \in [Threads -> Seq(Items)]
  /\ \A x \in fresh : Untouched(x)
  /\ \A t \in Threads :
       Making(t) => item[t] \in Items \ fresh /\ Untouched(item[t])
  /\ \A t, u \in Threads : Making(t) /\ Making(u) /\ item[t] = item[u] => t = u
  /\ \A t \in Threads : \A k \in 1..Len(Queue[t]) : taken[Queue[t][k]] = 0
  /\ \A t, u \in Threads : \A k \in 1..Len(Queue[t]), l \in 1..Len(Queue[u]) :
       Queue[t][k] = Queue[u][l] => t = u /\ k = l

TeamIInv == TeamTypeOK /\ Allocates /\ OnePlace /\ ~overrun

LEMMA DequesDiffer ==
  ASSUME TeamOnly
  PROVE  /\ NoDeque # NewDeque
         /\ \A d : Live(d) => d # NoDeque /\ d # NewDeque /\ d.alloc = TRUE
         /\ NoDeque.alloc = FALSE /\ NewDeque.alloc = TRUE
         /\ Sized(NewDeque) \in LiveDeques /\ QueueOf(Sized(NewDeque)) = <<>>
         /\ QueueOf(NoDeque) = <<>> /\ QueueOf(NewDeque) = <<>>
         /\ NoDeque.ntasks = 0 /\ NewDeque.ntasks = 0
         /\ NoDeque.size = 0 /\ NewDeque.size = 0
<1>1. /\ NoDeque # NewDeque /\ NoDeque.alloc = FALSE /\ NewDeque.alloc = TRUE
      /\ NoDeque.ntasks = 0 /\ NewDeque.ntasks = 0 /\ NewDeque.size = 0 /\ NoDeque.size = 0
  BY DEF NoDeque, NewDeque
<1>2. ASSUME NEW d, Live(d)
      PROVE  d # NoDeque /\ d # NewDeque /\ d.alloc = TRUE
  BY <1>1, <1>2 DEF Live, LiveDeques, Filled, TeamOnly
<1>3. Sized(NewDeque) \in LiveDeques /\ Sized(NewDeque).ntasks = 0
  <2> DEFINE b == Buffer(InitialSize)
  <2>0. b \in [Index -> Content]
    BY DEF Buffer, Index, Content
  <2> HIDE DEF b
  <2>1. Sized(NewDeque) = [alloc |-> TRUE, slot |-> b, size |-> InitialSize,
                           head |-> 0, tail |-> 0, ntasks |-> 0]
    <3>1. NewDeque = [NoDeque EXCEPT !.alloc = TRUE, !.slot = b]
      BY DEF NewDeque, b
    <3>2. NewDeque = [alloc |-> TRUE, slot |-> b, size |-> 0, head |-> 0, tail |-> 0,
                      ntasks |-> 0]
      BY <3>1 DEF NoDeque
    <3>3. Sized(NewDeque) = [NewDeque EXCEPT !.size = InitialSize]
      BY DEF Sized
    <3> QED
      BY <3>2, <3>3
  <2>2. (0 + 0) % InitialSize = 0
    BY DEF TeamOnly
  <2>3. 0 \in Index /\ 0 \in 0..InitialSize
    BY DEF Index, TeamOnly
  <2>4. Sized(NewDeque) = Filled(b, 0, 0)
    BY <2>1, <2>2 DEF Filled
  <2> QED
    BY <2>0, <2>1, <2>3, <2>4 DEF LiveDeques
<1>4. ASSUME NEW d, d.ntasks = 0
      PROVE  QueueOf(d) = <<>>
  BY <1>4 DEF QueueOf
<1> QED
  BY <1>1, <1>2, <1>3, <1>4

LEMMA InitTeamIInv ==
  ASSUME TeamOnly, Init
  PROVE  TeamIInv
<1>1. dq \in [Threads -> {NoDeque, NewDeque} \cup LiveDeques]
  BY DequesDiffer DEF Init
<1>2. \A t \in Threads : QueueOf(dq[t]) = <<>> /\ dq[t] # NewDeque
  BY DequesDiffer DEF Init, Live
<1>3. Queue = [t \in Threads |-> <<>>]
  BY <1>2 DEF Queue
<1>4. TeamTypeOK
  <2>1. Actors = Threads
    BY DEF Actors, TeamOnly
  <2>2. /\ pc = [t \in Threads |-> "idle"] /\ at = [t \in Threads |-> 0]
        /\ item = [t \in Threads |-> Nil] /\ fresh = Items /\ enabled = FALSE
        /\ taken = [x \in Content |-> 0]
    BY <2>1 DEF Init, Content
  <2>3. Nil \in Content
    BY DEF Content
  <2>4. pc \in [Threads -> {"idle", "enable", "alloc", "size", "created",
                            "push", "remove", "steal"}]
    BY <2>2
  <2>5. /\ at \in [Threads -> Threads \cup {0}]
        /\ \A t \in Threads : pc[t] = "steal" => at[t] \in Threads
    BY <2>2
  <2>6. item \in [Threads -> Content] /\ taken \in [Content -> 0..1]
    BY <2>2, <2>3
  <2> QED
    BY <1>1, <2>2, <2>4, <2>5, <2>6 DEF TeamTypeOK
<1>5. Allocates
  BY <1>2 DEF Allocates, Init, Actors
<1>6. OnePlace
  <2>1. \A t \in Threads : Queue[t] = <<>> /\ ~Making(t)
    BY <1>3 DEF Init, Making, Actors
  <2>2. taken[Nil] = 0 /\ \A x \in fresh : taken[x] = 0
    BY DEF Init
  <2> QED
    BY <1>3, <2>1, <2>2 DEF OnePlace, Untouched, Queued
<1> QED
  BY <1>4, <1>5, <1>6 DEF TeamIInv, Init

-----------------------------------------------------------------------------
(* What a step does to the places of the tasks.                             *)

LEMMA QueueExcept ==
  ASSUME TeamTypeOK, NEW t \in Threads, NEW e, dq' = [dq EXCEPT ![t] = e]
  PROVE  Queue' = [Queue EXCEPT ![t] = QueueOf(e)]
  BY DEF Queue, TeamTypeOK

LEMMA SamePlace ==
  ASSUME TeamTypeOK, OnePlace, Queue' = Queue, taken' = taken, fresh' = fresh,
         \A u \in Threads : Making(u)' => Making(u) /\ item'[u] = item[u]
  PROVE  OnePlace'
<1>1. \A x : Untouched(x)' <=> Untouched(x)
  BY DEF Untouched, Queued
<1> QED
  BY <1>1 DEF OnePlace

LEMMA CreatePlace ==
  ASSUME TeamTypeOK, OnePlace, Queue' = Queue, taken' = taken,
         NEW t \in Threads, NEW x \in fresh, fresh' = fresh \ {x},
         item'[t] = x,
         \A u \in Threads \ {t} : Making(u)' => Making(u) /\ item'[u] = item[u]
  PROVE  OnePlace'
<1>1. \A y : Untouched(y)' <=> Untouched(y)
  BY DEF Untouched, Queued
<1>2. \A y \in fresh' : Untouched(y)'
  BY <1>1 DEF OnePlace
<1>3. ASSUME NEW u \in Threads, Making(u)'
      PROVE  (item[u] \in Items \ fresh /\ Untouched(item[u]))'
  <2>1. CASE u = t
    BY <1>1, <2>1 DEF OnePlace, TeamTypeOK
  <2>2. CASE u # t
    <3>1. item[u] \in Items \ fresh /\ Untouched(item[u]) /\ item'[u] = item[u]
      BY <1>3, <2>2 DEF OnePlace
    <3> QED
      BY <3>1 DEF Untouched, Queued
  <2> QED
    BY <2>1, <2>2
<1>4. ASSUME NEW u \in Threads, NEW v \in Threads, (Making(u) /\ Making(v) /\ item[u] = item[v])'
      PROVE  u = v
  <2>1. \A w \in Threads \ {t} : Making(w)' => item'[w] # x
    BY DEF OnePlace
  <2> QED
    BY <1>4, <2>1 DEF OnePlace
<1> QED
  BY <1>2, <1>3, <1>4 DEF OnePlace

LEMMA RunNowPlace ==
  ASSUME TeamOnly, TeamTypeOK, OnePlace, Queue' = Queue, fresh' = fresh,
         NEW t \in Threads, Making(t), ~Making(t)',
         taken' = [taken EXCEPT ![item[t]] = @ + 1],
         \A u \in Threads : Making(u)' => Making(u) /\ item'[u] = item[u]
  PROVE  OnePlace' /\ taken' \in [Content -> 0..1]
<1>1. item[t] \in Items /\ item[t] \notin fresh /\ taken[item[t]] = 0 /\ ~Queued(item[t])
  BY DEF OnePlace, Untouched
<1>2. \A y \in Content : taken'[y] = IF y = item[t] THEN 1 ELSE taken[y]
  BY <1>1 DEF TeamTypeOK, Content
<1>3. taken' \in [Content -> 0..1]
  BY <1>2 DEF TeamTypeOK
<1>4. taken'[Nil] = 0
  BY <1>1, <1>2 DEF OnePlace, Content, Items, TeamOnly
<1>5. \A y \in Items : y # item[t] /\ Untouched(y) => taken'[y] = 0 /\ Untouched(y)'
  BY <1>2 DEF Untouched, Queued, Content
<1>6. \A y \in fresh' : Untouched(y)'
  BY <1>1, <1>5 DEF OnePlace, TeamTypeOK
<1>7. ASSUME NEW u \in Threads, Making(u)'
      PROVE  (item[u] \in Items \ fresh /\ Untouched(item[u]))'
  <2>1. Making(u) /\ u # t /\ item'[u] = item[u]
    BY <1>7
  <2>2. item[u] \in Items \ fresh /\ Untouched(item[u]) /\ item[u] # item[t]
    BY <2>1 DEF OnePlace
  <2>3. taken'[item[u]] = 0 /\ Queue' = Queue
    BY <1>5, <2>2
  <2> QED
    BY <2>1, <2>2, <2>3 DEF Untouched, Queued
<1>8. ASSUME NEW u \in Threads, NEW k \in 1..Len(Queue[u])
      PROVE  taken'[Queue[u][k]] = 0
  <2>1. Queue[u][k] \in Items /\ taken[Queue[u][k]] = 0
    BY DEF OnePlace
  <2>2. Queue[u][k] # item[t]
    BY <1>1 DEF Queued
  <2> QED
    BY <1>2, <2>1, <2>2 DEF Content
<1> QED
  BY <1>3, <1>4, <1>6, <1>7, <1>8 DEF OnePlace

LEMMA PutPlace ==
  ASSUME TeamTypeOK, OnePlace, taken' = taken, fresh' = fresh,
         NEW t \in Threads, Making(t), ~Making(t)',
         Queue' = [Queue EXCEPT ![t] = Append(Queue[t], item[t])],
         \A u \in Threads : Making(u)' => Making(u) /\ item'[u] = item[u]
  PROVE  OnePlace'
<1> DEFINE x == item[t]
           n == Len(Queue[t])
<1>1. x \in Items /\ x \notin fresh /\ taken[x] = 0 /\ ~Queued(x)
  BY DEF OnePlace, Untouched
<1>2. Queue[t] \in Seq(Items) /\ n \in Nat
  BY DEF OnePlace
<1>3. /\ Queue' \in [Threads -> Seq(Items)]
      /\ \A u \in Threads \ {t} : Queue'[u] = Queue[u]
      /\ Len(Queue'[t]) = n + 1
      /\ \A k \in 1..n + 1 : Queue'[t][k] = IF k = n + 1 THEN x ELSE Queue[t][k]
  <2>1. Queue'[t] = Append(Queue[t], x)
    BY DEF OnePlace
  <2> HIDE DEF x
  <2> QED
    BY <1>1, <1>2, <2>1 DEF OnePlace, x
<1>4. ASSUME NEW u \in Threads, NEW k \in 1..Len(Queue'[u])
      PROVE  \/ u = t /\ k = n + 1 /\ Queue'[u][k] = x
             \/ k \in 1..Len(Queue[u]) /\ Queue'[u][k] = Queue[u][k]
  BY <1>2, <1>3
<1>5. \A y : Queued(y)' => Queued(y) \/ y = x
  BY <1>4 DEF Queued
<1>6. \A y \in fresh' : Untouched(y)'
  BY <1>1, <1>5 DEF OnePlace, Untouched
<1>7. ASSUME NEW u \in Threads, Making(u)'
      PROVE  (item[u] \in Items \ fresh /\ Untouched(item[u]))'
  <2>1. Making(u) /\ u # t /\ item'[u] = item[u]
    BY <1>7
  <2>2. item[u] \in Items \ fresh /\ Untouched(item[u]) /\ item[u] # x
    BY <2>1 DEF OnePlace
  <2>3. Untouched(item[u]) =>
          /\ taken[item[u]] = 0
          /\ \A v \in Threads : \A k \in 1..Len(Queue[v]) : Queue[v][k] # item[u]
    BY DEF Untouched, Queued
  <2>4. \A v \in Threads : \A k \in 1..Len(Queue'[v]) : Queue'[v][k] # item[u]
    BY <1>4, <2>2, <2>3
  <2> QED
    BY <2>1, <2>2, <2>3, <2>4 DEF Untouched, Queued
<1>8. ASSUME NEW u \in Threads, NEW k \in 1..Len(Queue'[u])
      PROVE  taken'[Queue'[u][k]] = 0
  BY <1>1, <1>4 DEF OnePlace
<1>9. ASSUME NEW u \in Threads, NEW v \in Threads,
             NEW k \in 1..Len(Queue'[u]), NEW l \in 1..Len(Queue'[v]),
             Queue'[u][k] = Queue'[v][l]
      PROVE  u = v /\ k = l
  <2>1. \A w \in Threads : \A i \in 1..Len(Queue[w]) : Queue[w][i] # x
    BY <1>1 DEF Queued
  <2> QED
    BY <1>4, <1>9, <2>1 DEF OnePlace
<1> QED
  BY <1>3, <1>6, <1>7, <1>8, <1>9 DEF OnePlace

(* The task at p is taken; those behind it move up by off.                  *)
LEMMA TakePlace ==
  ASSUME TeamOnly, TeamTypeOK, OnePlace, fresh' = fresh,
         NEW t \in Threads, NEW rest \in Seq(Content), NEW off \in {0, 1},
         NEW p \in 1..Len(Queue[t]), p = IF off = 0 THEN Len(Queue[t]) ELSE 1,
         Len(rest) = Len(Queue[t]) - 1,
         \A k \in 1..Len(rest) : rest[k] = Queue[t][k + off],
         Queue' = [Queue EXCEPT ![t] = rest],
         taken' = [taken EXCEPT ![Queue[t][p]] = @ + 1],
         \A u \in Threads : Making(u)' => Making(u) /\ item'[u] = item[u]
  PROVE  OnePlace' /\ taken' \in [Content -> 0..1]
<1> DEFINE x == Queue[t][p]
<1>1. x \in Items /\ taken[x] = 0 /\ Queue[t] \in Seq(Items) /\ Len(Queue[t]) \in Nat
  BY DEF OnePlace
<1>2. \A y \in Content : taken'[y] = IF y = x THEN 1 ELSE taken[y]
  BY <1>1 DEF TeamTypeOK, Content
<1>3. taken' \in [Content -> 0..1]
  <2> HIDE DEF x
  <2>1. taken \in [Content -> 0..1]
    BY DEF TeamTypeOK
  <2>2. taken' = [y \in Content |-> taken'[y]]
    BY <2>1
  <2>3. \A y \in Content : taken'[y] \in 0..1
    BY <1>2, <2>1
  <2> QED
    BY <2>2, <2>3
<1>4. taken'[Nil] = 0
  BY <1>1, <1>2 DEF OnePlace, Content, Items, TeamOnly
<1>5. rest \in Seq(Items)
  <2>1. \A k \in 1..Len(rest) : rest[k] \in Items
    BY <1>1
  <2> QED
    BY <2>1
<1>6. /\ Queue' \in [Threads -> Seq(Items)]
      /\ \A u \in Threads \ {t} : Queue'[u] = Queue[u]
      /\ Queue'[t] = rest
  BY <1>5 DEF OnePlace
<1> DEFINE Old(u, k) == IF u = t THEN k + off ELSE k
<1>7. ASSUME NEW u \in Threads, NEW k \in 1..Len(Queue'[u])
      PROVE  /\ Old(u, k) \in 1..Len(Queue[u]) /\ Queue'[u][k] = Queue[u][Old(u, k)]
             /\ u = t => Old(u, k) # p
  BY <1>1, <1>6
<1>8. ASSUME NEW u \in Threads, NEW k \in 1..Len(Queue'[u])
      PROVE  Queue'[u][k] \in Items /\ Queue'[u][k] # x /\ taken[Queue'[u][k]] = 0
  BY <1>7, <1>8 DEF OnePlace
<1>9. \A y : Queued(y)' => Queued(y)
  BY <1>7 DEF Queued
<1>10. \A y : Untouched(y) => ~Queued(y)' /\ y # x /\ taken[y] = 0
  BY <1>9 DEF Untouched, Queued
<1>11. \A y \in fresh' : Untouched(y)'
  BY <1>2, <1>10 DEF OnePlace, TeamTypeOK, Untouched, Content
<1>12. ASSUME NEW u \in Threads, Making(u)'
       PROVE  (item[u] \in Items \ fresh /\ Untouched(item[u]))'
  <2>1. item'[u] = item[u] /\ item[u] \in Items \ fresh /\ Untouched(item[u])
    BY <1>12 DEF OnePlace
  <2>2. taken'[item[u]] = 0
    BY <1>2, <1>10, <2>1 DEF Content
  <2>3. ASSUME NEW v \in Threads, NEW k \in 1..Len(Queue'[v])
        PROVE  Queue'[v][k] # item[u]
    <3>1. \A w \in Threads : \A j \in 1..Len(Queue[w]) : Queue[w][j] # item[u]
      BY <2>1 DEF Untouched, Queued
    <3> HIDE DEF Old
    <3> QED
      BY <1>7, <3>1
  <2> QED
    BY <2>1, <2>2, <2>3 DEF Untouched, Queued
<1>13. ASSUME NEW u \in Threads, NEW k \in 1..Len(Queue'[u])
       PROVE  taken'[Queue'[u][k]] = 0
  BY <1>2, <1>8 DEF Content
<1>14. ASSUME NEW u \in Threads, NEW v \in Threads,
              NEW k \in 1..Len(Queue'[u]), NEW l \in 1..Len(Queue'[v]),
              Queue'[u][k] = Queue'[v][l]
       PROVE  u = v /\ k = l
  <2>1. u = v /\ Old(u, k) = Old(v, l)
    BY <1>7, <1>14 DEF OnePlace
  <2> QED
    BY <1>6, <2>1
<1>15. \A u, v \in Threads : (Making(u) /\ Making(v) /\ item[u] = item[v])' => u = v
  BY DEF OnePlace
<1> QED
  BY <1>3, <1>4, <1>6, <1>11, <1>12, <1>13, <1>14, <1>15 DEF OnePlace

-----------------------------------------------------------------------------
(* Every step preserves the invariant.                                      *)

Places == {"idle", "enable", "alloc", "size", "created", "push", "remove", "steal"}

AllocatesAt(t) ==
  /\ pc[t] = "alloc" => dq[t] = NoDeque
  /\ pc[t] = "size" <=> dq[t] = NewDeque
  /\ pc[t] \in {"created", "push"} => Live(dq[t])

(* A step of t leaves the others where they are.                            *)
LEMMA GotoOthers ==
  ASSUME TeamTypeOK, NEW t \in Threads, NEW from \in Places, NEW to \in Places,
         Goto(t, from, to)
  PROVE  /\ pc[t] = from /\ pc'[t] = to
         /\ \A u \in Threads \ {t} : pc'[u] = pc[u]
         /\ pc' \in [Threads -> Places]
  BY DEF Goto, TeamTypeOK, Places

LEMMA DequeKinds ==
  ASSUME TeamOnly, TeamIInv, NEW t \in Threads
  PROVE  /\ dq[t] = NoDeque \/ dq[t] = NewDeque \/ Live(dq[t])
         /\ dq[t].ntasks # 0 => Live(dq[t])
         /\ dq[t].alloc /\ pc[t] # "size" => Live(dq[t])
         /\ ~dq[t].alloc => dq[t] = NoDeque
<1>1. dq[t] = NoDeque \/ dq[t] = NewDeque \/ Live(dq[t])
  BY DEF TeamIInv, TeamTypeOK, Live
<1>2. pc[t] = "size" <=> dq[t] = NewDeque
  BY DEF TeamIInv, Allocates
<1> QED
  BY <1>1, <1>2, DequesDiffer

LEMMA AllocatesOthers ==
  ASSUME Allocates, NEW t \in Threads, AllocatesAt(t)',
         \A u \in Threads \ {t} : pc'[u] = pc[u] /\ dq'[u] = dq[u]
  PROVE  Allocates'
  BY DEF Allocates, AllocatesAt

(* Steps that leave the deques alone and take up no task.                   *)
LEMMA QuietStep ==
  ASSUME TeamOnly, TeamIInv, NEW t \in Threads, NEW from \in Places, NEW to \in Places,
         Goto(t, from, to), UNCHANGED <<dq, fresh, taken, overrun, item>>,
         enabled' \in BOOLEAN,
         at' \in [Threads -> Threads \cup {0}], to = "steal" => at'[t] \in Threads,
         \A u \in Threads \ {t} : at'[u] = at[u],
         Making(t)' => Making(t), AllocatesAt(t)'
  PROVE  TeamIInv' /\ Queue' = Queue
<1>1. /\ pc'[t] = to /\ pc' \in [Threads -> Places]
      /\ \A u \in Threads \ {t} : pc'[u] = pc[u]
  BY GotoOthers DEF TeamIInv
<1>2. Queue' = Queue
  BY DEF Queue
<1>3. TeamTypeOK'
  BY <1>1 DEF TeamIInv, TeamTypeOK, Places
<1>4. Allocates'
  BY <1>1, AllocatesOthers DEF TeamIInv
<1>5. OnePlace'
  BY <1>1, <1>2, SamePlace DEF TeamIInv, Making
<1> QED
  BY <1>2, <1>3, <1>4, <1>5 DEF TeamIInv

LEMMA CreateStep ==
  ASSUME TeamOnly, TeamIInv, NEW t \in Threads, NEW x \in Items, Create(t, x)
  PROVE  TeamIInv' /\ Queue' = Queue /\ taken' = taken
<1>1. PICK to \in {"enable", "created"} :
        Goto(t, "idle", to) /\ (to = "created" => dq[t].alloc)
  BY DEF Create, NeedsEnable, Items, TeamOnly
<1>2. /\ pc[t] = "idle" /\ pc'[t] = to /\ pc' \in [Threads -> Places]
      /\ \A u \in Threads \ {t} : pc'[u] = pc[u]
  BY <1>1, GotoOthers DEF TeamIInv, Places
<1>3. Queue' = Queue
  BY DEF Queue, Create
<1>4. TeamTypeOK'
  BY <1>2 DEF TeamIInv, TeamTypeOK, Places, Create, Content
<1>5. Allocates'
  <2>1. AllocatesAt(t)'
    BY <1>1, <1>2, DequeKinds DEF AllocatesAt, Create, TeamIInv, Allocates
  <2> QED
    BY <1>2, <2>1, AllocatesOthers DEF TeamIInv, Create
<1>6. OnePlace'
  <2>1. /\ x \in fresh /\ fresh' = fresh \ {x} /\ item'[t] = x
        /\ \A u \in Threads \ {t} : item'[u] = item[u]
    BY DEF Create, TeamIInv, TeamTypeOK
  <2>2. \A u \in Threads \ {t} : Making(u)' => Making(u)
    BY <1>2 DEF Making
  <2> QED
    BY <1>3, <2>1, <2>2, CreatePlace DEF TeamIInv, Create
<1> QED
  BY <1>3, <1>4, <1>5, <1>6 DEF TeamIInv, Create

LEMMA EnableStep ==
  ASSUME TeamOnly, TeamIInv, NEW t \in Threads, Enable(t)
  PROVE  TeamIInv' /\ Queue' = Queue /\ taken' = taken
<1>1. PICK to \in {"created", "alloc"} :
        Goto(t, "enable", to) /\ (to = "created" <=> dq[t].alloc = TRUE)
  BY DEF Enable
<1>2. pc[t] = "enable" /\ pc'[t] = to
  BY <1>1, GotoOthers DEF TeamIInv, Places
<1>3. AllocatesAt(t)'
  BY <1>1, <1>2, DequeKinds DEF AllocatesAt, Enable, TeamIInv, Allocates
<1>4. Making(t)
  BY <1>2 DEF Making
<1> QED
  BY <1>1, <1>2, <1>3, <1>4, QuietStep DEF Enable, TeamIInv, TeamTypeOK, Places

(* The steps of the allocation: the deque stays empty.                      *)
LEMMA AllocStep ==
  ASSUME TeamOnly, TeamIInv, NEW t \in Threads, AllocDeque(t) \/ AllocSize(t)
  PROVE  TeamIInv' /\ Queue' = Queue /\ taken' = taken
<1>1. PICK from \in Places, to \in Places, e \in {NewDeque} \cup LiveDeques :
        /\ Goto(t, from, to) /\ dq' = [dq EXCEPT ![t] = e]
        /\ QueueOf(e) = <<>> /\ QueueOf(dq[t]) = <<>>
        /\ \/ from = "alloc" /\ to = "size" /\ e = NewDeque
           \/ from = "size" /\ to = "created" /\ Live(e)
  <2>1. CASE AllocDeque(t)
    <3>1. dq[t] = NoDeque
      BY <2>1 DEF AllocDeque, Goto, TeamIInv, Allocates
    <3>2. Goto(t, "alloc", "size") /\ dq' = [dq EXCEPT ![t] = NewDeque]
      BY <2>1 DEF AllocDeque, Set
    <3> QED
      BY <3>1, <3>2, DequesDiffer DEF Places
  <2>2. CASE AllocSize(t)
    <3>1. dq[t] = NewDeque
      BY <2>2 DEF AllocSize, Goto, TeamIInv, Allocates
    <3>2. Goto(t, "size", "created") /\ dq' = [dq EXCEPT ![t] = Sized(NewDeque)]
      BY <2>2, <3>1 DEF AllocSize, Set
    <3> QED
      BY <3>1, <3>2, DequesDiffer DEF Places, Live
  <2> QED
    BY <2>1, <2>2
<1>2. /\ pc[t] = from /\ pc'[t] = to /\ pc' \in [Threads -> Places]
      /\ \A u \in Threads \ {t} : pc'[u] = pc[u]
  BY <1>1, GotoOthers DEF TeamIInv
<1>3. UNCHANGED <<fresh, taken, overrun, item, at, pass, enabled>>
  BY DEF AllocDeque, AllocSize
<1>4. Queue' = Queue
  <2>1. Queue' = [Queue EXCEPT ![t] = <<>>]
    BY <1>1, QueueExcept DEF TeamIInv
  <2>2. Queue[t] = <<>>
    BY <1>1 DEF Queue
  <2> QED
    BY <2>1, <2>2 DEF Queue
<1>5. dq'[t] = e /\ \A u \in Threads \ {t} : dq'[u] = dq[u]
  BY <1>1 DEF TeamIInv, TeamTypeOK
<1>6. TeamTypeOK'
  <2>1. dq' \in [Threads -> {NoDeque, NewDeque} \cup LiveDeques]
    BY <1>1 DEF TeamIInv, TeamTypeOK
  <2> QED
    BY <1>1, <1>2, <1>3, <2>1 DEF TeamIInv, TeamTypeOK, Places
<1>7. Allocates'
  <2>1. AllocatesAt(t)'
    BY <1>1, <1>2, <1>5, DequesDiffer DEF AllocatesAt
  <2> QED
    BY <1>2, <1>5, <2>1, AllocatesOthers DEF TeamIInv
<1>8. OnePlace'
  <2>1. \A u \in Threads : Making(u)' => Making(u) /\ item'[u] = item[u]
    BY <1>1, <1>2, <1>3 DEF Making
  <2> QED
    BY <1>3, <1>4, <2>1, SamePlace DEF TeamIInv
<1> QED
  BY <1>3, <1>4, <1>6, <1>7, <1>8 DEF TeamIInv

(* TASK_NOT_PUSHED: the task is run at once.                                *)
LEMMA NotPushedStep ==
  ASSUME TeamOnly, TeamIInv, NEW t \in Threads, NEW from \in {"created", "push"},
         Goto(t, from, "idle"), RunNow(t), UNCHANGED <<dq, fresh, overrun, at, enabled>>
  PROVE  /\ TeamIInv' /\ Queue' = Queue /\ item[t] \in Items /\ Untouched(item[t])
         /\ taken' = [taken EXCEPT ![item[t]] = @ + 1]
<1>1. /\ pc[t] = from /\ pc'[t] = "idle" /\ pc' \in [Threads -> Places]
      /\ \A u \in Threads \ {t} : pc'[u] = pc[u]
  BY GotoOthers DEF TeamIInv, Places
<1>2. Queue' = Queue
  BY DEF Queue
<1>3. /\ taken' = [taken EXCEPT ![item[t]] = @ + 1] /\ item' = [item EXCEPT ![t] = Nil]
  BY DEF RunNow, Run
<1>4. Making(t) /\ ~Making(t)'
  BY <1>1 DEF Making
<1>5. \A u \in Threads : Making(u)' => Making(u) /\ item'[u] = item[u]
  BY <1>1, <1>3, <1>4 DEF Making, TeamIInv, TeamTypeOK
<1>6. OnePlace' /\ taken' \in [Content -> 0..1]
  BY <1>2, <1>3, <1>4, <1>5, RunNowPlace DEF TeamIInv
<1>7. TeamTypeOK'
  BY <1>1, <1>3, <1>6 DEF TeamIInv, TeamTypeOK, Places, Content
<1>8. Allocates'
  <2>1. AllocatesAt(t)'
    BY <1>1, DequesDiffer DEF AllocatesAt, TeamIInv, Allocates
  <2> QED
    BY <1>1, <2>1, AllocatesOthers DEF TeamIInv
<1>9. item[t] \in Items /\ Untouched(item[t])
  BY <1>4 DEF TeamIInv, OnePlace
<1> QED
  BY <1>2, <1>3, <1>6, <1>7, <1>8, <1>9 DEF TeamIInv

LEMMA PushCheckStep ==
  ASSUME TeamOnly, TeamIInv, NEW t \in Threads, PushCheck(t), ~Full(dq[t])
  PROVE  TeamIInv' /\ Queue' = Queue /\ taken' = taken
<1>1. Goto(t, "created", "push")
  BY DEF PushCheck
<1>2. pc[t] = "created" /\ pc'[t] = "push"
  BY <1>1, GotoOthers DEF TeamIInv, Places
<1>3. AllocatesAt(t)' /\ Making(t)
  BY <1>2, DequesDiffer DEF AllocatesAt, PushCheck, TeamIInv, Allocates, Making
<1> QED
  BY <1>1, <1>3, QuietStep DEF PushCheck, TeamIInv, TeamTypeOK, Places

LEMMA PushStep ==
  ASSUME TeamOnly, TeamIInv, NEW t \in Threads, Push(t), ~Full(dq[t])
  PROVE  /\ TeamIInv' /\ taken' = taken /\ item[t] \in Items /\ Untouched(item[t])
         /\ Queue' = [Queue EXCEPT ![t] = Append(Queue[t], item[t])]
<1>1. /\ Goto(t, "push", "idle") /\ dq' = [dq EXCEPT ![t] = Insert(dq[t], item[t])]
      /\ item' = [item EXCEPT ![t] = Nil]
      /\ overrun' = (overrun \/ dq[t].tail \notin DOMAIN dq[t].slot)
      /\ UNCHANGED <<taken, fresh, at, pass, enabled>>
  BY DEF Push, Set
<1>2. /\ pc[t] = "push" /\ pc'[t] = "idle" /\ pc' \in [Threads -> Places]
      /\ \A u \in Threads \ {t} : pc'[u] = pc[u]
  BY <1>1, GotoOthers DEF TeamIInv, Places
<1>3. Making(t) /\ ~Making(t)'
  BY <1>2 DEF Making
<1>4. item[t] \in Items /\ Untouched(item[t])
  BY <1>3 DEF TeamIInv, OnePlace
<1>5. Live(dq[t])
  BY <1>2 DEF TeamIInv, Allocates
<1>6. /\ dq[t].tail \in DOMAIN dq[t].slot /\ Live(Insert(dq[t], item[t]))
      /\ QueueOf(Insert(dq[t], item[t])) = Append(QueueOf(dq[t]), item[t])
  BY <1>4, <1>5, LiveInsert
<1>7. Queue' = [Queue EXCEPT ![t] = Append(Queue[t], item[t])]
  <2>1. Queue[t] = QueueOf(dq[t])
    BY DEF Queue
  <2>2. Queue' = [Queue EXCEPT ![t] = QueueOf(Insert(dq[t], item[t]))]
    BY <1>1, QueueExcept DEF TeamIInv
  <2> QED
    BY <1>6, <2>1, <2>2
<1>8. \A u \in Threads : Making(u)' => Making(u) /\ item'[u] = item[u]
  BY <1>1, <1>2, <1>3 DEF Making, TeamIInv, TeamTypeOK
<1>9. OnePlace'
  BY <1>1, <1>3, <1>7, <1>8, PutPlace DEF TeamIInv
<1>10. dq'[t] = Insert(dq[t], item[t]) /\ \A u \in Threads \ {t} : dq'[u] = dq[u]
  BY <1>1 DEF TeamIInv, TeamTypeOK
<1>11. TeamTypeOK'
  <2>1. dq' \in [Threads -> {NoDeque, NewDeque} \cup LiveDeques]
    BY <1>1, <1>6 DEF TeamIInv, TeamTypeOK, Live
  <2> QED
    BY <1>1, <1>2, <2>1 DEF TeamIInv, TeamTypeOK, Places, Content
<1>12. Allocates'
  <2>1. AllocatesAt(t)'
    BY <1>2, <1>6, <1>10, DequesDiffer DEF AllocatesAt
  <2> QED
    BY <1>2, <1>10, <2>1, AllocatesOthers DEF TeamIInv
<1> QED
  BY <1>1, <1>4, <1>6, <1>7, <1>9, <1>11, <1>12 DEF TeamIInv

(* The task at p of the deque of v is run, those behind it move up by off.  *)
TakesAt(v, rest, p, off) ==
  /\ off \in {0, 1} /\ p \in 1..Len(Queue[v])
  /\ p = IF off = 0 THEN Len(Queue[v]) ELSE 1
  /\ rest \in Seq(Content) /\ Len(rest) = Len(Queue[v]) - 1
  /\ \A k \in 1..Len(rest) : rest[k] = Queue[v][k + off]
  /\ Run(Queue[v][p])

(* A task is taken from the deque of v, at its tail or at its head.         *)
LEMMA TakeStep ==
  ASSUME TeamOnly, TeamIInv, NEW t \in Threads, NEW v \in Threads,
         Goto(t, "remove", "idle") \/ Goto(t, "steal", "idle"),
         NEW e, Live(e), Live(dq[v]), Set(v, e),
         NEW p, NEW off, TakesAt(v, QueueOf(e), p, off),
         UNCHANGED <<fresh, overrun, item, enabled>>,
         at' \in [Threads -> Threads \cup {0}], \A u \in Threads \ {t} : at'[u] = at[u]
  PROVE  TeamIInv' /\ Queue' = [Queue EXCEPT ![v] = QueueOf(e)]
<1>1. /\ pc[t] \in {"remove", "steal"} /\ pc'[t] = "idle" /\ pc' \in [Threads -> Places]
      /\ \A u \in Threads \ {t} : pc'[u] = pc[u]
  BY GotoOthers DEF TeamIInv, Places
<1>2. Queue' = [Queue EXCEPT ![v] = QueueOf(e)]
  BY QueueExcept DEF TeamIInv, Set
<1>3. \A u \in Threads : Making(u)' => Making(u) /\ item'[u] = item[u]
  BY <1>1 DEF Making
<1>4. OnePlace' /\ taken' \in [Content -> 0..1]
  <2>1. PICK rest \in Seq(Content) : rest = QueueOf(e)
    BY DEF TakesAt
  <2> QED
    BY <1>2, <1>3, <2>1, TakePlace DEF TeamIInv, TakesAt, Run
<1>5. /\ dq' \in [Threads -> {NoDeque, NewDeque} \cup LiveDeques]
      /\ dq'[v] = e /\ \A u \in Threads \ {v} : dq'[u] = dq[u]
  BY DEF TeamIInv, TeamTypeOK, Live, Set
<1>6. TeamTypeOK'
  BY <1>1, <1>4, <1>5 DEF TeamIInv, TeamTypeOK, Places
<1>7. Allocates'
  <2>1. ASSUME NEW u \in Threads
        PROVE  AllocatesAt(u)'
    <3>1. CASE u = v
      <4>1. pc[v] # "alloc" /\ pc[v] # "size"
        BY DequesDiffer DEF TeamIInv, Allocates
      <4>2. pc'[v] # "alloc" /\ pc'[v] # "size"
        BY <1>1, <4>1
      <4> QED
        BY <1>5, <3>1, <4>2, DequesDiffer DEF AllocatesAt
    <3>2. CASE u # v
      BY <1>1, <1>5, <3>2, DequesDiffer DEF AllocatesAt, TeamIInv, Allocates
    <3> QED
      BY <3>1, <3>2
  <2> QED
    BY <2>1 DEF Allocates, AllocatesAt
<1> QED
  BY <1>2, <1>4, <1>6, <1>7 DEF TeamIInv

LEMMA RemoveStep ==
  ASSUME TeamOnly, TeamIInv, NEW t \in Threads, Remove(t), dq[t].ntasks # 0
  PROVE  /\ TeamIInv' /\ Queue[t] \in Seq(Items) /\ Queue[t] # <<>>
         /\ Queue' = [Queue EXCEPT ![t] = SubSeq(Queue[t], 1, Len(Queue[t]) - 1)]
         /\ taken' = [taken EXCEPT ![Queue[t][Len(Queue[t])]] = @ + 1]
<1> DEFINE d == dq[t]
           e == [d EXCEPT !.tail = Last(d), !.ntasks = @ - 1]
           q == Queue[t]
           n == Len(q)
<1>1. /\ Goto(t, "remove", "idle") /\ dq' = [dq EXCEPT ![t] = e]
      /\ taken' = [taken EXCEPT ![d.slot[Last(d)]] = @ + 1]
      /\ UNCHANGED <<fresh, overrun, item, at, pass, enabled>>
  BY DEF Remove, Set, Run
<1>2. Live(d) /\ q = QueueOf(d) /\ q \in Seq(Items)
  BY DequeKinds DEF Queue, TeamIInv, OnePlace
<1>3. n = d.ntasks /\ n \in Nat \ {0} /\ q \in Seq(Content)
  BY <1>2, LiveQueue
<1>4. /\ Live(e) /\ QueueOf(e) = SubSeq(q, 1, n - 1)
      /\ d.slot[Last(d)] = q[n]
  BY <1>2, <1>3, LiveRemove
<1>5. PICK rest \in Seq(Content) : rest = QueueOf(e)
  BY <1>4, LiveQueue
<1>6. /\ Len(rest) = n - 1 /\ \A k \in 1..Len(rest) : rest[k] = q[k + 0]
  <2> HIDE DEF q, e
  <2> QED
    BY <1>3, <1>4, <1>5
<1>7. taken' = [taken EXCEPT ![q[n]] = @ + 1]
  BY <1>1, <1>4
<1>8. TeamIInv' /\ Queue' = [Queue EXCEPT ![t] = rest]
  <2>1. PICK ee : ee = e
    OBVIOUS
  <2> HIDE DEF e
  <2>5. /\ Live(ee) /\ Live(dq[t]) /\ Set(t, ee)
        /\ rest = QueueOf(ee)
    BY <1>1, <1>2, <1>4, <1>5, <2>1 DEF Set
  <2>6. TakesAt(t, QueueOf(ee), n, 0)
    BY <1>3, <1>5, <1>6, <1>7, <2>5 DEF TakesAt, Run
  <2>7. /\ UNCHANGED <<fresh, overrun, item, enabled>>
        /\ at' \in [Threads -> Threads \cup {0}] /\ \A u \in Threads \ {t} : at'[u] = at[u]
    BY <1>1 DEF TeamIInv, TeamTypeOK
  <2> QED
    BY <1>1, <1>5, <2>5, <2>6, <2>7, TakeStep
<1> HIDE DEF e
<1> QED
  BY <1>2, <1>3, <1>4, <1>5, <1>7, <1>8

LEMMA StealStep ==
  ASSUME TeamOnly, TeamIInv, NEW t \in Threads, Steal(t), dq[at[t]].ntasks # 0
  PROVE  \E v \in Threads :
           /\ TeamIInv' /\ Queue[v] \in Seq(Items) /\ Queue[v] # <<>>
           /\ Queue' = [Queue EXCEPT ![v] = Tail(Queue[v])]
           /\ taken' = [taken EXCEPT ![Head(Queue[v])] = @ + 1]
<1>1. PICK v \in Threads : v = at[t]
  BY DEF Steal, Goto, TeamIInv, TeamTypeOK
<1> DEFINE d == dq[v]
           e == [d EXCEPT !.head = Wrap(d, @ + 1), !.ntasks = @ - 1]
           q == Queue[v]
           n == Len(q)
<1>2. /\ Goto(t, "steal", "idle") /\ dq' = [dq EXCEPT ![v] = e]
      /\ taken' = [taken EXCEPT ![d.slot[d.head]] = @ + 1]
      /\ at' = [at EXCEPT ![t] = 0]
      /\ UNCHANGED <<fresh, overrun, item, pass, enabled>>
  BY <1>1 DEF Steal, Set, Run
<1>3. Live(d) /\ q = QueueOf(d) /\ q \in Seq(Items)
  BY <1>1, DequeKinds DEF Queue, TeamIInv, OnePlace
<1>4. n = d.ntasks /\ n \in Nat \ {0} /\ q \in Seq(Content)
  BY <1>1, <1>3, LiveQueue
<1>5. Live(e) /\ QueueOf(e) = Tail(q) /\ d.slot[d.head] = q[1]
  <2>1. d.ntasks # 0
    BY <1>1
  <2> QED
    BY <1>3, <2>1, LiveSteal
<1>6. PICK rest \in Seq(Content) : rest = QueueOf(e)
  BY <1>5, LiveQueue
<1>7. Len(rest) = n - 1 /\ \A k \in 1..Len(rest) : rest[k] = q[k + 1]
  <2> HIDE DEF q, e
  <2> QED
    BY <1>4, <1>5, <1>6
<1>8. taken' = [taken EXCEPT ![q[1]] = @ + 1]
  BY <1>2, <1>5
<1>9. /\ at' \in [Threads -> Threads \cup {0}]
      /\ \A u \in Threads \ {t} : at'[u] = at[u]
  BY <1>2 DEF TeamIInv, TeamTypeOK
<1>10. TeamIInv' /\ Queue' = [Queue EXCEPT ![v] = rest]
  <2>1. PICK ee : ee = e
    OBVIOUS
  <2> HIDE DEF e
  <2>5. /\ Live(ee) /\ Live(dq[v]) /\ Set(v, ee)
        /\ rest = QueueOf(ee)
    BY <1>2, <1>3, <1>5, <1>6, <2>1 DEF Set
  <2>6. TakesAt(v, QueueOf(ee), 1, 1)
    BY <1>4, <1>6, <1>7, <1>8, <2>5 DEF TakesAt, Run
  <2>7. UNCHANGED <<fresh, overrun, item, enabled>>
    BY <1>2
  <2> QED
    BY <1>2, <1>6, <1>9, <2>5, <2>6, <2>7, TakeStep
<1>11. Head(q) = q[1] /\ q # <<>>
  BY <1>3, <1>4
<1> QED
  BY <1>3, <1>5, <1>6, <1>8, <1>10, <1>11

-----------------------------------------------------------------------------
(* Every step is one of the queues of WorkQueues, or leaves them alone.     *)

Counts == [x \in Items |-> taken[x]]

LEMMA CountsRun ==
  ASSUME TeamOnly, TeamTypeOK, NEW x \in Items, Run(x)
  PROVE  Counts' = [Counts EXCEPT ![x] = @ + 1]
<1>1. \A y \in Items : taken'[y] = IF y = x THEN taken[y] + 1 ELSE taken[y]
  BY DEF Run, TeamTypeOK, Content
<1> QED
  BY <1>1 DEF Counts

LEMMA StepTeam ==
  ASSUME TeamOnly, TeamIInv, [Next]_vars
  PROVE  TeamIInv' /\ [Abstract!Next]_(Abstract!vars)
<1> USE DEF Abstract!vars
<1>1. ASSUME Queue' = Queue, taken' = taken
      PROVE  UNCHANGED Abstract!vars
  BY <1>1
<1>2. CASE UNCHANGED vars
  <2>1. Queue' = Queue /\ taken' = taken
    BY <1>2 DEF vars, Queue
  <2>2. TeamIInv'
    BY <1>2, <2>1 DEF vars, TeamIInv, TeamTypeOK, Allocates, OnePlace, Making, Untouched, Queued
  <2> QED
    BY <1>1, <2>1, <2>2
<1>3. ASSUME NEW t \in Threads, NEW x \in Items, Create(t, x)
      PROVE  TeamIInv' /\ UNCHANGED Abstract!vars
  BY <1>1, <1>3, CreateStep
<1>4. ASSUME NEW t \in Threads, Enable(t)
      PROVE  TeamIInv' /\ UNCHANGED Abstract!vars
  BY <1>1, <1>4, EnableStep
<1>5. ASSUME NEW t \in Threads, AllocDeque(t) \/ AllocSize(t)
      PROVE  TeamIInv' /\ UNCHANGED Abstract!vars
  BY <1>1, <1>5, AllocStep
<1>6. ASSUME NEW t \in Threads, StartProxy(t)
      PROVE  FALSE
  BY <1>6 DEF StartProxy, TeamOnly
<1>7. ASSUME NEW t \in Threads, PushCheck(t) \/ Push(t), Full(dq[t])
      PROVE  TeamIInv' /\ Abstract!Next
  <2>1. PICK from \in {"created", "push"} : Goto(t, from, "idle")
    BY <1>7 DEF PushCheck, Push
  <2>2. RunNow(t) /\ UNCHANGED <<dq, fresh, overrun, at, enabled>>
    BY <1>7 DEF PushCheck, Push
  <2>3. /\ TeamIInv' /\ Queue' = Queue /\ item[t] \in Items /\ Untouched(item[t])
        /\ Run(item[t])
    BY <2>1, <2>2, NotPushedStep DEF Run
  <2>4. PICK x \in Items : x = item[t]
    BY <2>3
  <2>5. Counts' = [Counts EXCEPT ![x] = @ + 1] /\ Counts[x] = 0
    BY <2>3, <2>4, CountsRun DEF TeamIInv, Untouched, Counts
  <2>6. Counts' = [Counts EXCEPT ![x] = 1]
    BY <2>5
  <2>7. Abstract!RunNow(x)
    BY <2>3, <2>4, <2>5, <2>6 DEF Abstract!RunNow, Abstract!Queued, Untouched, Queued, Counts
  <2> QED
    BY <2>3, <2>7 DEF Abstract!Next
<1>8. ASSUME NEW t \in Threads, PushCheck(t), ~Full(dq[t])
      PROVE  TeamIInv' /\ UNCHANGED Abstract!vars
  BY <1>1, <1>8, PushCheckStep
<1>9. ASSUME NEW t \in Threads, Push(t), ~Full(dq[t])
      PROVE  TeamIInv' /\ Abstract!Next
  <2>1. /\ TeamIInv' /\ taken' = taken /\ item[t] \in Items /\ Untouched(item[t])
        /\ Queue' = [Queue EXCEPT ![t] = Append(Queue[t], item[t])]
    BY <1>9, PushStep
  <2>2. Abstract!Put(t, item[t])
    BY <2>1 DEF Abstract!Put, Abstract!Queued, Untouched, Queued
  <2> QED
    BY <2>1, <2>2 DEF Abstract!Next
<1>10. ASSUME NEW t \in Threads,
              \/ RemoveCheck(t) \/ \E v \in Threads : StealCheck(t, v)
              \/ Remove(t) /\ dq[t].ntasks = 0
              \/ Steal(t) /\ dq[at[t]].ntasks = 0
       PROVE  TeamIInv' /\ UNCHANGED Abstract!vars
  <2>1. PICK from \in {"idle", "remove", "steal"}, to \in {"idle", "remove", "steal"} :
          /\ Goto(t, from, to)
          /\ at' = at \/ \E v \in Threads : at' = [at EXCEPT ![t] = v]
                    \/ at' = [at EXCEPT ![t] = 0]
          /\ to = "steal" => at'[t] \in Threads
    BY <1>10 DEF RemoveCheck, StealCheck, Remove, Steal, TeamIInv, TeamTypeOK
  <2>2. UNCHANGED <<dq, fresh, taken, overrun, item, enabled>>
    BY <1>10 DEF RemoveCheck, StealCheck, Remove, Steal
  <2>3. /\ at' \in [Threads -> Threads \cup {0}]
        /\ \A u \in Threads \ {t} : at'[u] = at[u]
    BY <2>1 DEF TeamIInv, TeamTypeOK
  <2>4. pc[t] = from /\ pc'[t] = to
    BY <2>1, GotoOthers DEF TeamIInv, Places
  <2>5. AllocatesAt(t)' /\ ~Making(t)'
    BY <2>2, <2>4 DEF AllocatesAt, TeamIInv, Allocates, Making
  <2>6. TeamIInv' /\ Queue' = Queue
    BY <2>1, <2>2, <2>3, <2>5, QuietStep DEF TeamIInv, TeamTypeOK, Places
  <2> QED
    BY <1>1, <2>2, <2>6
<1>11. ASSUME NEW t \in Threads, Remove(t), dq[t].ntasks # 0
       PROVE  TeamIInv' /\ Abstract!Next
  <2>1. /\ TeamIInv' /\ Queue[t] \in Seq(Items) /\ Queue[t] # <<>>
        /\ Queue' = [Queue EXCEPT ![t] = SubSeq(Queue[t], 1, Len(Queue[t]) - 1)]
        /\ Run(Queue[t][Len(Queue[t])])
    BY <1>11, RemoveStep DEF Run
  <2>2. Queue[t][Len(Queue[t])] \in Items
    BY <2>1
  <2>3. Counts' = [Counts EXCEPT ![Queue[t][Len(Queue[t])]] = @ + 1]
    BY <2>1, <2>2, CountsRun DEF TeamIInv
  <2>4. Abstract!TakeBack(t)
    BY <2>1, <2>3 DEF Abstract!TakeBack, Abstract!Take, Counts
  <2> QED
    BY <2>1, <2>4 DEF Abstract!Next
<1>12. ASSUME NEW t \in Threads, Steal(t), dq[at[t]].ntasks # 0
       PROVE  TeamIInv' /\ Abstract!Next
  <2>1. PICK v \in Threads :
          /\ TeamIInv' /\ Queue[v] \in Seq(Items) /\ Queue[v] # <<>>
          /\ Queue' = [Queue EXCEPT ![v] = Tail(Queue[v])]
          /\ Run(Head(Queue[v]))
    BY <1>12, StealStep DEF Run
  <2>2. Head(Queue[v]) \in Items
    BY <2>1
  <2>3. Counts' = [Counts EXCEPT ![Head(Queue[v])] = @ + 1]
    BY <2>1, <2>2, CountsRun DEF TeamIInv
  <2>4. Abstract!TakeFront(v)
    BY <2>1, <2>3 DEF Abstract!TakeFront, Abstract!Take, Counts
  <2> QED
    BY <2>1, <2>4 DEF Abstract!Next
<1>13. CASE Next
  <2>1. CASE \E p \in Proxies : Giving(p)
    BY <2>1 DEF TeamOnly
  <2>2. ASSUME NEW t \in Threads, Pushing(t) \/ Taking(t)
        PROVE  TeamIInv' /\ [Abstract!Next]_(Abstract!vars)
    <3>1. CASE Enable(t) \/ AllocDeque(t) \/ AllocSize(t) \/ StartProxy(t)
      BY <1>4, <1>5, <1>6, <3>1
    <3>2. CASE PushCheck(t) \/ Push(t)
      BY <1>7, <1>8, <1>9, <3>2
    <3>3. CASE RemoveCheck(t) \/ \E v \in Threads : StealCheck(t, v)
      BY <1>10, <3>3
    <3>4. CASE Remove(t)
      <4>1. CASE dq[t].ntasks = 0
        BY <1>10, <3>4, <4>1
      <4>2. CASE dq[t].ntasks # 0
        BY <1>11, <3>4, <4>2
      <4> QED
        BY <4>1, <4>2
    <3>5. CASE Steal(t)
      BY <1>10, <1>12, <3>5
    <3> QED
      BY <2>2, <3>1, <3>2, <3>3, <3>4, <3>5 DEF Pushing, Taking
  <2> QED
    BY <1>3, <1>13, <2>1, <2>2 DEF Next
<1> QED
  BY <1>2, <1>13

LEMMA InitTeam ==
  ASSUME TeamOnly, Init
  PROVE  Abstract!Init
<1>1. \A t \in Threads : QueueOf(dq[t]) = <<>>
  BY DequesDiffer DEF Init
<1> QED
  BY <1>1 DEF Abstract!Init, Init, Queue

-----------------------------------------------------------------------------
(***************************************************************************)
(* The invariant holds in every state of a team without givers.             *)
(***************************************************************************)
THEOREM TeamInvariance ==
  ASSUME TeamOnly
  PROVE  Spec => []TeamIInv
<1>1. Init => TeamIInv
  BY InitTeamIInv
<1>2. TeamIInv /\ [Next]_vars => TeamIInv'
  BY StepTeam
<1> QED
  BY <1>1, <1>2, PTL DEF Spec

(***************************************************************************)
(* No task is written outside of a buffer, although the owner looked for    *)
(* room before it took td_deque_lock; no task is started twice; and tail,   *)
(* head and td_deque_ntasks agree on the occupied slots.                    *)
(***************************************************************************)
THEOREM DequesStaySound ==
  ASSUME TeamOnly
  PROVE  Spec => [](SpaceInDeque /\ TakenOnce /\ RingConsistent)
<1>1. ASSUME TeamIInv
      PROVE  SpaceInDeque /\ TakenOnce /\ RingConsistent
  <2>1. SpaceInDeque
    BY <1>1 DEF TeamIInv, SpaceInDeque
  <2>2. TakenOnce
    BY <1>1 DEF TeamIInv, TeamTypeOK, OnePlace, TakenOnce, Content
  <2>3. ASSUME NEW t \in Threads, dq[t].size > 0
        PROVE  LET d == dq[t] IN
               /\ d.ntasks <= d.size
               /\ d.tail = Wrap(d, d.head + d.ntasks)
               /\ \A j \in Occupied(t) : d.slot[j] \in Items /\ taken[d.slot[j]] = 0
               /\ \A j, k \in Occupied(t) : d.slot[j] = d.slot[k] => j = k
    <3> DEFINE d == dq[t]
    <3>1. Live(d)
      BY <1>1, <2>3, DequeKinds, DequesDiffer
    <3>2. PICK slot \in [Index -> Content], head \in Index, n \in 0..InitialSize :
            d = Filled(slot, head, n)
      BY <3>1 DEF Live, LiveDeques
    <3>3. /\ d.ntasks = n /\ d.size = InitialSize /\ d.slot = slot /\ d.head = head
          /\ d.tail = (head + n) % InitialSize
      BY <3>2 DEF Filled
    <3>4. /\ Len(Queue[t]) = n
          /\ \A k \in 1..n : Queue[t][k] = slot[(head + k - 1) % InitialSize]
      BY <3>2, FilledQueue DEF Queue
    <3>5. ASSUME NEW j \in Occupied(t)
          PROVE  \E k \in 1..n : j = (head + k - 1) % InitialSize /\ slot[j] = Queue[t][k]
      <4>1. PICK i \in 0..n - 1 : j = (head + i) % InitialSize
        BY <3>3 DEF Occupied, Wrap, TeamOnly
      <4>2. i + 1 \in 1..n /\ head + (i + 1) - 1 = head + i
        BY <4>1 DEF Index, TeamOnly
      <4> QED
        BY <3>4, <4>1, <4>2
    <3>6. \A j \in Occupied(t) : slot[j] \in Items /\ taken[slot[j]] = 0
      BY <1>1, <3>4, <3>5 DEF TeamIInv, OnePlace
    <3>7. ASSUME NEW j \in Occupied(t), NEW k \in Occupied(t), slot[j] = slot[k]
          PROVE  j = k
      <4>1. PICK a \in 1..n : j = (head + a - 1) % InitialSize /\ slot[j] = Queue[t][a]
        BY <3>5
      <4>2. PICK b \in 1..n : k = (head + b - 1) % InitialSize /\ slot[k] = Queue[t][b]
        BY <3>5
      <4>3. a = b
        <5>1. \A i, l \in 1..Len(Queue[t]) : Queue[t][i] = Queue[t][l] => i = l
          BY <1>1 DEF TeamIInv, OnePlace
        <5>2. Queue[t][a] = Queue[t][b] /\ a \in 1..Len(Queue[t]) /\ b \in 1..Len(Queue[t])
          BY <3>4, <3>7, <4>1, <4>2
        <5> QED
          BY <5>1, <5>2
      <4> QED
        BY <4>1, <4>2, <4>3
    <3> QED
      BY <3>3, <3>6, <3>7 DEF Wrap, TeamOnly
  <2> QED
    BY <2>1, <2>2, <2>3 DEF RingConsistent
<1> QED
  BY <1>1, TeamInvariance, PTL

(***************************************************************************)
(* The deques implement WorkQueues: the owner at the back and thieves at    *)
(* the front of the same queues, with the stale checks and the allocation   *)
(* as stuttering steps.                                                     *)
(***************************************************************************)
THEOREM DequesAreQueues ==
  ASSUME TeamOnly
  PROVE  Spec => ImplementsWorkQueues
<1>1. Init => Abstract!Init
  BY InitTeam
<1>2. TeamIInv /\ [Next]_vars => [Abstract!Next]_(Abstract!vars)
  BY StepTeam
<1> QED
  BY <1>1, <1>2, TeamInvariance, PTL DEF Spec, ImplementsWorkQueues, Abstract!Spec

(***************************************************************************)
(* So are the deques of the first team of MCWaiting: the steps of sleepers  *)
(* and of the second team leave them alone.                                 *)
(***************************************************************************)
THEOREM FirstTeamHasQueues ==
  ASSUME TeamOnly
  PROVE  WaitingSpec => ImplementsWorkQueues
<1>1. Spec => ImplementsWorkQueues
  BY DequesAreQueues
<1>2. WaitingInit => Init
  BY DEF WaitingInit
<1>3. [WaitingNext]_all => [Next]_vars
  BY DEF WaitingNext, Sleeps, First, Second, all, vars
<1> QED
  BY <1>1, <1>2, <1>3, PTL DEF WaitingSpec, WaitingSafety, Spec

-----------------------------------------------------------------------------
(* The second team is given proxies, so that its deques are doubled, at     *)
(* times when they are not full any more.  They are then no queues, but     *)
(* whole: tail is within a buffer of the size that the deque has.           *)
Ring(slot, size, head, tail, n) ==
  [alloc |-> TRUE, slot |-> slot, size |-> size, head |-> head, tail |-> tail, ntasks |-> n]

Whole(d) ==
  \E size \in Nat \ {0} : \E slot : \E n \in Nat : \E head, tail \in 0..size-1 :
    d = Ring(slot, size, head, tail, n) /\ DOMAIN slot = 0..size-1

SecondInv ==
  /\ ~b_overrun
  /\ DOMAIN b_dq = Threads
  /\ \A t \in Threads : Whole(b_dq[t])
  /\ DOMAIN b_pc = Busy!Actors
  /\ \A t \in Threads : b_pc[t] \notin {"alloc", "size"}
  /\ b_at \in [Busy!Actors -> Threads]

(* A team, whose second one has proxies and sizes, none of them a thread.   *)
SecondOnly ==
  /\ N \in Nat \ {0} /\ SmallSize \in Nat \ {0}
  /\ Given \cap Threads = {}

LEMMA WholeNew ==
  ASSUME SmallSize \in Nat \ {0}
  PROVE  Whole(Busy!Sized(Busy!NewDeque))
<1>1. PICK slot : slot = Busy!Buffer(SmallSize)
  OBVIOUS
<1>2. Busy!Sized(Busy!NewDeque) = Ring(slot, SmallSize, 0, 0, 0)
  <2>1. Busy!NewDeque = Ring(slot, 0, 0, 0, 0)
    <3>1. Busy!NewDeque = [Busy!NoDeque EXCEPT !.alloc = TRUE, !.slot = slot]
      BY <1>1, Zenon DEF Busy!NewDeque
    <3> QED
      BY <3>1 DEF Busy!NoDeque, Ring
  <2>2. Busy!Sized(Busy!NewDeque) = [Ring(slot, 0, 0, 0, 0) EXCEPT !.size = SmallSize]
    BY <2>1, Zenon DEF Busy!Sized
  <2> QED
    BY <2>2 DEF Ring
<1>3. DOMAIN slot = 0..SmallSize-1 /\ 0 \in 0..SmallSize-1
  BY <1>1 DEF Busy!Buffer
<1> QED
  BY <1>2, <1>3 DEF Whole

LEMMA WholeInsert ==
  ASSUME NEW d, Whole(d), NEW x
  PROVE  Whole(Busy!Insert(d, x)) /\ d.tail \in DOMAIN d.slot
<1>0. PICK size \in Nat \ {0} : \E slot : \E n \in Nat : \E head, tail \in 0..size-1 :
         d = Ring(slot, size, head, tail, n) /\ DOMAIN slot = 0..size-1
  BY DEF Whole
<1>1. PICK old, n, front, back :
        /\ n \in Nat /\ front \in 0..size-1 /\ back \in 0..size-1
        /\ d = Ring(old, size, front, back, n) /\ DOMAIN old = 0..size-1
  BY <1>0
<1>2. /\ d.alloc = TRUE /\ d.slot = old /\ d.size = size /\ d.head = front
      /\ d.tail = back /\ d.ntasks = n
  BY <1>1 DEF Ring
<1>3. PICK slot : slot = [old EXCEPT ![back] = x]
  OBVIOUS
<1>4. PICK tail : tail = (back + 1) % size
  OBVIOUS
<1>5. tail \in 0..size-1 /\ DOMAIN slot = 0..size-1
  BY <1>1, <1>3, <1>4
<1>6. Busy!Insert(d, x) = Ring(slot, size, front, tail, n + 1)
  <2>1. Busy!Insert(d, x) = [d EXCEPT !.slot = slot, !.tail = tail, !.ntasks = n + 1]
    BY <1>1, <1>2, <1>3, <1>4 DEF Busy!Insert, Busy!Wrap
  <2> QED
    BY <1>1, <2>1 DEF Ring
<1> QED
  BY <1>1, <1>2, <1>5, <1>6 DEF Whole

LEMMA WholeRealloc ==
  ASSUME NEW d, Whole(d)
  PROVE  Whole(Busy!Realloc(d))
<1>0. PICK size \in Nat \ {0} : \E slot : \E n \in Nat : \E head, tail \in 0..size-1 :
         d = Ring(slot, size, head, tail, n) /\ DOMAIN slot = 0..size-1
  BY DEF Whole
<1>1. PICK old, n, front, back :
        /\ n \in Nat /\ front \in 0..size-1 /\ back \in 0..size-1
        /\ d = Ring(old, size, front, back, n) /\ DOMAIN old = 0..size-1
  BY <1>0
<1>2. /\ d.alloc = TRUE /\ d.slot = old /\ d.size = size /\ d.head = front
      /\ d.tail = back /\ d.ntasks = n
  BY <1>1 DEF Ring
<1>3. PICK slot : slot = [j \in 0..2 * size - 1 |->
                            IF j < size THEN old[Busy!Wrap(d, front + j)] ELSE Nil]
  OBVIOUS
<1>4. Busy!Realloc(d) = Ring(slot, 2 * size, 0, size, n)
  <2>1. Busy!Realloc(d) = [d EXCEPT !.slot = slot, !.head = 0, !.tail = size, !.size = 2 * size]
    BY <1>2, <1>3 DEF Busy!Realloc
  <2> QED
    BY <1>1, <2>1 DEF Ring
<1>5. PICK twice \in Nat \ {0} : twice = 2 * size
  OBVIOUS
<1>6. size \in 0..twice - 1 /\ 0 \in 0..twice - 1 /\ DOMAIN slot = 0..twice - 1
  BY <1>3, <1>5
<1> QED
  BY <1>1, <1>4, <1>5, <1>6 DEF Whole

LEMMA WholeTaken ==
  ASSUME NEW d, Whole(d), d.ntasks # 0
  PROVE  /\ Whole([d EXCEPT !.tail = Busy!Last(d), !.ntasks = @ - 1])
         /\ Whole([d EXCEPT !.head = Busy!Wrap(d, @ + 1), !.ntasks = @ - 1])
<1>0. PICK size \in Nat \ {0} : \E slot : \E n \in Nat : \E head, tail \in 0..size-1 :
         d = Ring(slot, size, head, tail, n) /\ DOMAIN slot = 0..size-1
  BY DEF Whole
<1>1. PICK old, n, front, back :
        /\ n \in Nat /\ front \in 0..size-1 /\ back \in 0..size-1
        /\ d = Ring(old, size, front, back, n) /\ DOMAIN old = 0..size-1
  BY <1>0
<1>2. /\ d.alloc = TRUE /\ d.slot = old /\ d.size = size /\ d.head = front
      /\ d.tail = back /\ d.ntasks = n
  BY <1>1 DEF Ring
<1>3. PICK tail : tail = Busy!Last(d)
  OBVIOUS
<1>4. PICK head : head = Busy!Wrap(d, d.head + 1)
  OBVIOUS
<1>5. tail \in 0..size-1 /\ head \in 0..size-1
  BY <1>1, <1>2, <1>3, <1>4 DEF Busy!Wrap, Busy!Last
<1>10. PICK less \in Nat : less = n - 1
  BY <1>1, <1>2
<1>6. PICK e : e = [d EXCEPT !.tail = tail, !.ntasks = less]
  OBVIOUS
<1>7. PICK f : f = [d EXCEPT !.head = head, !.ntasks = less]
  OBVIOUS
<1>8. e = Ring(old, size, front, tail, less) /\ f = Ring(old, size, head, back, less)
  BY <1>1, <1>6, <1>7 DEF Ring
<1>9. Whole(e) /\ Whole(f)
  BY <1>1, <1>5, <1>8, <1>10 DEF Whole
<1>11. /\ [d EXCEPT !.tail = Busy!Last(d), !.ntasks = @ - 1] = e
       /\ [d EXCEPT !.head = Busy!Wrap(d, @ + 1), !.ntasks = @ - 1] = f
  BY <1>2, <1>3, <1>4, <1>6, <1>7, <1>10
<1> QED
  BY <1>9, <1>11

LEMMA SetWhole ==
  ASSUME NEW t \in Threads, NEW d, SecondInv, Whole(d), Busy!Set(t, d)
  PROVE  DOMAIN b_dq' = Threads /\ \A u \in Threads : Whole(b_dq'[u])
BY DEF SecondInv, Busy!Set

LEMMA InitSecond ==
  ASSUME SecondOnly, Busy!Init
  PROVE  SecondInv
<1>1. \A t \in Threads : b_dq[t] = Busy!Sized(Busy!NewDeque)
  BY DEF Busy!Init, Threads, Busy!Threads
<1>2. 0 \in Threads /\ Busy!Threads = Threads
  BY DEF SecondOnly, Threads, Busy!Threads
<1>3. SmallSize \in Nat \ {0}
  BY DEF SecondOnly
<1>4. \A t \in Threads : Whole(b_dq[t])
  BY <1>1, <1>3, WholeNew
<1>5. DOMAIN b_dq = Threads
  BY <1>2 DEF Busy!Init
<1> QED
  BY <1>2, <1>4, <1>5 DEF SecondInv, Busy!Init, Busy!Actors

(* A step of one actor to a place that is not one of the allocation, with   *)
(* or without a new deque.                                                  *)
LEMMA NextSecond ==
  ASSUME SecondOnly, SecondInv, [Busy!Next]_(Busy!vars)
  PROVE  SecondInv'
<1>1. Busy!Threads = Threads /\ Busy!Actors = Threads \cup Given
  BY DEF Threads, Busy!Threads, Busy!Actors
<1>2. CASE UNCHANGED Busy!vars
  BY <1>2 DEF SecondInv, Busy!vars
<1>3. ASSUME NEW t \in Threads, Busy!Pushing(t) PROVE SecondInv'
  <2>1. CASE Busy!Enable(t)
    <3>1. b_dq[t].alloc
      BY DEF SecondInv, Whole, Ring
    <3> QED
      BY <2>1, <3>1 DEF SecondInv, Busy!Enable, Busy!Goto
  <2>2. CASE Busy!AllocDeque(t) \/ Busy!AllocSize(t)
    BY <2>2 DEF SecondInv, Busy!AllocDeque, Busy!AllocSize, Busy!Goto
  <2>3. CASE Busy!StartProxy(t)
    <3>1. b_item[t] \notin Threads
      BY <2>3 DEF Busy!StartProxy, SecondOnly
    <3>2. PICK p : p = b_item[t] /\ p \notin Threads
      BY <3>1
    <3>3. b_pc' = [b_pc EXCEPT ![t] = "idle", ![p] = "give"] /\ UNCHANGED <<b_dq, b_overrun, b_at>>
      BY <2>3, <3>2 DEF Busy!StartProxy
    <3>4. \A u \in Threads : b_pc'[u] \notin {"alloc", "size"}
      BY <1>1, <3>2, <3>3 DEF SecondInv
    <3>5. DOMAIN b_pc' = Busy!Actors
      BY <3>3 DEF SecondInv
    <3> QED
      BY <3>3, <3>4, <3>5 DEF SecondInv
  <2>4. CASE Busy!PushCheck(t)
    <3>1. \/ Busy!Goto(t, "created", "idle") \/ Busy!Goto(t, "created", "push")
      BY <2>4 DEF Busy!PushCheck
    <3>2. UNCHANGED <<b_dq, b_overrun, b_at>>
      BY <2>4 DEF Busy!PushCheck
    <3>3. PICK to : to \in {"idle", "push"} /\ b_pc' = [b_pc EXCEPT ![t] = to]
      BY <3>1 DEF Busy!Goto
    <3>4. DOMAIN b_pc' = Busy!Actors /\ \A u \in Threads : b_pc'[u] \notin {"alloc", "size"}
      BY <3>3 DEF SecondInv
    <3> QED
      BY <3>2, <3>4 DEF SecondInv
  <2>5. CASE Busy!Push(t)
    <3>1. CASE Busy!Full(b_dq[t])
      BY <2>5, <3>1 DEF SecondInv, Busy!Push, Busy!Goto
    <3>2. CASE ~Busy!Full(b_dq[t])
      <4>1. Whole(Busy!Insert(b_dq[t], b_item[t])) /\ b_dq[t].tail \in DOMAIN b_dq[t].slot
        BY WholeInsert DEF SecondInv
      <4>2. Busy!Set(t, Busy!Insert(b_dq[t], b_item[t])) /\ ~b_overrun'
        BY <2>5, <3>2, <4>1 DEF Busy!Push, SecondInv
      <4>3. DOMAIN b_dq' = Threads /\ \A u \in Threads : Whole(b_dq'[u])
        BY <4>1, <4>2, SetWhole
      <4> QED
        BY <2>5, <4>2, <4>3 DEF SecondInv, Busy!Push, Busy!Goto
    <3> QED
      BY <3>1, <3>2
  <2> QED
    BY <1>3, <2>1, <2>2, <2>3, <2>4, <2>5 DEF Busy!Pushing
<1>4. ASSUME NEW t \in Threads, Busy!Taking(t) PROVE SecondInv'
  <2>1. CASE Busy!RemoveCheck(t)
    BY <2>1 DEF SecondInv, Busy!RemoveCheck, Busy!Goto
  <2>2. ASSUME NEW v \in Threads, Busy!StealCheck(t, v) PROVE SecondInv'
    BY <1>1, <2>2 DEF SecondInv, Busy!StealCheck, Busy!Goto
  <2>3. CASE Busy!Remove(t)
    <3>1. CASE b_dq[t].ntasks = 0
      BY <2>3, <3>1 DEF SecondInv, Busy!Remove, Busy!Goto
    <3>2. CASE b_dq[t].ntasks # 0
      <4>1. PICK d : d = [b_dq[t] EXCEPT !.tail = Busy!Last(b_dq[t]), !.ntasks = @ - 1]
        OBVIOUS
      <4>2. Whole(d)
        BY <3>2, <4>1, WholeTaken DEF SecondInv
      <4>3. Busy!Set(t, d)
        BY <2>3, <3>2, <4>1 DEF Busy!Remove
      <4>4. DOMAIN b_dq' = Threads /\ \A u \in Threads : Whole(b_dq'[u])
        BY <4>2, <4>3, SetWhole
      <4> QED
        BY <2>3, <4>4 DEF SecondInv, Busy!Remove, Busy!Goto
    <3> QED
      BY <3>1, <3>2
  <2>4. CASE Busy!Steal(t)
    <3>1. b_at[t] \in Threads
      BY <1>1 DEF SecondInv
    <3>2. 0 \in Threads
      BY DEF SecondOnly, Threads
    <3>3. b_at' \in [Busy!Actors -> Threads]
      BY <2>4, <3>2 DEF SecondInv, Busy!Steal
    <3>4. CASE b_dq[b_at[t]].ntasks = 0
      BY <2>4, <3>3, <3>4 DEF SecondInv, Busy!Steal, Busy!Goto
    <3>5. CASE b_dq[b_at[t]].ntasks # 0
      <4>1. PICK d : d = [b_dq[b_at[t]] EXCEPT !.head = Busy!Wrap(b_dq[b_at[t]], @ + 1),
                                               !.ntasks = @ - 1]
        OBVIOUS
      <4>2. Whole(d)
        BY <3>1, <3>5, <4>1, WholeTaken DEF SecondInv
      <4>3. Busy!Set(b_at[t], d)
        BY <2>4, <3>5, <4>1 DEF Busy!Steal
      <4>4. DOMAIN b_dq' = Threads /\ \A u \in Threads : Whole(b_dq'[u])
        BY <3>1, <4>2, <4>3, SetWhole
      <4> QED
        BY <2>4, <3>3, <4>4 DEF SecondInv, Busy!Steal, Busy!Goto
    <3> QED
      BY <3>4, <3>5
  <2> QED
    BY <1>1, <1>4, <2>1, <2>2, <2>3, <2>4 DEF Busy!Taking
<1>5. ASSUME NEW t \in Threads, NEW x, Busy!Create(t, x) PROVE SecondInv'
  BY <1>5 DEF SecondInv, Busy!Create, Busy!Goto
<1>6. ASSUME NEW p \in Given, Busy!Giving(p) PROVE SecondInv'
  <2>1. p \in Busy!Actors /\ p \notin Threads /\ b_at[p] \in Threads
    BY <1>1 DEF SecondInv, SecondOnly
  <2>2. CASE Busy!GiveNext(p)
    <3>1. (b_at[p] + 1) % N \in Threads
      BY <2>1 DEF SecondOnly, Threads
    <3>2. b_at' \in [Busy!Actors -> Threads]
      BY <2>2, <3>1 DEF SecondInv, Busy!GiveNext
    <3> QED
      BY <2>1, <2>2, <3>2 DEF SecondInv, Busy!GiveNext, Busy!Goto
  <2>3. CASE Busy!GiveCheck(p)
    BY <2>1, <2>3 DEF SecondInv, Busy!GiveCheck, Busy!Goto
  <2>4. ASSUME NEW d, Whole(d), Busy!Give(p, d) PROVE
          /\ DOMAIN b_dq' = Threads
          /\ \A u \in Threads : Whole(b_dq'[u])
          /\ ~b_overrun'
    <3>1. Whole(Busy!Insert(d, p)) /\ d.tail \in DOMAIN d.slot
      BY <2>4, WholeInsert
    <3>2. Busy!Set(b_at[p], Busy!Insert(d, p)) /\ ~b_overrun'
      BY <2>4, <3>1 DEF Busy!Give, SecondInv
    <3> QED
      BY <2>1, <3>1, <3>2, SetWhole
  <2>5. Whole(b_dq[b_at[p]]) /\ Whole(Busy!Realloc(b_dq[b_at[p]]))
    BY <2>1, WholeRealloc DEF SecondInv
  <2>6. CASE Busy!GiveGrow(p)
    <3>1. Busy!Give(p, Busy!Realloc(b_dq[b_at[p]]))
      BY <2>6 DEF Busy!GiveGrow
    <3> QED
      BY <2>1, <2>4, <2>5, <2>6, <3>1 DEF SecondInv, Busy!GiveGrow, Busy!Goto
  <2>7. CASE Busy!GiveRoom(p)
    <3>1. \/ UNCHANGED <<b_dq, b_overrun>>
          \/ Busy!Give(p, Busy!Realloc(b_dq[b_at[p]])) \/ Busy!Give(p, b_dq[b_at[p]])
      BY <2>7 DEF Busy!GiveRoom
    <3>2. /\ DOMAIN b_dq' = Threads
          /\ \A u \in Threads : Whole(b_dq'[u])
          /\ ~b_overrun'
      BY <2>4, <2>5, <3>1 DEF SecondInv
    <3>3. b_at' = b_at /\ DOMAIN b_pc' = Busy!Actors /\ \A t \in Threads : b_pc'[t] = b_pc[t]
      <4>1. Busy!Goto(p, "give_room", "give") \/ Busy!Goto(p, "give_room", "given")
        BY <2>7 DEF Busy!GiveRoom
      <4>2. b_at' = b_at
        BY <2>7 DEF Busy!GiveRoom
      <4> QED
        BY <1>1, <2>1, <4>1, <4>2 DEF Busy!Goto, SecondInv
    <3> QED
      BY <3>2, <3>3 DEF SecondInv
  <2> QED
    BY <1>6, <2>2, <2>3, <2>6, <2>7 DEF Busy!Giving
<1> QED
  BY <1>1, <1>2, <1>3, <1>4, <1>5, <1>6 DEF Busy!Next

(***************************************************************************)
(* Nothing is written outside of a deque's buffer, neither by threads that  *)
(* push into deques which they allocate themselves, nor by those that       *)
(* double the deque they give a proxy task to, be it full or not any more:  *)
(* for every number of threads, tasks, proxies and passes and every size.   *)
(***************************************************************************)
THEOREM DequesHaveRoom ==
  ASSUME TeamOnly, SecondOnly
  PROVE  WaitingSafety => []SpaceInDeques
<1>1. Spec => []SpaceInDeque
  <2>1. TeamIInv => SpaceInDeque
    BY DEF TeamIInv, SpaceInDeque
  <2> QED
    BY <2>1, TeamInvariance, PTL
<1>2. WaitingInit => Init /\ SecondInv
  BY InitSecond DEF WaitingInit
<1>3. [WaitingNext]_all => [Next]_vars /\ [Busy!Next]_(Busy!vars)
  BY DEF WaitingNext, Sleeps, First, Second, all, vars, secondVars, Busy!vars
<1>4. SecondInv /\ [Busy!Next]_(Busy!vars) => SecondInv'
  BY NextSecond
<1>5. SpaceInDeque /\ SecondInv => SpaceInDeques
  BY DEF SpaceInDeques, SecondInv, Busy!SpaceInDeque
<1> QED
  BY <1>1, <1>2, <1>3, <1>4, <1>5, PTL DEF WaitingSafety, Spec

-----------------------------------------------------------------------------
(* Sleeping and waking.                                                     *)

USE DEF Sleeper!Goto, Sleeper!Set, Sleeper!Done, Sleeper!waiter, Sleeper!releaser,
        Sleeper!strays

LEMMA InitIInv == Sleeper!Init => Sleeper!IInv
<1> SUFFICES ASSUME Sleeper!Init PROVE Sleeper!IInv
  OBVIOUS
<1>1. /\ cell \in [done : BOOLEAN, sleep : BOOLEAN]
      /\ spc \in [Strays -> {"idle", "type", "resume"}]
      /\ target \in [Strays -> 0..wait]
      /\ type \in [Strays -> Kinds \cup {"other"}]
  BY DEF Sleeper!Init
<1>2. Sleeper!TypeOK
  <2>1. wait \in Nat /\ released \in 0..wait /\ sleep_loc \in 0..wait
    BY DEF Sleeper!Init
  <2>2. /\ kind \in Kinds /\ w_pc = "work" /\ owner = "none" /\ signaled = FALSE
        /\ rpc = "idle"
    BY DEF Sleeper!Init
  <2> QED
    BY <1>1, <2>1, <2>2 DEF Sleeper!TypeOK
<1>3. ~cell.sleep /\ w_pc = "work" /\ owner = "none" /\ sleep_loc = 0
  BY DEF Sleeper!Init
<1>4. owner # "waiter"
  BY <1>3
<1> QED
  BY <1>2, <1>3, <1>4 DEF Sleeper!IInv, Sleeper!MutexHeld, Sleeper!BitSet,
                          Sleeper!LocSet, Sleeper!SleepersAreWoken

LEMMA BeginStep == ASSUME Sleeper!IInv, Sleeper!Begin PROVE Sleeper!IInv'
<1> USE DEF Sleeper!Begin, Sleeper!IInv
<1>1. Sleeper!TypeOK'
  BY DEF Sleeper!TypeOK
<1>2. Sleeper!MutexHeld'
  BY DEF Sleeper!TypeOK, Sleeper!MutexHeld
<1>3. Sleeper!BitSet'
  BY DEF Sleeper!TypeOK, Sleeper!MutexHeld, Sleeper!BitSet
<1>4. Sleeper!LocSet'
  BY DEF Sleeper!TypeOK, Sleeper!MutexHeld, Sleeper!BitSet, Sleeper!LocSet
<1>5. Sleeper!SleepersAreWoken'
  BY DEF Sleeper!TypeOK, Sleeper!MutexHeld, Sleeper!BitSet, Sleeper!SleepersAreWoken
<1> QED
  BY <1>1, <1>2, <1>3, <1>4, <1>5

LEMMA ReturnStep == ASSUME Sleeper!IInv, Sleeper!Return PROVE Sleeper!IInv'
<1> USE DEF Sleeper!Return, Sleeper!IInv
<1>1. Sleeper!TypeOK'
  BY DEF Sleeper!TypeOK
<1>2. Sleeper!MutexHeld'
  BY DEF Sleeper!TypeOK, Sleeper!MutexHeld
<1>3. Sleeper!BitSet'
  BY DEF Sleeper!TypeOK, Sleeper!MutexHeld, Sleeper!BitSet
<1>4. Sleeper!LocSet'
  BY DEF Sleeper!TypeOK, Sleeper!MutexHeld, Sleeper!BitSet, Sleeper!LocSet
<1>5. Sleeper!SleepersAreWoken'
  BY DEF Sleeper!TypeOK, Sleeper!MutexHeld, Sleeper!BitSet, Sleeper!SleepersAreWoken
<1> QED
  BY <1>1, <1>2, <1>3, <1>4, <1>5

LEMMA LockStep == ASSUME Sleeper!IInv, Sleeper!Lock PROVE Sleeper!IInv'
<1> USE DEF Sleeper!Lock, Sleeper!IInv
<1>1. Sleeper!TypeOK'
  BY DEF Sleeper!TypeOK
<1>2. Sleeper!MutexHeld'
  BY DEF Sleeper!TypeOK, Sleeper!MutexHeld
<1>3. Sleeper!BitSet'
  BY DEF Sleeper!TypeOK, Sleeper!MutexHeld, Sleeper!BitSet
<1>4. Sleeper!LocSet'
  BY DEF Sleeper!TypeOK, Sleeper!MutexHeld, Sleeper!BitSet, Sleeper!LocSet
<1>5. Sleeper!SleepersAreWoken'
  BY DEF Sleeper!TypeOK, Sleeper!MutexHeld, Sleeper!BitSet, Sleeper!SleepersAreWoken
<1> QED
  BY <1>1, <1>2, <1>3, <1>4, <1>5

LEMMA SetSleepingStep == ASSUME Sleeper!IInv, Sleeper!SetSleeping PROVE Sleeper!IInv'
<1> USE DEF Sleeper!SetSleeping, Sleeper!IInv
<1>1. Sleeper!TypeOK'
  BY DEF Sleeper!TypeOK
<1>2. Sleeper!MutexHeld'
  BY DEF Sleeper!TypeOK, Sleeper!MutexHeld
<1>3. Sleeper!BitSet'
  BY DEF Sleeper!TypeOK, Sleeper!MutexHeld, Sleeper!BitSet
<1>4. Sleeper!LocSet'
  BY DEF Sleeper!TypeOK, Sleeper!MutexHeld, Sleeper!BitSet, Sleeper!LocSet
<1>5. Sleeper!SleepersAreWoken'
  BY DEF Sleeper!TypeOK, Sleeper!MutexHeld, Sleeper!BitSet, Sleeper!SleepersAreWoken
<1> QED
  BY <1>1, <1>2, <1>3, <1>4, <1>5

LEMMA FalseAlarmStep == ASSUME Sleeper!IInv, Sleeper!FalseAlarm PROVE Sleeper!IInv'
<1> USE DEF Sleeper!FalseAlarm, Sleeper!IInv
<1>1. Sleeper!TypeOK'
  BY DEF Sleeper!TypeOK
<1>2. Sleeper!MutexHeld'
  BY DEF Sleeper!TypeOK, Sleeper!MutexHeld
<1>3. Sleeper!BitSet'
  BY DEF Sleeper!TypeOK, Sleeper!MutexHeld, Sleeper!BitSet
<1>4. Sleeper!LocSet'
  BY DEF Sleeper!TypeOK, Sleeper!MutexHeld, Sleeper!BitSet, Sleeper!LocSet
<1>5. Sleeper!SleepersAreWoken'
  BY DEF Sleeper!TypeOK, Sleeper!MutexHeld, Sleeper!BitSet, Sleeper!SleepersAreWoken
<1> QED
  BY <1>1, <1>2, <1>3, <1>4, <1>5

LEMMA SetSleepLocStep == ASSUME Sleeper!IInv, Sleeper!SetSleepLoc PROVE Sleeper!IInv'
<1> USE DEF Sleeper!SetSleepLoc, Sleeper!IInv
<1>1. Sleeper!TypeOK'
  BY DEF Sleeper!TypeOK
<1>2. Sleeper!MutexHeld'
  BY DEF Sleeper!TypeOK, Sleeper!MutexHeld
<1>3. Sleeper!BitSet'
  BY DEF Sleeper!TypeOK, Sleeper!MutexHeld, Sleeper!BitSet
<1>4. Sleeper!LocSet'
  BY DEF Sleeper!TypeOK, Sleeper!MutexHeld, Sleeper!BitSet, Sleeper!LocSet
<1>5. Sleeper!SleepersAreWoken'
  BY DEF Sleeper!TypeOK, Sleeper!MutexHeld, Sleeper!BitSet, Sleeper!SleepersAreWoken
<1> QED
  BY <1>1, <1>2, <1>3, <1>4, <1>5

LEMMA CheckStep == ASSUME Sleeper!IInv, Sleeper!Check PROVE Sleeper!IInv'
<1> USE DEF Sleeper!Check, Sleeper!IInv
<1>1. Sleeper!TypeOK'
  BY DEF Sleeper!TypeOK
<1>2. Sleeper!MutexHeld'
  BY DEF Sleeper!TypeOK, Sleeper!MutexHeld
<1>3. Sleeper!BitSet'
  BY DEF Sleeper!TypeOK, Sleeper!MutexHeld, Sleeper!BitSet
<1>4. Sleeper!LocSet'
  BY DEF Sleeper!TypeOK, Sleeper!MutexHeld, Sleeper!BitSet, Sleeper!LocSet
<1>5. Sleeper!SleepersAreWoken'
  BY DEF Sleeper!TypeOK, Sleeper!MutexHeld, Sleeper!BitSet, Sleeper!SleepersAreWoken
<1> QED
  BY <1>1, <1>2, <1>3, <1>4, <1>5

LEMMA WakeUpStep == ASSUME Sleeper!IInv, Sleeper!WakeUp PROVE Sleeper!IInv'
<1> USE DEF Sleeper!WakeUp, Sleeper!IInv
<1>1. Sleeper!TypeOK'
  BY DEF Sleeper!TypeOK
<1>2. Sleeper!MutexHeld'
  BY DEF Sleeper!TypeOK, Sleeper!MutexHeld
<1>3. Sleeper!BitSet'
  BY DEF Sleeper!TypeOK, Sleeper!MutexHeld, Sleeper!BitSet
<1>4. Sleeper!LocSet'
  BY DEF Sleeper!TypeOK, Sleeper!MutexHeld, Sleeper!BitSet, Sleeper!LocSet
<1>5. Sleeper!SleepersAreWoken'
  BY DEF Sleeper!TypeOK, Sleeper!MutexHeld, Sleeper!BitSet, Sleeper!SleepersAreWoken
<1> QED
  BY <1>1, <1>2, <1>3, <1>4, <1>5

LEMMA ReleaseStep == ASSUME Sleeper!IInv, Sleeper!Release PROVE Sleeper!IInv'
<1> USE DEF Sleeper!Release, Sleeper!IInv
<1>1. Sleeper!TypeOK'
  <2>1. released \in Nat /\ wait \in Nat /\ released' \in 0..wait
    BY DEF Sleeper!TypeOK
  <2>2. cell' \in [done : BOOLEAN, sleep : BOOLEAN]
    BY DEF Sleeper!TypeOK
  <2> QED
    BY <2>1, <2>2 DEF Sleeper!TypeOK
<1>2. Sleeper!MutexHeld'
  BY DEF Sleeper!TypeOK, Sleeper!MutexHeld
<1>3. Sleeper!BitSet'
  BY DEF Sleeper!TypeOK, Sleeper!MutexHeld, Sleeper!BitSet
<1>4. Sleeper!LocSet'
  BY DEF Sleeper!TypeOK, Sleeper!MutexHeld, Sleeper!BitSet, Sleeper!LocSet
<1>5. Sleeper!SleepersAreWoken'
  BY DEF Sleeper!TypeOK, Sleeper!MutexHeld, Sleeper!BitSet, Sleeper!SleepersAreWoken
<1> QED
  BY <1>1, <1>2, <1>3, <1>4, <1>5

LEMMA IsAnySleepingStep == ASSUME Sleeper!IInv, Sleeper!IsAnySleeping PROVE Sleeper!IInv'
<1> USE DEF Sleeper!IsAnySleeping, Sleeper!IInv
<1>1. Sleeper!TypeOK'
  BY DEF Sleeper!TypeOK
<1>2. Sleeper!MutexHeld'
  BY DEF Sleeper!TypeOK, Sleeper!MutexHeld
<1>3. Sleeper!BitSet'
  BY DEF Sleeper!TypeOK, Sleeper!MutexHeld, Sleeper!BitSet
<1>4. Sleeper!LocSet'
  BY DEF Sleeper!TypeOK, Sleeper!MutexHeld, Sleeper!BitSet, Sleeper!LocSet
<1>5. Sleeper!SleepersAreWoken'
  BY DEF Sleeper!TypeOK, Sleeper!MutexHeld, Sleeper!BitSet, Sleeper!SleepersAreWoken
<1> QED
  BY <1>1, <1>2, <1>3, <1>4, <1>5

(* What the two kinds of wakers have in common: with the mutex free the bit *)
(* can only be that of a thread in pthread_cond_wait, which is signalled.   *)
LEMMA Resuming ==
  ASSUME Sleeper!IInv, Sleeper!Resume, owner = "none"
  PROVE  /\ cell' = [done |-> cell.done, sleep |-> FALSE]
         /\ signaled' \in BOOLEAN
         /\ sleep_loc' = 0
         /\ w_pc = "cond" => signaled'
<1>1. cell \in [done : BOOLEAN, sleep : BOOLEAN]
  BY DEF Sleeper!IInv, Sleeper!TypeOK
<1>2. cell' = [done |-> cell.done, sleep |-> FALSE]
  BY <1>1 DEF Sleeper!Resume
<1>3. CASE cell.sleep
  BY <1>2, <1>3 DEF Sleeper!Resume
<1>4. CASE ~cell.sleep
  <2>1. sleep_loc' = sleep_loc /\ signaled' = signaled
    BY <1>4 DEF Sleeper!Resume
  <2>2. sleep_loc = 0 /\ (w_pc = "cond" => signaled) /\ signaled \in BOOLEAN
    BY <1>4 DEF Sleeper!IInv, Sleeper!TypeOK, Sleeper!LocSet, Sleeper!SleepersAreWoken
  <2> QED
    BY <1>2, <2>1, <2>2
<1> QED
  BY <1>3, <1>4

LEMMA ReleaseResumeStep == ASSUME Sleeper!IInv, Sleeper!ReleaseResume PROVE Sleeper!IInv'
<1>1. /\ cell' = [done |-> cell.done, sleep |-> FALSE]
      /\ signaled' \in BOOLEAN /\ sleep_loc' = 0
      /\ w_pc = "cond" => signaled'
  BY Resuming DEF Sleeper!ReleaseResume
<1>2. rpc' = "idle" /\ UNCHANGED <<wait, kind, w_pc, owner, released, spc, target, type>>
  BY DEF Sleeper!ReleaseResume
<1>3. w_pc \notin {"false_alarm", "sleeping"}
  BY DEF Sleeper!ReleaseResume, Sleeper!IInv, Sleeper!MutexHeld
<1>4. Sleeper!TypeOK'
  BY <1>1, <1>2 DEF Sleeper!IInv, Sleeper!TypeOK
<1> QED
  BY <1>1, <1>2, <1>3, <1>4 DEF Sleeper!IInv, Sleeper!TypeOK, Sleeper!MutexHeld,
                                Sleeper!BitSet, Sleeper!LocSet, Sleeper!SleepersAreWoken

LEMMA ReadLocStep == ASSUME Sleeper!IInv, NEW s \in Strays,
     Sleeper!ReadLoc(s) PROVE Sleeper!IInv'
<1>1. Sleeper!TypeOK'
  BY DEF Sleeper!ReadLoc, Sleeper!IInv, Sleeper!TypeOK
<1> QED
  BY <1>1 DEF Sleeper!ReadLoc, Sleeper!IInv, Sleeper!MutexHeld, Sleeper!BitSet,
              Sleeper!LocSet, Sleeper!SleepersAreWoken

LEMMA ReadTypeStep == ASSUME Sleeper!IInv, NEW s \in Strays,
     Sleeper!ReadType(s) PROVE Sleeper!IInv'
<1>1. Sleeper!TypeOK'
  BY DEF Sleeper!ReadType, Sleeper!Readable, Sleeper!IInv, Sleeper!TypeOK
<1> QED
  BY <1>1 DEF Sleeper!ReadType, Sleeper!IInv, Sleeper!MutexHeld, Sleeper!BitSet,
              Sleeper!LocSet, Sleeper!SleepersAreWoken

LEMMA StrayResumeStep == ASSUME Sleeper!IInv, NEW s \in Strays,
     Sleeper!StrayResume(s) PROVE Sleeper!IInv'
<1>1. /\ UNCHANGED <<wait, kind, w_pc, owner, released, rpc, target>>
      /\ spc' = [spc EXCEPT ![s] = "idle"] /\ type' = [type EXCEPT ![s] = "other"]
  BY DEF Sleeper!StrayResume
<1>2. CASE sleep_loc # 0 /\ type[s] = kind
  <2>1. /\ cell' = [done |-> cell.done, sleep |-> FALSE]
        /\ signaled' \in BOOLEAN /\ sleep_loc' = 0
        /\ w_pc = "cond" => signaled'
    BY <1>2, Resuming DEF Sleeper!StrayResume
  <2>2. w_pc \notin {"false_alarm", "sleeping"}
    BY DEF Sleeper!StrayResume, Sleeper!IInv, Sleeper!MutexHeld
  <2>3. Sleeper!TypeOK'
    BY <1>1, <2>1 DEF Sleeper!IInv, Sleeper!TypeOK
  <2> QED
    BY <1>1, <2>1, <2>2, <2>3 DEF Sleeper!IInv, Sleeper!TypeOK, Sleeper!MutexHeld,
                                  Sleeper!BitSet, Sleeper!LocSet,
                                  Sleeper!SleepersAreWoken
<1>3. CASE ~(sleep_loc # 0 /\ type[s] = kind)
  <2>1. UNCHANGED <<cell, signaled, sleep_loc>>
    BY <1>3 DEF Sleeper!StrayResume
  <2>2. Sleeper!TypeOK'
    BY <1>1, <2>1 DEF Sleeper!IInv, Sleeper!TypeOK
  <2> QED
    BY <1>1, <2>1, <2>2 DEF Sleeper!IInv, Sleeper!MutexHeld, Sleeper!BitSet,
                            Sleeper!LocSet, Sleeper!SleepersAreWoken
<1> QED
  BY <1>2, <1>3

LEMMA StepIInv == Sleeper!IInv /\ [Sleeper!Next]_(Sleeper!vars) => Sleeper!IInv'
<1> SUFFICES ASSUME Sleeper!IInv, [Sleeper!Next]_(Sleeper!vars) PROVE Sleeper!IInv'
  OBVIOUS
<1>1. CASE Sleeper!Waiter \/ Sleeper!Lock \/ Sleeper!WakeUp
  BY <1>1, BeginStep, ReturnStep, LockStep, SetSleepingStep, FalseAlarmStep,
     SetSleepLocStep, CheckStep, WakeUpStep DEF Sleeper!Waiter
<1>2. CASE Sleeper!Releaser
  BY <1>2, ReleaseStep, IsAnySleepingStep, ReleaseResumeStep DEF Sleeper!Releaser
<1>3. ASSUME NEW s \in Strays, Sleeper!Stray(s) PROVE Sleeper!IInv'
  BY <1>3, ReadLocStep, ReadTypeStep, StrayResumeStep DEF Sleeper!Stray
<1>4. CASE UNCHANGED Sleeper!vars
  BY <1>4 DEF Sleeper!vars, Sleeper!IInv, Sleeper!TypeOK, Sleeper!MutexHeld,
              Sleeper!BitSet, Sleeper!LocSet, Sleeper!SleepersAreWoken
<1> QED
  BY <1>1, <1>2, <1>3, <1>4 DEF Sleeper!Next

(***************************************************************************)
(* The inductive invariant of sleeping and waking.                          *)
(***************************************************************************)
THEOREM Inductive == Sleeper!Spec => []Sleeper!IInv
  BY InitIInv, StepIInv, PTL DEF Sleeper!Spec

(***************************************************************************)
(* No wake-up is lost (kmp_wait_release.h: bump, then look at the bit;      *)
(* z_Linux_util.cpp: set the bit, then look at the old value).              *)
(***************************************************************************)
THEOREM NoWakeupIsLost == Sleeper!Spec => []SleepersAreWoken
<1>1. Sleeper!IInv => SleepersAreWoken
  BY DEF Sleeper!IInv, SleepersAreWoken
<1> QED
  BY <1>1, Inductive, PTL

(***************************************************************************)
(* A waker that has the mutex finds th_sleep_loc NULL or a live flag.       *)
(***************************************************************************)
THEOREM NeverDangling == Sleeper!Spec => []SleepLocIsLive
<1>1. Sleeper!IInv => SleepLocIsLive
  BY DEF Sleeper!IInv, Sleeper!MutexHeld, Sleeper!LocSet, Sleeper!SleepLocIsLive,
         SleepLocIsLive
<1> QED
  BY <1>1, Inductive, PTL
=============================================================================
