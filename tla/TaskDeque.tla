----------------------------- MODULE TaskDeque -----------------------------
(***************************************************************************)
(* The task deques of a team, runtime/src/kmp_tasking.cpp.  Every thread    *)
(* has a ring buffer of deferred tasks, which its owner allocates at its    *)
(* first deferred task: the owner pushes and removes at the tail, other     *)
(* threads steal at the head, and a thread from outside of the team, which  *)
(* has completed a proxy task, gives it back at the tail of any deque and   *)
(* doubles the deque if it is full.                                         *)
(*                                                                          *)
(* A section under td_deque_lock is one action.  What the code reads before *)
(* it takes the lock (is there a deque, is it full, is it empty) is read in *)
(* an action of its own, so that it may be stale under the lock.            *)
(***************************************************************************)
EXTENDS Naturals, Sequences

CONSTANTS
  N,                         \* the threads of the team are 0..N-1
  Tasks,                     \* the tasks they may defer
  Proxies,                   \* the proxy tasks, each completed from outside
  Allocated,                 \* threads with a deque from an earlier region
  InitialSize,               \* INITIAL_TASK_DEQUE_SIZE, a power of two
  PassBits,                  \* value bits of pass (31); a negative value
                             \* acts as 0 does
  Nil                        \* the content of an empty slot

SizeAssumption == InitialSize \in {2^k : k \in 0..8}

Threads == 0..N-1
Items   == Tasks \cup Proxies

VARIABLES
  dq,                        \* the td_deque... fields of every thread
  enabled,                   \* tt_found_tasks of the task team
  fresh,                     \* tasks and proxies not created yet
  taken,                     \* how often each was taken up to be run
  overrun,                   \* a slot was written outside of its buffer
  pc,                        \* of every thread, and of the outside thread
                             \* that completes each proxy
  item,                      \* the task a thread is creating
  at,                        \* the deque it steals from, or gives to (k)
  pass                       \* how often a giver may double a deque

vars == <<dq, enabled, fresh, taken, overrun, pc, item, at, pass>>

Actors == Threads \cup Proxies

NoDeque ==
  [alloc |-> FALSE, slot |-> <<>>, size |-> 0, head |-> 0, tail |-> 0, ntasks |-> 0]

(* td_deque after __kmp_allocate, td_deque_size after its assignment.       *)
Buffer(n) == [j \in 0..n-1 |-> Nil]
NewDeque  == [NoDeque EXCEPT !.alloc = TRUE, !.slot = Buffer(InitialSize)]

(* Mutant: the size is larger than the buffer.                              *)
Sized_Double(d) == [d EXCEPT !.size = 2 * InitialSize]

Sized(d)  == [d EXCEPT !.size = InitialSize]

Init ==
  /\ dq = [t \in Threads |-> IF t \in Allocated THEN Sized(NewDeque) ELSE NoDeque]
  /\ enabled = FALSE
  /\ fresh = Items
  /\ taken = [x \in Items \cup {Nil} |-> 0]
  /\ overrun = FALSE
  /\ pc = [a \in Actors |-> "idle"]
  /\ item = [t \in Threads |-> Nil]
  /\ at = [a \in Actors |-> 0]
  /\ pass = [p \in Proxies |-> 1]

Full(d) == d.ntasks >= d.size

(* i & TASK_DEQUE_MASK: the mask of a deque without a size is all ones.     *)
Wrap(d, i) == IF d.size = 0 THEN i ELSE i % d.size

Last(d) == Wrap(d, d.tail + d.size - 1)

(* Mutant: the task count is not adjusted.                                  *)
Insert_NoCount(d, x) ==
  [d EXCEPT !.slot = IF d.tail \in DOMAIN @ THEN [@ EXCEPT ![d.tail] = x] ELSE @,
            !.tail = Wrap(d, @ + 1)]

Insert(d, x) ==
  [d EXCEPT !.slot = IF d.tail \in DOMAIN @ THEN [@ EXCEPT ![d.tail] = x] ELSE @,
            !.tail = Wrap(d, @ + 1),
            !.ntasks = @ + 1]

(* __kmp_realloc_task_deque: it takes for granted that the deque is full.   *)
Realloc(d) ==
  [d EXCEPT !.slot = [j \in 0..2 * d.size - 1 |->
                        IF j < d.size THEN d.slot[Wrap(d, d.head + j)] ELSE Nil],
            !.head = 0, !.tail = d.size, !.size = 2 * @]

Goto(a, from, to) ==
  /\ pc[a] = from
  /\ pc' = [pc EXCEPT ![a] = to]

Set(t, d) == dq' = [dq EXCEPT ![t] = d]

Run(x) == taken' = [taken EXCEPT ![x] = @ + 1]

-----------------------------------------------------------------------------
(* __kmp_push_task, and what it shares with the creation of a proxy task,   *)
(* which allocates a deque only if it is the one to enable tasking.         *)

NeedsEnable(t, x) == ~enabled \/ (x \in Tasks /\ ~dq[t].alloc)

Create(t, x) ==
  /\ x \in fresh
  /\ Goto(t, "idle", IF NeedsEnable(t, x) THEN "enable" ELSE "created")
  /\ fresh' = fresh \ {x}
  /\ item' = [item EXCEPT ![t] = x]
  /\ UNCHANGED <<dq, taken, overrun, at, pass, enabled>>

Enable(t) ==
  /\ Goto(t, "enable", IF dq[t].alloc THEN "created" ELSE "alloc")
  /\ enabled' = TRUE
  /\ UNCHANGED <<dq, fresh, taken, overrun, item, at, pass>>

AllocDeque(t) ==
  /\ Goto(t, "alloc", "size")
  /\ Set(t, NewDeque)
  /\ UNCHANGED <<fresh, taken, overrun, item, at, pass, enabled>>

AllocSize(t) ==
  /\ Goto(t, "size", "created")
  /\ Set(t, Sized(dq[t]))
  /\ UNCHANGED <<fresh, taken, overrun, item, at, pass, enabled>>

(* A proxy task is not pushed: it is started, and completed from outside.   *)
StartProxy(t) ==
  /\ item[t] \in Proxies
  /\ pc[t] = "created"
  /\ pc' = [pc EXCEPT ![t] = "idle", ![item[t]] = "give"]
  /\ item' = [item EXCEPT ![t] = Nil]
  /\ UNCHANGED <<dq, fresh, taken, overrun, at, pass, enabled>>

(* TASK_NOT_PUSHED: the caller runs the task at once.                       *)
RunNow(t) == Run(item[t]) /\ item' = [item EXCEPT ![t] = Nil]

PushCheck(t) ==
  /\ item[t] \in Tasks
  /\ IF Full(dq[t])
     THEN Goto(t, "created", "idle") /\ RunNow(t)
     ELSE Goto(t, "created", "push") /\ UNCHANGED <<taken, item>>
  /\ UNCHANGED <<dq, fresh, overrun, at, pass, enabled>>

Push(t) ==
  /\ Goto(t, "push", "idle")
  /\ IF Full(dq[t])
     THEN RunNow(t) /\ UNCHANGED <<dq, overrun>>
     ELSE /\ Set(t, Insert(dq[t], item[t]))
          /\ item' = [item EXCEPT ![t] = Nil]
          /\ overrun' = (overrun \/ dq[t].tail \notin DOMAIN dq[t].slot)
          /\ UNCHANGED taken
  /\ UNCHANGED <<fresh, at, pass, enabled>>

-----------------------------------------------------------------------------
(* __kmp_remove_my_task and __kmp_steal_task.                               *)

RemoveCheck(t) ==
  /\ dq[t].ntasks # 0
  /\ Goto(t, "idle", "remove")
  /\ UNCHANGED <<dq, fresh, taken, overrun, item, at, pass, enabled>>

Remove(t) ==
  /\ Goto(t, "remove", "idle")
  /\ IF dq[t].ntasks = 0
     THEN UNCHANGED <<dq, taken>>
     ELSE /\ Set(t, [dq[t] EXCEPT !.tail = Last(dq[t]), !.ntasks = @ - 1])
          /\ Run(dq[t].slot[Last(dq[t])])
  /\ UNCHANGED <<fresh, overrun, item, at, pass, enabled>>

StealCheck(t, v) ==
  /\ dq[v].ntasks # 0
  /\ Goto(t, "idle", "steal")
  /\ at' = [at EXCEPT ![t] = v]
  /\ UNCHANGED <<dq, fresh, taken, overrun, item, pass, enabled>>

(* Mutant: the task count is not adjusted.                                  *)
Steal_NoCount(t) ==
  LET v == at[t] IN
  /\ Goto(t, "steal", "idle")
  /\ IF dq[v].ntasks = 0
     THEN UNCHANGED <<dq, taken>>
     ELSE /\ Set(v, [dq[v] EXCEPT !.head = Wrap(dq[v], @ + 1)])
          /\ Run(dq[v].slot[dq[v].head])
  /\ at' = [at EXCEPT ![t] = 0]
  /\ UNCHANGED <<fresh, overrun, item, pass, enabled>>

Steal(t) ==
  LET v == at[t] IN
  /\ Goto(t, "steal", "idle")
  /\ IF dq[v].ntasks = 0
     THEN UNCHANGED <<dq, taken>>
     ELSE /\ Set(v, [dq[v] EXCEPT !.head = Wrap(dq[v], @ + 1), !.ntasks = @ - 1])
          /\ Run(dq[v].slot[dq[v].head])
  /\ at' = [at EXCEPT ![t] = 0]
  /\ UNCHANGED <<fresh, overrun, item, pass, enabled>>

-----------------------------------------------------------------------------
(* __kmpc_proxy_task_completed_ooo: go round the team until a deque takes   *)
(* the proxy, allowing twice as large deques with every round.              *)

GiveNext(p) ==
  /\ Goto(p, "give", "give_check")
  /\ at' = [at EXCEPT ![p] = (@ + 1) % N]
  /\ pass' = [pass EXCEPT ![p] =
                IF (at[p] + 1) % N = 0 THEN (2 * @) % 2^PassBits ELSE @]
  /\ UNCHANGED <<dq, fresh, taken, overrun, item, enabled>>

TooLarge(p) == dq[at[p]].size \div InitialSize >= pass[p]

(* The checks of __kmp_give_task before it takes the lock.                  *)
GiveCheck(p) ==
  LET d == dq[at[p]] IN
  /\ Goto(p, "give_check",
          IF ~d.alloc \/ (Full(d) /\ TooLarge(p)) THEN "give"
          ELSE IF Full(d) THEN "give_grow" ELSE "give_room")
  /\ UNCHANGED <<dq, fresh, taken, overrun, item, at, pass, enabled>>

Give(p, d) ==
  /\ Set(at[p], Insert(d, p))
  /\ overrun' = (overrun \/ d.tail \notin DOMAIN d.slot)

(* It was full before the lock: it is doubled without a second look.        *)
GiveGrow(p) ==
  /\ Goto(p, "give_grow", "given")
  /\ Give(p, Realloc(dq[at[p]]))
  /\ UNCHANGED <<fresh, taken, item, at, pass, enabled>>

(* It had room before the lock.                                             *)
GiveRoom(p) ==
  LET d == dq[at[p]] IN
  /\ IF Full(d) /\ TooLarge(p)
     THEN Goto(p, "give_room", "give") /\ UNCHANGED <<dq, overrun>>
     ELSE /\ Goto(p, "give_room", "given")
          /\ Give(p, IF Full(d) THEN Realloc(d) ELSE d)
  /\ UNCHANGED <<fresh, taken, item, at, pass, enabled>>

-----------------------------------------------------------------------------
Pushing(t) ==
  \/ Enable(t) \/ AllocDeque(t) \/ AllocSize(t)
  \/ StartProxy(t) \/ PushCheck(t) \/ Push(t)

Taking(t) ==
  \/ RemoveCheck(t) \/ Remove(t) \/ Steal(t)
  \/ \E v \in Threads \ {t} : StealCheck(t, v)

Giving(p) == GiveNext(p) \/ GiveCheck(p) \/ GiveGrow(p) \/ GiveRoom(p)

(* A write outside of a buffer may do anything: the model stops there.      *)
Next ==
  /\ ~overrun
  /\ \/ \E t \in Threads : Pushing(t) \/ Taking(t) \/ \E x \in Items : Create(t, x)
     \/ \E p \in Proxies : Giving(p)

Spec == Init /\ [][Next]_vars

(* Only the outside threads are sure to run: the team's may be busy.        *)
GiverSpec == Spec /\ \A p \in Proxies : WF_vars(~overrun /\ Giving(p))

(* Threads finish what they have begun and, waiting in a barrier, keep      *)
(* looking for tasks; the outside thread keeps running.                     *)
FairSpec ==
  /\ Spec
  /\ \A t \in Threads : WF_vars(~overrun /\ (Pushing(t) \/ Taking(t)))
  /\ \A p \in Proxies : WF_vars(~overrun /\ Giving(p))

-----------------------------------------------------------------------------
TypeOK ==
  /\ \A t \in Threads :
       /\ dq[t].alloc \in BOOLEAN
       /\ {dq[t].size, dq[t].head, dq[t].tail, dq[t].ntasks} \subseteq Nat
       /\ \A j \in DOMAIN dq[t].slot : dq[t].slot[j] \in Items \cup {Nil}
  /\ enabled \in BOOLEAN
  /\ fresh \subseteq Items
  /\ taken \in [Items \cup {Nil} -> Nat]
  /\ overrun \in BOOLEAN
  /\ pc \in [Actors -> {"idle", "enable", "alloc", "size", "created", "push", "remove", "steal",
                        "give", "give_check", "give_grow", "give_room", "given"}]
  /\ item \in [Threads -> Items \cup {Nil}]
  /\ at \in [Actors -> Threads]
  /\ pass \in [Proxies -> Nat]

(***************************************************************************)
(* A task is taken up to be run at most once, and an empty slot never:      *)
(* __kmp_task_start asserts that a tied task it starts has not started      *)
(* (kmp_tasking.cpp:438).                                                   *)
(***************************************************************************)
TakenOnce ==
  /\ \A x \in Items : taken[x] <= 1
  /\ taken[Nil] = 0

(***************************************************************************)
(* The ring is consistent: tail is ntasks behind head, and the occupied     *)
(* slots are the tasks that were pushed and not taken, each in one slot.    *)
(***************************************************************************)
Occupied(t) == {Wrap(dq[t], dq[t].head + j) : j \in 0..dq[t].ntasks - 1}

RingConsistent ==
  \A t \in Threads : LET d == dq[t] IN
    d.size > 0 =>
      /\ d.ntasks <= d.size
      /\ d.tail = Wrap(d, d.head + d.ntasks)
      /\ \A j \in Occupied(t) : d.slot[j] \in Items /\ taken[d.slot[j]] = 0
      /\ \A j, k \in Occupied(t) : d.slot[j] = d.slot[k] => j = k

(***************************************************************************)
(* Nothing is written outside of a buffer: "lock is held here, and there    *)
(* is space in the deque" (kmp_tasking.cpp:2926).                           *)
(***************************************************************************)
SpaceInDeque == ~overrun

(***************************************************************************)
(* The owner works at the tail and a thief at the head of the same queue,   *)
(* as WorkQueues says.                                                      *)
(***************************************************************************)
QueueOf(d) == [k \in 1..d.ntasks |-> d.slot[Wrap(d, d.head + k - 1)]]

Queue == [t \in Threads |-> QueueOf(dq[t])]

Abstract == INSTANCE WorkQueues WITH
              queue <- Queue, taken <- [x \in Items |-> taken[x]]

ImplementsWorkQueues == Abstract!Spec

(***************************************************************************)
(* Every task that is created is eventually taken up, by its creator, the   *)
(* owner of the deque or a thief.                                           *)
(***************************************************************************)
EveryTaskRuns == \A x \in Tasks : x \notin fresh ~> taken[x] > 0

(***************************************************************************)
(* Where every thread has a deque a completed proxy task finds one with     *)
(* room, even if no thread takes a task any more: the growing pass of       *)
(* __kmpc_proxy_task_completed_ooo lets a full one be doubled in the end.   *)
(***************************************************************************)
ProxyIsGiven == \A p \in Proxies : pc[p] = "give" ~> pc[p] = "given"
=============================================================================
