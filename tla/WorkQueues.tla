----------------------------- MODULE WorkQueues -----------------------------
(***************************************************************************)
(* What the task deques of a team promise: each thread has a queue of       *)
(* deferred tasks, tasks are put in at the back, the thread itself takes    *)
(* from the back, other threads take from the front, and a task that finds  *)
(* no room is run at once.  Every task is run once.                         *)
(***************************************************************************)
EXTENDS Naturals, Sequences

CONSTANTS Threads, Items

VARIABLES queue,             \* the deferred tasks of every thread
          taken              \* how often each task was taken up to be run

vars == <<queue, taken>>

Queued(x) == \E t \in Threads : \E k \in 1..Len(queue[t]) : queue[t][k] = x

Init ==
  /\ queue = [t \in Threads |-> <<>>]
  /\ taken = [x \in Items |-> 0]

Put(t, x) ==
  /\ taken[x] = 0 /\ ~Queued(x)
  /\ queue' = [queue EXCEPT ![t] = Append(@, x)]
  /\ UNCHANGED taken

Take(t, x, rest) ==
  /\ queue' = [queue EXCEPT ![t] = rest]
  /\ taken' = [taken EXCEPT ![x] = @ + 1]

TakeBack(t) ==
  /\ queue[t] # <<>>
  /\ LET n == Len(queue[t])
     IN Take(t, queue[t][n], SubSeq(queue[t], 1, n - 1))

TakeFront(t) ==
  /\ queue[t] # <<>>
  /\ Take(t, Head(queue[t]), Tail(queue[t]))

RunNow(x) ==
  /\ taken[x] = 0 /\ ~Queued(x)
  /\ taken' = [taken EXCEPT ![x] = 1]
  /\ UNCHANGED queue

Next ==
  \/ \E t \in Threads : TakeBack(t) \/ TakeFront(t)
  \/ \E x \in Items : RunNow(x) \/ \E t \in Threads : Put(t, x)

Spec == Init /\ [][Next]_vars
=============================================================================
