------------------------------ MODULE Dispatch ------------------------------
(***************************************************************************)
(* Dispatch of the iterations of worksharing loops                          *)
(* (runtime/src/kmp_dispatch.cpp).  The threads of a team pass through the  *)
(* same sequence of loops without waiting for each other, except at the     *)
(* barriers of the program.  A loop uses one of NumBuffers shared buffers,  *)
(* and of every thread the private buffer of the same number; a thread that *)
(* is ahead waits until the shared buffer belongs to its loop.              *)
(*                                                                          *)
(* Iterations are counted from 0: the code multiplies them by the stride    *)
(* and adds the lower bound.  Their arithmetic is modulo 2^Width.  Teams of *)
(* one thread are serialized and do not come here.                          *)
(***************************************************************************)
EXTENDS Integers, Sequences, FiniteSets

CONSTANTS
  Programs,                  \* the programs: a team size n and its loops
  NumBuffers,                \* __kmp_dispatch_num_buffers
  Width                      \* of the induction variable, in bits

ASSUME BuffersAssumption == NumBuffers \in Nat \ {0} /\ Width \in Nat \ {0}

Schedules == {"static_steal", "static_balanced", "static_greedy", "static_chunked",
              "dynamic", "guided_iterative", "guided_analytical", "trapezoidal"}

ASSUME ProgramsAssumption ==
  \A p \in Programs :
    /\ p.n \in Nat \ {0, 1} /\ DOMAIN p.loops \subseteq Nat \ {0}
    /\ \A l \in DOMAIN p.loops :
         /\ p.loops[l].schedule \in Schedules
         /\ p.loops[l].tc \in 0..2^Width-1 /\ p.loops[l].chunk \in 1..2^Width-1
         /\ {p.loops[l].ordered, p.loops[l].gomp, p.loops[l].wide, p.loops[l].barrier}
              \subseteq BOOLEAN

Buffers == 0..NumBuffers-1
Null    == -1                \* also: outside of ordered sections

VARIABLES
  program,
  disp_index,                \* th_disp_index: of every thread, its next loop
  pc,
  pr,                        \* of every thread and buffer: the private part
  current,                   \* th_dispatch_pr_current and ..._sh_current
  sh,                        \* of every buffer: the shared part
  steal_lock,                \* of every thread: th_steal_lock is not NULL
  frame,                     \* the local variables of __kmp_dispatch_next
  ran, section,              \* history: see WorkShare
  fault                      \* a lock was used that is NULL

history == <<ran, section>>
vars == <<program, disp_index, pc, pr, current, sh, steal_lock, frame, history, fault>>

Tids       == 0..program.n-1
Loops      == DOMAIN program.loops
Loop(l)    == program.loops[l]
MyLoop(t)  == Loop(disp_index[t])
Buffer(l)  == (l - 1) % NumBuffers
Pr(t)      == pr[t][current[t]]
Sh(t)      == sh[current[t]]
Trip(t)    == MyLoop(t).tc - 1
U(x)       == x % 2^Width    \* conversion to the unsigned type
Lesser(a, b)  == IF a < b THEN a ELSE b
Greater(a, b) == IF a < b THEN b ELSE a
Ceiling(a, b) == (a + b - 1) \div b

-----------------------------------------------------------------------------
(* The schedules.                                                           *)

Cycles(L) == Ceiling(L.tc, L.chunk)

(* The schedule that a loop ends up with.                                   *)
Schedule(L) ==
  CASE L.schedule = "static_steal" /\ Cycles(L) < program.n -> "static_balanced"
    [] /\ L.schedule \in {"guided_iterative", "guided_analytical"}
       /\ (2 * L.chunk + 1) * program.n >= L.tc -> "dynamic"
    [] OTHER -> L.schedule

(* The first of total things in the share of thread id.                     *)
Share(total, id) ==
  id * (total \div program.n) + Lesser(id, total % program.n)

Greedy(L) == Ceiling(L.tc, program.n)

(* Guided: the rest is divided by twice the team size; below parm2 the      *)
(* chunks are of the size asked for.                                        *)
SwitchAt(L) == 2 * program.n * (L.chunk + 1)

(* __kmp_dispatch_guided_remaining: tc * ((2n-1) / 2n) ^ i, rounded up.     *)
Remaining(L, i) == Ceiling(L.tc * (2 * program.n - 1)^i, (2 * program.n)^i)

(* The first chunk of guided_analytical that is of the size asked for, and  *)
(* the offset of those chunks.                                              *)
Cross(L) ==
  CHOOSE i \in 1..L.tc :
    /\ (2 * program.n - 1)^i * L.tc <= (2 * L.chunk + 1) * program.n * (2 * program.n)^i
    /\ (2 * program.n - 1)^(i-1) * L.tc > (2 * L.chunk + 1) * program.n * (2 * program.n)^(i-1)

Offset(L) == L.tc - Remaining(L, Cross(L)) - Cross(L) * L.chunk

(* Trapezoidal: the first and the last cycle, their number, the decrement.  *)
First(L)     == Greater(L.tc \div (2 * program.n), 1)
Final(L)     == Lesser(L.chunk, First(L))
Number(L)    == Greater(Ceiling(2 * L.tc, First(L) + Final(L)), 2)
Decrement(L) == (First(L) - Final(L)) \div (Number(L) - 1)

-----------------------------------------------------------------------------
NoFrame == [tries |-> 0, victim |-> 0, old |-> 0, theirs |-> 0, init |-> 0, limit |-> 0, i |-> 0]

Init ==
  /\ program \in Programs
  /\ disp_index = [t \in Tids |-> 0]
  /\ pc         = [t \in Tids |-> "out"]
  /\ pr         = [t \in Tids |-> [b \in Buffers |->
                     [loop |-> 0, count |-> 0, ub |-> 0, lower |-> 1, upper |-> 0, bumped |-> 0,
                      parm4 |-> 0, static_steal_counter |-> 0]]]
  /\ current    = [t \in Tids |-> Null]
  /\ sh         = [b \in Buffers |->
                     [buffer_index |-> b + 1, iteration |-> 0, num_done |-> 0,
                      ordered_iteration |-> 0]]
  /\ steal_lock = [t \in Tids |-> FALSE]
  /\ frame      = [t \in Tids |-> NoFrame]
  /\ ran        = [l \in Loops |-> [i \in 0..Loop(l).tc-1 |-> 0]]
  /\ section    = [l \in Loops |-> [last |-> Null, in |-> Null]]
  /\ fault      = FALSE

Goes(t, from, to) == pc[t] = from /\ pc' = [pc EXCEPT ![t] = to]
Is(t, s)          == pc[t] = "next" /\ MyLoop(t).tc > 0 /\ Schedule(MyLoop(t)) = s
SetPr(t, p)       == pr' = [pr EXCEPT ![t][current[t]] = p]
SetSh(t, s)       == sh' = [sh EXCEPT ![current[t]] = s]

-----------------------------------------------------------------------------
(* __kmp_dispatch_init.  The shared buffer of loop l is known as l - 1 in   *)
(* the code.                                                                *)

Left(t) == IF pc[t] = "out" THEN disp_index[t] ELSE disp_index[t] - 1

Private(t, l) ==
  LET L == Loop(l)
      s == Schedule(L)
      steal == s = "static_steal"
      total == IF steal THEN Cycles(L) ELSE L.tc
      fixed == s = "static_balanced"
      none  == fixed /\ Share(total, t) = Share(total, t + 1)
  IN  [pr[t][Buffer(l)] EXCEPT
         !.loop   = l,
         !.count  = IF steal THEN Share(total, t) ELSE IF none THEN 1 ELSE 0,
         !.ub     = IF steal THEN Share(total, t + 1) ELSE L.tc,
         !.lower  = IF fixed /\ ~none THEN Share(total, t) ELSE 1,
         !.upper  = IF fixed /\ ~none THEN Share(total, t + 1) - 1 ELSE 0,
         !.bumped = IF L.ordered THEN 0 ELSE @,
         !.parm4  = IF steal THEN (t + 1) % program.n ELSE @]

DispatchInit(t) ==
  LET l == disp_index[t] + 1 IN
  /\ l \in Loops
  /\ l > 1 /\ Loop(l - 1).barrier => \A u \in Tids : Left(u) >= l - 1
  /\ Goes(t, "out", "wait")
  /\ disp_index' = [disp_index EXCEPT ![t] = l]
  /\ pr' = [pr EXCEPT ![t][Buffer(l)] = Private(t, l)]
  /\ steal_lock' = [steal_lock EXCEPT
                      ![t] = @ \/ (Schedule(Loop(l)) = "static_steal" /\ Loop(l).wide)]
  /\ UNCHANGED <<program, current, sh, frame, history, fault>>

(* Mutant: the loop may use the buffer while another loop does.             *)
Owned_Always(t) == TRUE

Owned(t) == sh[Buffer(disp_index[t])].buffer_index = disp_index[t]

WaitForBuffer(t) ==
  /\ Goes(t, "wait", IF Schedule(MyLoop(t)) = "static_steal" THEN "flag" ELSE "next")
  /\ Owned(t)
  /\ current' = [current EXCEPT ![t] = Buffer(disp_index[t])]
  /\ UNCHANGED <<program, disp_index, pr, sh, steal_lock, frame, history, fault>>

AllowStealing(t) ==
  /\ Goes(t, "flag", "next")
  /\ SetPr(t, [Pr(t) EXCEPT !.static_steal_counter = @ + 1])
  /\ UNCHANGED <<program, disp_index, current, sh, steal_lock, frame, history, fault>>

-----------------------------------------------------------------------------
(* __kmp_dispatch_next gives out the iterations lower..upper, as far as     *)
(* they are in the loop.                                                    *)

Given(t, lower, upper) ==
  /\ ran' = [ran EXCEPT ![disp_index[t]] =
               [i \in DOMAIN @ |-> IF i \in lower..upper THEN @[i] + 1 ELSE @[i]]]
  /\ frame' = [frame EXCEPT ![t] = [NoFrame EXCEPT !.i = IF MyLoop(t).ordered THEN lower ELSE 0]]
  /\ UNCHANGED <<program, disp_index, current, steal_lock, section, fault>>

AfterChunk(t) == IF MyLoop(t).ordered THEN "iteration" ELSE "next"

(* The private part after a chunk was given.                                *)
Bounded(t, p, lower, upper) ==
  IF MyLoop(t).ordered THEN [p EXCEPT !.lower = lower, !.upper = upper] ELSE p

Give(t, from, p, lower, upper) ==
  LET limit == Lesser(upper, Trip(t)) IN
  /\ Goes(t, from, AfterChunk(t))
  /\ Given(t, lower, limit)
  /\ SetPr(t, Bounded(t, p, lower, limit))

NoMore(t, from) ==
  /\ Goes(t, from, "end")
  /\ frame' = [frame EXCEPT ![t] = NoFrame]
  /\ UNCHANGED <<program, disp_index, pr, current, steal_lock, history, fault>>

NextZeroTrip(t) ==
  /\ pc[t] = "next" /\ MyLoop(t).tc = 0
  /\ NoMore(t, "next") /\ UNCHANGED sh

NextBalanced(t) ==
  /\ Is(t, "static_balanced")
  /\ IF Pr(t).count = 0
       THEN Give(t, "next", [Pr(t) EXCEPT !.count = 1],
                 Share(MyLoop(t).tc, t), Share(MyLoop(t).tc, t + 1) - 1)
       ELSE NoMore(t, "next")
  /\ UNCHANGED sh

NextStatic(t) ==
  LET size == IF Is(t, "static_greedy") THEN Greedy(MyLoop(t)) ELSE MyLoop(t).chunk
      init == U(size * (Pr(t).count + t))
  IN  /\ Is(t, "static_greedy") \/ Is(t, "static_chunked")
      /\ IF init <= Trip(t)
           THEN Give(t, "next", [Pr(t) EXCEPT !.count = @ + program.n], init, U(size + init - 1))
           ELSE NoMore(t, "next")
      /\ UNCHANGED sh

(* The atomic increment of sh.iteration.                                    *)
FetchAndAdd(t, n) == SetSh(t, [Sh(t) EXCEPT !.iteration = U(@ + n)])

NextDynamic(t) ==
  LET init == U(MyLoop(t).chunk * Sh(t).iteration) IN
  /\ Is(t, "dynamic")
  /\ FetchAndAdd(t, 1)
  /\ IF init <= Trip(t)
       THEN Give(t, "next", Pr(t), init, U(MyLoop(t).chunk + init - 1))
       ELSE NoMore(t, "next")

NextTrapezoidal(t) ==
  LET L     == MyLoop(t)
      index == Sh(t).iteration
      init  == U((index * (2 * First(L) - (index - 1) * Decrement(L))) \div 2)
      limit == U(((index + 1) * (2 * First(L) - index * Decrement(L))) \div 2 - 1)
  IN  /\ Is(t, "trapezoidal")
      /\ FetchAndAdd(t, 1)
      /\ IF index < Number(L) /\ init <= Trip(t)
           THEN Give(t, "next", Pr(t), init, limit)
           ELSE NoMore(t, "next")

(* The last branch is the loop on an empty chunk.                           *)
NextAnalytical(t) ==
  LET L     == MyLoop(t)
      index == Sh(t).iteration
      init  == U(index * L.chunk + Offset(L))
      lower == L.tc - Remaining(L, index)
      upper == L.tc - Remaining(L, index + 1) - 1
  IN  /\ Is(t, "guided_analytical")
      /\ FetchAndAdd(t, 1)
      /\ \/ /\ index >= Cross(L)
            /\ IF init > 0 /\ init <= Trip(t)
                 THEN Give(t, "next", Pr(t), init, U(init + L.chunk - 1))
                 ELSE NoMore(t, "next")
         \/ index < Cross(L) /\ lower <= upper /\ Give(t, "next", Pr(t), lower, upper)
         \/ /\ index < Cross(L) /\ lower > upper
            /\ UNCHANGED <<program, disp_index, pc, pr, current, steal_lock, frame, history, fault>>

(* guided_iterative reads the iteration first.                              *)
GuidedRead(t) ==
  /\ Is(t, "guided_iterative")
  /\ Goes(t, "next", "guided")
  /\ frame' = [frame EXCEPT ![t].init = Sh(t).iteration]
  /\ UNCHANGED <<program, disp_index, pr, current, sh, steal_lock, history, fault>>

(* Mutant: the iteration is stored without regard to its old value.         *)
Unchanged_Always(t) == TRUE

Unchanged(t) == Sh(t).iteration = frame[t].init

Guided(t) ==
  LET L    == MyLoop(t)
      read == frame[t].init
      rest == L.tc - read                  \* signed
      now  == Sh(t).iteration
      size == rest \div (2 * program.n)
  IN  /\ pc[t] = "guided"
      /\ \/ rest <= 0 /\ NoMore(t, "guided") /\ UNCHANGED sh
         \/ /\ rest > 0 /\ rest < SwitchAt(L)
            /\ FetchAndAdd(t, L.chunk)
            /\ IF L.tc - now <= 0
                 THEN NoMore(t, "guided")
                 ELSE Give(t, "guided", Pr(t), now, now + L.chunk - 1)
         \/ /\ rest >= SwitchAt(L) /\ Unchanged(t)
            /\ SetSh(t, [Sh(t) EXCEPT !.iteration = read + size])
            /\ Give(t, "guided", Pr(t), read, read + size - 1)
         \/ /\ rest >= SwitchAt(L) /\ ~Unchanged(t)
            /\ Goes(t, "guided", "next")
            /\ UNCHANGED <<program, disp_index, pr, current, sh, steal_lock, frame, history, fault>>

-----------------------------------------------------------------------------
(* static_steal.  A thread takes the next cycle of its own; when it has     *)
(* none left it looks for a victim with two or more, n - 1 times.  With 4   *)
(* bytes count and ub are changed together by a compare and swap, with 8    *)
(* under the lock of their owner, so that either is one step.               *)

Fault == fault' = TRUE /\ UNCHANGED <<program, disp_index, pc, pr, current, sh, steal_lock, frame, history>>

Attempt(t, from, p) ==
  LET last == frame[t].tries + 1 = program.n IN
  /\ Goes(t, from, IF last THEN "end" ELSE "seek")
  /\ SetPr(t, p)
  /\ frame' = [frame EXCEPT ![t] =
                 IF last THEN NoFrame
                         ELSE [NoFrame EXCEPT !.tries  = frame[t].tries + 1,
                                              !.victim = p.parm4,
                                              !.old    = (p.parm4 - 1) % program.n]]
  /\ UNCHANGED <<program, disp_index, current, steal_lock, history, fault>>

GiveCycle(t, from, p, cycle) ==
  LET size == MyLoop(t).chunk IN Give(t, from, p, U(cycle * size), U(cycle * size + size - 1))

NextOwn(t) ==
  LET p   == Pr(t)
      own == p.count < p.ub
  IN  /\ Is(t, "static_steal") /\ UNCHANGED sh
      /\ \/ own /\ (~MyLoop(t).wide \/ steal_lock[t])
            /\ GiveCycle(t, "next", [p EXCEPT !.count = @ + 1], p.count)
         \/ ~own /\ Attempt(t, "next", IF MyLoop(t).wide THEN p ELSE [p EXCEPT !.count = @ + 1])

(* The threads have passed through equally many stealing loops.             *)
Ready(t, v) ==
  /\ current[v] # Null
  /\ Pr(v).static_steal_counter = Pr(t).static_steal_counter

(* One turn of the search: the last thread is taken even if it is t itself. *)
Seek(t) ==
  LET v == frame[t].victim IN
  /\ pc[t] = "seek"
  /\ \/ /\ Ready(t, v) /\ (v # t \/ v = frame[t].old)
        /\ Goes(t, "seek", "rob")
        /\ frame' = [frame EXCEPT ![t].theirs = current[v]]
        /\ UNCHANGED <<program, disp_index, pr, current, steal_lock, history, fault>>
     \/ /\ ~Ready(t, v) \/ v = t
        /\ v # frame[t].old
        /\ frame' = [frame EXCEPT ![t].victim = (v + 1) % program.n]
        /\ UNCHANGED <<program, disp_index, pc, pr, current, steal_lock, history, fault>>
     \/ ~Ready(t, v) /\ v = frame[t].old /\ Attempt(t, "seek", Pr(t))
  /\ UNCHANGED sh

(* A fourth of what is left, or one of two or three.                        *)
Loot(rest) == IF rest > 3 THEN rest \div 4 ELSE 1

Rob(t) ==
  LET v     == frame[t].victim
      their == pr[v][frame[t].theirs]
      rest  == their.ub - their.count
      ub    == their.ub - Loot(rest)
  IN  /\ pc[t] = "rob" /\ UNCHANGED sh
      /\ \/ rest < 2 /\ Attempt(t, "rob", [Pr(t) EXCEPT !.parm4 = (v + 1) % program.n])
         \/ /\ rest >= 2 /\ (~MyLoop(t).wide \/ steal_lock[v])
            /\ Goes(t, "rob", "keep")
            /\ pr' = [pr EXCEPT ![v][frame[t].theirs].ub = ub, ![t][current[t]].parm4 = v]
            /\ frame' = [frame EXCEPT ![t].init = ub, ![t].limit = their.ub]
            /\ UNCHANGED <<program, disp_index, current, steal_lock, history, fault>>

Keep(t) ==
  /\ pc[t] = "keep" /\ UNCHANGED sh
  /\ ~MyLoop(t).wide \/ steal_lock[t]
  /\ GiveCycle(t, "keep", [Pr(t) EXCEPT !.count = frame[t].init + 1, !.ub = frame[t].limit],
               frame[t].init)

(* A lock that is NULL is used: the program ends with an assertion or a     *)
(* segmentation fault.                                                      *)
NoLock(t) ==
  /\ pc[t] # "out" /\ MyLoop(t).wide
  /\ \/ Is(t, "static_steal") /\ Pr(t).count < Pr(t).ub /\ ~steal_lock[t]
     \/ /\ pc[t] = "rob" /\ ~steal_lock[frame[t].victim]
        /\ LET their == pr[frame[t].victim][frame[t].theirs] IN their.ub - their.count >= 2
     \/ pc[t] = "keep" /\ ~steal_lock[t]
     \/ pc[t] = "destroy" /\ \E u \in Tids : ~steal_lock[u]
  /\ Fault

-----------------------------------------------------------------------------
(* Ordered loops: __kmp_dispatch_deo and __kmp_dispatch_dxo around the      *)
(* section, which an iteration may leave out; after the iteration           *)
(* __kmp_dispatch_finish, or (gomp) after the chunk ..._finish_chunk.       *)

MyTurn(t) == Sh(t).ordered_iteration >= Pr(t).lower

EnterOrdered(t) ==
  /\ Goes(t, "iteration", "section") /\ MyTurn(t)
  /\ section' = [section EXCEPT ![disp_index[t]].in = frame[t].i]
  /\ UNCHANGED <<program, disp_index, pr, current, sh, steal_lock, frame, ran, fault>>

ExitOrdered(t) ==
  /\ Goes(t, "section", "finish")
  /\ section' = [section EXCEPT ![disp_index[t]] = [last |-> @.in, in |-> Null]]
  /\ SetPr(t, [Pr(t) EXCEPT !.bumped = @ + 1])
  /\ SetSh(t, [Sh(t) EXCEPT !.ordered_iteration = U(@ + 1)])
  /\ UNCHANGED <<program, disp_index, current, steal_lock, frame, ran, fault>>

SkipOrdered(t) ==
  /\ Goes(t, "iteration", "finish")
  /\ UNCHANGED <<program, disp_index, pr, current, sh, steal_lock, frame, history, fault>>

(* The sections that were left out are counted here.                        *)
CountOrdered(t, all) ==
  IF Pr(t).bumped = all
    THEN UNCHANGED sh
    ELSE /\ MyTurn(t)
         /\ SetSh(t, [Sh(t) EXCEPT !.ordered_iteration = U(@ + all - Pr(t).bumped)])

DispatchFinish(t) ==
  LET more == frame[t].i < Pr(t).upper IN
  /\ Goes(t, "finish", IF more THEN "iteration" ELSE "next")
  /\ frame' = [frame EXCEPT ![t].i = IF more THEN @ + 1 ELSE 0]
  /\ CASE ~MyLoop(t).gomp -> CountOrdered(t, 1) /\ SetPr(t, [Pr(t) EXCEPT !.bumped = 0])
       [] MyLoop(t).gomp /\ more -> UNCHANGED <<pr, sh>>
       [] OTHER -> /\ CountOrdered(t, Pr(t).upper - Pr(t).lower + 1)
                   /\ SetPr(t, [Pr(t) EXCEPT !.bumped = 0])
  /\ UNCHANGED <<program, disp_index, current, steal_lock, history, fault>>

-----------------------------------------------------------------------------
(* The end of __kmp_dispatch_next with status 0.                            *)

LeaveLoop(t, from) ==
  /\ Goes(t, from, "out")
  /\ current' = [current EXCEPT ![t] = Null]

Last(t) == Sh(t).num_done = program.n - 1

CountDone(t) ==
  /\ pc[t] = "end"
  /\ SetSh(t, [Sh(t) EXCEPT !.num_done = @ + 1])
  /\ \/ ~Last(t) /\ LeaveLoop(t, "end")
     \/ /\ Last(t) /\ UNCHANGED current
        /\ Goes(t, "end", IF Schedule(MyLoop(t)) = "static_steal" /\ MyLoop(t).tc > 0 /\ MyLoop(t).wide
                            THEN "destroy" ELSE "reset")
  /\ UNCHANGED <<program, disp_index, pr, steal_lock, frame, history, fault>>

DestroyLocks(t) ==
  /\ Goes(t, "destroy", "reset")
  /\ \A u \in Tids : steal_lock[u]
  /\ steal_lock' = [u \in Tids |-> FALSE]
  /\ UNCHANGED <<program, disp_index, pr, current, sh, frame, history, fault>>

Fresh(s, ordered) ==
  [s EXCEPT !.num_done = 0, !.iteration = 0, !.ordered_iteration = IF ordered THEN 0 ELSE @]

ResetBuffer(t) ==
  /\ Goes(t, "reset", "release")
  /\ SetSh(t, Fresh(Sh(t), MyLoop(t).ordered))
  /\ UNCHANGED <<program, disp_index, pr, current, steal_lock, frame, history, fault>>

(* Mutant: the buffer is passed to the next loop.                           *)
ReleaseBuffer_Next(t) ==
  /\ LeaveLoop(t, "release")
  /\ sh' = [sh EXCEPT ![current[t]].buffer_index = @ + 1]
  /\ UNCHANGED <<program, disp_index, pr, steal_lock, frame, history, fault>>

ReleaseBuffer(t) ==
  /\ LeaveLoop(t, "release")
  /\ sh' = [sh EXCEPT ![current[t]].buffer_index = @ + NumBuffers]
  /\ UNCHANGED <<program, disp_index, pr, steal_lock, frame, history, fault>>

-----------------------------------------------------------------------------
Finished == \A t \in Tids : pc[t] = "out" /\ disp_index[t] = Len(program.loops)

Step(t) ==
  \/ DispatchInit(t) \/ WaitForBuffer(t) \/ AllowStealing(t)
  \/ NextZeroTrip(t) \/ NextBalanced(t) \/ NextStatic(t) \/ NextDynamic(t)
  \/ NextTrapezoidal(t) \/ NextAnalytical(t) \/ GuidedRead(t) \/ Guided(t)
  \/ NextOwn(t) \/ Seek(t) \/ Rob(t) \/ Keep(t) \/ NoLock(t)
  \/ EnterOrdered(t) \/ ExitOrdered(t) \/ SkipOrdered(t) \/ DispatchFinish(t)
  \/ CountDone(t) \/ DestroyLocks(t) \/ ResetBuffer(t) \/ ReleaseBuffer(t)

Next == ~fault /\ \E t \in Tids : Step(t)

Spec == Init /\ [][Next]_vars

(* Every thread goes on: it is in the code of the loops or of the runtime.  *)
FairSpec == Spec /\ \A t \in 0..3 : WF_vars(~fault /\ t \in Tids /\ Step(t))

-----------------------------------------------------------------------------
(* The loops keep the promise of WorkShare: no iteration is given out       *)
(* twice, none is left over, and ordered sections are in order.             *)
Promise == INSTANCE WorkShare WITH left <- [t \in Tids |-> Left(t)]

ImplementsWorkShare == Promise!Spec

(* A shared buffer is used by the threads of one loop at a time, it counts  *)
(* those that have left that loop, and it is as new for the first of them.  *)
InLoop(l) == {t \in Tids : disp_index[t] = l /\ pc[t] \notin {"out", "wait"}}

BuffersAreOwned ==
  \A b \in Buffers :
    LET l == sh[b].buffer_index
        left == {t \in Tids : Left(t) >= l}
        resets == {t \in Tids : disp_index[t] = l /\ pc[t] \in {"destroy", "reset", "release"}}
    IN  /\ \A t \in Tids : current[t] = b => disp_index[t] = l
        /\ resets = {} => sh[b].num_done = Cardinality(left)
        /\ InLoop(l) = {} /\ left = {} => sh[b].iteration = 0 /\ sh[b].ordered_iteration = 0

(* A loop is left in the end by all threads: waits for buffers, for turns   *)
(* in ordered loops and for the last iterations all end.                    *)
EveryLoopEnds == <>Finished

(* A stolen cycle belongs to the loop that the thief executes: "Other       *)
(* threads will inspect this variable when searching for a victim."         *)
StealsFromTheSameLoop ==
  \A t \in Tids : pc[t] = "rob" =>
    pr[frame[t].victim][frame[t].theirs].loop = disp_index[t]

(* The locks of a stealing loop live until the loop is complete: "loop      *)
(* complete, safe to destroy locks used for stealing".                      *)
StealLockIsLive == ~fault
=============================================================================
