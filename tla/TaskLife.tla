------------------------------ MODULE TaskLife ------------------------------
(***************************************************************************)
(* The life of explicit tasks in one team (runtime/src/kmp_tasking.cpp):    *)
(* allocation, deferral or immediate execution, the scheduling points at    *)
(* which a thread runs other tasks, the end of a task, and when its memory  *)
(* goes back.  Task groups and their cancellation, untied tasks that are    *)
(* continued in parts, proxy tasks that end outside the team, and (as one   *)
(* step each) the dependences between siblings of TaskDeps.                 *)
(*                                                                          *)
(* A thread is a stack of frames, its top first: the tasks it has begun and *)
(* what it does in each.  The deques are those of TaskDeque, their          *)
(* operations one step each.  The end of the barrier, in which the threads  *)
(* run what is left, is the subject of TaskTeam.                            *)
(***************************************************************************)
EXTENDS Integers, Sequences, SequencesExt, FiniteSets

CONSTANTS
  NThreads,                  \* threads of the team
  Masters,                   \* those whose implicit task has a body; the
                             \* others are in the barrier from the start
  MaxTasks,                  \* bound of the explicit tasks
  DequeSize,                 \* TASK_DEQUE_SIZE
  Programs                   \* what the tasks may do, see below

ASSUME ThreadsAssumption == NThreads \in Nat \ {0} /\ Masters \subseteq 1..NThreads
ASSUME BoundsAssumption  == MaxTasks \in Nat /\ DequeSize \in Nat

Threads  == 1..NThreads            \* and their implicit tasks
Explicit == NThreads+1..NThreads+MaxTasks
Tasks    == 1..NThreads+MaxTasks
Null     == 0

(* A program is any choice of the bodies of its tasks: of these kinds, at   *)
(* most tasks of them, each with at most parts parts if it is untied.       *)
(* Tasks of the kinds in preds may have successors, the tasks in openers    *)
(* may open a task group, which is cancelled only if cancels says so.       *)
TaskKinds == {"tied", "untied", "proxy"}

ASSUME ProgramsAssumption ==
  Programs \subseteq [kinds : SUBSET TaskKinds, preds : SUBSET TaskKinds, openers : SUBSET Tasks,
                     cancels : BOOLEAN, tasks : 0..MaxTasks, parts : Nat \ {0}]

-----------------------------------------------------------------------------
VARIABLES
  program,
  made,                      \* number of explicit tasks
  kind, parent, after,       \* of every task; after is its predecessor
  status,
  incomplete, allocated,     \* td_incomplete_child_tasks, td_allocated_child_tasks
  untied, part,              \* td_untied_count, part_id
  serial,                    \* td_flags.task_serial
  inherited,                 \* the task group it was created in, named by
                             \* the task that opened it
  group,                     \* of the group that it opened itself:
  count, cancelled,          \* taskgroup->count, ->cancel_request
  stack, deque,              \* of every thread
  fault                      \* a freed task was used, or a task was lost

born   == <<program, made, kind, parent, after, inherited>>
counts == <<incomplete, allocated, untied, part, serial>>
groups == <<group, count, cancelled>>
vars   == <<born, status, counts, groups, stack, deque, fault>>

Init ==
  /\ program \in Programs
  /\ made = 0
  /\ kind = [t \in Tasks |-> IF t \in Threads THEN "implicit" ELSE "none"]
  /\ parent = [t \in Tasks |-> Null]
  /\ after = [t \in Tasks |-> Null]
  /\ status = [t \in Tasks |-> IF t \in Threads THEN "running" ELSE "none"]
  /\ incomplete = [t \in Tasks |-> 0]
  /\ allocated = [t \in Tasks |-> 0]
  /\ untied = [t \in Tasks |-> 0]
  /\ part = [t \in Tasks |-> 0]
  /\ serial = [t \in Tasks |-> t \in Threads]
  /\ inherited = [t \in Tasks |-> Null]
  /\ group = [t \in Tasks |-> "none"]
  /\ count = [t \in Tasks |-> 0]
  /\ cancelled = [t \in Tasks |-> FALSE]
  /\ stack = [th \in Threads |->
       <<[task |-> th, act |-> IF th \in Masters THEN "run" ELSE "barrier"]>>]
  /\ deque = [th \in Threads |-> <<>>]
  /\ fault = "none"

-----------------------------------------------------------------------------
Top(th)      == Head(stack[th])
Does(th, a)  == Top(th).act = a
Task(th)     == Top(th).task
Push(th, t, a) == stack' = [stack EXCEPT ![th] = <<[task |-> t, act |-> a]>> \o @]
Pop(th)        == stack' = [stack EXCEPT ![th] = Tail(@)]
Become(th, a)  == stack' = [stack EXCEPT ![th][1].act = a]
Mark(t, s)     == status' = [status EXCEPT ![t] = s]

(* td_taskgroup: the group that the task has open, or the one it is in.     *)
GroupOf(t) == IF group[t] = "open" THEN t ELSE inherited[t]

Ancestors[t \in Tasks] ==
  IF parent[t] = Null THEN {} ELSE {parent[t]} \cup Ancestors[parent[t]]

Descends(t, cur) == cur \in Ancestors[t]

(* Mutant: a child is counted by the group its parent was created in.       *)
CountedBy_Inherited(t) == inherited[t]

CountedBy(t) == GroupOf(t)

(* __kmp_task_alloc, called by the current task.                            *)
Alloc(th, k, p) ==
  LET cur == Task(th)
      t   == NThreads + made + 1
      g   == CountedBy(cur)
  IN /\ Does(th, "run") /\ made < program.tasks
     /\ p # Null => /\ parent[p] = cur /\ kind[p] \in program.preds
                    /\ status[p] \notin {"released", "freed"}
     /\ made' = made + 1
     /\ kind' = [kind EXCEPT ![t] = k]
     /\ parent' = [parent EXCEPT ![t] = cur]
     /\ after' = [after EXCEPT ![t] = p]
     /\ inherited' = [inherited EXCEPT ![t] = GroupOf(cur)]
     /\ incomplete' = [incomplete EXCEPT ![cur] = @ + 1]
     /\ allocated' = [a \in Tasks |-> allocated[a] +
          (IF a = t \/ (a = cur /\ cur \in Explicit) THEN 1 ELSE 0)]
     /\ count' = [a \in Tasks |-> count[a] + (IF a = g THEN 1 ELSE 0)]
     /\ Mark(t, "new")
     /\ Push(th, t, "submit")
     /\ UNCHANGED <<program, untied, part, serial, group, cancelled, deque, fault>>

-----------------------------------------------------------------------------
(* __kmp_invoke_task up to the routine.  A task of a cancelled group is     *)
(* discarded; a proxy task is neither started nor finished here, so nobody  *)
(* will ever complete one that is discarded.                                *)
Discarded(t) == GroupOf(t) # Null /\ cancelled[GroupOf(t)]

Invoke(th, t, frames) ==
  /\ status' = [status EXCEPT ![t] =
       IF kind[t] = "proxy" /\ ~Discarded(t) THEN "async" ELSE "running"]
  /\ fault' = IF kind[t] = "proxy" /\ Discarded(t) THEN "lost" ELSE fault
  /\ stack' = [stack EXCEPT ![th] = <<[task |-> t, act |->
       IF kind[t] = "proxy" THEN "return"
       ELSE IF Discarded(t) THEN "finish" ELSE "run"]>> \o frames]

(* A proxy task in a deque has completed and waits for its bottom half.     *)
InvokeTaken(th, t) ==
  IF kind[t] = "proxy"
    THEN Push(th, t, "bottom") /\ UNCHANGED <<status, fault>>
    ELSE Invoke(th, t, stack[th])

(* __kmp_push_task counts the submissions of an untied task.                *)
Submitted(t) == [untied EXCEPT ![t] = IF kind[t] = "untied" THEN @ + 1 ELSE @]

(* __kmp_omp_task from the frames that remain: the task goes to the tail of *)
(* the thread's deque, or it is run at once.                                *)
Defer(th, t, frames) ==
  /\ kind[t] # "proxy" /\ ~serial[t] /\ Len(deque[th]) < DequeSize
  /\ deque' = [deque EXCEPT ![th] = Append(@, t)]
  /\ untied' = Submitted(t)
  /\ Mark(t, IF status[t] = "running" THEN "running" ELSE "queued")
  /\ stack' = [stack EXCEPT ![th] = frames]
  /\ UNCHANGED <<serial, fault>>

RunNow(th, t, frames, serialize) ==
  /\ untied' = Submitted(t)
  /\ serial' = [serial EXCEPT ![t] = @ \/ serialize]
  /\ Invoke(th, t, frames)
  /\ UNCHANGED deque

CannotDefer(th, t) == kind[t] = "proxy" \/ serial[t] \/ Len(deque[th]) >= DequeSize

(* __kmpc_omp_task, __kmpc_omp_task_with_deps, or __kmpc_omp_task_begin_if0 *)
(* for a task without predecessor, which may be run at once with room left. *)
Submit(th) ==
  LET t    == Task(th)
      rest == Tail(stack[th])
      held == after[t] # Null /\ status[after[t]] \notin {"released", "freed"}
  IN /\ Does(th, "submit")
     /\ \/ /\ held
           /\ Mark(t, "held") /\ Pop(th)
           /\ UNCHANGED <<untied, serial, deque, fault>>
        \/ ~held /\ Defer(th, t, rest)
        \/ ~held /\ (CannotDefer(th, t) \/ after[t] = Null) /\ RunNow(th, t, rest, TRUE)
     /\ UNCHANGED <<born, incomplete, allocated, part, groups>>

-----------------------------------------------------------------------------
(* What the body of a task does.                                            *)

(* An untied task submits its next part and ends the current one.           *)
NextPart(th) ==
  LET t == Task(th) IN
  /\ Does(th, "run") /\ kind[t] = "untied" /\ part[t] + 1 < program.parts
  /\ GroupOf(t) = inherited[t]
  /\ part' = [part EXCEPT ![t] = @ + 1]
  /\ LET frames == <<[task |-> t, act |-> "finish"]>> \o Tail(stack[th]) IN
       Defer(th, t, frames) \/ (CannotDefer(th, t) /\ RunNow(th, t, frames, TRUE))
  /\ UNCHANGED <<born, incomplete, allocated, groups>>

(* __kmpc_omp_taskwait.                                                     *)
TaskWait(th) ==
  /\ Does(th, "run") /\ incomplete[Task(th)] # 0
  /\ Become(th, "wait")
  /\ UNCHANGED <<born, status, counts, groups, deque, fault>>

WaitEnds(th) ==
  /\ Does(th, "wait") /\ incomplete[Task(th)] = 0
  /\ Become(th, "run")
  /\ UNCHANGED <<born, status, counts, groups, deque, fault>>

(* __kmpc_taskgroup and __kmpc_end_taskgroup.                               *)
TaskGroup(th) ==
  LET t == Task(th) IN
  /\ Does(th, "run") /\ group[t] = "none" /\ t \in program.openers
  /\ group' = [group EXCEPT ![t] = "open"]
  /\ UNCHANGED <<born, status, counts, count, cancelled, stack, deque, fault>>

EndTaskGroup(th) ==
  /\ Does(th, "run") /\ group[Task(th)] = "open"
  /\ Become(th, "endgroup")
  /\ UNCHANGED <<born, status, counts, groups, deque, fault>>

GroupEnds(th) ==
  LET t == Task(th) IN
  /\ Does(th, "endgroup") /\ count[t] = 0
  /\ group' = [group EXCEPT ![t] = "ended"]
  /\ Become(th, "run")
  /\ UNCHANGED <<born, status, counts, count, cancelled, deque, fault>>

(* __kmpc_cancel of a task group.                                           *)
Cancel(th) ==
  LET g == GroupOf(Task(th)) IN
  /\ Does(th, "run") /\ program.cancels /\ g # Null /\ ~cancelled[g]
  /\ cancelled' = [cancelled EXCEPT ![g] = TRUE]
  /\ UNCHANGED <<born, status, counts, group, count, stack, deque, fault>>

(* The routine returns.  The implicit task goes on to the barrier.          *)
BodyEnds(th) ==
  LET t == Task(th) IN
  /\ Does(th, "run") /\ group[t] # "open"
  /\ Become(th, IF t \in Threads THEN "barrier" ELSE "finish")
  /\ UNCHANGED <<born, status, counts, groups, deque, fault>>

-----------------------------------------------------------------------------
(* Scheduling points: a taskwait, the end of a task group and, from the     *)
(* body, a taskyield take one task under the constraint; a barrier takes    *)
(* any.  A thread steals when it has nothing to take itself; as its own     *)
(* deque can be filled from outside at any time, no order is assumed.       *)
Constrained(th) == ~Does(th, "barrier")
CanTake(th)     == Top(th).act \in {"run", "wait", "endgroup", "barrier"}

(* Mutant: the thread takes from its own deque without the constraint.      *)
RemoveAllowed_Any(th, t) == t \in Explicit

(* __kmp_remove_my_task holds only tied tasks back.                         *)
RemoveAllowed(th, t) ==
  Constrained(th) /\ kind[t] = "tied" => Descends(t, Task(th))

RemoveMyTask(th) ==
  /\ CanTake(th) /\ deque[th] # <<>>
  /\ RemoveAllowed(th, Last(deque[th]))
  /\ deque' = [deque EXCEPT ![th] = Front(@)]
  /\ InvokeTaken(th, Last(deque[th]))
  /\ UNCHANGED <<born, counts, groups>>

StealTask(th, victim) ==
  /\ CanTake(th) /\ victim # th /\ deque[victim] # <<>>
  /\ Constrained(th) => Descends(Head(deque[victim]), Task(th))
  /\ deque' = [deque EXCEPT ![victim] = Tail(@)]
  /\ InvokeTaken(th, Head(deque[victim]))
  /\ UNCHANGED <<born, counts, groups>>

-----------------------------------------------------------------------------
(* The end of a task.                                                       *)

(* __kmp_task_finish: an untied task is finished by the last of its parts.  *)
(* The task is complete and the parent has one child less to wait for.      *)
Finish(th) ==
  LET t    == Task(th)
      last == kind[t] = "untied" => untied[t] = 1
  IN /\ Does(th, "finish")
     /\ untied' = [untied EXCEPT ![t] = IF kind[t] = "untied" THEN @ - 1 ELSE @]
     /\ IF last
          THEN /\ Mark(t, "counted") /\ Become(th, "ungroup")
               /\ incomplete' = [incomplete EXCEPT ![parent[t]] = @ - 1]
          ELSE Pop(th) /\ UNCHANGED <<status, incomplete>>
     /\ UNCHANGED <<born, allocated, part, serial, groups, deque, fault>>

LeaveGroup(t) ==
  count' = [a \in Tasks |-> count[a] - (IF a = inherited[t] THEN 1 ELSE 0)]

(* The count of the group; and the task takes no more successors.           *)
Ungroup(th) ==
  LET t == Task(th) IN
  /\ Does(th, "ungroup")
  /\ LeaveGroup(t)
  /\ Mark(t, "released") /\ Become(th, "release")
  /\ UNCHANGED <<born, counts, group, cancelled, deque, fault>>

(* __kmp_release_deps: the successors are submitted.                        *)
Successors(t) == {s \in Explicit : after[s] = t /\ status[s] = "held"}

Release(th) ==
  /\ Does(th, "release")
  /\ \/ \E s \in Successors(Task(th)) :
          /\ \/ Defer(th, s, stack[th])
             \/ CannotDefer(th, s) /\ RunNow(th, s, stack[th], FALSE)
          /\ UNCHANGED <<born, incomplete, allocated, part, groups>>
     \/ /\ Successors(Task(th)) = {}
        /\ Become(th, "free")
        /\ UNCHANGED <<born, status, counts, groups, deque, fault>>

(* Mutant: only the task itself is freed, not its ancestors.                *)
Above_Never(t) == Null

(* The explicit task above, whose turn it is when this one is freed.        *)
Above(t) == IF parent[t] \in Explicit THEN parent[t] ELSE Null

(* One turn of the loop in __kmp_free_task_and_ancestors.                   *)
Free(th) ==
  LET t == Task(th) IN
  /\ Does(th, "free")
  /\ allocated' = [allocated EXCEPT ![t] = @ - 1]
  /\ IF allocated[t] = 1
       THEN /\ Mark(t, "freed")
            /\ IF Above(t) # Null THEN stack' = [stack EXCEPT ![th][1].task = Above(t)]
                                  ELSE Pop(th)
       ELSE UNCHANGED status /\ Pop(th)
  /\ UNCHANGED <<born, incomplete, untied, part, serial, groups, deque, fault>>

-----------------------------------------------------------------------------
(* Proxy tasks.                                                             *)

(* After the routine __kmp_invoke_task looks at td_flags.proxy, for which   *)
(* the task must not have been freed by then.                               *)
Return(th) ==
  /\ Does(th, "return")
  /\ fault' = IF status[Task(th)] = "freed" THEN "freed" ELSE fault
  /\ Pop(th)
  /\ UNCHANGED <<born, status, counts, groups, deque>>

(* __kmpc_proxy_task_completed_ooo, on a thread outside of the team: the    *)
(* first top half, __kmp_give_task to some thread (which extends a full     *)
(* deque), and the two steps of the second top half.                        *)
FirstTopHalf(p) ==
  /\ status[p] = "async"
  /\ Mark(p, "complete")
  /\ LeaveGroup(p)
  /\ incomplete' = [incomplete EXCEPT ![p] = @ + 1]
  /\ UNCHANGED <<born, allocated, untied, part, serial, group, cancelled, stack, deque, fault>>

GiveTask(p, th) ==
  /\ kind[p] = "proxy" /\ status[p] = "complete"
  /\ Mark(p, "given")
  /\ deque' = [deque EXCEPT ![th] = Append(@, p)]
  /\ UNCHANGED <<born, counts, groups, stack, fault>>

SecondTopHalf(p) ==
  /\ \/ /\ status[p] = "given"
        /\ Mark(p, "counted")
        /\ incomplete' = [incomplete EXCEPT ![parent[p]] = @ - 1]
     \/ /\ kind[p] = "proxy" /\ status[p] = "counted"
        /\ Mark(p, "ungrouped")
        /\ incomplete' = [incomplete EXCEPT ![p] = @ - 1]
  /\ UNCHANGED <<born, allocated, untied, part, serial, groups, stack, deque, fault>>

(* Mutant: the bottom half does not wait for the top half.                  *)
TopHalfDone_Always(p) == TRUE

TopHalfDone(p) == incomplete[p] = 0

(* __kmp_bottom_half_finish_proxy: the spin; it goes on like a task.        *)
BottomHalf(th) ==
  /\ Does(th, "bottom") /\ TopHalfDone(Task(th))
  /\ Mark(Task(th), "released") /\ Become(th, "release")
  /\ UNCHANGED <<born, counts, groups, deque, fault>>

Outside(p) ==
  FirstTopHalf(p) \/ SecondTopHalf(p) \/ \E th \in Threads : GiveTask(p, th)

-----------------------------------------------------------------------------
Body(th) ==
  \/ \E k \in program.kinds, p \in Explicit \cup {Null} : Alloc(th, k, p)
  \/ NextPart(th) \/ TaskWait(th) \/ TaskGroup(th) \/ EndTaskGroup(th)
  \/ Cancel(th) \/ BodyEnds(th)

Runtime(th) ==
  \/ Submit(th) \/ WaitEnds(th) \/ GroupEnds(th) \/ Finish(th) \/ Ungroup(th)
  \/ Release(th) \/ Free(th) \/ Return(th)
  \/ BottomHalf(th)
  \/ RemoveMyTask(th) \/ \E victim \in Threads : StealTask(th, victim)

Next ==
  /\ fault = "none"
  /\ \/ \E th \in Threads : Body(th) \/ Runtime(th)
     \/ \E p \in Explicit : Outside(p)

Spec == Init /\ [][Next]_vars

(* Bodies end, threads go on while they can, and proxy tasks complete.      *)
FairSpec ==
  /\ Spec
  /\ \A th \in Threads : WF_vars(fault = "none" /\ (Body(th) \/ Runtime(th)))
  /\ \A p \in Explicit : WF_vars(fault = "none" /\ Outside(p))

-----------------------------------------------------------------------------
Acts == {"run", "submit", "wait", "endgroup", "barrier", "finish", "ungroup",
         "release", "free", "return", "bottom"}

TypeOK ==
  /\ program \in Programs /\ made \in 0..program.tasks
  /\ kind \in [Tasks -> {"implicit", "none", "tied", "untied", "proxy"}]
  /\ parent \in [Tasks -> Tasks \cup {Null}] /\ after \in [Tasks -> Tasks \cup {Null}]
  /\ status \in [Tasks -> {"none", "new", "held", "queued", "running", "async", "complete",
                           "given", "counted", "ungrouped", "released", "freed"}]
  /\ incomplete \in [Tasks -> Nat] /\ allocated \in [Tasks -> Nat]
  /\ untied \in [Tasks -> Nat] /\ part \in [Tasks -> Nat]
  /\ serial \in [Tasks -> BOOLEAN]
  /\ inherited \in [Tasks -> Tasks \cup {Null}]
  /\ group \in [Tasks -> {"none", "open", "ended"}]
  /\ count \in [Tasks -> Nat] /\ cancelled \in [Tasks -> BOOLEAN]
  /\ stack \in [Threads -> Seq([task : Tasks, act : Acts])]
  /\ deque \in [Threads -> Seq(Explicit)]
  /\ fault \in {"none", "lost", "freed"}

(***************************************************************************)
(* The memory of a task goes back last: a freed task is in no deque and on  *)
(* no stack (but for the routine of a proxy task that still has to return), *)
(* the thread outside is through with it, and so are its children, which    *)
(* use it until they have been freed themselves.                            *)
(***************************************************************************)
Freed(t) == status[t] = "freed"

FreedLast ==
  \A t \in Explicit : Freed(t) =>
    /\ \A th \in Threads :
         /\ ~Contains(deque[th], t)
         /\ \A i \in DOMAIN stack[th] : stack[th][i].task = t => stack[th][i].act = "return"
    /\ incomplete[t] = 0
    /\ \A c \in Explicit : parent[c] = t => Freed(c)

(***************************************************************************)
(* A taskwait returns only when the children of the task have run, and the  *)
(* end of a task group only when all tasks have run that were created in it *)
(* by the task or its descendants, in groups of their own as well.          *)
(***************************************************************************)
HasRun(t) == status[t] \notin {"new", "held", "queued", "running", "async"}

InGroup[t \in Tasks] ==
  IF inherited[t] = Null THEN {} ELSE {inherited[t]} \cup InGroup[inherited[t]]

Leaves(th, a) ==
  /\ Does(th, a) /\ Len(stack'[th]) = Len(stack[th]) /\ Head(stack'[th]).act = "run"

WaitsAreHonest ==
  [][\A th \in Threads :
       /\ Leaves(th, "wait") => \A c \in Explicit : parent[c] = Task(th) => HasRun(c)
       /\ Leaves(th, "endgroup") =>
            \A d \in Explicit : Task(th) \in InGroup[d] => HasRun(d)]_vars

(***************************************************************************)
(* In the end every thread is in the barrier with nothing left to do, and   *)
(* every task has been run and freed.  Two exceptions: a fault has stopped  *)
(* the program, or a wait is buried: a thread has taken a part of an untied *)
(* task on top of a descendant of that task and waits there for what it     *)
(* has itself suspended.                                                    *)
(***************************************************************************)
Buried ==
  \E th \in Threads : \E i, j \in DOMAIN stack[th] :
    /\ i < j /\ stack[th][i].act \in {"wait", "endgroup"}
    /\ Descends(stack[th][j].task, stack[th][i].task)

EverythingEnds ==
  <>[](\/ fault # "none"
       \/ Buried
       \/ /\ \A t \in Explicit : status[t] \in {"none", "freed"}
          /\ \A th \in Threads : Len(stack[th]) = 1 /\ Does(th, "barrier"))

(***************************************************************************)
(* The task scheduling constraint: a tied task that a thread has begun and  *)
(* not finished descends from every tied task that it has suspended outside *)
(* of a barrier.  The code checks it against the current task only, and     *)
(* only for tied tasks, which is enough as long as no untied task is on the *)
(* stack.  A proxy task is untied in the code (kmp_tasking.cpp:1024), and   *)
(* the successors that its bottom half submits may be run on top of any     *)
(* task if the deque is full.                                               *)
(***************************************************************************)
Tied(f) == kind[f.task] \in {"implicit", "tied"} /\ f.act \in {"run", "wait", "endgroup"}

Obeys(th) ==
  \A i, j \in DOMAIN stack[th] :
    i < j /\ Tied(stack[th][i]) /\ Tied(stack[th][j])
      => Descends(stack[th][i].task, stack[th][j].task)

SchedulingConstraint == \A th \in Threads : Obeys(th)

ConstraintUnlessUntied ==
  \A th \in Threads :
    (\A i \in DOMAIN stack[th] : kind[stack[th][i].task] \notin {"untied", "proxy"}) => Obeys(th)

(***************************************************************************)
(* The comment at kmp_tasking.cpp:1861 says "If the tail task is not a      *)
(* child, then no other child can appear in the deque": a thread that finds *)
(* a foreign task at its tail has no task of its own to run below it.       *)
(***************************************************************************)
TailTellsAll ==
  \A th \in Threads :
    deque[th] # <<>> /\ Top(th).act \in {"wait", "endgroup"}
      /\ ~RemoveAllowed(th, Last(deque[th]))
      => \A t \in Range(deque[th]) : ~Descends(t, Task(th))
=============================================================================
