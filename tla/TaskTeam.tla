------------------------------ MODULE TaskTeam ------------------------------
(***************************************************************************)
(* The tasks of a team between and in its barriers (kmp_tasking.cpp, the    *)
(* wait loop of kmp_wait_release.h and __kmp_barrier).                      *)
(*                                                                          *)
(* Threads that wait in a barrier run queued tasks, their own or stolen     *)
(* ones.  The master may only release the barrier when no task is left.  It *)
(* learns that from a counter of the task team, tt_unfinished_threads,      *)
(* which a thread in the release phase decrements once it finds no work and *)
(* increments again if it steals a task after that.  A team has two task    *)
(* teams, which its barriers use in turn: the next one is set up while      *)
(* threads may still look at it from the barrier before.                    *)
(*                                                                          *)
(* Waiting threads fall asleep unless tasks have been found; the thread     *)
(* that creates the first task wakes the sleeping ones, and so does a       *)
(* thread that chooses a sleeping victim.  Flags are those of Barrier, with *)
(* the bump of a flag and the resumption of its sleeper in one step.        *)
(***************************************************************************)
EXTENDS Naturals, Sequences, SequencesExt, FiniteSetsExt

CONSTANTS
  N,                         \* tt_nproc, the threads are 0..N-1
  MaxTasks,                  \* bound of the tasks that are created
  MaxRounds                  \* bound of the barriers a thread enters

ASSUME NAssumption == N \in Nat /\ N > 1

Threads == 0..N-1
Nested  == N                 \* a task whose parent is not an implicit task
None    == N + 1             \* no task
NoTeam  == 2                 \* th_task_team is NULL

VARIABLES
  parent,                    \* the parents of the workers in both patterns
  active, found_tasks, unfinished,   \* the fields of the two task teams
  deque,                     \* of each task team and thread: the parents of
                             \* the queued tasks
  task_state, task_team,     \* th_task_state, th_task_team
  arrived, go,               \* how often each has arrived, b_go
  pc, phase,                 \* which of the waits of the barrier it is in
  kids,                      \* the children to be gathered or released
  finished,                  \* the local variable tasks_completed
  running,                   \* the task that a thread in a barrier runs
  look,                      \* the threads that it has yet to look at for
                             \* sleepers in __kmp_enable_tasking
  incomplete,                \* td_incomplete_child_tasks of the implicit tasks
  created,                   \* number of tasks created
  entered, left              \* how many barriers each has entered and left

teams   == <<active, found_tasks, unfinished>>
thread  == <<task_state, task_team>>
flags   == <<arrived, go>>
barrier == <<phase, kids, entered, left>>
tasks   == <<deque, running, incomplete, created>>
vars    == <<parent, teams, thread, flags, barrier, tasks, pc, finished, look>>

Init ==
  /\ parent \in {p \in [Threads -> Threads] : p[0] = 0 /\ \A t \in 1..N-1 : p[t] < t}
  /\ active = [s \in 0..1 |-> TRUE]
  /\ found_tasks = [s \in 0..1 |-> FALSE]
  /\ unfinished = [s \in 0..1 |-> N]
  /\ deque = [s \in 0..1 |-> [t \in Threads |-> <<>>]]
  /\ task_state = [t \in Threads |-> 0]
  /\ task_team = [t \in Threads |-> 0]
  /\ arrived = [t \in Threads |-> 0]
  /\ go = [t \in Threads |-> FALSE]
  /\ pc = [t \in Threads |-> "work"]
  /\ phase = [t \in Threads |-> "none"]
  /\ kids = [t \in Threads |-> {}]
  /\ finished = [t \in Threads |-> FALSE]
  /\ running = [t \in Threads |-> None]
  /\ look = [t \in Threads |-> {}]
  /\ incomplete = [t \in Threads |-> 0]
  /\ created = 0
  /\ entered = [t \in Threads |-> 0]
  /\ left = [t \in Threads |-> 0]

Set(f, t, x) == [f EXCEPT ![t] = x]
Goto(t, from, to) == pc[t] = from /\ pc' = Set(pc, t, to)

(* The thread goes on and wakes w if that sleeps.                           *)
GotoAndWake(t, from, to, w, sleepsHere) ==
  /\ pc[t] = from
  /\ pc' = [pc EXCEPT ![t] = to,
                      ![w] = IF sleepsHere /\ pc[w] = "asleep" THEN "spin" ELSE @]

Kids(t)  == {c \in 1..N-1 : parent[c] = t}
Child(t) == Min(kids[t])

-----------------------------------------------------------------------------
(* Creating tasks, in the implicit task or in a task that the thread runs.  *)

Parent(t) == IF running[t] = None THEN t ELSE Nested

Push(t) ==
  /\ deque' = [deque EXCEPT ![task_team[t]][t] = Append(@, Parent(t))]
  /\ incomplete' = IF Parent(t) = t THEN Set(incomplete, t, incomplete[t] + 1)
                   ELSE incomplete

Create(t) ==
  /\ pc[t] \in {"work", "run"} /\ created < MaxTasks
  /\ created' = created + 1
  /\ IF found_tasks[task_team[t]]
     THEN Push(t) /\ UNCHANGED <<found_tasks, look, pc>>
     ELSE /\ found_tasks' = Set(found_tasks, task_team[t], TRUE)
          /\ look' = Set(look, t, Threads \ {t})
          /\ pc' = Set(pc, t, "enable")
          /\ UNCHANGED <<deque, incomplete>>
  /\ UNCHANGED <<parent, active, unfinished, thread, flags, barrier, running, finished>>

(* th_sleep_loc of one thread is read.                                      *)
EnableWake(t) ==
  /\ look[t] # {}
  /\ GotoAndWake(t, "enable", "enable", Min(look[t]), TRUE)
  /\ look' = Set(look, t, look[t] \ {Min(look[t])})
  /\ UNCHANGED <<parent, teams, thread, flags, barrier, tasks, finished>>

Enabled(t) ==
  /\ look[t] = {}
  /\ Goto(t, "enable", IF running[t] = None THEN "work" ELSE "run")
  /\ Push(t)
  /\ UNCHANGED <<parent, teams, thread, flags, barrier, running, created, finished, look>>

-----------------------------------------------------------------------------
(* The wait loop.                                                           *)

Done(t) ==
  CASE phase[t] = "gather" -> kids[t] = {} \/ arrived[Child(t)] = entered[t]
    [] phase[t] = "tasks"  -> unfinished[task_team[t]] = 0
    [] phase[t] = "go"     -> go[t]
    [] phase[t] = "none"   -> FALSE

final_spin(t) == phase[t] \in {"tasks", "go"}

Spin(t) ==
  LET s == task_team[t] IN
  /\ pc[t] = "spin" /\ ~Done(t)
  /\ IF s # NoTeam /\ ~active[s]
     THEN /\ task_team' = Set(task_team, t, NoTeam)
          /\ Goto(t, "spin", IF found_tasks[s] THEN "spin" ELSE "idle")
     ELSE /\ Goto(t, "spin", IF s # NoTeam /\ found_tasks[s] THEN "own" ELSE "idle")
          /\ UNCHANGED task_team
  /\ UNCHANGED <<parent, teams, task_state, flags, barrier, tasks, finished, look>>

(* Not if new tasks are likely.                                             *)
MaySleep(t) == task_team[t] # NoTeam => ~found_tasks[task_team[t]]

Idle(t) ==
  /\ Goto(t, "idle", "spin")
  /\ UNCHANGED <<parent, teams, thread, flags, barrier, tasks, finished, look>>

(* The blocktime is over.                                                   *)
Suspend(t) ==
  /\ Goto(t, "idle", "suspend")
  /\ MaySleep(t)
  /\ UNCHANGED <<parent, teams, thread, flags, barrier, tasks, finished, look>>

Sleep(t) ==
  /\ Goto(t, "suspend", IF Done(t) THEN "spin" ELSE "asleep")
  /\ UNCHANGED <<parent, teams, thread, flags, barrier, tasks, finished, look>>

-----------------------------------------------------------------------------
(* __kmp_execute_tasks_template.                                            *)

Run(t, task) == running' = Set(running, t, task) /\ pc' = Set(pc, t, "run")

(* __kmp_remove_my_task: the last one.                                      *)
RemoveOwn(t) ==
  LET q == deque[task_team[t]][t] IN
  /\ pc[t] = "own" /\ q # <<>>
  /\ Run(t, Last(q))
  /\ deque' = [deque EXCEPT ![task_team[t]][t] = Front(@)]
  /\ UNCHANGED <<parent, teams, thread, flags, barrier, incomplete, created, finished, look>>

NoOwn(t) ==
  /\ Goto(t, "own", "steal")
  /\ deque[task_team[t]][t] = <<>>
  /\ UNCHANGED <<parent, teams, thread, flags, barrier, tasks, finished, look>>

(* Mutant: sleeping victims are left alone.                                 *)
WakeVictim_Not(t, v) ==
  /\ t # v /\ pc[v] = "asleep"
  /\ GotoAndWake(t, "steal", "steal", v, FALSE)
  /\ UNCHANGED <<parent, teams, thread, flags, barrier, tasks, finished, look>>

(* A random victim sleeps: it is woken and another one chosen.              *)
WakeVictim(t, v) ==
  /\ t # v /\ pc[v] = "asleep"
  /\ GotoAndWake(t, "steal", "steal", v, TRUE)
  /\ UNCHANGED <<parent, teams, thread, flags, barrier, tasks, finished, look>>

(* __kmp_steal_task: the first one; the thread is unfinished again.         *)
Steal(t, v) ==
  LET s == task_team[t] IN
  /\ pc[t] = "steal" /\ t # v
  /\ deque[s][v] # <<>> /\ task_team[v] = s
  /\ Run(t, Head(deque[s][v]))
  /\ deque' = [deque EXCEPT ![s][v] = Tail(@)]
  /\ unfinished' = Set(unfinished, s, unfinished[s] + (IF finished[t] THEN 1 ELSE 0))
  /\ finished' = Set(finished, t, FALSE)
  /\ UNCHANGED <<parent, active, found_tasks, thread, flags, barrier, incomplete, created, look>>

(* The victim had no task, or no further victim is tried.                   *)
NoVictim(t) ==
  /\ Goto(t, "steal", "exhausted")
  /\ UNCHANGED <<parent, teams, thread, flags, barrier, tasks, finished, look>>

(* Its parent has one incomplete child less.                                *)
Complete(t) ==
  /\ pc[t] = "run"
  /\ running' = Set(running, t, None)
  /\ incomplete' = IF running[t] \in Threads
                   THEN Set(incomplete, running[t], incomplete[running[t]] - 1)
                   ELSE incomplete
  /\ Goto(t, "run", IF ~final_spin(t) /\ Done(t) THEN "spin" ELSE "own")
  /\ UNCHANGED <<parent, teams, thread, flags, barrier, deque, created, finished, look>>

(* Mutant: a thread that has finished is counted down again.                *)
Exhausted_Again(t) ==
  LET finishes == final_spin(t) /\ incomplete[t] = 0 /\ unfinished[task_team[t]] > 0 IN
  /\ Goto(t, "exhausted", "idle")
  /\ unfinished' = Set(unfinished, task_team[t],
                       unfinished[task_team[t]] - (IF finishes THEN 1 ELSE 0))
  /\ finished' = Set(finished, t, finished[t] \/ finishes)
  /\ UNCHANGED <<parent, active, found_tasks, thread, flags, barrier, tasks, look>>

Exhausted(t) ==
  LET finishes == final_spin(t) /\ incomplete[t] = 0 /\ ~finished[t] IN
  /\ Goto(t, "exhausted", "idle")
  /\ unfinished' = Set(unfinished, task_team[t],
                       unfinished[task_team[t]] - (IF finishes THEN 1 ELSE 0))
  /\ finished' = Set(finished, t, finished[t] \/ finishes)
  /\ UNCHANGED <<parent, active, found_tasks, thread, flags, barrier, tasks, look>>

-----------------------------------------------------------------------------
(* The barrier around it.                                                   *)

(* __kmp_task_team_setup with the task team after the current one.          *)
Setup(s) ==
  IF active[1 - s] THEN UNCHANGED teams
  ELSE /\ active' = Set(active, 1 - s, TRUE)
       /\ found_tasks' = Set(found_tasks, 1 - s, FALSE)
       /\ unfinished' = Set(unfinished, 1 - s, N)

Enter(t) ==
  /\ entered[t] < MaxRounds
  /\ Goto(t, "work", "spin")
  /\ entered' = Set(entered, t, entered[t] + 1)
  /\ phase' = Set(phase, t, "gather")
  /\ kids' = Set(kids, t, Kids(t))
  /\ IF t = 0 THEN Setup(task_state[0]) ELSE UNCHANGED teams
  /\ UNCHANGED <<parent, thread, flags, left, tasks, finished, look>>

Gather(t) ==
  /\ pc[t] = "spin" /\ phase[t] = "gather" /\ kids[t] # {} /\ Done(t)
  /\ kids' = Set(kids, t, kids[t] \ {Child(t)})
  /\ UNCHANGED <<parent, teams, thread, flags, phase, entered, left, tasks, pc, finished, look>>

Arrive(t) ==
  LET w == parent[t] IN
  /\ t # 0 /\ phase[t] = "gather" /\ kids[t] = {}
  /\ arrived' = Set(arrived, t, arrived[t] + 1)
  /\ GotoAndWake(t, "spin", "spin", w, phase[w] = "gather" /\ Child(w) = t)
  /\ phase' = Set(phase, t, "go")
  /\ finished' = Set(finished, t, FALSE)
  /\ UNCHANGED <<parent, teams, thread, go, kids, entered, left, tasks, look>>

(* Mutant: the master does not wait.                                        *)
TeamWait_Not ==
  /\ phase[0] = "gather" /\ kids[0] = {}
  /\ Goto(0, "spin", "release")
  /\ phase' = Set(phase, 0, "go")
  /\ kids' = Set(kids, 0, Kids(0))
  /\ finished' = Set(finished, 0, FALSE)
  /\ UNCHANGED <<parent, teams, thread, flags, entered, left, tasks, look>>

(* __kmp_task_team_wait: the master waits if tasks were found...            *)
TeamWait ==
  LET s == task_team[0] IN
  /\ phase[0] = "gather" /\ kids[0] = {}
  /\ IF s # NoTeam /\ found_tasks[s]
     THEN /\ Goto(0, "spin", "spin")
          /\ phase' = Set(phase, 0, "tasks")
          /\ UNCHANGED kids
     ELSE /\ Goto(0, "spin", "release")
          /\ phase' = Set(phase, 0, "go")
          /\ kids' = Set(kids, 0, Kids(0))
  /\ finished' = Set(finished, 0, FALSE)
  /\ UNCHANGED <<parent, teams, thread, flags, entered, left, tasks, look>>

(* ... until no thread is unfinished and then deactivates the task team.    *)
Deactivate ==
  /\ phase[0] = "tasks" /\ Done(0)
  /\ Goto(0, "spin", "release")
  /\ active' = Set(active, task_team[0], FALSE)
  /\ task_team' = Set(task_team, 0, NoTeam)
  /\ phase' = Set(phase, 0, "go")
  /\ kids' = Set(kids, 0, Kids(0))
  /\ UNCHANGED <<parent, found_tasks, unfinished, task_state, flags, entered, left, tasks, finished, look>>

WaitGo(t) ==
  /\ phase[t] = "go" /\ go[t]
  /\ Goto(t, "spin", "release")
  /\ go' = Set(go, t, FALSE)
  /\ kids' = Set(kids, t, Kids(t))
  /\ UNCHANGED <<parent, teams, thread, arrived, phase, entered, left, tasks, finished, look>>

Release(t) ==
  /\ kids[t] # {}
  /\ GotoAndWake(t, "release", "release", Child(t), TRUE)
  /\ go' = Set(go, Child(t), TRUE)
  /\ kids' = Set(kids, t, kids[t] \ {Child(t)})
  /\ UNCHANGED <<parent, teams, thread, arrived, phase, entered, left, tasks, finished, look>>

(* __kmp_task_team_sync: on to the other task team.                         *)
Leave(t) ==
  /\ kids[t] = {}
  /\ Goto(t, "release", "work")
  /\ left' = Set(left, t, left[t] + 1)
  /\ phase' = Set(phase, t, "none")
  /\ task_state' = Set(task_state, t, 1 - task_state[t])
  /\ task_team' = Set(task_team, t, 1 - task_state[t])
  /\ finished' = Set(finished, t, FALSE)
  /\ UNCHANGED <<parent, teams, flags, kids, entered, tasks, look>>

-----------------------------------------------------------------------------
Tasking(t) ==
  \/ EnableWake(t) \/ Enabled(t) \/ RemoveOwn(t) \/ NoOwn(t)
  \/ \E v \in Threads : Steal(t, v)
  \/ NoVictim(t) \/ Complete(t) \/ Exhausted(t)

Waiting(t) ==
  \/ Spin(t) \/ Idle(t) \/ Sleep(t)
  \/ Gather(t) \/ Arrive(t) \/ WaitGo(t) \/ Release(t) \/ Leave(t)
  \/ (t = 0 /\ (TeamWait \/ Deactivate))

Next ==
  \E t \in Threads :
    \/ Create(t) \/ Tasking(t) \/ Enter(t) \/ Waiting(t) \/ Suspend(t)
    \/ \E v \in Threads : WakeVictim(t, v)

Spec == Init /\ [][Next]_vars

(* A thread keeps running and comes to its barriers, and thieves that keep  *)
(* choosing victims at random will choose each thread.                      *)
FairSpec ==
  /\ Spec
  /\ \A t \in Threads : WF_vars(Tasking(t) \/ Waiting(t) \/ Enter(t))
  /\ \A v \in Threads : SF_vars(\E t \in Threads : WakeVictim(t, v))

-----------------------------------------------------------------------------
TypeOK ==
  /\ parent \in [Threads -> Threads]
  /\ active \in [0..1 -> BOOLEAN] /\ found_tasks \in [0..1 -> BOOLEAN]
  /\ unfinished \in [0..1 -> 0..N]
  /\ deque \in [0..1 -> [Threads -> Seq(0..N)]]
  /\ task_state \in [Threads -> 0..1] /\ task_team \in [Threads -> 0..NoTeam]
  /\ arrived \in [Threads -> Nat] /\ go \in [Threads -> BOOLEAN]
  /\ pc \in [Threads -> {"work", "enable", "spin", "idle", "suspend", "asleep",
                         "own", "steal", "run", "exhausted", "release"}]
  /\ phase \in [Threads -> {"none", "gather", "tasks", "go"}]
  /\ kids \in [Threads -> SUBSET Threads]
  /\ finished \in [Threads -> BOOLEAN] /\ running \in [Threads -> 0..None]
  /\ look \in [Threads -> SUBSET Threads]
  /\ incomplete \in [Threads -> Nat] /\ created \in Nat
  /\ entered \in [Threads -> Nat] /\ left \in [Threads -> Nat]

(***************************************************************************)
(* The counter of a task team with tasks is the number of threads that have *)
(* not finished in the barrier at hand: a thread that is slow to leave the  *)
(* barrier before, with the same task team or the other, is not mistaken    *)
(* for one of it, and no thread is counted twice.  Nor is the counter, that *)
(* the master waits for as for a flag, ever given a sleep bit, for which it *)
(* has no room (kmp_flag_32 on tt_unfinished_threads).                      *)
(***************************************************************************)
CounterIsExact ==
  /\ \A s \in 0..1 : active[s] /\ found_tasks[s] =>
       unfinished[s] = Cardinality({t \in Threads : ~(finished[t] /\ task_state[t] = s)})
  /\ phase[0] = "tasks" => pc[0] \notin {"suspend", "asleep"}

(***************************************************************************)
(* Termination is detected rightly: while the counter of a task team is 0   *)
(* none of its tasks is queued and nobody that uses it runs one.            *)
(***************************************************************************)
NoTaskIsLeft ==
  \A s \in 0..1 : unfinished[s] = 0 =>
    \A t \in Threads :
      /\ deque[s][t] = <<>>
      /\ task_team[t] = s => running[t] = None

(***************************************************************************)
(* Tasks are done in the barrier before which they were created: when the   *)
(* master begins to release it, or a thread has left it and others have     *)
(* not, its task team has no tasks.                                         *)
(***************************************************************************)
TasksAreDone ==
  \A t \in Threads : (go[t] \/ pc[t] = "release") =>
    \A u \in Threads :
      /\ deque[task_state[t]][u] = <<>>
      /\ task_state[u] = task_state[t] => running[u] = None /\ incomplete[u] = 0

(***************************************************************************)
(* Everybody leaves every barrier in the end: a thread that fell asleep     *)
(* unnoticed does not keep the counter from reaching 0.                     *)
(***************************************************************************)
EverybodyLeaves == <>(\A t \in Threads : left[t] = MaxRounds)
=============================================================================
