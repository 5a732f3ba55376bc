# TLA+ models of the LLVM OpenMP runtime

This directory holds TLA+ specifications of the OpenMP runtime library in
`runtime/src` (its locks, sleeping and waking, barriers, tasks, worksharing
loops, and the forking and joining of teams) and of the data environments of
`libomptarget`.  TLC checks each on small instances; TLAPS proves what matters
most of thirteen of them for every value of the constants.  Line numbers are those
of the repository; unless a file is named they are in `runtime/src`.

1. [The system](#1-the-system)
2. [Modules](#2-modules)
3. [Runs](#3-runs)
4. [Fairness](#4-fairness)
5. [Proofs](#5-proofs)
6. [Where the code differs](#6-where-the-code-differs)
7. [What is not modelled](#7-what-is-not-modelled)
8. [What could come next](#8-what-could-come-next)

## 1. The system

A program compiled for OpenMP calls the entry points of `kmp_csupport.cpp` (or
the GNU ones of `kmp_gsupport.cpp`).  The first call initialises the library;
a parallel region *forks* a team of threads, taken from a pool, which run the
region, meet in *barriers*, share out loops by *dispatch*, defer *tasks* and
*join*.  Nearly all state is shared memory, written with atomic operations,
under small locks or, often, under neither; threads wait by spinning and, when
they have spun for the *blocktime*, by sleeping.

| Component | State | Operations | Talks to |
|---|---|---|---|
| User locks (`kmp_lock.cpp`): TAS, futex, ticket, queuing, DRDPA; nested variants; HLE, RTM and adaptive ones | one lock object each; the queuing lock also `th_spin_here` and `th_next_waiting` of every thread | set, test, unset with and without owner checks, init, destroy | user program, critical sections; ticket locks are the runtime's own *bootstrap* locks |
| Suspend and resume (`z_Linux_util.cpp`, `kmp_wait_release.h`) | sleep bit of a flag, `th_sleep_loc`, `th_suspend_mx`, `th_suspend_cv` | suspend, resume, wake whoever sleeps | barriers, tasking, the pool |
| Barriers (`kmp_barrier.cpp`) | `b_arrived`, `b_go` of every thread, `b_arrived` of the team | gather, release, split barrier, reduction, fork and join halves; patterns linear, tree, hyper, hierarchical | task teams, suspend and resume, fork and join |
| Tasks (`kmp_tasking.cpp`) | a task's flags, `td_incomplete_child_tasks`, `td_allocated_child_tasks`, task groups | create, start, finish, free, taskwait, taskyield, taskgroup, proxy halves, taskloop | deques, dependences |
| Task deques (`kmp_tasking.cpp`) | ring buffer with head, tail, count, size and lock of every thread | push, remove, steal, give, grow, allocate | task teams; outside threads give proxy tasks back |
| Task teams (`kmp_tasking.cpp`) | two structures per team, used in turn: `tt_active`, `tt_found_tasks`, `tt_unfinished_threads`, the deques | enable tasking, execute tasks, set-up, wait, sync | barriers |
| Task dependences (`kmp_taskdeps.cpp`) | graph of nodes with locks, counters, references; hash table of addresses | process, check, release, wait | tasks |
| Dispatch and schedules (`kmp_dispatch.cpp`, `kmp_sched.cpp`) | private and shared loop buffers, `buffer_index`, `ordered_iteration` | init, next, finish, ordered, static bounds | teams |
| Fork, join, pool (`kmp_runtime.cpp`) | teams, hot teams, pools of threads and teams, `th_reap_state`, counts of threads | fork, join, allocate and free team or thread, reap, register and unregister roots | all |
| Cancellation (`kmp_cancel.cpp`) | `t_cancel_request`, `cancel_request` of a task group | cancel, cancellation point, cancellation barrier | barriers, task groups |
| Offloading (`libomptarget`) | table of host data mapped to the device with reference counts, shadow pointers | begin, end, update of data environments, target regions, association | host program, device plugins |
| The rest: allocator, threadprivate tables, atomics, OMPT, affinity, settings, text, statistics, other platforms, the Phi's offload library | | | |

**What is hard** in these is what the models are about.  Words of different
width are compared and swapped over one another (queuing lock); counters wrap
(ticket lock, loop bounds); two words are read one after the other while a third
thread replaces both (DRDPA lock); a wake-up can fall between the last look and
the sleep (futex lock, suspend and resume, barriers); something seen before a
lock was taken is acted upon under the lock (deques, loop stealing, the end of a
data environment); a structure is used again while slow threads still look at
its former use (task teams, dispatch buffers, teams from the pool); a counter
detects an end while what it counts moves (task teams, task dependences, tasks
and their children, loop buffers); one of several allocations fails
(offloading).  `PROJECT.json` lists these hazards at their lines with the
properties that cover them.

**What makes them correct**: locks exclude, and the queuing, ticket and DRDPA
locks are first come, first served; no wake-up is lost; nobody leaves a barrier
before all have entered and everybody leaves it; a reduction has every
thread's data once; a task is run once, after the tasks it depends on, and freed
after its children; a wait returns when what it waits for is done, and it does
return; each iteration of a loop is executed once and ordered sections are in
order; regions nest, and threads and teams are neither lost nor used twice;
offloaded regions compute what they would in one memory.

## 2. Modules

Variables and actions have the names of the code's fields and functions where
TLA+ allows; `map` in `PROJECT.json` gives the lines of every definition.  A
definition with the comment "Mutant" or "A slip" is the one after it with a
plausible mistake; no specification uses it, it shows that the checks can fail.

| Module | What it is |
|---|---|
| `FifoLock` | abstract: a holder, a queue, served in order |
| `QueuingLock` | the MCS-like lock of `omp_set_lock` |
| `TicketLock` | the ticket lock with wrapping counters |
| `DrdpaLock` | the ticket lock with a reconfigurable polling area |
| `NestLock` | the nested ticket lock, over `TicketLock` |
| `TasLock` | the test-and-set lock, simple and nested |
| `MCUserLocks`, `UserLocks_proofs` | the choice of a kind of user lock; refinement of `FifoLock`; proofs of `TicketLock`, of `DrdpaLock`, of the nested locks and of the whole |
| `FutexLock` | the lock that sleeps in the kernel |
| `MCWaitLocks`, `WaitLocks_proofs` | the choice between these two; refinement of `FifoLock` by the queuing lock; proofs of both |
| `SuspendResume` | sleep bit, `th_sleep_loc`, mutex and condition variable |
| `BarrierSpec` | abstract: nobody leaves its k-th barrier before all have entered theirs |
| `Barrier`, `Barrier_proofs` | gather and release in three patterns each, sleeping waiters, reduction; refinement; proofs |
| `WorkQueues` | abstract: queues with an owner's and a thief's end |
| `TaskDeque` | the ring buffers, stale checks, outside givers, growth; refinement |
| `MCWaiting`, `Waiting_proofs` | a team with `TaskDeque`, a second one, and a sleeper with `SuspendResume`; proofs of both teams and of the sleeper |
| `TaskTeam`, `TaskTeam_proofs` | tasks in barriers, the counter of unfinished threads, the two task teams; proofs |
| `TaskOrder` | abstract: what depend clauses promise |
| `TaskDeps`, `MCTaskDeps`, `TaskDeps_proofs` | hash table, nodes, predecessor counts and references; refinement; proofs |
| `TaskLife`, `MCTaskLife`, `TaskLife_proofs` | allocation, scheduling points, groups, proxy and untied tasks, freeing; proofs |
| `WorkShare` | abstract: iterations given out once, ordered sections in order |
| `Dispatch`, `MCDispatch` | all schedules, the ring of buffers, stealing, ordered; refinement |
| `StaticSched`, `MCLoops`, `LoopsInv`, `Loops_proofs` | the bounds of static schedules; instances of both kinds of loop; the invariants for the proofs, proofs of `Dispatch`, its refinement and `StaticSched` |
| `Nesting` | abstract: what a program is told about its regions |
| `ForkJoin`, `MCForkJoin` | teams, hot teams, pools, roots; refinement |
| `OneMemory` | abstract: regions that run in one memory |
| `TargetMap`, `MCTargetMap` | map entries, the table with its counts, transfers, regions, fallback; refinement |

**Locks.**  One action is one access to shared memory, because the algorithms
live from the order of these.  Threads are `1..N`, as the locks store gtid+1.
A call to `omp_set_lock`, `omp_test_lock` or `omp_unset_lock` includes its owner
checks, which go to `fatal` where the code stops the program.  The environment
is a correct program: a thread unsets only what it has set and does not set a
simple lock twice.  `QueuingLock` keeps the two ends of the queue as two
variables, and an action changes both where the code uses the 64-bit
compare-and-store.  `TicketLock` counts modulo `Mod`, the code's 2^32;
`NoFullTurn` leaves out the runs in which a test is overtaken by a whole turn of
the counter.  `NestLock` adds `depth_locked` and counts the sections a thread
has entered; its actions are those of `TicketLock` with what the nested
functions do around them.  `DrdpaLock` keeps every polling area ever allocated,
with a `freed` bit, so that an access to a freed area or beyond its end is seen
(`fault`); the model stops there.  In `FutexLock`, `FUTEX_WAIT` may fail or be
interrupted and `FUTEX_WAKE` wakes up to `Most` threads of its choice.

**SuspendResume.**  One waiter in its waits one after the other, the releaser of
its location, and strays: the threads that wake whoever has a `th_sleep_loc`.
The mutex is modelled where the waiter holds it across actions; a resume,
which is one critical section, is one action that requires it free.
`th_sleep_loc` is the number of the wait whose flag it points to, so that a
dangling pointer is visible as a number other than `wait`; the type read
through it without the mutex is then arbitrary.

**Barrier.**  The parents and children of a thread are sets computed by the
arithmetic of the code: the loops of the gather give `GatherKids`, the masks of
the signalling side `Parent`, the reverse loop of the hyper release
`ReleaseKids`.  Flags are records of a count of bumps and the sleep bit.  Waiting
and going to sleep are one action each (the protocol between them is
`SuspendResume`), signalling is two: the bump, then the look at the bit with the
resume.  The waiter that a signaller resumes is the one it computes, and it wakes
only if it sleeps on that flag.  The initial states have every pair of patterns.
`reduce_data[t][u]` counts how often `u`'s data is in `t`'s.  A split barrier is
one in which the master pauses before `Release`.

**TaskDeque.**  A section under `td_deque_lock` is one action (the lock is a
ticket lock, which excludes by a theorem of `UserLocks_proofs`); what is read
before the lock is read in an action of its own.  The sizes are small powers of
two for the code's 256, and `pass` has `PassBits` value bits for the 31 of an int.

**TaskTeam.**  The tree of parents is any tree with parents before children, the
same in both halves, which covers the patterns by what `ParentsAreWoken` shows.
Flags are those of `Barrier` with bump and resumption in one step; going to sleep
is two steps (the decision, then the check of the flag with the mutex held)
because the window between matters for `__kmp_enable_tasking`.  Queues are
sequences, which is what `TaskDeque` shows they are; a queued task is the name of
its parent when that is an implicit task and `Nested` otherwise, which is all that
the termination condition looks at.

**TaskDeps.**  One parent enters tasks and waits with lists of dependences, one
action for each entry of a list and each lock of a node; threads that have run a
task release its successors, one action for each.  A node on the waiting thread's
stack disappears when the wait returns.  Counts of predecessors begin at -1 and
are decremented before all links are made, as in the code.

**TaskLife.**  A thread is a stack of frames, the tasks it has begun and what it
does in each: its body (create, wait, open and close groups, yield, cancel, end,
which the program chooses) or the runtime's functions, whose steps are the
atomic decrements, the accesses to deques, and what depends on them.  The deques
are those of `TaskDeque` with their operations as one step, dependences those of
`TaskDeps` as one.  Memory that is freed is known as such and an access to it is
a `fault`.

**Dispatch, StaticSched.**  Iterations are counted from 0; the code multiplies
by the stride and adds the lower bound.  The arithmetic is that of numbers of
`Width` bits where the code's may overflow.  One action is one atomic
instruction on the shared buffer or one critical section of the stealing loop
with 8-byte counters; what the code computes between them belongs to the action
before.  `fault` is an assertion, or a steal lock that is used after it is destroyed.
`StaticSched` computes the bounds of one thread per action; `Executed` is what
the generated code makes of them.

**ForkJoin.**  All data that change under `__kmp_forkjoin_lock`, or belong to one
thread until others see them, are one record, `rt`; an action is one critical
section with what its thread does around it, and a waiting thread has a `pc`.
The program (`MCForkJoin`) has a number of roots, sizes of regions to ask for,
and the settings: whether nesting is on, the levels with hot teams and their
mode, the limits of threads, the size of the tables.  A thread or team that is
not in use is in a pool, or does not exist.

**TargetMap.**  A host address is the number of a cell, one on the device a block
and an offset; the value of a cell is how often it was written.  Each access to
the table under `DataMapMtx`, each transfer and each use of the shadow map is an
action; the steps of one construct go through its entries as the loops of the
code do.  `Translate` is `translate_map`: members of structures and pointees get
a combined entry before them.  A region runs on the device where its parameters
and the pointers in device memory lead, or on the host.  Two details are folded:
the second lookup for a parameter that is handed back (`omptarget.cpp:1666`) takes
the address that the same entry's first lookup gave, and the padding that aligns a
combined entry (1538) has no counterpart, as every cell has the size of a pointer.

**How they compose.**  `FifoLock` is what the lock modules show and what bootstrap
locks are taken for elsewhere.  `SuspendResume` is the detail of `asleep` in
`Barrier` and `TaskTeam`.  `Barrier` without tasks and `TaskTeam` with simplified
flags together are `__kmp_barrier`; `TaskDeque` is the detail of the queues of
`TaskTeam` and `TaskLife`, `TaskDeps` that of the dependences of `TaskLife`, and
`TaskTeam` the end of a barrier in which `TaskLife` leaves tasks.  `ForkJoin` uses
barriers as its waits and supplies the teams in which all the others run.

Several instances are checked in one run where they have a choice in common and
nothing else: `MCWaitLocks` and `MCUserLocks` (the kind of the locks), `MCWaiting` (what a waiting
thread does), `MCLoops` (the kind of the schedule).  The initial state chooses
one; the variables of the others do not change.

## 3. Runs

| Run | Instance | Shows |
|---|---|---|
| `wait_locks` | 4 threads with a queuing lock, or a futex lock of which one sleeper is woken at a time | exclusion of either; of the queuing lock, reads that stay true (`NoStaleRead`) and service in queue order (`ImplementsFifoLock`, with liveness); of the futex lock, that the obligation to wake is never dropped and somebody gets on |
| `user_locks` | 3 threads; 4 tickets that wrap; depth 2; a DRDPA area that expands and contracts, one test, 6 tickets | exclusion and exact depth whatever the kind, order across wraps and reconfigurations, no area lost or polled when it is gone, every ticket of a simple lock is served |
| `waiting` | 3 waits, 2 types of flags, 2 strays; 2 threads with 3 tasks and deques of 2; 2 threads with full deques of 1 and 2 proxies | no lost wake-up, no dangling pointer used; rings implement `WorkQueues`, nothing is written beside them, every task runs and every proxy finds room |
| `barrier` | 5 threads, 2 barriers, gather by 2 and release by 4 branches, 9 pairs of patterns | `BarrierSpec` with its liveness; complete reductions; `ParentsAreWoken` for all teams up to 24 threads and 2, 4, 8 branches |
| `task_team` | 3 threads, 2 tasks, 3 barriers, both trees | exact counter, tasks done in their barrier, all leave |
| `task_deps` | 4 tasks and waits, 2 addresses, 3 kinds of lists, each entered or waited for | `TaskOrder`; counts of references and predecessors are exact; everything runs |
| `task_life` | 2 threads, up to 3 tasks; six programs: dependences, nested groups, cancelled groups, untied in parts, mixed, proxies | memory goes back last and always, the scheduling constraint holds for tied tasks, waits return only when they may, and everything ends |
| `loops` | 2 and 3 threads, 2 buffers, up to 3 loops of every schedule, 6-bit numbers; every static loop of 5-bit numbers that fits | `WorkShare`; buffers are used by one loop at a time; every loop ends; static shares are exact |
| `fork_join` | up to 5 threads, 1 or 2 roots, 3 or 4 forks, five settings | `Nesting`; nobody lost; task states agree; limits kept; every region ends |
| `target_map` | 19 programs of one or two threads | `OneMemory`; device memory and shadows are neither given back early nor left behind |
| `target_chain` | a pointer to a pointer | violated: see section 6 |
| `deque_proxies` | 2 threads, one of which has no deque yet, 4 tasks, a proxy | violated: see section 6 |

Why the bounds suffice.  *Locks*: the queuing lock distinguishes queues of no,
one and more threads, so a holder and three more with any overlap of calls meet
every case; four threads also let a futex lock have a holder, a thread that
passes by with a test and two sleepers.  Three threads and four tickets wrap with
the fewest spare tickets the assumption allows; six DRDPA tickets let the area
grow, be replaced and its predecessor be freed twice; at depth 2 there is an unset
that keeps the lock and one that does not.  *Barrier*: five threads make trees of
depth two or three, are no power of either branch factor (the case in which
children are missing), and two barriers let a fast thread enter the second while
others leave the first.  *TaskTeam*: the third barrier uses the first task team
again; two tasks let a finished thread steal a task that another one spawned.
*Deques*: three tasks do not fit into a deque of two, and head is not 0 when it
wraps or grows.  *TaskDeps*: four items have readers between writers, a node
with two successors and one with two predecessors, at one and at two addresses,
and a wait between tasks.  *TaskLife*: three tasks are a task, its
child and grandchild, or two siblings and a child, and a deque of one makes the
third run at once.  *Loops*: three loops use the first of two buffers again;
shares that do not divide evenly and chunks beyond the end occur in all
schedules, and 13 iterations make guided chunks of several sizes.  *ForkJoin*: hot teams
grow from 2 to 3 threads and shrink, inner teams take threads from the
pool that outer ones gave back, and two roots meet the limit.  *TargetMap*: the
programs are one for each way data get to a region (structures, pointers in
structures, sections, updates, modifiers, association, returned pointers, private data),
each interleaving of two threads, and each point at which memory can run out.

`Barrier`, `TaskTeam`, `TaskDeps`, `TaskLife`, `MCWaiting`, `MCLoops`,
`ForkJoin` and `TargetMap` bound the rounds, tasks, loops, forks or constructs and
then stop, and `DrdpaLock` ends at `MaxTicket` or at a bad access, so deadlock is
not checked there; liveness properties say that the others do not stop early, and
in `TargetMap` no construct waits for anything.  The queuing and futex locks run for ever and deadlock is
checked.

## 4. Fairness

Every fair specification assumes weak fairness of threads that are *inside* the
runtime, the operating system's scheduler, and nothing about calls: a thread
need not ask for a lock, but one that holds it unsets it.  Beyond that:

- `MCUserLocks`: a thread may stay in a nested lock for ever, setting and
  unsetting it, so that `TicketIsServed` speaks of simple locks.
- `Barrier`: a thread inside a barrier goes on; none has to enter the next.
- `TaskDeque`: threads in a barrier keep looking for tasks.  In the second team
  of `MCWaiting` only the outside threads are sure to run.
- `SuspendResume`: a signalled waiter wakes.  The releaser gets the mutex if it
  is free again and again (strong fairness), as a POSIX mutex grants
  in practice; strays have no fairness and may stop anywhere.
- `TaskTeam`: threads come to their barriers.  Strong fairness of waking each
  sleeping victim stands for the random choice of victims (`kmp_tasking.cpp:2058`):
  a thief that keeps choosing chooses each thread in the end.  The code's
  comment at 2064 relies on the same.
- `TaskDeps`, `TaskLife`: what is queued is taken, bodies end, proxy tasks are
  completed from outside; the parent need not create more.
- `Dispatch`: the threads of a team pass through all of its loops, which a
  correct program makes them do.
- `ForkJoin`: threads start, arrive, wait, join and end what they are in; no
  region has to be forked, and roots need neither come nor go.
- `TargetMap` has no fairness and no liveness property: nothing in it waits.

## 5. Proofs

TLAPS proves for every value of the constants (module: theorems).

- `WaitLocks_proofs`: of the queuing lock, `TypeCorrect`, `QueueIsSound`,
  `ReadsStayTrue`, `ChecksNeverFire`, for every number of threads.  Exclusion is
  not inductive: the store of `head_id` in release and the store that wakes the
  next thread look at nothing.  The inductive invariant `IInv` adds that the links
  form one list that ends at `tail_id` (`OneList`, `Links`), that
  (head_id, tail_id) is in a documented state (`LegalEnds`), and that what a
  releasing thread has read stays true until it acts (`NoStaleRead`).
  `WaitersServedInOrder` is the refinement of `FifoLock` without its fairness (the whole
  of `ImplementsFifoLock` is left to the run).  The threads that wait are one list, the only
  one of its length (`OneQueue`: of two, take the least place where they differ), to which the
  abstract queue is thus equal (`UniqueIs`); each access to the ends or a link leaves it alone, appends
  the thread that queues (`QueueGrows`) or takes off the one the lock passes to
  (`QueueShrinks`).  That the head stored in release without a compare is the second
  of the list follows from `NoStaleRead` and `OneList` (`StoreTurn`).  Of the futex
  lock, `WakeupsAreKept`, `FutexChecksNeverFire`, for every N and `Most`: its invariant
  follows the obligation to wake from the lock word to the releasing thread, to the
  woken thread and back.  `BothExclude` is exclusion of both.
- `UserLocks_proofs`: of the ticket lock, `TicketTyped`, `Excludes`,
  `TicketsStayDistinct`, `ChecksNeverFire`, for
  every N and `Mod > N`.  The argument is `TicketsDistinct`: around the wrap,
  next_ticket is as far ahead of now_serving as there are threads
  with a ticket, so a new ticket never meets one that is out.  The lemmas on
  `Distance` carry the modular arithmetic.  Of all user locks, `UserInvariance`,
  `NestingStaysExact`, `NestedExcludes`, `AreasStaySafe`, for every N, depth and
  `Mod > N`.  Every step of a nested ticket lock is one of the
  simple lock or leaves it alone (`StepBelow`), so that its invariant
  holds; its part `Owner` makes the read of `owner_id`
  without a lock exact, and with it the depth.  The nested test-and-set lock has
  its own invariant, in which the lock's word plays that part.  `AreasStaySafe`
  carries `AreasSafe` over to the choice of locks.
  `TicketsServedInOrder` is the refinement of `FifoLock` by the ticket and the DRDPA
  lock.  The queue is the threads in line in the order of numbers (`InOrder`: how
  far a ticket is ahead of now_serving, or the ticket itself), and a handful of lemmas
  on it do for both locks: it grows at its end, loses its head, or stays, by what becomes of
  the numbers (`LastInOrder`, `FirstInOrder`, `SameOrder`).  That a thread is served whenever
  a ticket of the ticket lock is out is the pigeonhole principle (`SomebodyServed`);
  that the one that finds its ticket in a poll word of the DRDPA lock is the first in line
  is part of `DrdpaTickets`.
- `UserLocks_proofs`: of the DRDPA lock, `DrdpaTypeCorrect`, `DrdpaExclusion`,
  `AreasSafe`, `DrdpaNobodyRefused`, for
  every number of threads and tickets.  `DrdpaIInv` says that there is a number `s`, the
  ticket being served, around which all that were drawn lie (`DrdpaTickets`), that
  no word of an area is above it and only an installing thread leaves it in an
  area that is replaced (`Polled`), how areas follow each other and that a thread still
  polls the last one only with a ticket below `cleanup_ticket`, so that it is not
  freed under it (`Configured`), and, until an area is contracted, that the
  masks in use fit their areas (`Sized`; after that they may not, see section 6).
- `Waiting_proofs`: of `SuspendResume`, `Inductive`, `NoWakeupIsLost`, `NeverDangling`, for every
  set of strays and of types and any number of waits.  `IInv` fixes where
  the waiter holds its mutex (`MutexHeld`), where the sleep bit may be set and that a
  location released with the bit set is under the eyes of the
  releaser (`BitSet`), and that `th_sleep_loc` names the present wait (`LocSet`).
- `Waiting_proofs`: of `TaskDeque`, `TeamInvariance`, `DequesStaySound`,
  `DequesAreQueues`, and of the first team of `MCWaiting`, `FirstTeamHasQueues`,
  for every number of threads and tasks and every size of a deque, in a team that
  is given no proxies (`TeamOnly`).  That the rings are queues needs to know that
  an allocated deque has `ntasks` occupied slots from `head` on (`LiveDeques`), so
  that tail is where the lemmas on the modulo of ring positions put it, and that a
  task is in one place only (`OnePlace`).  With that, each push, removal and theft is the step of
  `WorkQueues` on the sequence that the ring holds, and every other step leaves
  the sequences alone.  `WorkQueues` has no fairness, which makes the refinement
  provable.  `DequesHaveRoom` says of both teams that nothing is written outside of
  a buffer.  The second is given proxies (no thread is one, and all deques are
  allocated: `SecondOnly`), so that its rings are not queues; that they
  stay whole (`Whole`: head and tail are within a buffer of the size the deque has)
  is enough.
- `Barrier_proofs`: `TypeCorrect`, `ReductionIsComplete`, `ParentsWakeUp`,
  `NobodyLeavesEarly`, for every pair of patterns, 2 to 32 branches, teams of up to
  64 threads (the levels of the model) and every number of barriers.  The first
  part is arithmetic: in each pattern the children computed for a thread, when it
  gathers and when it releases, are those whose parent it is (`OneTree`), by lemmas on
  division by the powers of the number of branches.  After that
  only the tree matters.  A thread is late while it has yet to leave the barrier whose gather is
  complete (`Late`).  A parent has passed a child only when that has arrived
  (`Gathers`); so, when the master has no child left, all have arrived, as
  the least thread that has not would have a parent that still waits for it (`Everybody`).
  A thread that its parent has yet to release waits for that with its flag at 0
  (`Releases`).  The data of every thread in the barrier is at exactly one thread
  that its parent has not passed (`Combined`), in the end the master.  `Sleepers`
  is what a wake-up needs to find.  With `Late`, every step is one of `BarrierSpec`
  or leaves it alone; its fairness stays with the run.
- `TaskTeam_proofs`: `TypeCorrect`, `CounterStaysExact`, `TerminationIsReal`,
  `TasksAreDoneFirst`, for every number of threads, tasks and barriers and every
  tree of parents.  A thread is late while it has yet to leave the barrier whose gather was the
  last to be complete (`Late`); no thread is further behind or ahead
  (`Rounds`), as a parent passes a phase only after or before its children (`Tree`; that
  all have arrived when the root has follows from the least thread that has not).
  Late threads use the other task team, which is done or freshly set up; the
  current one counts those that are not finished (`Teams`).  A finished
  thread's deque is empty, and it runs nothing (`Quiet`); that
  its implicit task has no children left needs that children are counted: each is queued in one
  place or run (`Counted`).
- `TaskDeps_proofs`: `TypeCorrect`, `CountsStayExact`, `GraphKeepsOrder`, for every
  number of tasks and waits, every finite set of addresses and all nonempty lists of
  dependences over them.  The order is not inductive as it stands: a task that writes is linked
  to the last readers of an address only, or to its last writer, and what came before
  those has to follow.  So a user of an address is in the table, or before what is
  there, or has finished, or is covered, that is, a task that has yet to notify the
  item cannot have started before it has finished (`Table`, `Covered`).  While the creator goes through the
  nodes that the table gave it, each is still to be looked at, or linked, or has
  finished (`Linked`); thus at the end of a dependence all that it conflicts with is
  covered (`Guarded`), and an item whose counter becomes 0 has nobody left to notify
  it (`StartsLast`, `Waking`).  The counter is that of `Outstanding` by
  `PredecessorsAreExact`, which is part of the invariant; it and the reference counts (`Counted`)
  are cardinalities of sets of places in lists, and most lemmas say how one
  changes when a list grows, shrinks or is replaced.
- `TaskLife_proofs`: `TypeCorrect`, `MemoryLast`, `ConstraintHolds`, `WaitsHonest`, for
  every program and any number of threads, tasks and slots of a deque.  The model's
  recursive functions, the ancestors of a task and the groups above it, are shown to
  exist as the least sets that are closed (`LineageExists`); inductions over them are replaced by
  the least task for which something fails, as parents are older than their children.
  The scheduling constraint follows from the shape of the stacks (`CInv`): what a thread
  works on descends from every suspended task below it, if no untied or proxy task lies between
  (`Obedient`); a task that is taken need only be compared with the top one.  The rest
  needs `LInv`, an account of the task's four counters, all of which are tied to one another: how often a task is
  on a stack or in a deque follows from its status and kind, and an untied task counts
  it (`UsesCounted`); `allocated` is the task itself, its children not yet freed and
  the threads that are about to free it (`MemoryCounted`); `incomplete` is its children to wait
  for, and the imaginary child that holds a proxy task (`ChildrenCounted`); the `count` of a group is its
  tasks that have still to leave it (`MembersCounted`).  So a task whose memory
  goes back is in no place, and a taskwait ends with all children run.  For nested groups this takes
  more, as every task counts in the innermost group only: the group of a task that has not
  run is open, in a frame of the task that opened it, which therefore has not
  ended either (`GroupsOpen`, `GroupsHeld`), up to a task that the outer group counts
  itself (`GroupIsOver`).
- `Loops_proofs`, with the invariants of `LoopsInv`: of `Dispatch`, `BuffersStayOwned`, `PlacesAreTyped`, and
  `LoopsOwnBuffers` of what the run checks, for teams of every size, any number of buffers and
  any list of loops with the schedules of the model.  A loop's buffer is the remainder
  of its number.  A thread in a loop has waited for the buffer to belong to that loop
  (`Has`), so no thread leaves a loop that is `NumBuffers` ahead of the loop to which any
  buffer belongs (`Behind`), and loops in use at once have different remainders.
  Therefore `num_done` counts the threads that have left the buffer's loop or a later one
  (`Counts`), and the thread that counts itself last finds all others ahead of it when it
  resets the buffer (`LastResets`).  The steps within a loop, whatever the
  schedule, change of all this the iterations only (`WorksKeeps`).
- `Loops_proofs`: of `StaticSched`, `SharesOfTeams`, which is `SharesAreExact` for the
  calls of `__kmpc_for_static_init` with bounds of any width, increments of both
  signs, any number of threads and any chunk (of `static_balanced_chunked`, one of at least 1; the code
  takes it to be a power of two, the proof does not).  The type must have
  the values that are computed (`HasSpace`, asked of more than one thread and a loop that is not empty only):
  the last bound and one more increment if the schedule is balanced,
  one per thread if greedy, one per iteration of all threads' chunks if there are chunks.
  The iterations are `It(l, d, j)` for `j` below the trip count, which
  unsigned arithmetic gets right unless the loop has all values (`IsLoop`).  Either the parts of the threads lie
  between `n + 1` ascending numbers (`Splits`), or the thread of an iteration is the remainder of
  its chunk's number (`Owner`); in both the parts are disjoint and cover all, and that of the
  last iteration is the one that is flagged (`Exact`).  The invariant
  (`SharesInv`) only adds that a thread that has called has its own answer.
- `Loops_proofs`: of `Dispatch`, `LoopsShareWork` and `LoopsKeepSharing`: the refinement of
  `WorkShare`, for teams of every size, any number of buffers, loops and iterations, ordered or not, of
  programs whose schedules end up as one of six (`PlainSchedules`, all but static_steal and guided_analytical) and whose
  induction variable has room for what the threads add to it behind the end of a loop
  (`Reach`: a chunk per thread and one more; without that room the dynamic schedule does give an iteration out twice, see
  section 6).  `DealInv` says what `ran` is: 1 for exactly the iterations
  that were dealt (`Exactly`).  They are those below the place to which the shared counter has come (`Position`; of the
  trapezoidal schedule a sum of falling chunks) or, of static schedules, those
  of which the owner is past the chunk (`Mine`, `Passed`).  The loop is spoken
  of, not its buffer, as the last thread resets that before it has left; once a thread has been told that
  there is no more, the counter is behind the end and every iteration dealt (`Advanced`),
  and how far behind is bounded by the number of threads that have been told so: it does not overflow.  `TurnInv` is about ordered loops: `ordered_iteration`
  has counted the iterations that are dealt less those that threads have still to count
  (`TurnsCount`), whose chunks are disjoint (`Disjoint`); so the one whose turn it is
  has the iteration of that number, no other is in a section, and the last one was before it
  (`SectionsOf`).  All programs of the run satisfy `Plain` but those with one of the two other schedules.

Each follows the same plan: `Init => IInv`; one lemma per action, or per group of
actions, for `IInv /\ Action => IInv'`; then the theorem by `PTL`.  The
assumptions are those named in the modules (`NAssumption`, `ModAssumption`,
`MostAssumption`, `DequesAssumption`, `ThreadsAssumption`, `BoundsAssumption`, `DepthAssumption`, `SleepersAssumption`, `RoundsAssumption`, `BitsAssumption`,
`ItemsAssumption`, `AddrsAssumption`, `ListsAssumption`, `BuffersAssumption`,
`ProgramsAssumption`, `StaticAssumption`;
the DRDPA lock's are the definition `Assumptions`); TLC evaluates them in every run.

Only model-checked: all liveness properties, the fairness in refinements
and the refinements not named above (ENABLED and liveness are out of the prover's reach); how often tasks of a deque
that is given proxies are taken; `ImplementsWorkShare` for loops that threads steal from each
other, where with nowait it is wrong (section 6), and for the analytical schedule, whose bounds are
powers, about which it takes inductions; the calls of `StaticSched` for distribute constructs and teams, and those for
which the type has too few values; `TargetMap`, whose invariant needs inductions over
lists and loops that the prover cannot instantiate; and `ForkJoin`, which is
written with recursive operators, with which the prover does not work.

## 6. Where the code differs

The properties of two runs are violated by the code:

- `target_chain` (`libomptarget/src/omptarget.cpp:1639`).  When a chain
  `s.p->q` is mapped, the entry of a pointer that is itself a pointee counts up
  twice when a construct begins, for itself and for its own pointee (`UpdateRef`
  is true at 1635), and at the end only once, for itself (1795).  It stays on the
  device for ever, against the comment at 1882: the end "releases target memory
  and destroys the host-target mapping (top entry from the stack of data maps)
  created by the last __tgt_target_data_begin".
- `deque_proxies` (`kmp_tasking.cpp:2353`).  A thread sets `td_deque` before
  `td_deque_size` when it allocates its deque, without a lock, as "No lock is needed
  during allocation since each thread allocates its own deque" (2331).  A
  thread from outside that gives back a proxy task in between sees a full deque of
  size 0, doubles it to size 0 and writes beside it, at the comment "lock is held here,
  and there is space in the deque" (2926).

More configurations reproduce, outside of what the passing runs allow, what goes wrong;
their properties are the ones of the modules:

| Configuration (module) | What TLC finds |
|---|---|
| `DrdpaLockContract.cfg` (`DrdpaLock`), `AccessInArea` | a contraction publishes the one-word area before it sets `mask` to 0 (`kmp_lock.cpp:2603`).  The order "mask before polls" of waiting threads (2551) protects them from an expansion only: one that has read the old mask and then the new area polls beyond its end |
| `TaskDequeProxies.cfg` (`TaskDeque`) with `Allocated = {0, 1}`, `TakenOnce` | `__kmp_give_task` sees a deque full before it takes the lock and doubles it without another look (`kmp_tasking.cpp:2908`): if a task was taken meanwhile, the emptied slot becomes part of the queue and a task is started twice |
| `MCTaskDepsWait.cfg` (`MCTaskDeps`), `WaitNodeIsLive` | the node of a wait is on the stack of the waiting thread, which returns when `npredecessors` is 0 (`kmp_taskdeps.cpp:608`); a thread that has just decremented it still reads the node's `task` (398) |
| `MCTaskLifeOthers.cfg` (`MCTaskLife`), `SchedulingConstraint`, `TailTellsAll` | the constraint is tested against the current task only (`kmp_tasking.cpp:1853`): below an untied one, suspended tied tasks are not looked at, nor below a proxy task, whose successors are run on top of it when the deque is full (four tasks, `DequeSize = 1`; hence the hypothesis of `ConstraintUnlessUntied`); with a tied task that depends on a proxy task, a task that a waiting thread may run can lie behind one that it may not, which the comment at 1861 rules out |
| `MCDispatchOthers.cfg` (`MCDispatch`), `ImplementsWorkShare`, `StealsFromTheSameLoop`, `StealLockIsLive` | after a loop with nowait, a thief may act on a victim's buffer that already belongs to the next loop (`kmp_dispatch.cpp:1713`), or use the steal lock that the victim has destroyed; a dynamic loop whose end is within a chunk of the largest value wraps |
| `MCLoops` with `StaticInputs <- TopInputs`, `SharesAreExact` | the greedy schedule at the end of the values: the test for overflow compares the two bounds of a thread, both of which may have wrapped (`kmp_sched.cpp:284`) |
| `MCForkJoin` with `NThreads = 5`, `NTeams = 12` and `Programs <- Unusual`, `TaskStatesAgree` | with threads in reserve (`KMP_HOT_TEAMS_MODE=1`), and without hot teams, the workers of a team get other task states than its master |
| `MCTargetMapOthers.cfg` (`MCTargetMap`), both properties | two threads that map the same data at the same time: the second finds the entry and does not wait for the transfer of the first (`omptarget.cpp:1681`), and a shadow pointer is left behind when one of them gives the entry up |

Read in the code, without a configuration:

- *Locks.*  `omp_test_lock` of the DRDPA lock reads `polls` before `mask` (2713),
  the order that the comment at 2710 rules out.  A futex release passes
  `KMP_LOCK_BUSY(1, futex)`, 261 in a build with dynamic locks, as the number of
  threads to wake, while its trace says one (533).
- *Tasks.*  `__kmp_realloc_task_threads_data` copies with the size of a pointer
  (`kmp_tasking.cpp:2465`).  The comment that no other task of a victim can be a
  descendant of the current task (1951) does not hold for tasks that the victim
  pushed for several parents.
- *Fork and join.*  Inner hot teams of threads in the pool, and the reserve of a hot
  team, are not freed by `__kmp_reset_root`; `th_root` of the workers of an inner
  hot team is stale when its master serves another root; a fork that uses
  an inner hot team again when `max_nth` is reached is serialized, as its threads count
  as used; `th_hot_teams[active_level]` is read without a check of the level
  (near `kmp_runtime.cpp:2127`); the comment at 5070 speaks of a `t_nproc` that has been
  overwritten by then.
- *Offloading.*  The copy back is decided before another thread enters the data again, whose
  results are then lost.  `cleanup_map` assumes that all combined entries come
  before the ones of the compiler.  `combined_to_new_id` is not initialised for
  structures whose members are interleaved.  `loopTripCnt` is shared by all
  threads.  When memory runs out in an `enter data`, an entry with NULL remains; when a
  kernel has run and the end of its data fails, the host runs the region again.
  Erasing a shadow and stepping on from its iterator is undefined; in the model the
  program may crash there (`crashed`).

## 7. What is not modelled

Memory is sequentially consistent: the models interleave accesses, as the
atomic operations and `KMP_MB` of the code give it on x86.  Within the modelled
components:

- *Locks*: destruction; nested queuing, DRDPA and futex locks (the same text over
  another lock); hardware transactions.
- *Barriers*: the hierarchical pattern, the fork and join barriers, the push of
  control variables, the cancellation barrier.
- *Tasks*: taskloop, final and serialized tasks and teams; in `TaskTeam` tasks
  run in a taskwait, proxy tasks, changes of the team's size; in `TaskDeps`
  aliases within a list (folded before the graph is built) and hash collisions.
- *Loops*: serialized teams, the bounds of distribute constructs in dispatch,
  doacross loops.
- *Fork and join*: the teams construct, dynamic adjustment of the number of
  threads, the start and end of the library, places, control variables, the count of active pool
  threads, the timed wait.
- *Offloading*: registration of libraries, start of devices with their globals,
  `omp_target_memcpy`, the loop trip count, nowait.

Components without a module are listed in `PROJECT.json` with the reason:
affinity (system calls and the machine's topology); settings, text, tools and
statistics (no state the properties tell apart); atomics (generated, one
step each); the entry points and the tables of locks (calls of what is
modelled); reductions' choice of a method; legacy task queues; other platforms.

## 8. What could come next

The threadprivate tables, the lists of freed blocks of the allocator, the
cancellation of parallel regions and loops with its barrier, the fork and join
barriers with the hierarchical pattern, and the resource scheduler of the Phi's offload
library have state of their own and no module.  Of proofs, the
distribute constructs' shares of `StaticSched` come first.
