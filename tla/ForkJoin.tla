------------------------------ MODULE ForkJoin ------------------------------
(***************************************************************************)
(* Parallel regions (runtime/src/kmp_runtime.cpp): a thread forks a team of *)
(* threads for a region, and joins them at its end; threads and teams come  *)
(* from pools and go back to them; a team that is likely to be used again   *)
(* is kept with its threads (a hot team), one by every root and, if         *)
(* hot_levels > 1, one by every thread for every level of nesting; regions  *)
(* of one thread run in its own serial team.                                *)
(*                                                                          *)
(* All of the data is changed under __kmp_forkjoin_lock, or by the thread   *)
(* it belongs to before others can see it, and is one variable, rt; an      *)
(* action is one critical section and what its thread does around it.       *)
(* Barriers are those of module Barrier: the threads that wait there for    *)
(* work are released, and the master waits for their arrival.  The stack    *)
(* that remembers task states does not outgrow its first size at the        *)
(* nesting that is modelled.                                                *)
(***************************************************************************)
EXTENDS Integers, FiniteSets, Sequences, SequencesExt

CONSTANTS
  NThreads,                  \* numbers of threads (gtids) that can be in use
  NTeams,                    \* teams that can be in use
  Programs                   \* what a process does

VARIABLES
  program,
  rt,                        \* the threads, teams, roots and pools
  pc,                        \* where a thread is
  go,                        \* it is released from the fork barrier
  begun                      \* how many regions and roots have begun

vars == <<program, rt, pc, go, begun>>

Gtids   == 0..NThreads-1
TeamIds == 1..NTeams
NULL    == -1

(* hot_levels and hot_mode: __kmp_hot_teams_max_level and _mode; max_nth:   *)
(* the limit of threads; sys_nth: slots that can be in use; nested and      *)
(* levels: the program's nest-var and max-active-levels-var; sizes: teams   *)
(* asked for; roots: threads of the program that use the library at a time; *)
(* bound: of begun; slots: those there are at first.                        *)
ProgramSet ==
  [hot_levels : Nat, hot_mode : {0, 1}, max_nth : Nat, sys_nth : Nat, slots : Nat,
   nested : BOOLEAN, levels : Nat, sizes : SUBSET Nat, roots : Nat, bound : Nat]

Least(S) == CHOOSE x \in S : \A y \in S : x <= y
Most(S)  == CHOOSE x \in S : \A y \in S : y <= x

(* The numbers from a up to before b, in order.                             *)
Upto(a, b) == [i \in 1..(IF b > a THEN b - a ELSE 0) |-> a + i - 1]

-----------------------------------------------------------------------------
(* Threads and teams                                                        *)

NewThread(tm, tid, root, serial) ==
  [team |-> tm, tid |-> tid, root |-> root, serial |-> serial, task_state |-> 0,
   memo |-> [i \in 0..3 |-> 0], top |-> 0, hot |-> <<>>]

InUse(s, g) == s.thread[g] # <<>>

(* The place of a thread is that of its team's master.                      *)
InitializeInfo(s, tm, tid, g) ==
  [s EXCEPT !.thread[g].team = tm, !.thread[g].tid = tid,
            !.thread[g].root = s.thread[s.team[tm].threads[0]].root]

InitializeTeam(s, tm, nproc) ==
  [s EXCEPT !.team[tm].master_tid = 0, !.team[tm].nproc = nproc,
            !.team[tm].serialized = IF nproc > 1 THEN 0 ELSE 1,
            !.team[tm].master_active = FALSE]

NewTeam(max_nproc) ==
  [threads |-> [i \in 0..max_nproc-1 |-> NULL], nproc |-> 0, max_nproc |-> max_nproc,
   parent |-> NULL, master_tid |-> 0, serialized |-> 0, level |-> 0, active_level |-> 0,
   master_active |-> FALSE]

(* Teams at the head of the pool that are too small are reaped; then one    *)
(* comes from the pool, or it is new.  The result is the state and the team.*)
TooSmall(s, max_nproc) ==
  LET fit == {i \in DOMAIN s.team_pool : s.team[s.team_pool[i]].max_nproc >= max_nproc}
  IN  IF fit = {} THEN Len(s.team_pool) ELSE Least(fit) - 1

Reap(s, n) ==
  [s EXCEPT !.team = [tm \in TeamIds |->
                        IF tm \in Range(SubSeq(s.team_pool, 1, n)) THEN <<>> ELSE @[tm]],
            !.team_pool = SubSeq(@, n + 1, Len(@))]

Initialized(s, tm, nproc) == [rt |-> InitializeTeam(s, tm, nproc), team |-> tm]

TeamFor(s, nproc, max_nproc, new) ==
  IF s.team_pool # <<>>
  THEN Initialized([s EXCEPT !.team_pool = Tail(@)], Head(s.team_pool), nproc)
  ELSE Initialized([s EXCEPT !.team[new] = NewTeam(max_nproc)], new, nproc)

AllocateReaped(s, nproc, max_nproc) ==
  TeamFor(s, nproc, max_nproc, Least({tm \in TeamIds : s.team[tm] = <<>>}))

AllocateTeam(s, nproc, max_nproc) ==
  AllocateReaped(Reap(s, TooSmall(s, max_nproc)), nproc, max_nproc)

(* A serial team in reserve for thread g.                                   *)
InReserve(a, g) ==
  [rt |-> [a.rt EXCEPT !.team[a.team].serialized = 0, !.team[a.team].threads[0] = g],
   team |-> a.team]

SerialTeam(s, g) == InReserve(AllocateTeam(s, 1, 1), g)

(* A thread from the pool for place tid of a team, or a new one.            *)
Placed(s, tm, tid, g) == [InitializeInfo(s, tm, tid, g) EXCEPT !.team[tm].threads[tid] = g]

(* The place of insertion stays at a thread that is in the pool no more.    *)
FromPool_KeepsPlace(s, g) ==
  [s EXCEPT !.pool = Tail(@), !.nth = @ + 1,
            !.thread[g].task_state = 0, !.thread[g].top = 0]

FromPool(s, g) ==
  [s EXCEPT !.pool = Tail(@), !.insert_pt = IF @ = g THEN NULL ELSE @, !.nth = @ + 1,
            !.thread[g].task_state = 0, !.thread[g].top = 0]

Created(a, tm, tid, g) ==
  [a.rt EXCEPT !.nth = @ + 1, !.all_nth = @ + 1,
               !.thread[g] = NewThread(tm, tid, NULL, a.team)]

(* Number 0 is for the first thread of the program alone.                   *)
FreeSlot(s) == Least({g \in 1..NThreads : g = NThreads \/ ~InUse(s, g)})

AllocateNew(s, tm, tid, g) == Placed(Created(SerialTeam(s, g), tm, tid, g), tm, tid, g)

AllocateThread(s, tm, tid) ==
  IF s.pool # <<>> THEN Placed(FromPool(s, Head(s.pool)), tm, tid, Head(s.pool))
  ELSE AllocateNew(s, tm, tid, FreeSlot(s))

AllocateThreads(s, tm, from, to) ==
  FoldLeft(LAMBDA x, f : AllocateThread(x, tm, f), s, Upto(from, to))

(* The pool is sorted; the search for the place begins behind the thread    *)
(* that was put there last, if it is not beyond.                            *)
PoolPlace(s, g) ==
  LET start == IF s.insert_pt # NULL /\ s.insert_pt <= g
                 THEN Cardinality({i \in DOMAIN s.pool : s.pool[i] <= s.insert_pt}) ELSE 0
      rest  == {i \in DOMAIN s.pool : i > start /\ s.pool[i] > g}
  IN  IF rest = {} THEN Len(s.pool) + 1 ELSE Least(rest)

FreeThread(s, g) ==
  [s EXCEPT !.thread[g].task_state = 0, !.thread[g].team = NULL, !.thread[g].root = NULL,
            !.pool = InsertAt(@, PoolPlace(s, g), g), !.insert_pt = g, !.nth = @ - 1]

FreeThreads(s, tm, from, to) ==
  FoldLeft(LAMBDA x, f : [FreeThread(x, x.team[tm].threads[f])
                            EXCEPT !.team[tm].threads[f] = NULL],
           s, Upto(from, to))

-----------------------------------------------------------------------------
(* Hot teams                                                                *)

HasHot(s, g, level) ==
  /\ level < program.hot_levels /\ s.thread[g].hot # <<>>
  /\ s.thread[g].hot[level].team # NULL

(* In mode 1 the threads that are not needed stay in the team.              *)
ShrinkHotTeam(s, g, level, tm, n) ==
  [(IF program.hot_mode = 0
      THEN FreeThreads([s EXCEPT !.thread[g].hot[level].nth = n], tm, n, s.team[tm].nproc)
      ELSE s)
     EXCEPT !.team[tm].nproc = n]

(* The threads from old on get the task state of the master, in an inner    *)
(* region the one that he remembers.                                        *)
SetTaskStates(s, tm, level, old, n) ==
  LET state(master) == IF level > 0 THEN master.memo[level] ELSE master.task_state
  IN  FoldLeft(LAMBDA x, f : [x EXCEPT !.thread[x.team[tm].threads[f]].task_state =
                                         state(s.thread[s.team[tm].threads[0]])],
               s, Upto(old, n))

InitializeInfos(s, tm, n) ==
  FoldLeft(LAMBDA x, f : InitializeInfo(x, tm, f, x.team[tm].threads[f]), s, Upto(0, n))

(* A larger array of threads, if those in reserve (nth) are not enough.     *)
Widen(s, g, level, tm, n, nth) ==
  [s EXCEPT !.team[tm].max_nproc = IF nth < n /\ n > @ THEN n ELSE @,
            !.team[tm].threads = [i \in DOMAIN @ \cup 0..n-1 |->
                                    IF i \in DOMAIN @ THEN @[i] ELSE NULL],
            !.thread[g].hot[level].nth = IF @ < n THEN n ELSE @]

(* Threads in reserve, then others; old_nproc is read when those in reserve *)
(* are counted already.                                                     *)
GrowHotTeam(s, g, level, tm, n) ==
  LET nth == s.thread[g].hot[level].nth
      old_nproc == IF nth >= n THEN n ELSE nth
  IN  SetTaskStates(
        InitializeInfos(
          InitializeTeam(AllocateThreads(Widen(s, g, level, tm, n, nth), tm, old_nproc, n),
                         tm, n),
          tm, n),
        tm, level, old_nproc, n)

AllocateHotTeam(s, g, level, tm, n) ==
  CASE s.team[tm].nproc = n -> s
    [] s.team[tm].nproc > n -> ShrinkHotTeam(s, g, level, tm, n)
    [] s.team[tm].nproc < n -> GrowHotTeam(s, g, level, tm, n)

(* Threads and team go to the pools, but a hot team keeps its threads.      *)
FreeTeam(s, tm, hot) ==
  LET freed == FreeThreads([s EXCEPT !.team[tm].parent = NULL, !.team[tm].level = 0,
                                     !.team[tm].active_level = 0],
                           tm, 1, s.team[tm].nproc)
  IN  IF hot THEN s ELSE [freed EXCEPT !.team_pool = <<tm>> \o @]

-----------------------------------------------------------------------------
(* Fork                                                                     *)

(* The hot team's threads always count as there.                            *)
Counted_HotTeam(s, r) == s.team[s.root[r].hot_team].nproc

(* Threads that are already in the root's region or hot team count once.    *)
Counted(s, r) ==
  IF s.root[r].active THEN 1 ELSE s.team[s.root[r].hot_team].nproc

(* Slots double until there are enough, up to sys_nth, or not at all.       *)
RECURSIVE Doubled(_, _)
Doubled(slots, need) ==
  IF slots >= need THEN slots
  ELSE Doubled(IF slots <= program.sys_nth \div 2 THEN 2 * slots ELSE program.sys_nth, need)

ExpandThreads(s, need) ==
  IF program.sys_nth - s.slots < need THEN s
  ELSE [s EXCEPT !.slots = Doubled(@, @ + need)]

(* Slot 0 is for the first thread alone.                                    *)
Capacity(s) == IF InUse(s, 0) THEN s.slots ELSE s.slots - 1

(* The threads for a team of n, and the slots for those that are missing.   *)
Limited(n, others) ==
  CASE others + n <= program.max_nth -> n
    [] others + n > program.max_nth  ->
         IF others < program.max_nth THEN program.max_nth - others ELSE 1

WithSlots(s, n, need) ==
  LET added == ExpandThreads(s, need).slots - s.slots
  IN  IF n = 1 \/ need <= 0 THEN [rt |-> s, n |-> n]
      ELSE [rt |-> ExpandThreads(s, need), n |-> IF added < need THEN n - (need - added) ELSE n]

ReserveThreads(s, r, n) ==
  LET others  == s.nth - Counted(s, r)
      limited == Limited(n, others)
  IN  WithSlots(s, limited, others + limited - Capacity(s))

(* A region of one thread, in its serial team; in another one if that team  *)
(* is in use further out.                                                   *)
InSerialTeam(a, g, old) ==
  [a.rt EXCEPT
     !.thread[g].serial = a.team, !.thread[g].team = a.team, !.thread[g].tid = 0,
     !.team[a.team] = [@ EXCEPT !.serialized = 1, !.nproc = 1, !.parent = old,
                                !.master_tid = a.rt.thread[g].tid,
                                !.level = a.rt.team[old].level + 1,
                                !.active_level = a.rt.team[old].active_level]]

SerializedParallel(s, g) ==
  LET th == s.thread[g]
  IN  CASE th.team = th.serial ->
             [s EXCEPT !.team[th.serial].serialized = @ + 1, !.team[th.serial].level = @ + 1]
        [] th.team # th.serial /\ s.team[th.serial].serialized = 0 ->
             InSerialTeam([rt |-> s, team |-> th.serial], g, th.team)
        [] th.team # th.serial /\ s.team[th.serial].serialized > 0 ->
             InSerialTeam(SerialTeam(s, g), g, th.team)

(* The first fork of a thread makes its array of hot teams.                 *)
WithHotTeams(s, g) ==
  IF s.thread[g].hot # <<>> \/ program.hot_levels = 0 THEN s
  ELSE [s EXCEPT !.thread[g].hot = [l \in 0..program.hot_levels-1 |->
          IF l = 0 THEN [team |-> s.root[s.thread[g].root].hot_team, nth |-> 1]
                   ELSE [team |-> NULL, nth |-> 0]]]

(* The master of an inner region remembers the task state of the outer one, *)
(* and takes that of the team.                                              *)
PushTaskState(s, g, active_level, tm) ==
  LET th  == s.thread[g]
      hot == HasHot(s, g, active_level) /\ tm = th.hot[active_level].team
      pushed == [th.memo EXCEPT ![th.top] = th.task_state]
  IN  IF active_level = 0 THEN s
      ELSE [s EXCEPT !.thread[g].memo = pushed, !.thread[g].top = @ + 1,
                     !.thread[g].task_state = IF hot THEN pushed[th.top + 1] ELSE 0]

(* A team that is not hot yet gets its threads and, at a level that has hot *)
(* teams, becomes one.                                                      *)
ForkTeamThreads(s, g, tm) ==
  LET level  == s.team[tm].active_level - 1
      here   == [s EXCEPT !.thread[g].team = tm, !.thread[g].tid = 0]
      master == InitializeInfo([here EXCEPT !.team[tm].threads[0] = g], tm, 0, g)
      hot    == IF level < program.hot_levels
                  THEN [master EXCEPT !.thread[g].hot[level] =
                                         [team |-> tm, nth |-> s.team[tm].nproc]]
                  ELSE master
  IN  IF HasHot(s, g, level) THEN here ELSE AllocateThreads(hot, tm, 1, s.team[tm].nproc)

SetupTeam(a, g, outer) ==
  LET s  == a.rt
      th == s.thread[g]
  IN  [s EXCEPT !.root[th.root].in_parallel = @ + 1, !.root[th.root].active = TRUE,
                !.team[a.team] = [@ EXCEPT !.master_tid = th.tid, !.parent = outer,
                                           !.level = s.team[outer].level + 1,
                                           !.active_level = s.team[outer].active_level + 1,
                                           !.master_active = s.root[th.root].active]]

ForkWith(a, g, outer) ==
  ForkTeamThreads(
    PushTaskState(SetupTeam(a, g, outer), g, a.rt.team[outer].active_level, a.team), g, a.team)

(* __kmp_fork_call for a team of n > 1 threads, which have been reserved.   *)
ForkTeam(s, g, n) ==
  LET outer == s.thread[g].team
      level == s.team[outer].active_level
      hot   == s.thread[g].hot[level].team
  IN  ForkWith(IF HasHot(s, g, level)
                 THEN [rt |-> AllocateHotTeam(s, g, level, hot, n), team |-> hot]
                 ELSE AllocateTeam(s, n, n),
               g, outer)

-----------------------------------------------------------------------------
(* Join                                                                     *)

EndSerializedParallel(s, g) ==
  LET serial == s.team[s.thread[g].serial]
      less   == [s EXCEPT !.team[s.thread[g].serial].level = @ - 1,
                          !.team[s.thread[g].serial].serialized = @ - 1]
  IN  IF serial.serialized > 1 THEN less
      ELSE [less EXCEPT !.thread[g].team = serial.parent, !.thread[g].tid = serial.master_tid]

(* The inner serial team stays.                                             *)
RestoreSerialTeam_Not(s, g, parent) == s

(* A serial team that was taken inside of a region of the parent, another   *)
(* serial team, is given back for it.                                       *)
RestoreSerialTeam(s, g, parent) ==
  LET th == s.thread[g]
  IN  IF /\ s.team[parent].serialized > 0 /\ parent # th.serial
         /\ parent # s.root[th.root].root_team
      THEN [FreeTeam(s, th.serial, FALSE) EXCEPT !.thread[g].serial = parent]
      ELSE s

(* The master forgets his state in the team that is kept.                   *)
PopTaskState_Forgets(s, g) ==
  LET th == s.thread[g]
  IN  IF th.top = 0 THEN s
      ELSE [s EXCEPT !.thread[g].top = @ - 1, !.thread[g].task_state = th.memo[th.top - 1]]

PopTaskState(s, g) ==
  LET th == s.thread[g]
  IN  IF th.top = 0 THEN s
      ELSE [s EXCEPT !.thread[g].memo[th.top] = th.task_state, !.thread[g].top = @ - 1,
                     !.thread[g].task_state = th.memo[th.top - 1]]

IsHot(s, tm, r) == tm = s.root[r].hot_team \/ s.team[tm].active_level - 1 < program.hot_levels

(* __kmp_join_call, after the join barrier.                                 *)
JoinTeam(s, g) ==
  LET th   == s.thread[g]
      tm   == s.team[th.team]
      left == [s EXCEPT !.root[th.root].in_parallel = @ - 1,
                        !.root[th.root].active = tm.master_active]
      freed == [FreeTeam(left, th.team, IsHot(left, th.team, th.root)) EXCEPT
                  !.thread[g].tid = tm.master_tid, !.thread[g].team = tm.parent]
  IN  PopTaskState(RestoreSerialTeam(freed, g, tm.parent), g)

-----------------------------------------------------------------------------
(* Roots                                                                    *)

NewRoot == [in_parallel |-> 0, active |-> FALSE, root_team |-> NULL, hot_team |-> NULL]

(* A thread of the program gets a number, a root with a root team and a hot *)
(* team, and a serial team.                                                 *)
Rooted(s, g, root_team, hot_team, serial) ==
  [s EXCEPT
     !.nth = @ + 1, !.all_nth = @ + 1,
     !.thread[g] = NewThread(root_team, 0, g, serial),
     !.root[g] = [NewRoot EXCEPT !.root_team = root_team, !.hot_team = hot_team],
     !.team[root_team].threads[0] = g, !.team[hot_team].parent = root_team,
     !.team[hot_team].threads = [i \in DOMAIN @ |-> IF i = 0 THEN g ELSE NULL]]

RegisterRoot(s, g) ==
  LET WithSerial(a, b, c) == Rooted(c.rt, g, a, b, c.team)
      WithHot(a, b)       == WithSerial(a, b.team, SerialTeam(b.rt, g))
      WithTeam(a)         == WithHot(a.team, AllocateTeam(a.rt, 1, 2 * Most(program.sizes)))
  IN  WithTeam(AllocateTeam(s, 1, 1))

RECURSIVE FreeHotTeams(_, _, _)
FreeHotTeams(s, g, level) ==
  LET tm == s.thread[g].hot[level].team
      Below(x, i) ==
        LET h == x.team[tm].threads[i]
            y == FreeHotTeams(x, h, level + 1)
        IN  IF i > 0 THEN [y EXCEPT !.thread[h].hot = <<>>] ELSE y
      inner == IF level < program.hot_levels - 1
                 THEN FoldLeft(Below, s, Upto(0, s.thread[g].hot[level].nth)) ELSE s
  IN  IF HasHot(s, g, level) THEN FreeTeam(inner, tm, FALSE) ELSE s

(* The root's teams are given up, with their threads, and then its thread.  *)
UnregisterRoot(s, g) ==
  LET r   == s.root[g]
      hot == r.hot_team
      Of(x, i) ==
        LET h == x.team[hot].threads[i]
            y == IF program.hot_levels > 1 THEN FreeHotTeams(x, h, 1) ELSE x
        IN  [y EXCEPT !.thread[h].hot = <<>>]
      a == FreeTeam([s EXCEPT !.root[g] = NewRoot], r.root_team, FALSE)
      b == IF program.hot_levels = 0 THEN a ELSE FoldLeft(Of, a, Upto(0, s.team[hot].nproc))
      c == FreeTeam(b, hot, FALSE)
  IN  [c EXCEPT !.nth = @ - 1, !.all_nth = @ - 1, !.thread[g] = <<>>,
                !.team[s.thread[g].serial] = <<>>]

(* omp_set_num_threads makes the hot team smaller.                          *)
SetNumThreads(s, g, n) ==
  LET r  == s.root[s.thread[g].root]
      x  == FreeThreads(s, r.hot_team, n, s.team[r.hot_team].nproc)
      y  == [x EXCEPT !.team[r.hot_team].nproc = n]
  IN  IF s.thread[g].hot = <<>> THEN y ELSE [y EXCEPT !.thread[g].hot[0].nth = n]

-----------------------------------------------------------------------------
(* Actions                                                                  *)

Nothing ==
  [thread |-> [g \in Gtids |-> <<>>], team |-> [tm \in TeamIds |-> <<>>],
   root |-> [g \in Gtids |-> NewRoot], pool |-> <<>>, insert_pt |-> NULL,
   team_pool |-> <<>>, nth |-> 0, all_nth |-> 0, slots |-> program.slots]

Init ==
  /\ program \in Programs
  /\ rt    = RegisterRoot(Nothing, 0)
  /\ pc    = [g \in Gtids |-> IF g = 0 THEN "user" ELSE "waiting"]
  /\ go    = [g \in Gtids |-> FALSE]
  /\ begun = 0

Runs(g)   == InUse(rt, g) /\ pc[g] = "user"
Team(g)   == rt.team[rt.thread[g].team]
Root(g)   == rt.root[rt.thread[g].root]
Others(s, g) == LET tm == s.team[s.thread[g].team] IN {tm.threads[i] : i \in 1..tm.nproc-1}
Workers(tm) == {rt.team[tm].threads[i] : i \in 1..rt.team[tm].nproc-1}

(* The user's regions of one thread, and those that may not be active.      *)
Serialized(g, n) ==
  \/ n = 1 \/ Team(g).active_level >= program.levels
  \/ ~program.nested /\ Root(g).in_parallel > 0

Flip(s, g) == [s EXCEPT !.thread[g].task_state = 1 - @]

Fork(g, n) ==
  /\ Runs(g) /\ begun < program.bound
  /\ begun' = begun + 1
  /\ \E s \in {WithHotTeams(rt, g)} :
     \E reserved \in {IF Serialized(g, n) THEN [rt |-> s, n |-> 1]
                      ELSE ReserveThreads(s, rt.thread[g].root, n)} :
       \/ /\ reserved.n = 1
          /\ rt' = SerializedParallel(reserved.rt, g)
          /\ UNCHANGED go
       \/ /\ reserved.n > 1
          /\ \E forked \in {ForkTeam(reserved.rt, g, reserved.n)} :
               /\ rt' = Flip(forked, g)
               /\ go' = [h \in Gtids |-> go[h] \/ h \in Others(forked, g)]
  /\ UNCHANGED <<program, pc>>

(* A worker that is released takes its part, arrives at the join barrier,   *)
(* and waits for more, without looking at the team.                         *)
Start(g) ==
  /\ InUse(rt, g) /\ pc[g] = "waiting" /\ go[g]
  /\ pc' = [pc EXCEPT ![g] = "user"] /\ go' = [go EXCEPT ![g] = FALSE]
  /\ rt' = Flip(rt, g)
  /\ UNCHANGED <<program, begun>>

Arrive(g) ==
  /\ Runs(g) /\ rt.thread[g].tid # 0
  /\ pc' = [pc EXCEPT ![g] = "arrived"]
  /\ UNCHANGED <<program, rt, go, begun>>

Wait(g) ==
  /\ pc[g] = "arrived" /\ pc' = [pc EXCEPT ![g] = "waiting"]
  /\ UNCHANGED <<program, rt, go, begun>>

Arrived(h) == pc[h] # "user" /\ ~go[h]
(* A thread that waits already cannot be reaped.                            *)
Reapable_BeforeWait(h) == pc[h] = "arrived" /\ ~go[h]

Reapable(h) == pc[h] = "waiting" /\ ~go[h]

(* The threads of a team that is not hot are freed when they can be reaped. *)
Join(g) ==
  LET tm  == rt.thread[g].team
      hot == IsHot(rt, tm, rt.thread[g].root)
  IN  /\ Runs(g) /\ rt.thread[g].tid = 0 /\ Team(g).serialized = 0
      /\ \A h \in Workers(tm) : IF hot THEN Arrived(h) ELSE Reapable(h)
      /\ rt' = JoinTeam(rt, g)
      /\ UNCHANGED <<program, pc, go, begun>>

EndSerial(g) ==
  /\ Runs(g) /\ Team(g).level > 0 /\ Team(g).serialized > 0
  /\ rt' = EndSerializedParallel(rt, g)
  /\ UNCHANGED <<program, pc, go, begun>>

(* A barrier of the region: every thread goes on with the other task team.  *)
Barrier(g) ==
  LET tm == rt.thread[g].team
  IN  /\ Runs(g) /\ rt.thread[g].tid = 0 /\ Team(g).serialized = 0
      /\ \A h \in Workers(tm) : Runs(h) /\ rt.thread[h].team = tm
      /\ rt' = FoldLeft(Flip, rt, SetToSeq(Workers(tm) \cup {g}))
      /\ UNCHANGED <<program, pc, go, begun>>

InRootTeam(g) == Runs(g) /\ rt.thread[g].team = Root(g).root_team

Register(g) ==
  /\ Cardinality({h \in Gtids : rt.root[h].root_team # NULL}) < program.roots
  /\ begun < program.bound /\ begun' = begun + 1
  /\ g = FreeSlot(rt)
  /\ \E s \in {IF rt.all_nth >= Capacity(rt) THEN ExpandThreads(rt, 1) ELSE rt} :
       /\ rt.all_nth < Capacity(s)
       /\ rt' = RegisterRoot(s, g)
  /\ pc' = [pc EXCEPT ![g] = "user"]
  /\ UNCHANGED <<program, go>>

Unregister(g) ==
  /\ InRootTeam(g)
  /\ \A h \in Gtids \ {g} :
       InUse(rt, h) /\ rt.thread[h].root = g => Reapable(h)
  /\ rt' = UnregisterRoot(rt, g) /\ pc' = [pc EXCEPT ![g] = "waiting"]
  /\ UNCHANGED <<program, go, begun>>

SetNum(g, n) ==
  /\ Runs(g) /\ ~Root(g).active /\ program.hot_levels > 0 /\ program.hot_mode = 0
  /\ rt.team[Root(g).hot_team].nproc > n
  /\ rt' = SetNumThreads(rt, g, n)
  /\ UNCHANGED <<program, pc, go, begun>>

Step(g) ==
  \/ \E n \in program.sizes : Fork(g, n)
  \/ Start(g) \/ Arrive(g) \/ Wait(g) \/ Join(g) \/ EndSerial(g)
Next ==
  \E g \in Gtids :
    \/ Step(g) \/ Barrier(g) \/ Register(g) \/ Unregister(g)
    \/ \E n \in program.sizes : SetNum(g, n)

Spec == Init /\ [][Next]_vars
FairSpec ==
  Spec /\ \A g \in Gtids :
            WF_vars(Start(g) \/ Arrive(g) \/ Wait(g) \/ Join(g) \/ EndSerial(g))

-----------------------------------------------------------------------------
(* What the program can ask                                                 *)

(* From level ii up to a level, through the teams of a thread: the team and *)
(* what is left of the levels of a serial team (dd).                        *)
RECURSIVE Climb(_, _, _, _)
Climb(tm, ii, dd, level) ==
  LET ser    == rt.team[tm].serialized
      parent == rt.team[tm].parent
      k      == IF ser < ii - level THEN ser ELSE ii - level
  IN  CASE ii <= level -> [team |-> tm, dd |-> dd]
        [] ii > level /\ ser = 0 -> Climb(parent, ii - 1, rt.team[parent].serialized, level)
        [] ii > level /\ ser > k -> [team |-> tm, dd |-> ser - k]
        [] ii > level /\ ser = k /\ ser > 0 -> Climb(parent, ii - k, 0, level)

AncestorThreadNum(g, level) ==
  LET c == Climb(rt.thread[g].team, Team(g).level, Team(g).serialized, level + 1)
  IN  CASE level = Team(g).level -> rt.thread[g].tid
        [] level < Team(g).level /\ c.dd > 1 -> 0
        [] level < Team(g).level /\ c.dd <= 1 -> rt.team[c.team].master_tid

TeamSize(g, level) == rt.team[Climb(rt.thread[g].team, Team(g).level, 0, level).team].nproc

-----------------------------------------------------------------------------
(* Properties                                                               *)

(* A thread takes part in its team's region until it arrives at the end.    *)
Here(g) == InUse(rt, g) /\ (pc[g] = "user" \/ go[g])

Nest == [g \in Gtids |->
  IF ~Here(g) THEN [root |-> -1, path |-> <<>>]
  ELSE [root |-> rt.thread[g].root,
        path |-> [l \in 1..Team(g).level |->
                    [num |-> AncestorThreadNum(g, l), size |-> TeamSize(g, l)]]]]

N == INSTANCE Nesting WITH Threads <- Gtids, nest <- Nest

(* Regions nest as the program has written them, through active and serial  *)
(* teams, hot teams that grow and shrink and threads that serve in turn: a  *)
(* region takes threads that take part in no other, all of the region's     *)
(* threads see the ancestors' numbers and the sizes of the teams around     *)
(* them, unchanged until they leave, and the one that has begun a region    *)
(* goes on outside of it where it was, after all others have left.          *)
ImplementsNesting == N!Spec

Threads == {g \in Gtids : InUse(rt, g)}
Teams   == {tm \in TeamIds : rt.team[tm] # <<>>}
Roots   == {g \in Gtids : rt.root[g].root_team # NULL}
Pooled  == {rt.pool[i] : i \in DOMAIN rt.pool}
Spare   == {rt.team_pool[i] : i \in DOMAIN rt.team_pool}

Places(g) == {<<tm, i>> \in Teams \X (1..NThreads) :
                i \in DOMAIN rt.team[tm].threads /\ rt.team[tm].threads[i] = g}

(* Teams that a thread needs: that of its region and those around it, its   *)
(* serial team and its hot teams.                                           *)
RECURSIVE Around(_)
Around(tm) == IF tm = NULL THEN {} ELSE {tm} \cup Around(rt.team[tm].parent)

Needed(g) ==
  ({rt.thread[g].serial} \cup (IF Here(g) THEN Around(rt.thread[g].team) ELSE {})
   \cup {rt.thread[g].hot[l].team : l \in DOMAIN rt.thread[g].hot \ {0}}) \ {NULL}

(* No thread and no team is lost or used twice: a worker has one place, in  *)
(* one team or in the pool, which is sorted so that numbers are predictable *)
(* (the place where the search begins is still in it); the teams in the     *)
(* pool are nobody's, all others are needed.                                *)
PlacesAreUnique ==
  /\ \A i, j \in DOMAIN rt.pool : i < j => rt.pool[i] < rt.pool[j]
  /\ rt.insert_pt \in Pooled \cup {NULL}
  /\ rt.all_nth = Cardinality(Threads) /\ rt.nth = Cardinality(Threads \ Pooled)
  /\ \A g \in Threads \ Roots : Cardinality(Places(g)) = (IF g \in Pooled THEN 0 ELSE 1)
  /\ \A g \in Roots : Places(g) = {} /\ g \notin Pooled
  /\ Cardinality(Spare) = Len(rt.team_pool)
  /\ Teams \ Spare = UNION {Needed(g) : g \in Threads}
                     \cup UNION {{rt.root[r].root_team, rt.root[r].hot_team} : r \in Roots}
  /\ Spare \cap UNION {Needed(g) : g \in Threads} = {}

(* A root knows how many of its regions are active; with no active region   *)
(* it may fork an outermost team again.                                     *)
RegionsAreCounted ==
  \A r \in Roots :
    LET regions == {tm \in UNION {Around(rt.thread[g].team) : g \in {h \in Threads : Here(h)}} :
                      rt.team[tm].serialized = 0
                      /\ rt.thread[rt.team[tm].threads[0]].root = r}
    IN  /\ rt.root[r].in_parallel = Cardinality(regions)
        /\ rt.root[r].active <=> regions # {}

(* The books are right: those of threads, teams and regions.                *)
NobodyIsLost == PlacesAreUnique /\ RegionsAreCounted

(* The threads of a team use the same one of its two task teams: each has   *)
(* the task state of the master, or, before it has begun, the other one.    *)
TaskStatesAgree ==
  \A g \in Threads : Here(g) /\ rt.thread[g].tid = 0 /\ Team(g).serialized = 0 =>
    \A h \in Workers(rt.thread[g].team) :
      rt.thread[h].team = rt.thread[g].team =>
        (rt.thread[h].task_state = rt.thread[g].task_state <=> ~go[h])

(* Forking keeps to the limit of threads, which only roots, that cannot be  *)
(* refused, exceed; and threads fit into the tables.                        *)
LimitIsKept ==
  [][/\ rt'.nth > rt.nth => rt'.nth <= program.max_nth
                            \/ \E g \in Gtids : rt'.root[g].root_team # rt.root[g].root_team
     /\ \A g \in Gtids : InUse(rt', g) => g < rt'.slots]_vars

(* Every region ends: when no more begin, all threads get out of theirs, no *)
(* matter how the regions, the waits for workers and the pools overlap.     *)
RegionsEnd == []<>(\A g \in Gtids : Here(g) => Team(g).level = 0)
=============================================================================
