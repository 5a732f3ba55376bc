--------------------------- MODULE TaskTeam_proofs ---------------------------
(***************************************************************************)
(* Proofs about TaskTeam, for every number of threads, tasks and barriers   *)
(* and every tree of parents: the counter of unfinished threads is exact    *)
(* and all tasks are done when a barrier is released.                       *)
(***************************************************************************)
EXTENDS TaskTeam, FiniteSetTheorems, SequenceTheorems, WellFoundedInduction, TLAPS

-----------------------------------------------------------------------------
(* The inductive invariant.  Gathers are counted; a thread is late while it *)
(* has yet to leave the barrier whose gather was the last to be complete.   *)
(* Threads that are not late use the current task team, late ones the other.*)

Cur   == IF pc[0] = "release" THEN 1 - task_state[0] ELSE task_state[0]
Round == IF pc[0] = "release" THEN left[0] + 1 ELSE left[0]

Late(t)     == task_state[t] = 1 - Cur
Released(t) == go[t] \/ pc[t] = "release"
Here(t)     == ~Late(t) /\ phase[t] = "go"

AtWork(t) == pc[t] = "work" \/ (pc[t] = "enable" /\ running[t] = None)
Looking   == {"own", "steal", "exhausted"}

(* What a thread holds where it is.                                         *)
Control ==
  \A t \in Threads :
    /\ AtWork(t) <=> phase[t] = "none"
    /\ running[t] # None <=> (pc[t] = "run" \/ (pc[t] = "enable" /\ phase[t] # "none"))
    /\ phase[t] \in {"none", "gather"} => ~finished[t]
    /\ phase[t] = "tasks" => t = 0
    /\ t = 0 /\ phase[t] = "go" => pc[t] = "release"
    /\ go[t] => phase[t] = "go" /\ pc[t] # "release"
    /\ pc[t] = "release" => phase[t] = "go"
    /\ phase[t] # "gather" /\ pc[t] # "release" => kids[t] = {}
    /\ kids[t] \subseteq Kids(t)

(* No thread is more than one barrier behind or ahead of the gather.        *)
Rounds ==
  \A t \in Threads :
    /\ entered[t] = IF phase[t] = "none" THEN left[t] ELSE left[t] + 1
    /\ t # 0 => arrived[t] = IF phase[t] = "go" THEN left[t] + 1 ELSE left[t]
    /\ Late(t) => left[t] + 1 = Round /\ phase[t] = "go"
    /\ ~Late(t) => left[t] = Round /\ ~Released(t)

(* What a parent that waits or releases knows of a child.                   *)
Tree ==
  \A t \in Threads \ {0} :
    /\ parent[t] < t
    /\ phase[parent[t]] = "gather" /\ t \notin kids[parent[t]] => Here(t)
    /\ ~Late(parent[t]) /\ phase[parent[t]] \in {"tasks", "go"} => Here(t)
    /\ pc[parent[t]] = "release" /\ t \in kids[parent[t]] => Late(t) /\ ~Released(t)
    /\ Late(parent[t]) /\ pc[parent[t]] # "release" => Late(t) /\ ~Released(t)

(* The current task team counts, the other one is done or set up again.     *)
Unfinished == {t \in Threads : ~(finished[t] /\ task_state[t] = Cur)}

Teams ==
  /\ active[Cur]
  /\ found_tasks[Cur] => unfinished[Cur] = Cardinality(Unfinished)
  /\ ~found_tasks[Cur] =>
       /\ unfinished[Cur] = N
       /\ \A t \in Threads :
            /\ deque[Cur][t] = <<>>
            /\ ~Late(t) => ~finished[t] /\ pc[t] \notin Looking \cup {"run", "enable"}
  /\ \/ active[1-Cur] /\ ~found_tasks[1-Cur] /\ unfinished[1-Cur] = N
     \/ ~active[1-Cur] /\ unfinished[1-Cur] = 0 /\ phase[0] \notin {"gather", "tasks"}
  /\ phase[0] = "tasks" => found_tasks[Cur] /\ pc[0] \notin {"suspend", "asleep"}

(* Late and finished threads have no tasks and leave the counter alone.     *)
Quiet ==
  \A t \in Threads :
    /\ deque[1-Cur][t] = <<>>
    /\ Late(t) => /\ running[t] = None /\ incomplete[t] = 0
                  /\ pc[t] \in Looking => finished[t] /\ task_team[t] = task_state[t]
                  /\ task_team[t] \in {task_state[t], NoTeam}
    /\ ~Late(t) => task_team[t] = task_state[t]
    /\ finished[t] => running[t] = None /\ incomplete[t] = 0
    /\ finished[t] \/ pc[t] \in {"steal", "exhausted"} => deque[Cur][t] = <<>>

(* The incomplete children of an implicit task are queued or run.           *)
Queued(t) ==
  {q \in (0..1) \X Threads \X Nat :
     q[3] \in 1..Len(deque[q[1]][q[2]]) /\ deque[q[1]][q[2]][q[3]] = t}
Runners(t) == {u \in Threads : running[u] = t}

Counted ==
  \A t \in Threads :
    /\ IsFiniteSet(Queued(t))
    /\ incomplete[t] = Cardinality(Queued(t)) + Cardinality(Runners(t))

IInv == TypeOK /\ Control /\ Rounds /\ Tree /\ Teams /\ Quiet /\ Counted

-----------------------------------------------------------------------------
(* Least elements, sequences, and the threads.                              *)

LEMMA LeastNumber ==
  ASSUME NEW S \in SUBSET Nat, S # {}
  PROVE  \E x \in S : \A y \in S : x <= y
<1> DEFINE R == {ss \in Nat \X Nat : ss[1] < ss[2]}
<1>1. IsWellFoundedOn(R, Nat)
  BY NatLessThanWellFounded DEF OpToRel
<1>2. PICK x \in S : \A y \in S : ~(<<y, x>> \in R)
  <2> HIDE DEF R
  <2> QED
    BY <1>1, WFMin
<1>3. ASSUME NEW y \in S, y < x PROVE FALSE
  <2>1. <<y, x>> \in Nat \X Nat /\ <<y, x>>[1] < <<y, x>>[2]
    BY <1>3
  <2>2. <<y, x>> \in R
    BY <2>1
  <2> QED
    BY <2>2, <1>2
<1> QED
  BY <1>3

LEMMA Ends ==
  ASSUME NEW S, NEW q \in Seq(S), q # <<>>
  PROVE  /\ Len(q) \in Nat \ {0}
         /\ Last(q) = q[Len(q)] /\ Last(q) \in S
         /\ Front(q) \in Seq(S) /\ Len(Front(q)) = Len(q) - 1
         /\ \A i \in 1..Len(q)-1 : Front(q)[i] = q[i]
         /\ Head(q) = q[1] /\ Head(q) \in S
         /\ Tail(q) \in Seq(S) /\ Len(Tail(q)) = Len(q) - 1
         /\ \A i \in 1..Len(q)-1 : Tail(q)[i] = q[i+1]
<1>1. Len(q) \in Nat \ {0} /\ \A i \in 1..Len(q) : q[i] \in S
  OBVIOUS
<1>2. /\ Front(q) \in Seq(S) /\ Len(Front(q)) = Len(q) - 1
      /\ \A i \in 1..Len(q)-1 : Front(q)[i] = q[i]
  BY <1>1, SubSeqProperties DEF Front
<1>3. Head(q) = q[1]
  OBVIOUS
<1> QED
  BY <1>1, <1>2, <1>3, HeadTailProperties DEF Last

LEMMA Numbers ==
  ASSUME NAssumption
  PROVE  /\ 0 \in Threads /\ Threads \subseteq 0..N /\ Threads \subseteq Nat
         /\ N \in Nat /\ N \notin Threads /\ None = N + 1
         /\ IsFiniteSet(Threads) /\ Cardinality(Threads) = N
  BY FS_Interval DEF NAssumption, Threads, None

LEMMA CurFacts ==
  ASSUME NAssumption, TypeOK
  PROVE  /\ Cur \in 0..1 /\ 1 - Cur \in 0..1 /\ 1 - Cur # Cur /\ 1 - (1 - Cur) = Cur
         /\ \A t \in Threads : task_state[t] \in 0..1 /\ (Late(t) <=> task_state[t] # Cur)
         /\ NoTeam \notin 0..1
<1>1. 0 \in Threads /\ task_state \in [Threads -> 0..1]
  BY Numbers DEF TypeOK
<1>2. Cur \in 0..1
  BY <1>1 DEF Cur
<1> QED
  BY <1>1, <1>2 DEF Late, NoTeam

-----------------------------------------------------------------------------
(* What pushing, removing and stealing do to the queued children.           *)

LEMMA QueuedIs ==
  ASSUME NEW t, NEW s \in 0..1, NEW u \in Threads, NEW i \in Nat
  PROVE  <<s, u, i>> \in Queued(t) <=> i \in 1..Len(deque[s][u]) /\ deque[s][u][i] = t
  BY DEF Queued

LEMMA SameTriples ==
  ASSUME NEW A \in SUBSET ((0..1) \X Threads \X Nat), NEW B \in SUBSET ((0..1) \X Threads \X Nat),
         \A a \in 0..1, b \in Threads, i \in Nat : <<a, b, i>> \in A <=> <<a, b, i>> \in B
  PROVE  A = B
<1>1. ASSUME NEW q \in (0..1) \X Threads \X Nat
      PROVE  q \in A <=> q \in B
  <2>1. PICK a \in 0..1, b \in Threads, i \in Nat : q = <<a, b, i>>
    OBVIOUS
  <2> QED
    BY <2>1
<1> QED
  BY <1>1

LEMMA Pushing ==
  ASSUME TypeOK, NEW s \in 0..1, NEW u \in Threads, NEW p \in 0..N,
         deque' = [deque EXCEPT ![s][u] = Append(@, p)],
         NEW t \in Threads, IsFiniteSet(Queued(t))
  PROVE  /\ IsFiniteSet(Queued(t)')
         /\ Cardinality(Queued(t)') = Cardinality(Queued(t)) + (IF p = t THEN 1 ELSE 0)
<1> DEFINE n == Len(deque[s][u]) + 1
<1>0. deque \in [0..1 -> [Threads -> Seq(0..N)]]
  BY DEF TypeOK
<1>1. /\ deque[s][u] \in Seq(0..N) /\ n \in Nat
      /\ \A a \in 0..1, b \in Threads : deque[a][b] \in Seq(0..N)
      /\ \A a \in 0..1, b \in Threads : (a # s \/ b # u) => deque'[a][b] = deque[a][b]
      /\ deque'[s][u] = Append(deque[s][u], p)
  BY <1>0
<1>2. /\ Len(deque'[s][u]) = n /\ deque'[s][u][n] = p
      /\ \A i \in 1..n-1 : deque'[s][u][i] = deque[s][u][i]
  BY <1>1
<1>3. <<s, u, n>> \in (0..1) \X Threads \X Nat /\ <<s, u, n>> \notin Queued(t)
  BY <1>1 DEF Queued
<1>4. Queued(t)' = IF p = t THEN Queued(t) \cup {<<s, u, n>>} ELSE Queued(t)
  <2>1. ASSUME NEW a \in 0..1, NEW b \in Threads, NEW i \in Nat
        PROVE  <<a, b, i>> \in Queued(t)' <=>
                 (<<a, b, i>> \in Queued(t) \/ (p = t /\ <<a, b, i>> = <<s, u, n>>))
    <3>1. <<a, b, i>> \in Queued(t)' <=>
            i \in 1..Len(deque'[a][b]) /\ deque'[a][b][i] = t
      BY DEF Queued
    <3>2. <<a, b, i>> \in Queued(t) <=> i \in 1..Len(deque[a][b]) /\ deque[a][b][i] = t
      BY QueuedIs
    <3>3. CASE a # s \/ b # u
      BY <1>1, <3>1, <3>2, <3>3
    <3>4. CASE a = s /\ b = u
      BY <1>1, <1>2, <3>1, <3>2, <3>4
    <3> QED
      BY <3>3, <3>4
  <2>2. /\ Queued(t) \subseteq (0..1) \X Threads \X Nat
        /\ Queued(t)' \subseteq (0..1) \X Threads \X Nat
    BY DEF Queued
  <2>3. CASE p = t
    <3>1. Queued(t) \cup {<<s, u, n>>} \in SUBSET ((0..1) \X Threads \X Nat)
      BY <1>3, <2>2
    <3> QED
      BY <2>1, <2>2, <2>3, <3>1, SameTriples
  <2>4. CASE p # t
    BY <2>1, <2>2, <2>4, SameTriples
  <2> QED
    BY <2>3, <2>4
<1> QED
  BY <1>3, <1>4, FS_AddElement, FS_CardinalityType

LEMMA Removing ==
  ASSUME TypeOK, NEW s \in 0..1, NEW u \in Threads, deque[s][u] # <<>>,
         deque' = [deque EXCEPT ![s][u] = Front(@)],
         NEW t \in Threads, IsFiniteSet(Queued(t))
  PROVE  /\ IsFiniteSet(Queued(t)')
         /\ Cardinality(Queued(t)') =
              Cardinality(Queued(t)) - (IF Last(deque[s][u]) = t THEN 1 ELSE 0)
<1> DEFINE n == Len(deque[s][u])
<1>0. deque \in [0..1 -> [Threads -> Seq(0..N)]]
  BY DEF TypeOK
<1>1. /\ deque[s][u] \in Seq(0..N)
      /\ \A a \in 0..1, b \in Threads : (a # s \/ b # u) => deque'[a][b] = deque[a][b]
      /\ deque'[s][u] = Front(deque[s][u])
  BY <1>0
<1>2. /\ n \in Nat \ {0} /\ Len(deque'[s][u]) = n - 1 /\ deque[s][u][n] = Last(deque[s][u])
      /\ \A i \in 1..n-1 : deque'[s][u][i] = deque[s][u][i]
  BY <1>1, Ends
<1>3. <<s, u, n>> \in Queued(t) <=> Last(deque[s][u]) = t
  BY <1>2, QueuedIs
<1>4. Queued(t)' = Queued(t) \ {<<s, u, n>>}
  <2>1. ASSUME NEW a \in 0..1, NEW b \in Threads, NEW i \in Nat
        PROVE  <<a, b, i>> \in Queued(t)' <=>
                 (<<a, b, i>> \in Queued(t) /\ <<a, b, i>> # <<s, u, n>>)
    <3>1. <<a, b, i>> \in Queued(t)' <=>
            i \in 1..Len(deque'[a][b]) /\ deque'[a][b][i] = t
      BY DEF Queued
    <3>2. <<a, b, i>> \in Queued(t) <=> i \in 1..Len(deque[a][b]) /\ deque[a][b][i] = t
      BY QueuedIs
    <3>3. CASE a # s \/ b # u
      BY <1>1, <3>1, <3>2, <3>3
    <3>4. CASE a = s /\ b = u
      BY <1>1, <1>2, <3>1, <3>2, <3>4
    <3> QED
      BY <3>3, <3>4
  <2>2. /\ Queued(t) \subseteq (0..1) \X Threads \X Nat
        /\ Queued(t)' \subseteq (0..1) \X Threads \X Nat
    BY DEF Queued
  <2>3. Queued(t) \ {<<s, u, n>>} \in SUBSET ((0..1) \X Threads \X Nat)
    BY <2>2
  <2> QED
    BY <2>1, <2>2, <2>3, SameTriples
<1> QED
  BY <1>3, <1>4, FS_RemoveElement, FS_CardinalityType

(* The tokens of a thread's tasks move up by one when the first is stolen.  *)
LEMMA Stealing ==
  ASSUME TypeOK, NEW s \in 0..1, NEW u \in Threads, deque[s][u] # <<>>,
         deque' = [deque EXCEPT ![s][u] = Tail(@)],
         NEW t \in Threads, IsFiniteSet(Queued(t))
  PROVE  /\ IsFiniteSet(Queued(t)')
         /\ Cardinality(Queued(t)') =
              Cardinality(Queued(t)) - (IF Head(deque[s][u]) = t THEN 1 ELSE 0)
<1> DEFINE n == Len(deque[s][u])
           Rest == Queued(t) \ {<<s, u, 1>>}
           Down(q) == IF q[1] = s /\ q[2] = u THEN <<s, u, q[3] - 1>> ELSE q
<1>0. deque \in [0..1 -> [Threads -> Seq(0..N)]]
  BY DEF TypeOK
<1>1. /\ deque[s][u] \in Seq(0..N)
      /\ \A a \in 0..1, b \in Threads : (a # s \/ b # u) => deque'[a][b] = deque[a][b]
      /\ deque'[s][u] = Tail(deque[s][u])
  BY <1>0
<1>2. /\ n \in Nat \ {0} /\ Len(deque'[s][u]) = n - 1 /\ deque[s][u][1] = Head(deque[s][u])
      /\ \A i \in 1..n-1 : deque'[s][u][i] = deque[s][u][i + 1]
  <2>1. /\ Len(deque[s][u]) \in Nat \ {0} /\ Head(deque[s][u]) = deque[s][u][1]
        /\ Len(Tail(deque[s][u])) = Len(deque[s][u]) - 1
        /\ \A i \in 1..Len(deque[s][u])-1 : Tail(deque[s][u])[i] = deque[s][u][i + 1]
    BY <1>1, Ends
  <2> QED
    BY <1>1, <2>1
<1>3. <<s, u, 1>> \in Queued(t) <=> Head(deque[s][u]) = t
  BY <1>2, QueuedIs
<1>4. ASSUME NEW a \in 0..1, NEW b \in Threads, NEW i \in Nat
      PROVE  <<a, b, i>> \in Queued(t)' <=>
               <<a, b, IF a = s /\ b = u THEN i + 1 ELSE i>> \in Rest /\ (i = 0 => a # s \/ b # u)
  <2>1. <<a, b, i>> \in Queued(t)' <=>
          i \in 1..Len(deque'[a][b]) /\ deque'[a][b][i] = t
    BY DEF Queued
  <2>2. \A k \in Nat :
          <<a, b, k>> \in Queued(t) <=> k \in 1..Len(deque[a][b]) /\ deque[a][b][k] = t
    BY QueuedIs
  <2>3. CASE a # s \/ b # u
    BY <1>1, <2>1, <2>2, <2>3
  <2>4. CASE a = s /\ b = u
    <3>1. <<s, u, i>> \in Queued(t)' <=> i \in 1..n-1 /\ deque[s][u][i + 1] = t
      BY <1>2, <2>1, <2>4
    <3>2. <<s, u, i + 1>> \in Queued(t) <=> i + 1 \in 1..n /\ deque[s][u][i + 1] = t
      BY <2>2, <2>4
    <3>3. i + 1 \in 1..n /\ i # 0 <=> i \in 1..n-1
      BY <1>2
    <3>4. <<s, u, i + 1>> # <<s, u, 1>> <=> i # 0
      OBVIOUS
    <3> QED
      BY <2>4, <3>1, <3>2, <3>3, <3>4
  <2> QED
    BY <2>3, <2>4
<1>5. /\ Queued(t) \subseteq (0..1) \X Threads \X (Nat \ {0})
      /\ Queued(t)' \subseteq (0..1) \X Threads \X (Nat \ {0})
  <2>1. ASSUME NEW q \in (0..1) \X Threads \X Nat, NEW l, q[3] \in 1..l
        PROVE  q \in (0..1) \X Threads \X (Nat \ {0})
    <3>1. q[3] # 0 /\ q = <<q[1], q[2], q[3]>>
      BY <2>1
    <3> QED
      BY <3>1
  <2> QED
    BY <2>1 DEF Queued
<1> DEFINE f == [q \in Rest |-> Down(q)]
<1>6. f \in Bijection(Rest, Queued(t)')
  <2>1. ASSUME NEW q \in Rest
        PROVE  Down(q) \in Queued(t)'
    <3>1. PICK a \in 0..1, b \in Threads, i \in Nat \ {0} : q = <<a, b, i>>
      BY <1>5
    <3>2. CASE a = s /\ b = u
      <4>1. i # 1 /\ i - 1 \in Nat /\ i - 1 # 0 /\ (i - 1) + 1 = i
        BY <3>1, <3>2
      <4> QED
        BY <1>4, <3>1, <3>2, <4>1
    <3>3. CASE a # s \/ b # u
      BY <1>4, <3>1, <3>3
    <3> QED
      BY <3>2, <3>3
  <2>2. ASSUME NEW q \in Rest, NEW r \in Rest, Down(q) = Down(r)
        PROVE  q = r
    <3>1. /\ q \in (0..1) \X Threads \X (Nat \ {0})
          /\ r \in (0..1) \X Threads \X (Nat \ {0})
      BY <1>5
    <3> QED
      BY <2>2, <3>1
  <2>3. ASSUME NEW r \in Queued(t)'
        PROVE  \E q \in Rest : Down(q) = r
    <3>1. PICK a \in 0..1, b \in Threads, i \in Nat \ {0} : r = <<a, b, i>>
      BY <1>5
    <3>2. <<a, b, IF a = s /\ b = u THEN i + 1 ELSE i>> \in Rest
      BY <1>4, <3>1
    <3>3. Down(<<a, b, IF a = s /\ b = u THEN i + 1 ELSE i>>) = r
      BY <3>1
    <3> QED
      BY <3>2, <3>3
  <2>4. f \in [Rest -> Queued(t)'] /\ \A q \in Rest : f[q] = Down(q)
    BY <2>1
  <2> HIDE DEF Down, f, Rest
  <2>5. f \in Injection(Rest, Queued(t)')
    BY <2>2, <2>4 DEF Injection, IsInjective
  <2>6. f \in Surjection(Rest, Queued(t)')
    BY <2>3, <2>4 DEF Surjection
  <2> QED
    BY <2>5, <2>6 DEF Bijection
<1>7. IsFiniteSet(Rest)
      /\ Cardinality(Rest) =
           Cardinality(Queued(t)) - (IF Head(deque[s][u]) = t THEN 1 ELSE 0)
  BY <1>3, FS_RemoveElement, FS_CardinalityType
<1>8. ExistsBijection(Rest, Queued(t)')
  BY <1>6 DEF ExistsBijection
<1> QED
  BY <1>7, <1>8, FS_Bijection

-----------------------------------------------------------------------------
(* What stays as it is in many steps.                                       *)

LEMMA CountedSame ==
  ASSUME Counted, UNCHANGED <<deque, running, incomplete>>
  PROVE  Counted'
  BY DEF Counted, Queued, Runners

LEMMA CurSame ==
  ASSUME UNCHANGED <<task_state, left>>, pc[0] = "release" <=> pc'[0] = "release"
  PROVE  Cur' = Cur /\ Round' = Round /\ \A t \in Threads : Late(t)' <=> Late(t)
  BY DEF Cur, Round, Late

(* Threads move between the states of the wait loop.                        *)
InWait == {"spin", "idle", "suspend", "asleep"} \cup Looking

LEMMA Moving ==
  ASSUME NAssumption, IInv,
         \A u \in Threads :
           \/ pc'[u] = pc[u]
           \/ /\ pc[u] \in InWait /\ pc'[u] \in InWait
              /\ pc'[u] \in Looking => pc[u] \in Looking \/ (~Late(u) /\ found_tasks[Cur])
              /\ pc'[u] \in {"steal", "exhausted"} =>
                   pc[u] \in {"steal", "exhausted"} \/ deque[Cur][u] = <<>>
              /\ u = 0 /\ phase[0] = "tasks" => pc'[u] \notin {"suspend", "asleep"},
         \A u \in Threads :
           \/ task_team'[u] = task_team[u]
           \/ Late(u) /\ task_team'[u] = NoTeam /\ pc'[u] \notin Looking,
         pc' \in [Threads -> {"work", "enable", "spin", "idle", "suspend", "asleep",
                              "own", "steal", "run", "exhausted", "release"}],
         task_team' \in [Threads -> 0..NoTeam],
         look' \in [Threads -> SUBSET Threads],
         UNCHANGED <<parent, teams, task_state, flags, barrier, tasks, finished>>
  PROVE  IInv'
<1>1. Cur' = Cur /\ Round' = Round /\ \A t \in Threads : Late(t)' <=> Late(t)
  <2>1. pc[0] = "release" <=> pc'[0] = "release"
    BY Numbers DEF InWait, Looking
  <2> QED
    BY <2>1, CurSame DEF barrier
<1>2. \A t \in Threads :
        /\ pc'[t] = "release" <=> pc[t] = "release"
        /\ pc'[t] = "run" <=> pc[t] = "run"
        /\ pc'[t] = "enable" <=> pc[t] = "enable"
        /\ pc'[t] = "work" <=> pc[t] = "work"
  BY DEF InWait, Looking
<1> USE DEF teams, flags, barrier, tasks
<1>3. TypeOK'
  BY DEF IInv, TypeOK
<1>4. Control'
  BY <1>2 DEF IInv, Control, AtWork, Kids
<1>5. Rounds'
  BY <1>1, <1>2 DEF IInv, Rounds, Released
<1>6. Tree'
  <2>1. \A t \in Threads \ {0} : parent[t] \in Threads
    BY DEF IInv, TypeOK
  <2> QED
    BY <1>1, <1>2, <2>1 DEF IInv, Tree, Released, Here
<1>7. Teams'
  <2>1. Unfinished' = Unfinished
    BY <1>1 DEF Unfinished
  <2>2. ~found_tasks[Cur] => \A t \in Threads :
          ~Late(t) => pc'[t] \notin Looking \cup {"run", "enable"}
    BY <1>2 DEF IInv, Teams
  <2>3. phase[0] = "tasks" => pc'[0] \notin {"suspend", "asleep"}
    BY Numbers DEF IInv, Teams
  <2> QED
    BY <1>1, <2>1, <2>2, <2>3 DEF IInv, Teams
<1>8. Quiet'
  <2>1. \A t \in Threads : Late(t) =>
          /\ pc'[t] \in Looking => finished[t] /\ task_team'[t] = task_state[t]
          /\ task_team'[t] \in {task_state[t], NoTeam}
    BY DEF IInv, Quiet
  <2>2. \A t \in Threads :
          pc'[t] \in {"steal", "exhausted"} => deque[Cur][t] = <<>>
    BY DEF IInv, Quiet
  <2> QED
    BY <1>1, <2>1, <2>2 DEF IInv, Quiet
<1>9. Counted'
  BY CountedSame DEF IInv
<1> QED
  BY <1>3, <1>4, <1>5, <1>6, <1>7, <1>8, <1>9 DEF IInv

PCs == {"work", "enable", "spin", "idle", "suspend", "asleep",
        "own", "steal", "run", "exhausted", "release"}

LEMMA Going ==
  ASSUME TypeOK, NEW t \in Threads, NEW from, NEW to \in PCs, Goto(t, from, to)
  PROVE  /\ pc[t] = from /\ pc' \in [Threads -> PCs]
         /\ \A u \in Threads : pc'[u] = IF u = t THEN to ELSE pc[u]
<1>1. pc \in [Threads -> PCs]
  BY DEF TypeOK, PCs
<1> QED
  BY <1>1 DEF Goto, Set

LEMMA Waking ==
  ASSUME TypeOK, NEW t \in Threads, NEW from, NEW to \in PCs, NEW w, NEW b \in BOOLEAN,
         GotoAndWake(t, from, to, w, b), from # "asleep"
  PROVE  /\ pc[t] = from /\ pc' \in [Threads -> PCs]
         /\ pc'[t] = to
         /\ \A u \in Threads \ {t} : pc'[u] = pc[u] \/ (pc[u] = "asleep" /\ pc'[u] = "spin")
<1>1. pc \in [Threads -> PCs] /\ "spin" \in PCs
  BY DEF TypeOK, PCs
<1>2. pc[t] = from
  BY DEF GotoAndWake
<1>3. CASE w \in Threads
  <2>1. pc' \in [Threads -> PCs]
    BY <1>1, <1>3 DEF GotoAndWake
  <2>2. pc'[t] = to
    BY <1>1, <1>2, <1>3 DEF GotoAndWake
  <2>3. \A u \in Threads \ {t} : pc'[u] = pc[u] \/ (pc[u] = "asleep" /\ pc'[u] = "spin")
    BY <1>1, <1>2, <1>3 DEF GotoAndWake
  <2> QED
    BY <1>2, <2>1, <2>2, <2>3
<1>4. CASE w \notin Threads
  BY <1>1, <1>2, <1>4 DEF GotoAndWake
<1> QED
  BY <1>3, <1>4

-----------------------------------------------------------------------------
(* The wait loop.                                                           *)

LEMMA SpinStep ==
  ASSUME NAssumption, IInv, NEW t \in Threads, Spin(t)
  PROVE  IInv'
<1> DEFINE s == task_team[t]
<1>0. TypeOK
  BY DEF IInv
<1>1. /\ s \in 0..NoTeam /\ task_team \in [Threads -> 0..NoTeam]
      /\ active \in [0..1 -> BOOLEAN] /\ found_tasks \in [0..1 -> BOOLEAN]
      /\ look \in [Threads -> SUBSET Threads]
  BY <1>0 DEF TypeOK
<1>2. PICK to \in {"spin", "idle", "own"} :
        /\ Goto(t, "spin", to)
        /\ \/ task_team' = task_team
           \/ /\ task_team' = Set(task_team, t, NoTeam)
              /\ s # NoTeam /\ ~active[s] /\ to # "own"
        /\ to = "own" => s # NoTeam /\ active[s] /\ found_tasks[s]
  BY DEF Spin
<1>3. /\ pc[t] = "spin" /\ pc' \in [Threads -> PCs]
      /\ \A u \in Threads : pc'[u] = IF u = t THEN to ELSE pc[u]
  BY <1>0, <1>2, Going DEF PCs
<1>4. /\ Cur \in 0..1 /\ active[Cur] /\ ~(active[1-Cur] /\ found_tasks[1-Cur])
      /\ task_state[t] \in {Cur, 1-Cur} /\ 1 - Cur # Cur
      /\ ~Late(t) => task_state[t] = Cur /\ s = Cur
      /\ Late(t) => s \in {1 - Cur, NoTeam}
  BY <1>0, CurFacts DEF IInv, Teams, Quiet
<1>5. to = "own" => ~Late(t) /\ found_tasks[Cur]
  BY <1>2, <1>4
<1>6. /\ task_team' \in [Threads -> 0..NoTeam]
      /\ \A u \in Threads : \/ task_team'[u] = task_team[u]
                            \/ Late(u) /\ task_team'[u] = NoTeam /\ pc'[u] \notin Looking
  <2>1. CASE task_team' = task_team
    BY <1>1, <2>1
  <2>2. CASE task_team' # task_team
    BY <1>1, <1>2, <1>3, <1>4, <2>2 DEF Set, NoTeam, Looking
  <2> QED
    BY <2>1, <2>2
<1>7. UNCHANGED <<parent, teams, task_state, flags, barrier, tasks, finished, look>>
  BY DEF Spin
<1> QED
  BY <1>1, <1>3, <1>5, <1>6, <1>7, Moving DEF InWait, Looking, PCs

(* The other steps in which only the place in the wait loop changes.        *)
LEMMA WaitStep ==
  ASSUME NAssumption, IInv, NEW t \in Threads,
         \/ Idle(t) \/ Suspend(t) \/ Sleep(t) \/ NoOwn(t) \/ NoVictim(t)
  PROVE  IInv'
<1>0. TypeOK
  BY DEF IInv
<1>1. task_team \in [Threads -> 0..NoTeam] /\ look \in [Threads -> SUBSET Threads]
  BY <1>0 DEF TypeOK
<1>2. PICK from \in {"idle", "suspend", "own", "steal"},
           to \in {"spin", "suspend", "asleep", "steal", "exhausted"} :
        /\ Goto(t, from, to)
        /\ to \in {"steal", "exhausted"} => from \in Looking
        /\ to = "steal" => deque[task_team[t]][t] = <<>>
        /\ to = "exhausted" => from = "steal"
        /\ to = "suspend" => MaySleep(t)
        /\ to = "asleep" => from = "suspend"
  BY DEF Idle, Suspend, Sleep, NoOwn, NoVictim, Looking
<1>3. /\ pc[t] = from /\ pc' \in [Threads -> PCs]
      /\ \A u \in Threads : pc'[u] = IF u = t THEN to ELSE pc[u]
  BY <1>0, <1>2, Going DEF PCs
<1>4. /\ ~Late(t) => task_team[t] = Cur
      /\ Late(t) /\ from \in Looking => deque[Cur][t] = <<>>
      /\ phase[0] = "tasks" => ~Late(0) /\ found_tasks[Cur] /\ pc[0] \notin {"suspend", "asleep"}
  BY <1>0, <1>3, CurFacts, Numbers DEF IInv, Teams, Quiet, Rounds
<1>5. to \in {"steal", "exhausted"} => from \in {"steal", "exhausted"} \/ deque[Cur][t] = <<>>
  BY <1>2, <1>4
<1>6. t = 0 /\ phase[0] = "tasks" => to \notin {"suspend", "asleep"}
  BY <1>0, <1>2, <1>3, <1>4, CurFacts DEF MaySleep
<1>7. UNCHANGED <<parent, teams, thread, flags, barrier, tasks, finished, look>>
  BY DEF Idle, Suspend, Sleep, NoOwn, NoVictim
<1>8. UNCHANGED <<task_state, task_team>>
  BY <1>7 DEF thread
<1> QED
  BY <1>1, <1>2, <1>3, <1>5, <1>6, <1>7, <1>8, Moving DEF InWait, Looking, PCs

LEMMA WakeStep ==
  ASSUME NAssumption, IInv, NEW t \in Threads,
         EnableWake(t) \/ \E v \in Threads : WakeVictim(t, v)
  PROVE  IInv'
<1>0. TypeOK
  BY DEF IInv
<1>1. task_team \in [Threads -> 0..NoTeam] /\ look \in [Threads -> SUBSET Threads]
  BY <1>0 DEF TypeOK
<1>2. PICK at \in {"enable", "steal"}, b \in BOOLEAN : \E w : GotoAndWake(t, at, at, w, b)
  BY DEF EnableWake, WakeVictim
<1>3. /\ pc' \in [Threads -> PCs]
      /\ \A u \in Threads : pc'[u] = pc[u] \/ (pc[u] = "asleep" /\ pc'[u] = "spin")
  <2>1. at \in PCs /\ at # "asleep"
    BY DEF PCs
  <2>2. /\ pc[t] = at /\ pc' \in [Threads -> PCs] /\ pc'[t] = at
        /\ \A u \in Threads \ {t} : pc'[u] = pc[u] \/ (pc[u] = "asleep" /\ pc'[u] = "spin")
    BY <1>0, <1>2, <2>1, Waking
  <2> QED
    BY <2>2
<1>4. UNCHANGED <<parent, teams, task_state, task_team, flags, barrier, tasks, finished>>
  BY DEF EnableWake, WakeVictim, thread
<1>5. look' \in [Threads -> SUBSET Threads]
  BY <1>1 DEF EnableWake, WakeVictim, Set
<1> QED
  BY <1>1, <1>3, <1>4, <1>5, Moving DEF InWait, Looking, PCs

-----------------------------------------------------------------------------
(* Tasks.                                                                   *)

LEMMA StandingStill ==
  ASSUME NAssumption, IInv, UNCHANGED <<parent, task_state, flags, barrier>>,
         \A u \in Threads : pc'[u] = "release" <=> pc[u] = "release"
  PROVE  /\ Cur' = Cur /\ (\A t \in Threads : Late(t)' <=> Late(t))
         /\ Rounds' /\ Tree'
<1> USE DEF flags, barrier
<1>1. Cur' = Cur /\ Round' = Round /\ \A t \in Threads : Late(t)' <=> Late(t)
  BY CurSame, Numbers
<1>2. Rounds'
  BY <1>1 DEF IInv, Rounds, Released
<1>3. Tree'
  <2>1. \A t \in Threads \ {0} : parent[t] \in Threads
    BY DEF IInv, TypeOK
  <2> QED
    BY <1>1, <2>1 DEF IInv, Tree, Released, Here
<1> QED
  BY <1>1, <1>2, <1>3

LEMMA Busy ==
  ASSUME NAssumption, IInv, NEW t \in Threads, pc[t] \in {"work", "run", "enable"}
  PROVE  /\ ~Late(t) /\ task_state[t] = Cur /\ task_team[t] = Cur /\ Cur \in 0..1
         /\ ~finished[t]
         /\ pc[t] \in {"run", "enable"} => found_tasks[Cur]
<1>1. TypeOK
  BY DEF IInv
<1>2. ~Late(t) /\ ~finished[t]
  BY DEF IInv, Control, AtWork, Rounds, Quiet
<1> QED
  BY <1>1, <1>2, CurFacts DEF IInv, Quiet, Teams

LEMMA PushFacts ==
  ASSUME NAssumption, IInv, NEW t \in Threads, task_team[t] = Cur, Push(t),
         UNCHANGED running
  PROVE  /\ deque' \in [0..1 -> [Threads -> Seq(0..N)]]
         /\ incomplete' \in [Threads -> Nat]
         /\ \A a \in 0..1, u \in Threads : (a # Cur \/ u # t) => deque'[a][u] = deque[a][u]
         /\ \A u \in Threads : u # t => incomplete'[u] = incomplete[u]
         /\ Counted'
<1>0. TypeOK /\ Counted
  BY DEF IInv
<1>1. /\ deque \in [0..1 -> [Threads -> Seq(0..N)]] /\ incomplete \in [Threads -> Nat]
      /\ Cur \in 0..1
  BY <1>0, CurFacts DEF TypeOK
<1>2. Parent(t) \in 0..N /\ (Parent(t) \in Threads => Parent(t) = t)
  BY Numbers DEF Parent, Nested
<1>3. deque' = [deque EXCEPT ![Cur][t] = Append(@, Parent(t))]
  BY DEF Push
<1>4. /\ deque' \in [0..1 -> [Threads -> Seq(0..N)]]
      /\ \A a \in 0..1, u \in Threads : (a # Cur \/ u # t) => deque'[a][u] = deque[a][u]
  BY <1>1, <1>2, <1>3
<1>5. /\ incomplete' \in [Threads -> Nat]
      /\ \A u \in Threads :
           incomplete'[u] = incomplete[u] + (IF Parent(t) = u THEN 1 ELSE 0)
  <2>1. CASE Parent(t) = t
    BY <1>1, <2>1 DEF Push, Set
  <2>2. CASE Parent(t) # t
    <3>1. incomplete' = incomplete
      BY <2>2 DEF Push
    <3>2. \A u \in Threads : incomplete[u] \in Nat /\ Parent(t) # u
      BY <1>1, <1>2, <2>2
    <3> QED
      BY <1>1, <3>1, <3>2
  <2> QED
    BY <2>1, <2>2
<1>6. Counted'
  <2>1. ASSUME NEW u \in Threads
        PROVE  /\ IsFiniteSet(Queued(u)')
               /\ Cardinality(Queued(u)') =
                    Cardinality(Queued(u)) + (IF Parent(t) = u THEN 1 ELSE 0)
               /\ Cardinality(Queued(u)) \in Nat
    <3>1. IsFiniteSet(Queued(u))
      BY <1>0 DEF Counted
    <3>2. Cardinality(Queued(u)) \in Nat
      BY <3>1, FS_CardinalityType
    <3>3. PICK p \in 0..N : p = Parent(t)
      BY <1>2
    <3>4. deque' = [deque EXCEPT ![Cur][t] = Append(@, p)]
      BY <1>3, <3>3
    <3>5. PICK s \in 0..1 : s = Cur
      BY <1>1
    <3>6. deque' = [deque EXCEPT ![s][t] = Append(@, p)]
      BY <3>4, <3>5
    <3>7. /\ IsFiniteSet(Queued(u)')
          /\ Cardinality(Queued(u)') = Cardinality(Queued(u)) + (IF p = u THEN 1 ELSE 0)
      BY ZenonT(30), <1>0, <3>1, <3>6, Pushing
    <3> QED
      BY <3>2, <3>3, <3>7
  <2>2. ASSUME NEW u \in Threads
        PROVE  Runners(u)' = Runners(u) /\ Cardinality(Runners(u)) \in Nat
    <3>1. Runners(u) \subseteq Threads
      BY DEF Runners
    <3> QED
      BY <3>1, Numbers, FS_Subset, FS_CardinalityType DEF Runners
  <2> QED
    BY <1>0, <1>5, <2>1, <2>2 DEF Counted
<1>7. ASSUME NEW u \in Threads, u # t PROVE incomplete'[u] = incomplete[u]
  <2>1. incomplete[u] \in Nat
    BY <1>1
  <2> QED
    BY <1>2, <1>5, <1>7, <2>1
<1> QED
  BY <1>4, <1>5, <1>6, <1>7

LEMMA CreateStep ==
  ASSUME NAssumption, IInv, NEW t \in Threads, Create(t)
  PROVE  IInv'
<1> USE DEF thread, flags, barrier
<1>0. TypeOK
  BY DEF IInv
<1>1. /\ ~Late(t) /\ task_state[t] = Cur /\ task_team[t] = Cur /\ Cur \in 0..1
      /\ ~finished[t] /\ pc[t] \in {"work", "run"}
  BY Busy DEF Create
<1>2. UNCHANGED <<parent, active, unfinished, task_state, task_team, flags, barrier, running, finished>>
      /\ created' \in Nat
  BY <1>0 DEF Create, TypeOK
<1>3. CASE found_tasks[Cur]
  <2>1. Push(t) /\ UNCHANGED <<found_tasks, look, pc>>
    BY <1>1, <1>3 DEF Create
  <2>2. /\ Cur' = Cur /\ (\A u \in Threads : Late(u)' <=> Late(u))
        /\ Rounds' /\ Tree'
    BY <1>2, <2>1, StandingStill
  <2>3. /\ deque' \in [0..1 -> [Threads -> Seq(0..N)]]
        /\ incomplete' \in [Threads -> Nat]
        /\ \A a \in 0..1, u \in Threads : (a # Cur \/ u # t) => deque'[a][u] = deque[a][u]
        /\ \A u \in Threads : u # t => incomplete'[u] = incomplete[u]
        /\ Counted'
    BY <1>1, <1>2, <2>1, PushFacts
  <2>4. TypeOK'
    BY <1>0, <1>2, <2>1, <2>3 DEF TypeOK
  <2>5. Control'
    BY <1>2, <2>1 DEF IInv, Control, AtWork, Kids
  <2>6. Teams'
    BY <1>2, <1>3, <2>1, <2>2 DEF IInv, Teams, Unfinished
  <2>7. Quiet'
    <3>1. /\ \A u \in Threads : u # t => incomplete'[u] = incomplete[u]
                                          /\ deque'[Cur][u] = deque[Cur][u]
          /\ \A u \in Threads : deque'[1-Cur][u] = deque[1-Cur][u]
      BY <1>0, <2>3, CurFacts
    <3> QED
      BY <1>1, <1>2, <2>1, <2>2, <3>1 DEF IInv, Quiet, Looking
  <2> QED
    BY <2>2, <2>3, <2>4, <2>5, <2>6, <2>7 DEF IInv
<1>4. CASE ~found_tasks[Cur]
  <2>1. /\ found_tasks' = Set(found_tasks, Cur, TRUE)
        /\ look' = Set(look, t, Threads \ {t})
        /\ pc' = Set(pc, t, "enable")
        /\ UNCHANGED <<deque, incomplete>>
    BY <1>1, <1>4 DEF Create
  <2>2. /\ \A u \in Threads : pc'[u] = IF u = t THEN "enable" ELSE pc[u]
        /\ pc[t] = "work"
        /\ found_tasks' \in [0..1 -> BOOLEAN] /\ found_tasks'[Cur]
        /\ found_tasks'[1 - Cur] = found_tasks[1 - Cur]
    BY <1>0, <1>1, <1>4, <2>1, CurFacts DEF TypeOK, IInv, Teams, Set
  <2>3. /\ Cur' = Cur /\ (\A u \in Threads : Late(u)' <=> Late(u))
        /\ Rounds' /\ Tree'
    BY <1>2, <2>2, StandingStill
  <2>4. TypeOK'
    BY <1>0, <1>2, <2>1, <2>2 DEF TypeOK, Set
  <2>5. Control'
    BY <1>2, <2>2 DEF IInv, Control, AtWork, Kids
  <2>6. Teams'
    <3>1. unfinished[Cur] = Cardinality(Unfinished)
      <4>1. Unfinished = Threads
        BY <1>0, <1>4, CurFacts DEF IInv, Teams, Unfinished
      <4> QED
        BY <1>4, <4>1, Numbers DEF IInv, Teams
    <3>2. Unfinished' = Unfinished
      BY <1>2, <2>3 DEF Unfinished
    <3>3. phase[0] = "tasks" => pc'[0] \notin {"suspend", "asleep"}
      BY <1>4 DEF IInv, Teams
    <3> QED
      BY <1>2, <2>2, <2>3, <3>1, <3>2, <3>3 DEF IInv, Teams
  <2>7. Quiet'
    BY <1>1, <1>2, <2>1, <2>2, <2>3 DEF IInv, Quiet, Looking
  <2>8. Counted'
    BY <1>2, <2>1, CountedSame DEF IInv
  <2> QED
    BY <2>3, <2>4, <2>5, <2>6, <2>7, <2>8 DEF IInv
<1> QED
  BY <1>3, <1>4

LEMMA EnabledStep ==
  ASSUME NAssumption, IInv, NEW t \in Threads, Enabled(t)
  PROVE  IInv'
<1> USE DEF teams, thread, flags, barrier
<1>0. TypeOK
  BY DEF IInv
<1> DEFINE to == IF running[t] = None THEN "work" ELSE "run"
<1>1. /\ pc[t] = "enable" /\ pc' \in [Threads -> PCs]
      /\ \A u \in Threads : pc'[u] = IF u = t THEN to ELSE pc[u]
  BY <1>0, Going DEF Enabled, PCs
<1>2. /\ ~Late(t) /\ task_state[t] = Cur /\ task_team[t] = Cur /\ Cur \in 0..1
      /\ ~finished[t] /\ found_tasks[Cur]
  BY <1>1, Busy
<1>3. UNCHANGED <<parent, teams, thread, flags, barrier, running, created, finished, look>>
      /\ Push(t)
  BY DEF Enabled
<1>4. /\ Cur' = Cur /\ (\A u \in Threads : Late(u)' <=> Late(u))
      /\ Rounds' /\ Tree'
  BY <1>1, <1>3, StandingStill
<1>5. /\ deque' \in [0..1 -> [Threads -> Seq(0..N)]]
      /\ incomplete' \in [Threads -> Nat]
      /\ \A a \in 0..1, u \in Threads : (a # Cur \/ u # t) => deque'[a][u] = deque[a][u]
      /\ \A u \in Threads : u # t => incomplete'[u] = incomplete[u]
      /\ Counted'
  BY <1>2, <1>3, PushFacts
<1>6. TypeOK'
  BY <1>0, <1>1, <1>3, <1>5 DEF TypeOK, PCs
<1>7. Control'
  BY <1>1, <1>3 DEF IInv, Control, AtWork, Kids
<1>8. Teams'
  <2>1. Unfinished' = Unfinished
    BY <1>3, <1>4 DEF Unfinished
  <2>2. phase[0] = "tasks" => pc'[0] \notin {"suspend", "asleep"}
    BY <1>1, Numbers DEF IInv, Teams
  <2> QED
    BY <1>2, <1>3, <1>4, <2>1, <2>2 DEF IInv, Teams
<1>9. Quiet'
  <2>1. /\ pc'[t] \in {"work", "run"}
        /\ \A u \in Threads : u # t => pc'[u] = pc[u] /\ incomplete'[u] = incomplete[u]
                                      /\ deque'[Cur][u] = deque[Cur][u]
        /\ \A u \in Threads : deque'[1-Cur][u] = deque[1-Cur][u]
    BY <1>0, <1>1, <1>2, <1>5, CurFacts
  <2> QED
    BY <1>2, <1>3, <1>4, <2>1 DEF IInv, Quiet, Looking
<1> QED
  BY <1>4, <1>5, <1>6, <1>7, <1>8, <1>9 DEF IInv

(* A thread that finds a task is neither late nor has it finished.          *)
LEMMA Finding ==
  ASSUME NAssumption, IInv, NEW t \in Threads, NEW v \in Threads,
         pc[t] \in {"own", "steal"}, deque[task_team[t]][v] # <<>>
  PROVE  /\ ~Late(t) /\ task_state[t] = Cur /\ task_team[t] = Cur /\ Cur \in 0..1
         /\ found_tasks[Cur] /\ running[t] = None /\ phase[t] # "none"
         /\ deque[Cur][v] # <<>> /\ ~finished[v] /\ pc[v] \notin {"steal", "exhausted"}
<1>0. TypeOK
  BY DEF IInv
<1>1. pc[t] \in Looking
  BY DEF Looking
<1>2. ASSUME Late(t) PROVE FALSE
  <2>1. task_team[t] = task_state[t] /\ deque[1-Cur][v] = <<>>
    BY <1>1, <1>2 DEF IInv, Quiet
  <2> QED
    BY <1>2, <2>1 DEF Late
<1>3. task_state[t] = Cur /\ task_team[t] = Cur /\ Cur \in 0..1
  BY <1>0, <1>2, CurFacts DEF IInv, Quiet
<1>4. deque[Cur][v] # <<>> /\ ~finished[v] /\ pc[v] \notin {"steal", "exhausted"}
  BY <1>3 DEF IInv, Quiet
<1>5. found_tasks[Cur]
  BY <1>1, <1>2 DEF IInv, Teams
<1>6. running[t] = None /\ phase[t] # "none"
  BY DEF IInv, Control, AtWork
<1> QED
  BY <1>2, <1>3, <1>4, <1>5, <1>6

LEMMA RunFacts ==
  ASSUME NAssumption, IInv, NEW t \in Threads, running[t] = None, NEW x \in 0..N, Run(t, x)
  PROVE  /\ running' \in [Threads -> 0..None] /\ pc' \in [Threads -> PCs]
         /\ \A u \in Threads : pc'[u] = IF u = t THEN "run" ELSE pc[u]
         /\ \A u \in Threads : running'[u] = IF u = t THEN x ELSE running[u]
         /\ \A u \in Threads :
              /\ Cardinality(Runners(u)) \in Nat
              /\ Cardinality(Runners(u)') = Cardinality(Runners(u)) + (IF x = u THEN 1 ELSE 0)
         /\ x # None
<1>0. TypeOK
  BY DEF IInv
<1>1. running \in [Threads -> 0..None] /\ pc \in [Threads -> PCs] /\ None \notin 0..N
      /\ N \in Nat
  <2>1. running \in [Threads -> 0..None] /\ pc \in [Threads -> PCs]
    BY <1>0 DEF TypeOK, PCs
  <2> QED
    BY <2>1, Numbers
<1>2. /\ running' \in [Threads -> 0..None] /\ pc' \in [Threads -> PCs]
      /\ \A u \in Threads : pc'[u] = IF u = t THEN "run" ELSE pc[u]
      /\ \A u \in Threads : running'[u] = IF u = t THEN x ELSE running[u]
  BY <1>1, Numbers DEF Run, Set, PCs
<1>3. ASSUME NEW u \in Threads
      PROVE  /\ Cardinality(Runners(u)) \in Nat
             /\ Cardinality(Runners(u)') = Cardinality(Runners(u)) + (IF x = u THEN 1 ELSE 0)
  <2>1. Runners(u) \subseteq Threads /\ t \notin Runners(u)
    BY Numbers DEF Runners
  <2>2. IsFiniteSet(Runners(u)) /\ Cardinality(Runners(u)) \in Nat
    BY <2>1, Numbers, FS_Subset, FS_CardinalityType
  <2>3. Runners(u)' = IF x = u THEN Runners(u) \cup {t} ELSE Runners(u)
    BY <1>2, <2>1 DEF Runners
  <2> QED
    BY <2>1, <2>2, <2>3, FS_AddElement
<1> QED
  BY <1>1, <1>2, <1>3

LEMMA RemoveOwnStep ==
  ASSUME NAssumption, IInv, NEW t \in Threads, RemoveOwn(t)
  PROVE  IInv'
<1> USE DEF teams, thread, flags, barrier
<1> DEFINE x == Last(deque[Cur][t])
<1>0. TypeOK /\ Counted
  BY DEF IInv
<1>1. /\ ~Late(t) /\ task_state[t] = Cur /\ task_team[t] = Cur /\ Cur \in 0..1
      /\ found_tasks[Cur] /\ running[t] = None /\ phase[t] # "none"
      /\ deque[Cur][t] # <<>> /\ ~finished[t]
  BY Finding DEF RemoveOwn
<1>2. /\ Run(t, x) /\ deque' = [deque EXCEPT ![Cur][t] = Front(@)]
      /\ UNCHANGED <<parent, teams, thread, flags, barrier, incomplete, created, finished, look>>
      /\ pc[t] = "own"
  BY <1>1 DEF RemoveOwn
<1>3. /\ deque \in [0..1 -> [Threads -> Seq(0..N)]]
  BY <1>0 DEF TypeOK
<1>4. x \in 0..N /\ Front(deque[Cur][t]) \in Seq(0..N)
  BY <1>1, <1>3, Ends
<1>5. /\ deque' \in [0..1 -> [Threads -> Seq(0..N)]]
      /\ \A a \in 0..1, u \in Threads : (a # Cur \/ u # t) => deque'[a][u] = deque[a][u]
  BY <1>1, <1>2, <1>3, <1>4
<1>6. /\ running' \in [Threads -> 0..None] /\ pc' \in [Threads -> PCs]
      /\ \A u \in Threads : pc'[u] = IF u = t THEN "run" ELSE pc[u]
      /\ \A u \in Threads : running'[u] = IF u = t THEN x ELSE running[u]
      /\ \A u \in Threads :
           /\ Cardinality(Runners(u)) \in Nat
           /\ Cardinality(Runners(u)') = Cardinality(Runners(u)) + (IF x = u THEN 1 ELSE 0)
      /\ x # None
  BY <1>1, <1>2, <1>4, RunFacts
<1> HIDE DEF x
<1>7. /\ Cur' = Cur /\ (\A u \in Threads : Late(u)' <=> Late(u))
      /\ Rounds' /\ Tree'
  BY <1>2, <1>6, StandingStill
<1>8. TypeOK'
  BY <1>0, <1>2, <1>5, <1>6 DEF TypeOK, PCs
<1>9. Control'
  BY <1>1, <1>2, <1>6 DEF IInv, Control, AtWork, Kids
<1>10. Teams'
  <2>1. Unfinished' = Unfinished
    BY <1>2, <1>7 DEF Unfinished
  <2>2. phase[0] = "tasks" => pc'[0] \notin {"suspend", "asleep"}
    BY <1>6, Numbers DEF IInv, Teams
  <2> QED
    BY <1>1, <1>2, <1>7, <2>1, <2>2 DEF IInv, Teams
<1>11. Quiet'
  <2>1. /\ \A u \in Threads : u # t => pc'[u] = pc[u] /\ running'[u] = running[u]
                                      /\ deque'[Cur][u] = deque[Cur][u]
        /\ \A u \in Threads : deque'[1-Cur][u] = deque[1-Cur][u]
        /\ pc'[t] = "run"
    BY <1>0, <1>5, <1>6, CurFacts
  <2> QED
    BY <1>1, <1>2, <1>7, <2>1 DEF IInv, Quiet, Looking
<1>12. Counted'
  <2>1. ASSUME NEW u \in Threads
        PROVE  /\ IsFiniteSet(Queued(u)')
               /\ Cardinality(Queued(u)') = Cardinality(Queued(u)) - (IF x = u THEN 1 ELSE 0)
               /\ Cardinality(Queued(u)) \in Nat
    BY <1>0, <1>1, <1>2, Removing, FS_CardinalityType DEF Counted, x
  <2> QED
    BY <1>0, <1>2, <1>6, <2>1 DEF Counted
<1> QED
  BY <1>7, <1>8, <1>9, <1>10, <1>11, <1>12 DEF IInv

LEMMA UnfinishedFacts ==
  ASSUME NAssumption, IInv
  PROVE  /\ Unfinished \subseteq Threads /\ IsFiniteSet(Unfinished)
         /\ Cardinality(Unfinished) \in Nat
  BY Numbers, FS_Subset, FS_CardinalityType DEF Unfinished

LEMMA StealStep ==
  ASSUME NAssumption, IInv, NEW t \in Threads, NEW v \in Threads, Steal(t, v)
  PROVE  IInv'
<1> USE DEF thread, flags, barrier
<1> DEFINE x == Head(deque[Cur][v])
<1>0. TypeOK /\ Counted
  BY DEF IInv
<1>1. /\ ~Late(t) /\ task_state[t] = Cur /\ task_team[t] = Cur /\ Cur \in 0..1
      /\ found_tasks[Cur] /\ running[t] = None /\ phase[t] # "none"
      /\ deque[Cur][v] # <<>> /\ ~finished[v] /\ pc[v] \notin {"steal", "exhausted"}
  BY Finding DEF Steal
<1>2. /\ Run(t, x) /\ deque' = [deque EXCEPT ![Cur][v] = Tail(@)]
      /\ unfinished' = Set(unfinished, Cur, unfinished[Cur] + (IF finished[t] THEN 1 ELSE 0))
      /\ finished' = Set(finished, t, FALSE)
      /\ UNCHANGED <<parent, active, found_tasks, thread, flags, barrier, incomplete, created, look>>
      /\ pc[t] = "steal" /\ t # v
  BY <1>1 DEF Steal
<1>3. /\ deque \in [0..1 -> [Threads -> Seq(0..N)]] /\ finished \in [Threads -> BOOLEAN]
      /\ unfinished \in [0..1 -> 0..N]
  BY <1>0 DEF TypeOK
<1>4. x \in 0..N /\ Tail(deque[Cur][v]) \in Seq(0..N)
  <2>1. deque[Cur][v] \in Seq(0..N)
    BY <1>1, <1>3
  <2> QED
    BY <1>1, <2>1, Ends
<1>5. /\ deque' \in [0..1 -> [Threads -> Seq(0..N)]]
      /\ \A a \in 0..1, u \in Threads : (a # Cur \/ u # v) => deque'[a][u] = deque[a][u]
  BY <1>1, <1>2, <1>3, <1>4
<1>6. /\ running' \in [Threads -> 0..None] /\ pc' \in [Threads -> PCs]
      /\ \A u \in Threads : pc'[u] = IF u = t THEN "run" ELSE pc[u]
      /\ \A u \in Threads : running'[u] = IF u = t THEN x ELSE running[u]
      /\ \A u \in Threads :
           /\ Cardinality(Runners(u)) \in Nat
           /\ Cardinality(Runners(u)') = Cardinality(Runners(u)) + (IF x = u THEN 1 ELSE 0)
      /\ x # None
  BY <1>1, <1>2, <1>4, RunFacts
<1> HIDE DEF x
<1>17. /\ UNCHANGED <<parent, active, found_tasks, thread, flags, barrier, incomplete, created, look>>
       /\ pc[t] = "steal" /\ t # v
  BY <1>2
<1>7. /\ Cur' = Cur /\ (\A u \in Threads : Late(u)' <=> Late(u))
      /\ Rounds' /\ Tree'
  BY <1>2, <1>6, StandingStill
<1>8. /\ finished' \in [Threads -> BOOLEAN]
      /\ \A u \in Threads : finished'[u] = IF u = t THEN FALSE ELSE finished[u]
  BY <1>2, <1>3 DEF Set
<1>9. Unfinished' = Unfinished \cup {t} /\ (t \in Unfinished <=> ~finished[t])
  BY <1>1, <1>17, <1>7, <1>8 DEF Unfinished
<1>10. /\ unfinished' \in [0..1 -> 0..N] /\ unfinished'[Cur] = Cardinality(Unfinished')
       /\ unfinished'[1-Cur] = unfinished[1-Cur]
  <2>1. Cardinality(Unfinished') = Cardinality(Unfinished) + (IF finished[t] THEN 1 ELSE 0)
    BY <1>9, UnfinishedFacts, FS_AddElement
  <2>2. Cardinality(Unfinished') \in 0..N
    <3>1. Unfinished' \subseteq Threads
      BY DEF Unfinished, Threads
    <3> QED
      BY <3>1, Numbers, FS_Subset, FS_CardinalityType
  <2>3. unfinished' = Set(unfinished, Cur, Cardinality(Unfinished'))
    BY <1>1, <1>2, <2>1 DEF IInv, Teams
  <2> QED
    BY <1>0, <1>3, <2>2, <2>3, CurFacts DEF Set
<1>11. TypeOK'
  BY <1>0, <1>2, <1>5, <1>6, <1>8, <1>10 DEF TypeOK, PCs
<1>16. /\ \A u \in Threads : u # t => /\ pc'[u] = pc[u] /\ running'[u] = running[u]
                                      /\ finished'[u] = finished[u]
       /\ pc'[t] = "run" /\ ~finished'[t] /\ running'[t] # None
  BY <1>6, <1>8
<1>12. Control'
  BY <1>1, <1>17, <1>16 DEF IInv, Control, AtWork, Kids
<1>13. Teams'
  <2>1. phase[0] = "tasks" => pc'[0] \notin {"suspend", "asleep"}
    BY <1>6, Numbers DEF IInv, Teams
  <2> QED
    BY <1>1, <1>17, <1>7, <1>10, <2>1 DEF IInv, Teams
<1>14. Quiet'
  <2>1. /\ \A u \in Threads : u # v => deque'[Cur][u] = deque[Cur][u]
        /\ \A u \in Threads : deque'[1-Cur][u] = deque[1-Cur][u]
    BY <1>0, <1>5, CurFacts
  <2>2. \A u \in Threads :
          finished'[u] \/ pc'[u] \in {"steal", "exhausted"} => deque'[Cur][u] = <<>>
    BY <1>1, <1>17, <1>16, <2>1 DEF IInv, Quiet
  <2> QED
    BY <1>1, <1>17, <1>7, <1>16, <2>1, <2>2 DEF IInv, Quiet, Looking
<1>15. Counted'
  <2>1. ASSUME NEW u \in Threads
        PROVE  /\ IsFiniteSet(Queued(u)')
               /\ Cardinality(Queued(u)') = Cardinality(Queued(u)) - (IF x = u THEN 1 ELSE 0)
               /\ Cardinality(Queued(u)) \in Nat
    <3>1. IsFiniteSet(Queued(u)) /\ Cardinality(Queued(u)) \in Nat
      BY <1>0, FS_CardinalityType DEF Counted
    <3>2. deque' = [deque EXCEPT ![Cur][v] = Tail(@)]
      BY <1>2
    <3> QED
      BY <1>0, <1>1, <3>1, <3>2, Stealing DEF x
  <2> QED
    BY <1>0, <1>17, <1>6, <2>1 DEF Counted
<1> QED
  BY <1>7, <1>11, <1>12, <1>13, <1>14, <1>15 DEF IInv

LEMMA CompleteStep ==
  ASSUME NAssumption, IInv, NEW t \in Threads, Complete(t)
  PROVE  IInv'
<1> USE DEF teams, thread, flags, barrier
<1> DEFINE p == running[t]
<1>0. TypeOK /\ Counted
  BY DEF IInv
<1>1. /\ ~Late(t) /\ task_state[t] = Cur /\ task_team[t] = Cur /\ Cur \in 0..1
      /\ ~finished[t] /\ found_tasks[Cur] /\ pc[t] = "run"
  BY Busy DEF Complete, Goto
<1>2. PICK to \in {"spin", "own"} : Goto(t, "run", to)
  BY DEF Complete
<1>3. /\ pc' \in [Threads -> PCs]
      /\ \A u \in Threads : pc'[u] = IF u = t THEN to ELSE pc[u]
  BY <1>0, <1>2, Going DEF PCs
<1>4. UNCHANGED <<parent, teams, thread, flags, barrier, deque, created, finished, look>>
  BY DEF Complete
<1>5. /\ running' \in [Threads -> 0..None]
      /\ \A u \in Threads : running'[u] = IF u = t THEN None ELSE running[u]
  <2>1. running \in [Threads -> 0..None] /\ None \in 0..None
    BY <1>0, Numbers DEF TypeOK
  <2> QED
    BY <2>1 DEF Complete, Set
<1>6. p # None /\ phase[t] # "none"
  BY <1>1 DEF IInv, Control, AtWork
<1>7. ASSUME NEW u \in Threads
      PROVE  /\ Cardinality(Runners(u)) \in Nat /\ Cardinality(Queued(u)) \in Nat
             /\ p = u => Cardinality(Runners(u)) # 0
             /\ Cardinality(Runners(u)') = Cardinality(Runners(u)) - (IF p = u THEN 1 ELSE 0)
  <2>1. Runners(u) \subseteq Threads /\ (t \in Runners(u) <=> p = u)
    BY DEF Runners
  <2>2. IsFiniteSet(Runners(u)) /\ IsFiniteSet(Queued(u))
    BY <1>0, <2>1, Numbers, FS_Subset DEF Counted
  <2>3. Runners(u)' = Runners(u) \ {t}
    BY <1>5, Numbers DEF Runners
  <2>4. Cardinality(Runners(u)) \in Nat /\ Cardinality(Queued(u)) \in Nat
    BY <2>2, FS_CardinalityType
  <2>5. p = u => Cardinality(Runners(u)) # 0
    BY <2>1, <2>2, FS_EmptySet
  <2>6. Cardinality(Runners(u) \ {t}) =
          IF t \in Runners(u) THEN Cardinality(Runners(u)) - 1 ELSE Cardinality(Runners(u))
    BY <2>2, FS_RemoveElement
  <2> QED
    BY <2>1, <2>3, <2>4, <2>5, <2>6
<1>8. \A u \in Threads : incomplete[u] \in Nat /\ (p = u => incomplete[u] # 0)
  BY <1>0, <1>7 DEF Counted
<1>9. /\ incomplete' \in [Threads -> Nat]
      /\ \A u \in Threads : incomplete'[u] = incomplete[u] - (IF p = u THEN 1 ELSE 0)
  <2>1. incomplete \in [Threads -> Nat]
    BY <1>0 DEF TypeOK
  <2>2. CASE p \in Threads
    <3>1. incomplete' = [incomplete EXCEPT ![p] = incomplete[p] - 1]
      BY <2>2 DEF Complete, Set
    <3>2. incomplete[p] - 1 \in Nat
      BY <1>8, <2>2
    <3> HIDE DEF p
    <3> QED
      BY <2>1, <2>2, <3>1, <3>2
  <2>3. CASE p \notin Threads
    <3>1. incomplete' = incomplete
      BY <2>3 DEF Complete
    <3> HIDE DEF p
    <3> QED
      BY <1>8, <2>1, <2>3, <3>1
  <2> QED
    BY <2>2, <2>3
<1> HIDE DEF p
<1>10. /\ Cur' = Cur /\ (\A u \in Threads : Late(u)' <=> Late(u))
       /\ Rounds' /\ Tree'
  BY <1>1, <1>3, <1>4, StandingStill
<1>11. TypeOK'
  BY <1>0, <1>3, <1>4, <1>5, <1>9 DEF TypeOK, PCs
<1>12. Control'
  BY <1>1, <1>3, <1>4, <1>5, <1>6 DEF IInv, Control, AtWork, Kids
<1>13. Teams'
  <2>1. Unfinished' = Unfinished
    BY <1>4, <1>10 DEF Unfinished
  <2>2. phase[0] = "tasks" => pc'[0] \notin {"suspend", "asleep"}
    BY <1>3, Numbers DEF IInv, Teams
  <2> QED
    BY <1>1, <1>4, <1>10, <2>1, <2>2 DEF IInv, Teams
<1>14. Quiet'
  <2>1. \A u \in Threads : incomplete[u] = 0 => incomplete'[u] = 0
    BY <1>8, <1>9
  <2> QED
    BY <1>1, <1>3, <1>4, <1>5, <1>10, <2>1 DEF IInv, Quiet, Looking
<1>15. Counted'
  <2>1. \A u \in Threads : Queued(u)' = Queued(u)
    BY <1>4 DEF Queued
  <2> QED
    BY <1>0, <1>7, <1>9, <2>1 DEF Counted
<1> QED
  BY <1>10, <1>11, <1>12, <1>13, <1>14, <1>15 DEF IInv

LEMMA ExhaustedStep ==
  ASSUME NAssumption, IInv, NEW t \in Threads, Exhausted(t)
  PROVE  IInv'
<1> USE DEF thread, flags, barrier, tasks
<1> DEFINE finishes == final_spin(t) /\ incomplete[t] = 0 /\ ~finished[t]
           s == task_team[t]
<1>0. TypeOK
  BY DEF IInv
<1>1. /\ pc[t] = "exhausted" /\ pc' \in [Threads -> PCs]
      /\ \A u \in Threads : pc'[u] = IF u = t THEN "idle" ELSE pc[u]
  BY <1>0, Going DEF Exhausted, PCs
<1>2. UNCHANGED <<parent, active, found_tasks, thread, flags, barrier, tasks, look>>
  BY DEF Exhausted
<1>3. /\ finished \in [Threads -> BOOLEAN] /\ unfinished \in [0..1 -> 0..N]
      /\ task_team \in [Threads -> 0..NoTeam] /\ look \in [Threads -> SUBSET Threads]
  BY <1>0 DEF TypeOK
<1>4. s \in 0..1
  BY <1>0, <1>1, CurFacts DEF IInv, Quiet, Looking
<1>5. CASE finishes
  <2>1. /\ unfinished' = Set(unfinished, s, unfinished[s] - 1)
        /\ finished' = Set(finished, t, TRUE)
    BY <1>5 DEF Exhausted
  <2>2. /\ ~Late(t) /\ task_state[t] = Cur /\ s = Cur /\ found_tasks[Cur]
        /\ deque[Cur][t] = <<>> /\ running[t] = None /\ phase[t] # "none"
    BY <1>0, <1>1, <1>5, CurFacts DEF IInv, Quiet, Teams, Control, AtWork, Looking
  <2>3. /\ finished' \in [Threads -> BOOLEAN]
        /\ \A u \in Threads : finished'[u] = IF u = t THEN TRUE ELSE finished[u]
    BY <1>3, <2>1 DEF Set
  <2>4. /\ Cur' = Cur /\ (\A u \in Threads : Late(u)' <=> Late(u))
        /\ Rounds' /\ Tree'
    BY <1>1, <1>2, StandingStill
  <2>5. Unfinished' = Unfinished \ {t} /\ t \in Unfinished
    BY <1>2, <1>5, <2>2, <2>3, <2>4 DEF Unfinished
  <2>6. /\ unfinished' \in [0..1 -> 0..N] /\ unfinished'[Cur] = Cardinality(Unfinished')
        /\ unfinished'[1-Cur] = unfinished[1-Cur]
    <3>1. Cardinality(Unfinished') = Cardinality(Unfinished) - 1
      BY <2>5, UnfinishedFacts, FS_RemoveElement
    <3>2. Cardinality(Unfinished') \in 0..N
      <4>1. Unfinished' \subseteq Threads
        BY DEF Unfinished, Threads
      <4> QED
        BY <4>1, Numbers, FS_Subset, FS_CardinalityType
    <3>3. unfinished' = Set(unfinished, Cur, Cardinality(Unfinished'))
      BY <2>1, <2>2, <3>1 DEF IInv, Teams
    <3> QED
      BY <1>0, <1>3, <3>2, <3>3, CurFacts DEF Set
  <2>7. TypeOK'
    BY <1>0, <1>1, <1>2, <2>3, <2>6 DEF TypeOK, PCs
  <2>8. Control'
    <3>1. phase[t] \notin {"none", "gather"}
      BY <1>5 DEF final_spin
    <3>2. /\ \A u \in Threads : u # t => pc'[u] = pc[u] /\ finished'[u] = finished[u]
          /\ pc'[t] = "idle" /\ pc[t] = "exhausted"
      BY <1>1, <2>3
    <3> QED
      BY <1>2, <3>1, <3>2 DEF IInv, Control, AtWork, Kids
  <2>9. Teams'
    <3>1. phase[0] = "tasks" => pc'[0] \notin {"suspend", "asleep"}
      BY <1>1, Numbers DEF IInv, Teams
    <3> QED
      BY <1>2, <2>2, <2>4, <2>6, <3>1 DEF IInv, Teams
  <2>10. Quiet'
    BY <1>1, <1>2, <1>5, <2>2, <2>3, <2>4 DEF IInv, Quiet, Looking
  <2>11. Counted'
    BY <1>2, CountedSame DEF IInv
  <2> QED
    BY <2>4, <2>7, <2>8, <2>9, <2>10, <2>11 DEF IInv
<1>6. CASE ~finishes
  <2>1. /\ unfinished' = Set(unfinished, s, unfinished[s])
        /\ finished' = Set(finished, t, finished[t])
    <3>1. unfinished[s] - 0 = unfinished[s]
      BY <1>3, <1>4
    <3>2. (finished[t] \/ finishes) = finished[t]
      BY <1>3, <1>6
    <3> QED
      BY <1>6, <3>1, <3>2 DEF Exhausted
  <2>2. UNCHANGED <<unfinished, finished>>
    BY <1>3, <2>1 DEF Set
  <2>3. UNCHANGED <<parent, teams, task_state, flags, barrier, tasks, finished>>
    BY <1>2, <2>2 DEF teams
  <2> QED
    BY <1>1, <1>2, <1>3, <2>3, Moving DEF InWait, Looking, PCs
<1> QED
  BY <1>5, <1>6

-----------------------------------------------------------------------------
(* The barrier.                                                             *)

(* Threads as children and parents.                                         *)
LEMMA Family ==
  ASSUME NAssumption, IInv
  PROVE  /\ Threads \ {0} = 1..N-1
         /\ \A t \in Threads \ {0} : parent[t] \in Threads /\ parent[t] # t
         /\ \A t \in Threads : \A c : c \in Kids(t) <=> c \in Threads \ {0} /\ parent[c] = t
         /\ \A t \in Threads : kids[t] \subseteq Kids(t)
<1>1. Threads \ {0} = 1..N-1
  BY DEF NAssumption, Threads
<1>2. parent \in [Threads -> Threads] /\ \A t \in Threads \ {0} : parent[t] < t
  BY DEF IInv, TypeOK, Tree
<1>3. \A t \in Threads : kids[t] \subseteq Kids(t)
  BY DEF IInv, Control
<1>4. \A t \in Threads \ {0} : parent[t] \in Threads /\ parent[t] # t
  BY <1>2, Numbers
<1> QED
  BY <1>1, <1>3, <1>4 DEF Kids

LEMMA EnterStep ==
  ASSUME NAssumption, IInv, NEW t \in Threads, Enter(t)
  PROVE  IInv'
<1> USE DEF thread, flags, tasks
<1>0. TypeOK
  BY DEF IInv
<1>1. /\ pc[t] = "work" /\ pc' \in [Threads -> PCs]
      /\ \A u \in Threads : pc'[u] = IF u = t THEN "spin" ELSE pc[u]
  BY <1>0, Going DEF Enter, PCs
<1>2. /\ entered \in [Threads -> Nat] /\ kids \in [Threads -> SUBSET Threads]
      /\ phase \in [Threads -> {"none", "gather", "tasks", "go"}]
  BY <1>0 DEF TypeOK
<1>3. UNCHANGED <<parent, thread, flags, left, tasks, finished, look>>
  BY DEF Enter
<1>4. Kids(t) \in SUBSET Threads
  BY Family
<1>5. /\ entered' \in [Threads -> Nat]
      /\ kids' \in [Threads -> SUBSET Threads]
      /\ phase' \in [Threads -> {"none", "gather", "tasks", "go"}]
      /\ \A u \in Threads :
           /\ entered'[u] = IF u = t THEN entered[t] + 1 ELSE entered[u]
           /\ kids'[u] = IF u = t THEN Kids(t) ELSE kids[u]
           /\ phase'[u] = IF u = t THEN "gather" ELSE phase[u]
  BY <1>2, <1>4 DEF Enter, Set
<1>6. /\ phase[t] = "none" /\ ~Late(t) /\ running[t] = None /\ ~finished[t]
  BY <1>1 DEF IInv, Control, Rounds, AtWork
<1>7. Cur' = Cur /\ Round' = Round /\ \A u \in Threads : Late(u)' <=> Late(u)
  BY <1>1, <1>3, CurSame, Numbers
<1>8. /\ active' \in [0..1 -> BOOLEAN] /\ found_tasks' \in [0..1 -> BOOLEAN]
      /\ unfinished' \in [0..1 -> 0..N]
      /\ active'[Cur] = active[Cur] /\ found_tasks'[Cur] = found_tasks[Cur]
      /\ unfinished'[Cur] = unfinished[Cur]
      /\ t # 0 => UNCHANGED teams
      /\ t = 0 => active'[1-Cur] /\ ~found_tasks'[1-Cur] /\ unfinished'[1-Cur] = N
  <2>1. /\ active \in [0..1 -> BOOLEAN] /\ found_tasks \in [0..1 -> BOOLEAN]
        /\ unfinished \in [0..1 -> 0..N]
    BY <1>0 DEF TypeOK
  <2>2. CASE t # 0
    BY <2>1, <2>2 DEF Enter, teams
  <2>3. CASE t = 0
    <3>1. task_state[0] = Cur /\ Setup(Cur) /\ Cur \in 0..1 /\ 1-Cur \in 0..1 /\ 1-Cur # Cur
          /\ N \in 0..N
      BY <1>0, <1>1, <2>3, CurFacts, Numbers DEF Enter, Cur
    <3>2. CASE active[1-Cur]
      <4>1. UNCHANGED <<active, found_tasks, unfinished>>
        BY <3>1, <3>2 DEF Setup, teams
      <4>2. ~found_tasks[1-Cur] /\ unfinished[1-Cur] = N
        BY <3>2 DEF IInv, Teams
      <4> QED
        BY <2>1, <2>3, <3>2, <4>1, <4>2
    <3>3. CASE ~active[1-Cur]
      BY <2>1, <2>3, <3>1, <3>3 DEF Setup, Set
    <3> QED
      BY <3>2, <3>3
  <2> QED
    BY <2>2, <2>3
<1>9. TypeOK'
  BY <1>0, <1>1, <1>3, <1>5, <1>8 DEF TypeOK, PCs
<1>10. Control'
  BY <1>1, <1>3, <1>5, <1>6 DEF IInv, Control, AtWork, Kids
<1>11. Rounds'
  BY <1>1, <1>3, <1>5, <1>6, <1>7 DEF IInv, Rounds, Released
<1>12. Tree'
  BY <1>1, <1>3, <1>5, <1>6, <1>7, Family DEF IInv, Tree, Released, Here
<1>13. Teams'
  <2>1. Unfinished' = Unfinished
    BY <1>3, <1>7 DEF Unfinished
  <2>2. ~found_tasks[Cur] => \A u \in Threads :
          /\ deque'[Cur][u] = <<>>
          /\ ~Late(u) => ~finished'[u] /\ pc'[u] \notin Looking \cup {"run", "enable"}
    BY <1>1, <1>3 DEF IInv, Teams, Looking
  <2>3. CASE t = 0
    BY <1>5, <1>7, <1>8, <2>1, <2>2, <2>3 DEF IInv, Teams
  <2>4. CASE t # 0
    BY <1>1, <1>5, <1>7, <1>8, <2>1, <2>2, <2>4, Numbers DEF IInv, Teams, teams
  <2> QED
    BY <2>3, <2>4
<1>14. Quiet'
  BY <1>1, <1>3, <1>6, <1>7 DEF IInv, Quiet, Looking
<1>15. Counted'
  BY <1>3, CountedSame DEF IInv
<1> QED
  BY <1>9, <1>10, <1>11, <1>12, <1>13, <1>14, <1>15 DEF IInv

LEMMA GatherStep ==
  ASSUME NAssumption, IInv, NEW t \in Threads, Gather(t)
  PROVE  IInv'
<1> USE DEF teams, thread, flags, tasks
<1> DEFINE c == Child(t)
<1>0. TypeOK
  BY DEF IInv
<1>1. /\ phase[t] = "gather" /\ arrived[c] = entered[t] /\ kids[t] # {}
      /\ kids' = Set(kids, t, kids[t] \ {c})
      /\ UNCHANGED <<parent, teams, thread, flags, phase, entered, left, tasks, pc, finished, look>>
  BY DEF Gather, Done
<1> HIDE DEF c
<1>2. kids \in [Threads -> SUBSET Threads]
  BY <1>0 DEF TypeOK
<1>3. /\ kids' \in [Threads -> SUBSET Threads]
      /\ \A u \in Threads : kids'[u] = IF u = t THEN kids[t] \ {c} ELSE kids[u]
  BY <1>1, <1>2 DEF Set
<1>4. Cur' = Cur /\ Round' = Round /\ \A u \in Threads : Late(u)' <=> Late(u)
  BY <1>1, CurSame
<1>5. c \in Threads \ {0} => Here(c)
  <2>1. ~Late(t) /\ entered[t] = Round + 1 /\ Round \in Nat
    <3>1. ~Late(t) /\ entered[t] = Round + 1
      BY <1>1 DEF IInv, Rounds
    <3>2. left \in [Threads -> Nat]
      BY <1>0 DEF TypeOK
    <3> QED
      BY <3>1, <3>2, Numbers DEF Round
  <2>2. CASE c \in Threads \ {0}
    <3>1. left[c] \in Nat
      BY <1>0, <2>2 DEF TypeOK
    <3> QED
      BY <1>1, <2>1, <2>2, <3>1 DEF IInv, Rounds, Here
  <2> QED
    BY <2>2
<1>6. TypeOK'
  BY <1>0, <1>1, <1>3 DEF TypeOK
<1>7. Control'
  <2>1. \A u \in Threads : kids'[u] \subseteq kids[u] /\ (phase[u] # "gather" => kids'[u] = kids[u])
    BY <1>1, <1>3
  <2>2. UNCHANGED <<parent, pc, phase, running, finished, go>>
    BY <1>1
  <2> QED
    BY <2>1, <2>2 DEF IInv, Control, AtWork, Kids
<1>8. Rounds'
  BY <1>1, <1>4 DEF IInv, Rounds, Released
<1>9. Tree'
  <2>1. \A u \in Threads \ {0} : Here(u)' <=> Here(u)
    BY <1>1, <1>4 DEF Here
  <2>2. \A u \in Threads \ {0} :
          phase[parent[u]] = "gather" /\ u \notin kids'[parent[u]] => Here(u)
    BY <1>3, <1>5, Family DEF IInv, Tree
  <2>3. \A u \in Threads \ {0} : u \in kids'[parent[u]] => u \in kids[parent[u]]
    BY <1>3, Family
  <2>4. \A u \in Threads \ {0} : parent[u] \in Threads
    BY Family
  <2>5. UNCHANGED <<parent, pc, phase, go>>
    BY <1>1
  <2> QED
    BY <1>4, <2>1, <2>2, <2>3, <2>4, <2>5 DEF IInv, Tree, Released
<1>10. Teams'
  BY <1>1, <1>4 DEF IInv, Teams, Unfinished
<1>11. Quiet'
  BY <1>1, <1>4 DEF IInv, Quiet
<1>12. Counted'
  BY <1>1, CountedSame DEF IInv
<1> QED
  BY <1>6, <1>7, <1>8, <1>9, <1>10, <1>11, <1>12 DEF IInv

LEMMA ArriveStep ==
  ASSUME NAssumption, IInv, NEW t \in Threads, Arrive(t)
  PROVE  IInv'
<1> USE DEF teams, thread, tasks
<1>0. TypeOK
  BY DEF IInv
<1>1. /\ t # 0 /\ phase[t] = "gather" /\ kids[t] = {}
      /\ arrived' = Set(arrived, t, arrived[t] + 1)
      /\ phase' = Set(phase, t, "go")
      /\ finished' = Set(finished, t, FALSE)
      /\ UNCHANGED <<parent, teams, thread, go, kids, entered, left, tasks, look>>
  BY DEF Arrive
<1>2. PICK b \in BOOLEAN : \E w : GotoAndWake(t, "spin", "spin", w, b)
  BY DEF Arrive
<1>3. /\ pc' \in [Threads -> PCs]
      /\ \A u \in Threads : pc'[u] = pc[u] \/ (pc[u] = "asleep" /\ pc'[u] = "spin")
  <2>1. PICK w : GotoAndWake(t, "spin", "spin", w, b)
    BY <1>2
  <2>2. /\ pc[t] = "spin" /\ pc' \in [Threads -> PCs] /\ pc'[t] = "spin"
        /\ \A u \in Threads \ {t} : pc'[u] = pc[u] \/ (pc[u] = "asleep" /\ pc'[u] = "spin")
    <3>1. PICK at \in PCs : at = "spin"
      BY DEF PCs
    <3>2. GotoAndWake(t, at, at, w, b) /\ at # "asleep"
      BY <2>1, <3>1
    <3>3. /\ pc[t] = at /\ pc' \in [Threads -> PCs] /\ pc'[t] = at
          /\ \A u \in Threads \ {t} : pc'[u] = pc[u] \/ (pc[u] = "asleep" /\ pc'[u] = "spin")
      BY <1>0, <3>2, Waking
    <3> QED
      BY <3>1, <3>3
  <2> QED
    BY <2>2
<1>4. /\ arrived \in [Threads -> Nat] /\ finished \in [Threads -> BOOLEAN]
      /\ phase \in [Threads -> {"none", "gather", "tasks", "go"}]
  BY <1>0 DEF TypeOK
<1>5. ~Late(t) /\ ~finished[t]
  BY <1>1 DEF IInv, Control, Rounds
<1>6. /\ arrived' \in [Threads -> Nat]
      /\ phase' \in [Threads -> {"none", "gather", "tasks", "go"}]
      /\ \A u \in Threads :
           /\ arrived'[u] = IF u = t THEN arrived[t] + 1 ELSE arrived[u]
           /\ phase'[u] = IF u = t THEN "go" ELSE phase[u]
      /\ finished' = finished
  BY <1>1, <1>4, <1>5 DEF Set
<1>7. Cur' = Cur /\ Round' = Round /\ \A u \in Threads : Late(u)' <=> Late(u)
  BY <1>1, <1>3, CurSame, Numbers
<1>8. TypeOK'
  BY <1>0, <1>1, <1>3, <1>6 DEF TypeOK, PCs
<1>13. \A u \in Threads :
         /\ pc'[u] = "release" <=> pc[u] = "release"
         /\ pc'[u] = "run" <=> pc[u] = "run"
         /\ pc'[u] = "enable" <=> pc[u] = "enable"
         /\ pc'[u] = "work" <=> pc[u] = "work"
         /\ pc'[u] \in Looking <=> pc[u] \in Looking
         /\ pc'[u] \in {"steal", "exhausted"} <=> pc[u] \in {"steal", "exhausted"}
         /\ pc[u] \notin {"suspend", "asleep"} => pc'[u] \notin {"suspend", "asleep"}
  BY <1>3 DEF Looking
<1>9. Control'
  <2>1. /\ \A u \in Threads : u # t => phase'[u] = phase[u]
        /\ phase'[t] = "go" /\ phase[t] = "gather" /\ kids[t] = {} /\ t # 0
        /\ UNCHANGED <<parent, go, kids, running, finished>>
    BY <1>1, <1>6
  <2> QED
    BY <1>13, <2>1 DEF IInv, Control, AtWork, Kids
<1>10. Rounds'
  BY <1>1, <1>5, <1>6, <1>7, <1>13 DEF IInv, Rounds, Released
<1>11. Tree'
  BY <1>1, <1>5, <1>6, <1>7, <1>13, Family DEF IInv, Tree, Released, Here
<1>12. Teams'
  <2>1. Unfinished' = Unfinished
    BY <1>1, <1>6, <1>7 DEF Unfinished
  <2>2. phase'[0] = phase[0]
    BY <1>1, <1>6, Numbers
  <2>3. ~found_tasks[Cur] => \A u \in Threads :
          ~Late(u) => pc'[u] \notin Looking \cup {"run", "enable"}
    BY <1>13 DEF IInv, Teams
  <2>4. phase[0] = "tasks" => pc'[0] \notin {"suspend", "asleep"}
    BY <1>13, Numbers DEF IInv, Teams
  <2>5. UNCHANGED <<active, found_tasks, unfinished, deque, finished>>
    BY <1>1, <1>6
  <2>6. UNCHANGED <<Cur, Unfinished, phase[0]>> /\ 1 - Cur' = 1 - Cur
    BY <1>7, <2>1, <2>2
  <2>7. \/ active[1-Cur] /\ ~found_tasks[1-Cur] /\ unfinished[1-Cur] = N
        \/ ~active[1-Cur] /\ unfinished[1-Cur] = 0 /\ phase'[0] \notin {"gather", "tasks"}
    BY <2>6 DEF IInv, Teams
  <2>8. /\ active[Cur]
        /\ found_tasks[Cur] => unfinished[Cur] = Cardinality(Unfinished)
        /\ ~found_tasks[Cur] =>
             /\ unfinished[Cur] = N
             /\ \A u \in Threads :
                  /\ deque[Cur][u] = <<>>
                  /\ ~Late(u)' => ~finished[u] /\ pc'[u] \notin Looking \cup {"run", "enable"}
        /\ phase[0] = "tasks" => found_tasks[Cur]
    BY <1>7, <2>3 DEF IInv, Teams
  <2> QED
    BY <2>4, <2>5, <2>6, <2>7, <2>8 DEF Teams
<1>14. Quiet'
  <2>1. UNCHANGED <<deque, running, incomplete, finished, task_team, task_state>>
    BY <1>1, <1>6
  <2>2. 1 - Cur' = 1 - Cur
    BY <1>7
  <2> QED
    BY <1>7, <1>13, <2>1, <2>2 DEF IInv, Quiet
<1>15. Counted'
  BY <1>1, CountedSame DEF IInv
<1> QED
  BY <1>8, <1>9, <1>10, <1>11, <1>12, <1>14, <1>15 DEF IInv

LEMMA WaitGoStep ==
  ASSUME NAssumption, IInv, NEW t \in Threads, WaitGo(t)
  PROVE  IInv'
<1> USE DEF teams, thread, tasks
<1>0. TypeOK
  BY DEF IInv
<1>1. /\ pc[t] = "spin" /\ pc' \in [Threads -> PCs]
      /\ \A u \in Threads : pc'[u] = IF u = t THEN "release" ELSE pc[u]
  BY <1>0, Going DEF WaitGo, PCs
<1>2. /\ phase[t] = "go" /\ go[t]
      /\ UNCHANGED <<parent, teams, thread, arrived, phase, entered, left, tasks, finished, look>>
  BY DEF WaitGo
<1>3. go \in [Threads -> BOOLEAN] /\ kids \in [Threads -> SUBSET Threads]
  BY <1>0 DEF TypeOK
<1>4. Kids(t) \in SUBSET Threads
  BY Family
<1>5. /\ go' \in [Threads -> BOOLEAN] /\ kids' \in [Threads -> SUBSET Threads]
      /\ \A u \in Threads : /\ go'[u] = IF u = t THEN FALSE ELSE go[u]
                            /\ kids'[u] = IF u = t THEN Kids(t) ELSE kids[u]
  BY <1>3, <1>4 DEF WaitGo, Set
<1>6. t # 0 /\ Late(t)
  BY <1>1, <1>2 DEF IInv, Control, Rounds, Released
<1>7. Cur' = Cur /\ Round' = Round /\ \A u \in Threads : Late(u)' <=> Late(u)
  BY <1>1, <1>2, <1>6, CurSame, Numbers
<1>8. TypeOK'
  BY <1>0, <1>1, <1>2, <1>5 DEF TypeOK, PCs
<1>9. Control'
  <2>1. /\ \A u \in Threads : u # t => pc'[u] = pc[u] /\ go'[u] = go[u] /\ kids'[u] = kids[u]
        /\ pc'[t] = "release" /\ ~go'[t] /\ kids'[t] = Kids(t)
        /\ UNCHANGED <<parent, phase, running, finished>>
    BY <1>1, <1>2, <1>5
  <2> QED
    BY <1>1, <1>2, <2>1 DEF IInv, Control, AtWork, Kids
<1>10. Rounds'
  <2>1. \A u \in Threads : Released(u)' <=> Released(u)
    BY <1>1, <1>2, <1>5 DEF Released
  <2> QED
    BY <1>2, <1>7, <2>1 DEF IInv, Rounds
<1>11. Tree'
  <2>1. \A u \in Threads : /\ Released(u)' <=> Released(u)
                           /\ Here(u)' <=> Here(u)
    BY <1>1, <1>2, <1>5, <1>7 DEF Released, Here
  <2>2. \A u \in Threads : u # t => pc'[u] = pc[u] /\ kids'[u] = kids[u]
    BY <1>1, <1>5
  <2>3. \A u \in Threads \ {0} : parent[u] = t => Late(u) /\ ~Released(u)
    BY <1>1, <1>6 DEF IInv, Tree
  <2>4. pc'[t] = "release" /\ phase[t] = "go" /\ UNCHANGED <<parent, phase>>
    BY <1>1, <1>2
  <2> QED
    BY <1>6, <1>7, <2>1, <2>2, <2>3, <2>4, Family DEF IInv, Tree
<1>12. Teams'
  <2>1. Unfinished' = Unfinished
    BY <1>2, <1>7 DEF Unfinished
  <2>2. pc'[0] = pc[0]
    BY <1>1, <1>6, Numbers
  <2>3. ~found_tasks[Cur] => \A u \in Threads :
          ~Late(u) => pc'[u] \notin Looking \cup {"run", "enable"}
    BY <1>1 DEF IInv, Teams, Looking
  <2> QED
    BY <1>2, <1>7, <2>1, <2>2, <2>3 DEF IInv, Teams
<1>13. Quiet'
  BY <1>1, <1>2, <1>7 DEF IInv, Quiet, Looking
<1>14. Counted'
  BY <1>2, CountedSame DEF IInv
<1> QED
  BY <1>8, <1>9, <1>10, <1>11, <1>12, <1>13, <1>14 DEF IInv

LEMMA ChildIsKid ==
  ASSUME NAssumption, IInv, NEW t \in Threads, kids[t] # {}
  PROVE  Child(t) \in kids[t]
<1>1. kids[t] \in SUBSET Nat
  BY Family, Numbers
<1> QED
  BY <1>1, LeastNumber DEF Child, Min

LEMMA ReleaseStep ==
  ASSUME NAssumption, IInv, NEW t \in Threads, Release(t)
  PROVE  IInv'
<1> USE DEF teams, thread, tasks
<1> DEFINE c == Child(t)
<1>0. TypeOK
  BY DEF IInv
<1>1. /\ go' = Set(go, c, TRUE) /\ kids' = Set(kids, t, kids[t] \ {c})
      /\ UNCHANGED <<parent, teams, thread, arrived, phase, entered, left, tasks, finished, look>>
      /\ c \in kids[t]
  BY ChildIsKid DEF Release
<1>2. GotoAndWake(t, "release", "release", c, TRUE)
  BY DEF Release
<1> HIDE DEF c
<1>3. /\ pc' \in [Threads -> PCs] /\ pc[t] = "release"
      /\ \A u \in Threads : pc'[u] = pc[u] \/ (pc[u] = "asleep" /\ pc'[u] = "spin")
  <2>1. PICK at \in PCs, b \in BOOLEAN : at = "release" /\ b = TRUE
    BY DEF PCs
  <2>2. GotoAndWake(t, at, at, c, b) /\ at # "asleep"
    BY <1>2, <2>1
  <2>3. /\ pc[t] = at /\ pc' \in [Threads -> PCs] /\ pc'[t] = at
        /\ \A u \in Threads \ {t} : pc'[u] = pc[u] \/ (pc[u] = "asleep" /\ pc'[u] = "spin")
    BY <1>0, <2>2, Waking
  <2> QED
    BY <2>1, <2>3
<1>4. c \in Threads \ {0} /\ parent[c] = t /\ Late(c) /\ ~Released(c) /\ phase[c] = "go"
  <2>1. c \in Threads \ {0} /\ parent[c] = t
    BY <1>1, Family
  <2> QED
    BY <1>1, <1>3, <2>1 DEF IInv, Tree, Rounds
<1>5. go \in [Threads -> BOOLEAN] /\ kids \in [Threads -> SUBSET Threads]
  BY <1>0 DEF TypeOK
<1>6. /\ go' \in [Threads -> BOOLEAN] /\ kids' \in [Threads -> SUBSET Threads]
      /\ \A u \in Threads : /\ go'[u] = IF u = c THEN TRUE ELSE go[u]
                            /\ kids'[u] = IF u = t THEN kids[t] \ {c} ELSE kids[u]
  BY <1>1, <1>4, <1>5 DEF Set
<1>7. Cur' = Cur /\ Round' = Round /\ \A u \in Threads : Late(u)' <=> Late(u)
  BY <1>1, <1>3, CurSame, Numbers
<1>8. TypeOK'
  BY <1>0, <1>1, <1>3, <1>6 DEF TypeOK, PCs
<1>9. \A u \in Threads :
         /\ pc'[u] = "release" <=> pc[u] = "release"
         /\ pc'[u] = "run" <=> pc[u] = "run"
         /\ pc'[u] = "enable" <=> pc[u] = "enable"
         /\ pc'[u] = "work" <=> pc[u] = "work"
         /\ pc'[u] \in Looking <=> pc[u] \in Looking
         /\ pc'[u] \in {"steal", "exhausted"} <=> pc[u] \in {"steal", "exhausted"}
         /\ pc[u] \notin {"suspend", "asleep"} => pc'[u] \notin {"suspend", "asleep"}
  BY <1>3 DEF Looking
<1>10. \A u \in Threads : Released(u)' <=> u = c \/ Released(u)
  BY <1>6, <1>9 DEF Released
<1>11. Control'
  <2>1. \A u \in Threads : kids'[u] \subseteq kids[u]
                           /\ (pc[u] # "release" => kids'[u] = kids[u])
    BY <1>3, <1>6
  <2>2. UNCHANGED <<parent, phase, running, finished>>
    BY <1>1
  <2>3. \A u \in Threads : go'[u] => phase[u] = "go" /\ pc'[u] # "release"
    BY <1>4, <1>6, <1>9 DEF IInv, Control, Released
  <2> QED
    BY <1>9, <2>1, <2>2, <2>3 DEF IInv, Control, AtWork, Kids
<1>12. Rounds'
  BY <1>1, <1>4, <1>7, <1>10 DEF IInv, Rounds
<1>13. Tree'
  <2>1. \A u \in Threads \ {0} : /\ Here(u)' <=> Here(u)
                                 /\ parent[u] \in Threads
    BY <1>1, <1>7, Family DEF Here
  <2>2. \A u \in Threads : /\ kids'[u] \subseteq kids[u] /\ c \notin kids'[u]
                           /\ pc[u] # "release" => kids'[u] = kids[u]
    <3>1. \A u \in Threads : c \in kids[u] => u = t
      BY <1>4, Family
    <3> QED
      BY <1>3, <1>6, <3>1
  <2>3. UNCHANGED <<parent, phase>> /\ phase[t] = "go"
    BY <1>1, <1>3 DEF IInv, Control
  <2>4. \A u \in Threads : pc[u] = "release" => phase[u] = "go"
    BY DEF IInv, Control
  <2> QED
    BY <1>3, <1>4, <1>7, <1>9, <1>10, <2>1, <2>2, <2>3, <2>4 DEF IInv, Tree
<1>14. Teams'
  <2>1. Unfinished' = Unfinished
    BY <1>1, <1>7 DEF Unfinished
  <2>2. ~found_tasks[Cur] => \A u \in Threads :
          ~Late(u) => pc'[u] \notin Looking \cup {"run", "enable"}
    BY <1>9 DEF IInv, Teams
  <2>3. phase[0] = "tasks" => pc'[0] \notin {"suspend", "asleep"}
    BY <1>9, Numbers DEF IInv, Teams
  <2> QED
    BY <1>1, <1>7, <2>1, <2>2, <2>3 DEF IInv, Teams
<1>15. Quiet'
  BY <1>1, <1>7, <1>9 DEF IInv, Quiet
<1>16. Counted'
  BY <1>1, CountedSame DEF IInv
<1> QED
  BY <1>8, <1>11, <1>12, <1>13, <1>14, <1>15, <1>16 DEF IInv

LEMMA LeaveStep ==
  ASSUME NAssumption, IInv, NEW t \in Threads, Leave(t)
  PROVE  IInv'
<1> USE DEF teams, flags, tasks
<1>0. TypeOK
  BY DEF IInv
<1>1. /\ pc[t] = "release" /\ pc' \in [Threads -> PCs]
      /\ \A u \in Threads : pc'[u] = IF u = t THEN "work" ELSE pc[u]
  BY <1>0, Going DEF Leave, PCs
<1>2. /\ kids[t] = {}
      /\ UNCHANGED <<parent, teams, flags, kids, entered, tasks, look>>
  BY DEF Leave
<1>3. /\ left \in [Threads -> Nat] /\ phase \in [Threads -> {"none", "gather", "tasks", "go"}]
      /\ task_state \in [Threads -> 0..1] /\ task_team \in [Threads -> 0..NoTeam]
      /\ finished \in [Threads -> BOOLEAN]
  BY <1>0 DEF TypeOK
<1>4. /\ Late(t) /\ phase[t] = "go" /\ running[t] = None /\ ~go[t]
      /\ left[t] + 1 = Round /\ task_state[t] = 1 - Cur
  BY <1>1 DEF IInv, Control, Rounds, Released, Late
<1>5. /\ left' \in [Threads -> Nat] /\ phase' \in [Threads -> {"none", "gather", "tasks", "go"}]
      /\ task_state' \in [Threads -> 0..1] /\ task_team' \in [Threads -> 0..NoTeam]
      /\ finished' \in [Threads -> BOOLEAN]
      /\ \A u \in Threads :
           /\ left'[u] = IF u = t THEN Round ELSE left[u]
           /\ phase'[u] = IF u = t THEN "none" ELSE phase[u]
           /\ task_state'[u] = IF u = t THEN Cur ELSE task_state[u]
           /\ task_team'[u] = IF u = t THEN Cur ELSE task_team[u]
           /\ finished'[u] = IF u = t THEN FALSE ELSE finished[u]
  <2>1. /\ left' = [left EXCEPT ![t] = Round] /\ phase' = [phase EXCEPT ![t] = "none"]
        /\ task_state' = [task_state EXCEPT ![t] = Cur]
        /\ task_team' = [task_team EXCEPT ![t] = Cur]
        /\ finished' = [finished EXCEPT ![t] = FALSE]
    BY <1>0, <1>4, CurFacts DEF Leave, Set
  <2>2. Round \in Nat /\ Cur \in 0..1 /\ Cur \in 0..NoTeam
    BY <1>0, <1>3, <1>4, CurFacts DEF NoTeam
  <2> QED
    BY <1>3, <2>1, <2>2
<1>6. Cur' = Cur /\ Round' = Round
  <2>1. CASE t = 0
    BY <1>1, <1>4, <1>5, <2>1 DEF Cur, Round
  <2>2. CASE t # 0
    BY <1>1, <1>5, <2>2, Numbers DEF Cur, Round
  <2> QED
    BY <2>1, <2>2
<1>7. \A u \in Threads : Late(u)' <=> u # t /\ Late(u)
  BY <1>0, <1>5, <1>6, CurFacts DEF Late
<1>8. TypeOK'
  BY <1>0, <1>1, <1>2, <1>5 DEF TypeOK, PCs
<1>9. \A u \in Threads : u # t =>
        /\ pc'[u] = pc[u] /\ left'[u] = left[u] /\ phase'[u] = phase[u]
        /\ task_state'[u] = task_state[u] /\ task_team'[u] = task_team[u]
        /\ finished'[u] = finished[u]
  BY <1>1, <1>5
<1>10. /\ pc'[t] = "work" /\ left'[t] = Round /\ phase'[t] = "none"
       /\ task_state'[t] = Cur /\ task_team'[t] = Cur /\ ~finished'[t]
  BY <1>1, <1>5
<1>11. Control'
  BY <1>1, <1>2, <1>4, <1>9, <1>10 DEF IInv, Control, AtWork, Kids
<1>12. Rounds'
  BY <1>1, <1>2, <1>4, <1>6, <1>7, <1>9, <1>10 DEF IInv, Rounds, Released
<1>13. Tree'
  <2>1. \A u \in Threads \ {0} :
          /\ parent[u] \in Threads
          /\ Here(u) => Here(u)'
          /\ Late(u) /\ ~Released(u) => Late(u)' /\ ~Released(u)'
    BY <1>1, <1>2, <1>4, <1>7, <1>9, Family DEF Here, Released
  <2> QED
    BY <1>2, <1>7, <1>9, <1>10, <2>1 DEF IInv, Tree
<1>14. Teams'
  <2>1. Unfinished' = Unfinished
    BY <1>0, <1>4, <1>6, <1>9, <1>10, CurFacts DEF Unfinished
  <2>2. ~found_tasks[Cur] => \A u \in Threads :
          ~Late(u)' => ~finished'[u] /\ pc'[u] \notin Looking \cup {"run", "enable"}
    BY <1>7, <1>9, <1>10 DEF IInv, Teams, Looking
  <2>3. phase'[0] \in {"gather", "tasks"} => t # 0 /\ phase'[0] = phase[0] /\ pc'[0] = pc[0]
    BY <1>9, <1>10, Numbers
  <2> QED
    BY <1>2, <1>6, <2>1, <2>2, <2>3 DEF IInv, Teams
<1>15. Quiet'
  BY <1>2, <1>4, <1>6, <1>7, <1>9, <1>10 DEF IInv, Quiet, Looking
<1>16. Counted'
  BY <1>2, CountedSame DEF IInv
<1> QED
  BY <1>8, <1>11, <1>12, <1>13, <1>14, <1>15, <1>16 DEF IInv

(* When the master is past the gather everybody is there.                   *)
LEMMA AllHere ==
  ASSUME NAssumption, IInv, ~Late(0),
         (phase[0] = "gather" /\ kids[0] = {}) \/ phase[0] = "tasks"
  PROVE  \A t \in Threads \ {0} : Here(t)
<1>1. SUFFICES ASSUME NEW u \in Threads \ {0}, ~Here(u)
               PROVE  FALSE
  OBVIOUS
<1> DEFINE S == {t \in Threads \ {0} : ~Here(t)}
<1>2. PICK t \in S : \A v \in S : t <= v
  <2>1. S \in SUBSET Nat /\ u \in S
    BY <1>1, Numbers
  <2> HIDE DEF S
  <2> QED
    BY <2>1, LeastNumber
<1>3. /\ t \in Threads \ {0} /\ ~Here(t)
      /\ parent[t] \in Threads /\ parent[t] < t
  BY <1>2, Family DEF IInv, Tree
<1>4. CASE parent[t] = 0
  BY <1>3, <1>4 DEF IInv, Tree
<1>5. CASE parent[t] # 0
  <2>1. Here(parent[t])
    <3>1. ~(t <= parent[t])
      BY <1>3, Numbers
    <3> QED
      BY <1>2, <1>3, <1>5, <3>1
  <2> QED
    BY <1>3, <2>1 DEF IInv, Tree, Here
<1> QED
  BY <1>4, <1>5

(* The master begins to release: a gather is complete, all threads are late *)
(* and the task teams change places.                                        *)
LEMMA Releasing ==
  ASSUME NAssumption, IInv, pc[0] = "spin",
         (phase[0] = "gather" /\ kids[0] = {}) \/ phase[0] = "tasks",
         Goto(0, "spin", "release"), phase' = Set(phase, 0, "go"),
         kids' = Set(kids, 0, Kids(0)),
         UNCHANGED <<parent, task_state, flags, entered, left, running, finished>>
  PROVE  /\ pc' \in [Threads -> PCs]
         /\ \A u \in Threads : pc'[u] = IF u = 0 THEN "release" ELSE pc[u]
         /\ kids' \in [Threads -> SUBSET Threads]
         /\ phase' \in [Threads -> {"none", "gather", "tasks", "go"}]
         /\ phase'[0] = "go"
         /\ Cur' = 1 - Cur /\ 1 - Cur' = Cur
         /\ \A u \in Threads : Late(u)' /\ ~Late(u) /\ task_state[u] = Cur
         /\ Control' /\ Rounds' /\ Tree'
<1> USE DEF flags
<1>0. TypeOK /\ 0 \in Threads
  BY Numbers DEF IInv
<1>1. pc' \in [Threads -> PCs] /\ \A u \in Threads : pc'[u] = IF u = 0 THEN "release" ELSE pc[u]
  BY <1>0, Going DEF PCs
<1>2. kids \in [Threads -> SUBSET Threads] /\ phase \in [Threads -> {"none", "gather", "tasks", "go"}]
  BY <1>0 DEF TypeOK
<1>3. /\ kids' \in [Threads -> SUBSET Threads]
      /\ phase' \in [Threads -> {"none", "gather", "tasks", "go"}]
      /\ \A u \in Threads : /\ kids'[u] = IF u = 0 THEN Kids(0) ELSE kids[u]
                            /\ phase'[u] = IF u = 0 THEN "go" ELSE phase[u]
  <2>1. Kids(0) \in SUBSET Threads
    BY <1>0, Family
  <2> QED
    BY <1>0, <1>2, <2>1 DEF Set
<1>4. ~Late(0) /\ (\A u \in Threads \ {0} : Here(u))
  <2>1. ~Late(0)
    BY <1>0 DEF IInv, Rounds
  <2> QED
    BY <2>1, AllHere
<1>5. \A u \in Threads : /\ ~Late(u) /\ task_state[u] = Cur
                         /\ left[u] = Round /\ ~Released(u)
                         /\ u # 0 => phase[u] = "go"
  <2>1. \A u \in Threads : ~Late(u) /\ (u # 0 => phase[u] = "go")
    BY <1>4 DEF Here
  <2> QED
    BY <1>0, <2>1, CurFacts DEF IInv, Rounds
<1>6. Cur' = 1 - Cur /\ 1 - Cur' = Cur /\ Round' = Round + 1
  <2>1. task_state[0] \in 0..1 /\ Cur = task_state[0] /\ Round = left[0]
    BY <1>0, CurFacts DEF Cur, Round
  <2>2. Cur' = 1 - task_state[0] /\ Round' = left[0] + 1
    BY <1>0, <1>1 DEF Cur, Round
  <2> QED
    BY <2>1, <2>2
<1>7. \A u \in Threads : Late(u)'
  BY <1>5, <1>6 DEF Late
<1>8. \A u \in Threads : u # 0 => /\ ~Released(u)' /\ phase'[u] = "go"
                                 /\ pc'[u] = pc[u] /\ kids'[u] = kids[u]
  BY <1>1, <1>3, <1>5 DEF Released
<1>9. phase'[0] = "go" /\ pc'[0] = "release" /\ kids'[0] = Kids(0)
  BY <1>0, <1>1, <1>3
<1>10. Control'
  <2>1. ~go[0]
    BY <1>0, <1>5 DEF Released
  <2>2. \A u \in Threads : phase'[u] = "go" /\ phase[u] # "none"
    BY <1>0, <1>5, <1>8, <1>9
  <2> QED
    BY <1>5, <1>8, <1>9, <2>1, <2>2 DEF IInv, Control, AtWork, Kids
<1>11. Rounds'
  <2>1. \A u \in Threads : entered[u] = left[u] + 1
    BY <1>0, <1>5 DEF IInv, Rounds
  <2>2. \A u \in Threads \ {0} : arrived[u] = left[u] + 1
    BY <1>5 DEF IInv, Rounds
  <2>3. \A u \in Threads : phase'[u] = "go"
    BY <1>8, <1>9
  <2> QED
    BY <1>5, <1>6, <1>7, <2>1, <2>2, <2>3 DEF Rounds
<1>12. Tree'
  <2>1. \A u \in Threads \ {0} : parent[u] < u
    BY DEF IInv, Tree
  <2>2. \A u \in Threads : Late(u)' /\ phase'[u] = "go"
    BY <1>7, <1>8, <1>9
  <2> QED
    BY <1>8, <2>1, <2>2, Family DEF Tree
<1> QED
  BY <1>1, <1>3, <1>5, <1>6, <1>7, <1>9, <1>10, <1>11, <1>12

LEMMA TeamWaitStep ==
  ASSUME NAssumption, IInv, TeamWait
  PROVE  IInv'
<1> USE DEF teams, thread, flags, tasks
<1>0. TypeOK /\ 0 \in Threads
  BY Numbers DEF IInv
<1>1. phase[0] = "gather" /\ kids[0] = {} /\ pc[0] = "spin"
  BY DEF TeamWait, Goto
<1>2. /\ ~Late(0) /\ ~finished[0] /\ task_team[0] = Cur /\ Cur \in 0..1
      /\ Cur # NoTeam
  BY <1>0, <1>1, CurFacts DEF IInv, Control, Rounds, Quiet
<1>3. UNCHANGED <<parent, teams, thread, flags, entered, left, tasks, look, finished>>
  <2>1. finished' = finished
    BY <1>0, <1>2 DEF TeamWait, Set, TypeOK
  <2> QED
    BY <2>1 DEF TeamWait
<1>4. /\ phase \in [Threads -> {"none", "gather", "tasks", "go"}]
      /\ Counted' /\ Unfinished \subseteq Threads
  BY <1>0, <1>3, CountedSame DEF IInv, TypeOK, Unfinished
<1>5. CASE found_tasks[Cur]
  <2>1. Goto(0, "spin", "spin") /\ phase' = Set(phase, 0, "tasks") /\ UNCHANGED kids
    BY <1>2, <1>5 DEF TeamWait
  <2>2. /\ pc' \in [Threads -> PCs] /\ \A u \in Threads : pc'[u] = pc[u]
    BY <1>0, <1>1, <2>1, Going DEF PCs
  <2>3. /\ phase' \in [Threads -> {"none", "gather", "tasks", "go"}]
        /\ \A u \in Threads : phase'[u] = IF u = 0 THEN "tasks" ELSE phase[u]
    BY <1>0, <1>4, <2>1 DEF Set
  <2>4. Cur' = Cur /\ Round' = Round /\ \A u \in Threads : Late(u)' <=> Late(u)
    BY <1>0, <1>3, <2>2, CurSame
  <2>5. TypeOK'
    BY <1>0, <1>3, <2>1, <2>2, <2>3 DEF TypeOK, PCs
  <2>6. Control'
    <3>1. /\ \A u \in Threads : u # 0 => phase'[u] = phase[u]
          /\ phase'[0] = "tasks"
      BY <1>0, <2>3
    <3> QED
      BY <1>1, <1>3, <2>1, <2>2, <3>1 DEF IInv, Control, AtWork, Kids
  <2>7. Rounds'
    BY <1>1, <1>3, <2>2, <2>3, <2>4 DEF IInv, Rounds, Released
  <2>8. Tree'
    <3>1. \A u \in Threads \ {0} :
            /\ parent[u] \in Threads
            /\ Here(u)' <=> Here(u)
            /\ Released(u)' <=> Released(u)
      BY <1>3, <2>2, <2>3, <2>4, Family DEF Here, Released
    <3>2. \A u \in Threads \ {0} : parent[u] = 0 => Here(u)
      BY <1>1 DEF IInv, Tree
    <3> QED
      BY <1>3, <2>1, <2>2, <2>3, <2>4, <3>1, <3>2 DEF IInv, Tree
  <2>9. Teams'
    <3>1. Unfinished' = Unfinished
      BY <1>3, <2>4 DEF Unfinished
    <3>2. phase'[0] = "tasks" /\ pc'[0] = "spin"
      BY <1>0, <1>1, <2>2, <2>3
    <3>3. active[1-Cur] /\ ~found_tasks[1-Cur] /\ unfinished[1-Cur] = N
      BY <1>1 DEF IInv, Teams
    <3> QED
      BY <1>3, <1>5, <2>4, <3>1, <3>2, <3>3 DEF IInv, Teams
  <2>10. Quiet'
    BY <1>3, <2>2, <2>4 DEF IInv, Quiet, Looking
  <2> QED
    BY <1>4, <2>5, <2>6, <2>7, <2>8, <2>9, <2>10 DEF IInv
<1>6. CASE ~found_tasks[Cur]
  <2>1. /\ Goto(0, "spin", "release") /\ phase' = Set(phase, 0, "go")
        /\ kids' = Set(kids, 0, Kids(0))
    BY <1>2, <1>6 DEF TeamWait
  <2>2. /\ pc' \in [Threads -> PCs]
        /\ \A u \in Threads : pc'[u] = IF u = 0 THEN "release" ELSE pc[u]
        /\ kids' \in [Threads -> SUBSET Threads]
        /\ phase' \in [Threads -> {"none", "gather", "tasks", "go"}]
        /\ phase'[0] = "go"
        /\ Cur' = 1 - Cur /\ 1 - Cur' = Cur
        /\ \A u \in Threads : Late(u)' /\ ~Late(u) /\ task_state[u] = Cur
        /\ Control' /\ Rounds' /\ Tree'
    BY <1>1, <1>3, <2>1, Releasing
  <2>3. TypeOK'
    BY <1>0, <1>3, <2>2 DEF TypeOK, PCs
  <2>4. \A u \in Threads :
          /\ deque[Cur][u] = <<>> /\ deque[1-Cur][u] = <<>>
          /\ ~finished[u] /\ pc[u] \notin Looking \cup {"run", "enable"}
    BY <1>6, <2>2 DEF IInv, Teams, Quiet
  <2>5. \A u \in Threads : running[u] = None
    BY <2>4 DEF IInv, Control
  <2>6. \A u \in Threads : incomplete[u] = 0
    <3>1. ASSUME NEW u \in Threads PROVE Queued(u) = {} /\ Runners(u) = {}
      <4>1. \A a \in 0..1, b \in Threads : deque[a][b] = <<>>
        BY <1>0, <2>4, CurFacts
      <4> QED
        BY <2>5, <4>1, Numbers DEF Queued, Runners
    <3> QED
      BY <3>1, FS_EmptySet DEF IInv, Counted
  <2>7. Teams'
    <3>1. active[1-Cur] /\ ~found_tasks[1-Cur] /\ unfinished[1-Cur] = N
      BY <1>1 DEF IInv, Teams
    <3>2. active[Cur] /\ unfinished[Cur] = N
      BY <1>6 DEF IInv, Teams
    <3> QED
      BY <1>3, <1>6, <2>2, <2>4, <3>1, <3>2 DEF Teams
  <2>8. Quiet'
    <3>1. \A u \in Threads : pc'[u] \notin Looking /\ task_team[u] = task_state[u]
      BY <2>2, <2>4 DEF IInv, Quiet, Looking
    <3> QED
      BY <1>3, <2>2, <2>4, <2>5, <2>6, <3>1 DEF Quiet, Looking
  <2> QED
    BY <1>4, <2>2, <2>3, <2>7, <2>8 DEF IInv
<1> QED
  BY <1>5, <1>6

LEMMA DeactivateStep ==
  ASSUME NAssumption, IInv, Deactivate
  PROVE  IInv'
<1> USE DEF flags, tasks
<1>0. TypeOK /\ 0 \in Threads
  BY Numbers DEF IInv
<1>1. phase[0] = "tasks" /\ pc[0] = "spin"
  BY DEF Deactivate, Goto
<1>2. /\ ~Late(0) /\ task_team[0] = Cur /\ Cur \in 0..1 /\ found_tasks[Cur]
      /\ unfinished[Cur] = 0
  BY <1>0, <1>1, CurFacts DEF IInv, Rounds, Quiet, Teams, Deactivate, Done
<1>3. UNCHANGED <<parent, found_tasks, unfinished, task_state, flags, entered, left, tasks, finished, look>>
  BY DEF Deactivate
<1>4. /\ pc' \in [Threads -> PCs]
      /\ \A u \in Threads : pc'[u] = IF u = 0 THEN "release" ELSE pc[u]
      /\ kids' \in [Threads -> SUBSET Threads]
      /\ phase' \in [Threads -> {"none", "gather", "tasks", "go"}]
      /\ phase'[0] = "go"
      /\ Cur' = 1 - Cur /\ 1 - Cur' = Cur
      /\ \A u \in Threads : Late(u)' /\ ~Late(u) /\ task_state[u] = Cur
      /\ Control' /\ Rounds' /\ Tree'
  <2>1. /\ Goto(0, "spin", "release") /\ phase' = Set(phase, 0, "go")
        /\ kids' = Set(kids, 0, Kids(0))
    BY DEF Deactivate
  <2> QED
    BY <1>1, <1>3, <2>1, Releasing
<1>5. /\ active' \in [0..1 -> BOOLEAN] /\ ~active'[Cur] /\ active'[1-Cur] = active[1-Cur]
      /\ task_team' \in [Threads -> 0..NoTeam]
      /\ \A u \in Threads : task_team'[u] = IF u = 0 THEN NoTeam ELSE task_team[u]
  <2>1. active \in [0..1 -> BOOLEAN] /\ task_team \in [Threads -> 0..NoTeam]
    BY <1>0 DEF TypeOK
  <2>2. active' = [active EXCEPT ![Cur] = FALSE] /\ task_team' = [task_team EXCEPT ![0] = NoTeam]
    BY <1>2 DEF Deactivate, Set
  <2> QED
    BY <1>0, <2>1, <2>2, CurFacts DEF NoTeam
<1>6. TypeOK'
  BY <1>0, <1>3, <1>4, <1>5 DEF TypeOK, PCs
<1>7. \A u \in Threads : finished[u]
  <2>1. Unfinished = {}
    BY <1>2, UnfinishedFacts, FS_EmptySet DEF IInv, Teams
  <2> QED
    BY <2>1 DEF Unfinished
<1>8. \A u \in Threads :
        /\ deque[Cur][u] = <<>> /\ deque[1-Cur][u] = <<>>
        /\ running[u] = None /\ incomplete[u] = 0
        /\ task_team[u] = task_state[u]
  BY <1>4, <1>7 DEF IInv, Quiet
<1>9. Teams'
  <2>1. active[1-Cur] /\ ~found_tasks[1-Cur] /\ unfinished[1-Cur] = N
    BY <1>1 DEF IInv, Teams
  <2> QED
    BY <1>2, <1>3, <1>4, <1>5, <1>8, <2>1 DEF Teams
<1>10. Quiet'
  <2>1. \A u \in Threads : /\ pc'[u] \in Looking => task_team'[u] = task_state[u]
                           /\ task_team'[u] \in {task_state[u], NoTeam}
    BY <1>4, <1>5, <1>8 DEF Looking
  <2> QED
    BY <1>3, <1>4, <1>7, <1>8, <2>1 DEF Quiet
<1>11. Counted'
  BY <1>3, CountedSame DEF IInv
<1> QED
  BY <1>4, <1>6, <1>9, <1>10, <1>11 DEF IInv

-----------------------------------------------------------------------------
(* The theorems.                                                            *)

LEMMA InitHolds ==
  ASSUME NAssumption, Init
  PROVE  IInv
<1>1. /\ 0 \in Threads /\ Cur = 0 /\ Round = 0 /\ 1 - Cur = 1
      /\ \A t \in Threads : ~Late(t) /\ ~Here(t) /\ ~Released(t)
  BY Numbers DEF Init, Cur, Round, Late, Here, Released
<1>2. TypeOK
  <2>1. /\ N \in 0..N /\ None \in 0..None /\ <<>> \in Seq(0..N) /\ 0 \in 0..NoTeam
    BY Numbers DEF NoTeam
  <2> QED
    BY <2>1 DEF Init, TypeOK
<1>3. Control
  BY DEF Init, Control, AtWork, Kids
<1>4. Rounds
  BY <1>1 DEF Init, Rounds
<1>5. Tree
  <2>1. /\ Threads \ {0} = 1..N-1
        /\ parent \in [Threads -> Threads] /\ \A t \in 1..N-1 : parent[t] < t
    BY DEF Init, NAssumption, Threads
  <2>2. \A t \in Threads : phase[t] = "none" /\ pc[t] = "work"
    BY DEF Init
  <2> QED
    BY <1>1, <2>1, <2>2 DEF Tree
<1>6. Teams
  BY <1>1 DEF Init, Teams, Looking
<1>7. Quiet
  BY <1>1 DEF Init, Quiet, Looking
<1>8. Counted
  <2>1. ASSUME NEW t \in Threads PROVE Queued(t) = {} /\ Runners(t) = {}
    BY Numbers DEF Init, Queued, Runners
  <2>2. \A t \in Threads : incomplete[t] = 0
    BY DEF Init
  <2>3. IsFiniteSet({}) /\ Cardinality({}) = 0
    BY FS_EmptySet
  <2> QED
    BY <2>1, <2>2, <2>3 DEF Counted
<1> QED
  BY <1>2, <1>3, <1>4, <1>5, <1>6, <1>7, <1>8 DEF IInv

LEMMA StepHolds ==
  ASSUME NAssumption, IInv, [Next]_vars
  PROVE  IInv'
<1>1. CASE UNCHANGED vars
  <2> USE <1>1 DEF vars, teams, thread, flags, barrier, tasks
  <2>1. Cur' = Cur /\ Round' = Round /\ \A u \in Threads : Late(u)' <=> Late(u)
    BY CurSame
  <2>2. TypeOK' /\ Control'
    <3>1. TypeOK'
      BY DEF IInv, TypeOK
    <3>2. Control'
      BY DEF IInv, Control, AtWork, Kids
    <3> QED
      BY <3>1, <3>2
  <2>3. Rounds'
    BY <2>1 DEF IInv, Rounds, Released
  <2>4. Tree'
    BY <2>1, Family DEF IInv, Tree, Released, Here
  <2>5. Teams' /\ Quiet'
    <3>1. Unfinished' = Unfinished /\ 1 - Cur' = 1 - Cur
      BY <2>1 DEF Unfinished
    <3>2. Teams'
      BY <2>1, <3>1 DEF IInv, Teams
    <3>3. UNCHANGED <<deque, running, incomplete, finished, task_team, task_state, pc>>
      OBVIOUS
    <3>4. Quiet'
      <4> HIDE <1>1 DEF vars, teams, thread, flags, barrier, tasks
      <4> QED
        BY <2>1, <3>1, <3>3 DEF IInv, Quiet
    <3> QED
      BY <3>2, <3>4
  <2>6. Counted'
    BY CountedSame DEF IInv
  <2> QED
    BY <2>2, <2>3, <2>4, <2>5, <2>6 DEF IInv
<1>2. CASE Next
  <2>1. PICK t \in Threads :
          \/ Create(t) \/ Tasking(t) \/ Enter(t) \/ Waiting(t) \/ Suspend(t)
          \/ \E v \in Threads : WakeVictim(t, v)
    BY <1>2 DEF Next
  <2>2. CASE Create(t) \/ Enter(t) \/ Suspend(t) \/ \E v \in Threads : WakeVictim(t, v)
    BY <2>2, CreateStep, EnterStep, WaitStep, WakeStep
  <2>3. CASE Tasking(t)
    BY <2>3, WakeStep, EnabledStep, RemoveOwnStep, WaitStep, StealStep, CompleteStep,
       ExhaustedStep DEF Tasking
  <2>4. CASE Waiting(t)
    BY <2>4, SpinStep, WaitStep, GatherStep, ArriveStep, WaitGoStep, ReleaseStep, LeaveStep,
       TeamWaitStep, DeactivateStep DEF Waiting
  <2> QED
    BY <2>1, <2>2, <2>3, <2>4
<1> QED
  BY <1>1, <1>2

LEMMA Always == Spec => []IInv
<1>1. Init => IInv
  BY NAssumption, InitHolds
<1>2. IInv /\ [Next]_vars => IInv'
  BY NAssumption, StepHolds
<1> QED
  BY <1>1, <1>2, PTL DEF Spec

(***************************************************************************)
(* Variables have their types; in particular no parent's count of children  *)
(* goes below 0, nor does the counter, which never exceeds the team either. *)
(***************************************************************************)
THEOREM TypeCorrect == Spec => []TypeOK
<1>1. IInv => TypeOK
  BY DEF IInv
<1> QED
  BY <1>1, Always, PTL

(***************************************************************************)
(* tt_unfinished_threads counts the threads that have not finished in the   *)
(* barrier at hand, although the task team is used again while threads may  *)
(* still be in the barrier in which it was used before.                     *)
(***************************************************************************)
THEOREM CounterStaysExact == Spec => []CounterIsExact
<1>1. IInv => CounterIsExact
  <2>1. SUFFICES ASSUME IInv PROVE CounterIsExact
    OBVIOUS
  <2>2. Cur \in 0..1 /\ \A s \in 0..1 : s = Cur \/ s = 1 - Cur
    BY <2>1, NAssumption, CurFacts DEF IInv
  <2>3. active[Cur] /\ found_tasks[Cur] =>
          unfinished[Cur] = Cardinality({t \in Threads : ~(finished[t] /\ task_state[t] = Cur)})
    BY <2>1 DEF IInv, Teams, Unfinished
  <2>4. ~(active[1-Cur] /\ found_tasks[1-Cur])
    BY <2>1 DEF IInv, Teams
  <2>5. phase[0] = "tasks" => pc[0] \notin {"suspend", "asleep"}
    BY <2>1 DEF IInv, Teams
  <2> QED
    BY <2>2, <2>3, <2>4, <2>5 DEF CounterIsExact
<1> QED
  BY <1>1, Always, PTL

(***************************************************************************)
(* When the counter of a task team is 0, none of its tasks is queued and    *)
(* none is run: the master that sees it may go on.                          *)
(***************************************************************************)
THEOREM TerminationIsReal == Spec => []NoTaskIsLeft
<1>1. IInv => NoTaskIsLeft
  <2>1. SUFFICES ASSUME IInv, NEW s \in 0..1, unfinished[s] = 0, NEW t \in Threads
                 PROVE  deque[s][t] = <<>> /\ (task_team[t] = s => running[t] = None)
    BY DEF NoTaskIsLeft
  <2>2. /\ Cur \in 0..1 /\ 1 - Cur # Cur /\ (s = Cur \/ s = 1 - Cur)
        /\ \A u \in Threads : Late(u) <=> task_state[u] # Cur
        /\ \A u \in Threads : task_state[u] \in 0..1
        /\ NoTeam \notin 0..1
    BY <2>1, NAssumption, CurFacts DEF IInv
  <2>3. CASE s = Cur
    <3>1. found_tasks[Cur]
      BY <2>1, <2>3, NAssumption DEF IInv, Teams, NAssumption
    <3>2. Unfinished = {}
      BY <2>1, <2>3, <3>1, NAssumption, UnfinishedFacts, FS_EmptySet DEF IInv, Teams
    <3>3. finished[t]
      BY <3>2 DEF Unfinished
    <3> QED
      BY <2>1, <2>3, <3>3 DEF IInv, Quiet
  <2>4. CASE s = 1 - Cur
    <3>1. deque[s][t] = <<>>
      BY <2>1, <2>4 DEF IInv, Quiet
    <3>2. task_team[t] = s => Late(t)
      BY <2>1, <2>2, <2>4 DEF IInv, Quiet
    <3> QED
      BY <2>1, <3>1, <3>2 DEF IInv, Quiet
  <2> QED
    BY <2>2, <2>3, <2>4
<1> QED
  BY <1>1, Always, PTL

(***************************************************************************)
(* A barrier is released, and left, with its tasks done: none is queued in  *)
(* its task team, none is run by a thread that is still in it, and no       *)
(* implicit task of such a thread has children.                             *)
(***************************************************************************)
THEOREM TasksAreDoneFirst == Spec => []TasksAreDone
<1>1. IInv => TasksAreDone
  <2>1. SUFFICES ASSUME IInv, NEW t \in Threads, go[t] \/ pc[t] = "release", NEW u \in Threads
                 PROVE  /\ deque[task_state[t]][u] = <<>>
                        /\ task_state[u] = task_state[t] => running[u] = None /\ incomplete[u] = 0
    BY DEF TasksAreDone
  <2>2. Late(t)
    BY <2>1 DEF IInv, Rounds, Released
  <2> QED
    BY <2>1, <2>2 DEF IInv, Quiet, Late
<1> QED
  BY <1>1, Always, PTL
=============================================================================
