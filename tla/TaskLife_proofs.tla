-------------------------- MODULE TaskLife_proofs --------------------------
(***************************************************************************)
(* The life of tasks, for every program and any number of threads and       *)
(* tasks: the types, the task scheduling constraint, that the memory of a   *)
(* task goes back last, and that waits end only when there is nothing left  *)
(* to wait for.                                                             *)
(*                                                                          *)
(* The ancestors of a task and the groups above it are recursive functions  *)
(* of the model; the first lemmas show that such a function exists, what it *)
(* is, and that it stays the same for the tasks there are when new ones are *)
(* made.                                                                    *)
(*                                                                          *)
(* The first invariant (CInv) says what a stack of frames is: at its bottom *)
(* the implicit task, only there a barrier, a new task directly above its   *)
(* parent; and that a tied task that works descends from every suspended    *)
(* one below it, where no untied or proxy task lies between.                *)
(*                                                                          *)
(* The second (LInv) accounts for the counters of the tasks.  A task is     *)
(* used in as many places, frames and slots of deques, as its status and    *)
(* kind say (UsesCounted); allocated is the task itself, its children that  *)
(* have not been freed and the threads about to free it (MemoryCounted);    *)
(* incomplete is the children to wait for (ChildrenCounted); the count of a *)
(* group is the tasks created in it that still count (MembersCounted), and  *)
(* the group of a task that has not run is open, held by a frame of the     *)
(* task that opened it (GroupsOpen, GroupsHeld).                            *)
(*                                                                          *)
(* Lemmas are named for the action they are about: SubmitKeeps, that it     *)
(* preserves CInv, SubmitLife, that it preserves LInv, and SubmitTyped, its *)
(* types.                                                                   *)
(***************************************************************************)
EXTENDS TaskLife, FiniteSetTheorems, WellFoundedInduction, TLAPS

(* A tree of tasks and, of every task in it, the tasks above it.            *)
IsTree(p) ==
  /\ p \in [Tasks -> Tasks \cup {Null}]
  /\ \A t \in Tasks : p[t] # Null => p[t] < t

IsLineage(p, A) ==
  A = [t \in Tasks |-> IF p[t] = Null THEN {} ELSE {p[t]} \cup A[p[t]]]

LEMMA TasksAreNumbers == Tasks \subseteq Nat /\ Null \notin Tasks
  BY ThreadsAssumption, BoundsAssumption DEF Tasks, Null

LEMMA LeastNumber ==
  ASSUME NEW S \in SUBSET Nat, S # {}
  PROVE  \E x \in S : \A y \in S : x <= y
<1> DEFINE Less == {p \in Nat \X Nat : p[1] < p[2]}
<1>1. IsWellFoundedOn(Less, Nat)
  BY NatLessThanWellFounded DEF OpToRel
<1> HIDE DEF Less
<1>2. PICK x \in S : \A y \in S : ~(<<y, x>> \in Less)
  BY <1>1, WFMin
<1>3. \A y \in S : ~(y < x)
  BY <1>2 DEF Less
<1> QED
  BY <1>3

LEMMA LeastTask ==
  ASSUME NEW S \in SUBSET Tasks, S # {}
  PROVE  \E x \in S : \A y \in S : ~(y < x)
<1>1. PICK x \in S : \A y \in S : x <= y
  BY LeastNumber, TasksAreNumbers
<1>2. \A y \in S : x \in Nat /\ y \in Nat /\ x <= y
  BY <1>1, TasksAreNumbers
<1>3. \A y \in S : ~(y < x)
  BY <1>2
<1> QED
  BY <1>3

(* There is one: the least sets that are closed under the parent.           *)
LEMMA LineageExists ==
  ASSUME NEW p \in [Tasks -> Tasks \cup {Null}]
  PROVE  \E A : IsLineage(p, A)
<1> DEFINE Up(C) == \A c \in C : p[c] # Null => p[c] \in C
           A == [t \in Tasks |->
                  {a \in Tasks : p[t] # Null /\ \A C \in SUBSET Tasks : p[t] \in C /\ Up(C) => a \in C}]
<1>1. ASSUME NEW t \in Tasks
      PROVE  A[t] = IF p[t] = Null THEN {} ELSE {p[t]} \cup A[p[t]]
  <2>1. CASE p[t] = Null
    BY <2>1
  <2>2. CASE p[t] # Null
    <3>1. p[t] \in Tasks
      BY <2>2
    <3>2. ASSUME NEW a \in A[p[t]] PROVE a \in A[t]
      BY <2>2, <3>1, <3>2
    <3>3. p[t] \in A[t]
      BY <2>2, <3>1
    <3>4. ASSUME NEW a \in A[t] PROVE a \in {p[t]} \cup A[p[t]]
      <4> DEFINE D == {p[t]} \cup A[p[t]]
      <4>1. D \in SUBSET Tasks /\ p[t] \in D
        BY <3>1
      <4>2. ASSUME NEW c \in D, p[c] # Null PROVE p[c] \in D
        <5>1. c \in Tasks /\ p[c] \in Tasks
          BY <4>1, <4>2
        <5>2. CASE c = p[t]
          BY <3>1, <4>2, <5>1, <5>2
        <5>3. CASE c # p[t]
          BY <3>1, <4>2, <5>1, <5>3
        <5> QED
          BY <5>2, <5>3
      <4> QED
        BY <2>2, <3>1, <4>1, <4>2
    <3> QED
      BY <2>2, <3>2, <3>3, <3>4
  <2> QED
    BY <2>1, <2>2
<1>2. A = [t \in Tasks |-> IF p[t] = Null THEN {} ELSE {p[t]} \cup A[p[t]]]
  <2>1. PICK B : B = A
    OBVIOUS
  <2>2. /\ B = [t \in Tasks |-> B[t]]
        /\ \A t \in Tasks : B[t] = IF p[t] = Null THEN {} ELSE {p[t]} \cup B[p[t]]
    BY <1>1, <2>1
  <2> HIDE DEF A
  <2> QED
    BY <2>1, <2>2
<1> QED
  BY <1>2 DEF IsLineage

LEMMA AncestorsAreLineage ==
  ASSUME NEW p \in [Tasks -> Tasks \cup {Null}],
         NEW A, A = CHOOSE B : B = [t \in Tasks |-> IF p[t] = Null THEN {} ELSE {p[t]} \cup B[p[t]]]
  PROVE  IsLineage(p, A)
<1>1. \E B : B = [t \in Tasks |-> IF p[t] = Null THEN {} ELSE {p[t]} \cup B[p[t]]]
  BY LineageExists DEF IsLineage
<1> QED
  BY <1>1, Zenon DEF IsLineage

LEMMA Lineage ==
  ASSUME parent \in [Tasks -> Tasks \cup {Null}]
  PROVE  IsLineage(parent, Ancestors)
  BY AncestorsAreLineage DEF Ancestors

LEMMA LineagePrime ==
  ASSUME parent' \in [Tasks -> Tasks \cup {Null}]
  PROVE  IsLineage(parent', Ancestors')
  BY AncestorsAreLineage DEF Ancestors

LEMMA LineageIs ==
  ASSUME NEW p, NEW A, IsTree(p), IsLineage(p, A), NEW t \in Tasks
  PROVE  /\ p[t] = Null => A[t] = {}
         /\ p[t] # Null => p[t] \in Tasks /\ A[t] = {p[t]} \cup A[p[t]]
  BY DEF IsTree, IsLineage

LEMMA LineageTyped ==
  ASSUME NEW p, NEW A, IsTree(p), IsLineage(p, A)
  PROVE  \A t \in Tasks : A[t] \subseteq Tasks
<1> DEFINE S == {t \in Tasks : ~(A[t] \subseteq Tasks)}
<1>1. CASE S = {}
  BY <1>1
<1>2. CASE S # {}
  <2>1. PICK t \in S : \A u \in S : ~(u < t)
    BY <1>2, LeastTask
  <2>2. p[t] \in Tasks /\ A[t] = {p[t]} \cup A[p[t]] /\ ~(A[t] \subseteq Tasks)
    BY <2>1, LineageIs
  <2>3. p[t] < t
    BY <2>1, <2>2, TasksAreNumbers DEF IsTree
  <2>4. p[t] \in S
    BY <2>2
  <2> QED
    BY <2>1, <2>3, <2>4
<1> QED
  BY <1>1, <1>2

(* Who is above a task is above those below it.                             *)
LEMMA LineageTransitive ==
  ASSUME NEW p, NEW A, IsTree(p), IsLineage(p, A)
  PROVE  \A t \in Tasks : \A b \in A[t] : A[b] \subseteq A[t]
<1> DEFINE S == {t \in Tasks : \E b \in A[t] : ~(A[b] \subseteq A[t])}
<1>1. CASE S = {}
  BY <1>1
<1>2. CASE S # {}
  <2>1. PICK t \in S : \A u \in S : ~(u < t)
    BY <1>2, LeastTask
  <2>2. PICK b \in A[t] : ~(A[b] \subseteq A[t])
    BY <2>1
  <2>3. p[t] \in Tasks /\ A[t] = {p[t]} \cup A[p[t]]
    BY <2>1, <2>2, LineageIs
  <2>4. p[t] < t
    BY <2>1, <2>3, TasksAreNumbers DEF IsTree
  <2>5. p[t] \notin S
    BY <2>1, <2>3, <2>4
  <2>6. CASE b = p[t]
    BY <2>2, <2>3, <2>6
  <2>7. CASE b \in A[p[t]]
    BY <2>2, <2>3, <2>5, <2>7
  <2> QED
    BY <2>2, <2>3, <2>6, <2>7
<1> QED
  BY <1>1, <1>2

(* Ancestors of the first tasks do not depend on what comes after them.     *)
LEMMA LineageKept ==
  ASSUME NEW p, NEW A, IsTree(p), IsLineage(p, A),
         NEW q, NEW B, IsTree(q), IsLineage(q, B),
         NEW m \in Nat, \A t \in Tasks : t <= m => p[t] = q[t]
  PROVE  \A t \in Tasks : t <= m => A[t] = B[t]
<1> DEFINE S == {t \in Tasks : t <= m /\ A[t] # B[t]}
<1>1. CASE S = {}
  BY <1>1
<1>2. CASE S # {}
  <2>1. PICK t \in S : \A u \in S : ~(u < t)
    BY <1>2, LeastTask
  <2>0. t <= m /\ p[t] = q[t] /\ A[t] # B[t]
    BY <2>1
  <2>2. CASE p[t] = Null
    <3>1. A[t] = {} /\ B[t] = {}
      BY <2>0, <2>1, <2>2, LineageIs
    <3> QED
      BY <2>0, <3>1
  <2>3. CASE p[t] # Null
    <3>1. p[t] \in Tasks /\ A[t] = {p[t]} \cup A[p[t]] /\ B[t] = {p[t]} \cup B[p[t]]
      BY <2>0, <2>1, <2>3, LineageIs
    <3>2. p[t] < t
      BY <2>1, <2>3, TasksAreNumbers DEF IsTree
    <3>3. p[t] <= m
      <4>1. p[t] \in Nat /\ t \in Nat
        BY <2>1, <3>1, TasksAreNumbers
      <4> QED
        BY <2>0, <3>2, <4>1
    <3>4. p[t] \notin S
      BY <2>1, <3>2
    <3> QED
      BY <2>0, <3>1, <3>3, <3>4
  <2> QED
    BY <2>2, <2>3
<1> QED
  BY <1>1, <1>2

(* What the scheduling constraint rests on.                                 *)
Working   == {"run", "wait", "endgroup", "finish", "ungroup", "release"}
Suspended == {"run", "wait", "endgroup"}
TiedKinds == {"implicit", "tied"}

Born ==
  /\ program \in Programs /\ made \in 0..program.tasks
  /\ kind \in [Tasks -> {"implicit", "none", "tied", "untied", "proxy"}]
  /\ parent \in [Tasks -> Tasks \cup {Null}] /\ after \in [Tasks -> Tasks \cup {Null}]
  /\ \A t \in Tasks :
       /\ kind[t] = "implicit" <=> t \in Threads
       /\ kind[t] = "none" <=> t > NThreads + made
       /\ parent[t] # Null <=> kind[t] \notin {"implicit", "none"}
       /\ parent[t] # Null => parent[t] < t
       /\ after[t] # Null => /\ after[t] \in Explicit /\ t \in Explicit /\ after[t] < t
                             /\ t <= NThreads + made /\ parent[after[t]] = parent[t]

Frame == [task : Tasks, act : Acts]

(* A stack from the top to its bottom, the implicit task; p are the parents,*)
(* k the kinds of tasks and the first m tasks have been made.               *)
IsStack(p, k, m, th, s) ==
  /\ s \in Seq(Frame) /\ s # <<>>
  /\ s[Len(s)].task = th /\ s[Len(s)].act \in Suspended \cup {"barrier"}
  /\ \A i \in 1..Len(s) :
       /\ s[i].task <= m
       /\ i < Len(s) => s[i].task \in Explicit /\ s[i].act # "barrier"
       /\ s[i].act = "submit" => s[i + 1].act = "run" /\ p[s[i].task] = s[i + 1].task
       /\ s[i].act = "bottom" => k[s[i].task] = "proxy"

IsDeque(m, d) == d \in Seq(Explicit) /\ \A i \in 1..Len(d) : d[i] <= m

Between(k, s, i, j) == \A h \in i..j : k[s[h].task] \in TiedKinds

Obedient(k, A, s) ==
  \A i, j \in 1..Len(s) :
    i < j /\ Between(k, s, i, j) /\ s[i].act \in Working /\ s[j].act \in Suspended
      => s[j].task \in A[s[i].task]

CInv ==
  /\ Born
  /\ stack \in [Threads -> Seq(Frame)] /\ deque \in [Threads -> Seq(Explicit)]
  /\ \A th \in Threads : /\ IsStack(parent, kind, NThreads + made, th, stack[th])
                         /\ IsDeque(NThreads + made, deque[th])
                         /\ Obedient(kind, Ancestors, stack[th])

-----------------------------------------------------------------------------
(* What happens to a stack.                                                 *)
IsPush(r, f, s) == r \in Seq(Frame) /\ Len(r) = Len(s) + 1 /\ r[1] = f /\ \A i \in 1..Len(s) : r[i + 1] = s[i]
IsPop(r, s)     == r \in Seq(Frame) /\ Len(r) + 1 = Len(s) /\ \A i \in 1..Len(r) : r[i] = s[i + 1]
IsTop(r, f, s)  == r \in Seq(Frame) /\ Len(r) = Len(s) /\ r[1] = f /\ \A i \in 2..Len(s) : r[i] = s[i]

LEMMA Pushed ==
  ASSUME NEW s \in Seq(Frame), NEW f \in Frame
  PROVE  IsPush(<<f>> \o s, f, s)
  BY DEF IsPush

LEMMA Popped ==
  ASSUME NEW s \in Seq(Frame), s # <<>>
  PROVE  IsPop(Tail(s), s) /\ Head(s) = s[1] /\ s[1] \in Frame /\ Len(s) \in Nat \ {0}
  BY DEF IsPop

LEMMA Topped ==
  ASSUME NEW s \in Seq(Frame), s # <<>>, NEW a \in Acts
  PROVE  \E r : /\ r = [s EXCEPT ![1].act = a]
                /\ IsTop(r, [task |-> s[1].task, act |-> a], s)
<1>1. PICK r : r = [s EXCEPT ![1].act = a]
  OBVIOUS
<1>2. Len(s) \in Nat \ {0} /\ s[1] \in Frame /\ DOMAIN s = 1..Len(s)
  OBVIOUS
<1>3. PICK f : f = [s[1] EXCEPT !.act = a]
  OBVIOUS
<1>4. f = [task |-> s[1].task, act |-> a] /\ f \in Frame
  BY <1>2, <1>3 DEF Frame
<1>5. r = [s EXCEPT ![1] = f]
  BY <1>1, <1>3
<1>6. r \in Seq(Frame) /\ Len(r) = Len(s) /\ r[1] = f /\ \A i \in 2..Len(s) : r[i] = s[i]
  BY <1>2, <1>4, <1>5
<1> QED
  BY <1>1, <1>4, <1>6 DEF IsTop

LEMMA ToppedTask ==
  ASSUME NEW s \in Seq(Frame), s # <<>>, NEW t \in Tasks
  PROVE  \E r : /\ r = [s EXCEPT ![1].task = t]
                /\ IsTop(r, [task |-> t, act |-> s[1].act], s)
<1>1. PICK r : r = [s EXCEPT ![1].task = t]
  OBVIOUS
<1>2. Len(s) \in Nat \ {0} /\ s[1] \in Frame /\ DOMAIN s = 1..Len(s)
  OBVIOUS
<1>3. PICK f : f = [s[1] EXCEPT !.task = t]
  OBVIOUS
<1>4. f = [task |-> t, act |-> s[1].act] /\ f \in Frame
  BY <1>2, <1>3 DEF Frame
<1>5. r = [s EXCEPT ![1] = f]
  BY <1>1, <1>3
<1>6. r \in Seq(Frame) /\ Len(r) = Len(s) /\ r[1] = f /\ \A i \in 2..Len(s) : r[i] = s[i]
  BY <1>2, <1>4, <1>5
<1> QED
  BY <1>1, <1>4, <1>6 DEF IsTop

LEMMA StackPushed ==
  ASSUME NEW m \in Int, NEW p, NEW k, NEW th, NEW r, NEW s, NEW f \in Frame,
         IsStack(p, k, m, th, s), IsPush(r, f, s),
         f.task \in Explicit, f.task <= m, f.act # "barrier",
         f.act = "submit" => s[1].act = "run" /\ p[f.task] = s[1].task,
         f.act = "bottom" => k[f.task] = "proxy"
  PROVE  IsStack(p, k, m, th, r)
<1>1. Len(s) \in Nat \ {0} /\ Len(r) = Len(s) + 1 /\ r[1] = f /\ r \in Seq(Frame)
  BY DEF IsStack, IsPush
<1>2. \A i \in 2..Len(r) : i - 1 \in 1..Len(s) /\ r[i] = s[i - 1]
  <2> SUFFICES ASSUME NEW i \in 2..Len(r) PROVE i - 1 \in 1..Len(s) /\ r[i] = s[i - 1]
    OBVIOUS
  <2>1. i - 1 \in 1..Len(s) /\ (i - 1) + 1 = i
    BY <1>1
  <2>2. r[(i - 1) + 1] = s[i - 1]
    BY <2>1 DEF IsPush
  <2> QED
    BY <2>1, <2>2
<1>3. r # <<>> /\ r[Len(r)] = s[Len(s)]
  BY <1>1, <1>2
<1>4. ASSUME NEW i \in 1..Len(r)
      PROVE  /\ r[i].task <= m
             /\ i < Len(r) => r[i].task \in Explicit /\ r[i].act # "barrier"
             /\ r[i].act = "submit" => r[i + 1].act = "run" /\ p[r[i].task] = r[i + 1].task
             /\ r[i].act = "bottom" => k[r[i].task] = "proxy"
  <2>1. CASE i = 1
    <3>1. r[2] = s[1]
      BY <1>1, <1>2
    <3> QED
      BY <1>1, <2>1, <3>1
  <2>2. CASE i # 1
    <3>1. i \in 2..Len(r) /\ i - 1 \in 1..Len(s) /\ r[i] = s[i - 1]
      BY <1>1, <1>2, <2>2
    <3>2. i < Len(r) => i - 1 < Len(s) /\ r[i + 1] = s[(i - 1) + 1]
      BY <1>1, <1>2, <3>1
    <3>3. r[i].act = "submit" => i < Len(r)
      <4>1. ~(i < Len(r)) => i = Len(r)
        BY <1>1, <3>1
      <4> QED
        BY <1>3, <4>1 DEF IsStack, Suspended
    <3> QED
      BY <3>1, <3>2, <3>3 DEF IsStack
  <2> QED
    BY <2>1, <2>2
<1> QED
  BY <1>1, <1>3, <1>4 DEF IsStack

LEMMA StackPopped ==
  ASSUME NEW m \in Int, NEW p, NEW k, NEW th, NEW r, NEW s,
         IsStack(p, k, m, th, s), IsPop(r, s), s[1].act \notin Suspended \cup {"barrier"}
  PROVE  IsStack(p, k, m, th, r) /\ Len(s) \in Nat /\ Len(s) > 1
<1>1. Len(s) \in Nat /\ Len(s) > 1 /\ Len(r) = Len(s) - 1 /\ r \in Seq(Frame) /\ Len(r) \in Nat \ {0}
  BY DEF IsStack, IsPop
<1>2. \A i \in 1..Len(r) : i + 1 \in 1..Len(s) /\ r[i] = s[i + 1]
  BY <1>1 DEF IsPop
<1>3. r # <<>> /\ r[Len(r)] = s[Len(s)]
  BY <1>1, <1>2
<1>4. ASSUME NEW i \in 1..Len(r)
      PROVE  /\ r[i].task <= m
             /\ i < Len(r) => r[i].task \in Explicit /\ r[i].act # "barrier"
             /\ r[i].act = "submit" => r[i + 1].act = "run" /\ p[r[i].task] = r[i + 1].task
             /\ r[i].act = "bottom" => k[r[i].task] = "proxy"
  <2>1. i + 1 \in 1..Len(s) /\ r[i] = s[i + 1]
    BY <1>2
  <2>2. i < Len(r) => i + 1 < Len(s) /\ r[i + 1] = s[(i + 1) + 1]
    BY <1>1, <1>2
  <2>3. r[i].act = "submit" => i < Len(r)
    <3>1. ~(i < Len(r)) => i = Len(r)
      BY <1>1
    <3> QED
      BY <1>3, <3>1 DEF IsStack, Suspended
  <2> QED
    BY <2>1, <2>2, <2>3 DEF IsStack
<1> QED
  BY <1>1, <1>3, <1>4 DEF IsStack

LEMMA StackTopped ==
  ASSUME NEW m \in Int, NEW p, NEW k, NEW th, NEW r, NEW s, NEW f \in Frame,
         IsStack(p, k, m, th, s), IsTop(r, f, s),
         f.task <= m, f.act \notin {"submit", "bottom"},
         Len(s) = 1 => f.task = th /\ f.act \in Suspended \cup {"barrier"},
         Len(s) # 1 => f.task \in Explicit /\ f.act # "barrier"
  PROVE  IsStack(p, k, m, th, r)
<1>1. Len(s) \in Nat \ {0} /\ Len(r) = Len(s) /\ r[1] = f /\ r \in Seq(Frame)
  BY DEF IsStack, IsTop
<1>2. \A i \in 2..Len(r) : r[i] = s[i]
  BY <1>1 DEF IsTop
<1>3. r # <<>> /\ r[Len(r)].task = th /\ r[Len(r)].act \in Suspended \cup {"barrier"}
  BY <1>1, <1>2 DEF IsStack
<1>4. ASSUME NEW i \in 1..Len(r)
      PROVE  /\ r[i].task <= m
             /\ i < Len(r) => r[i].task \in Explicit /\ r[i].act # "barrier"
             /\ r[i].act = "submit" => r[i + 1].act = "run" /\ p[r[i].task] = r[i + 1].task
             /\ r[i].act = "bottom" => k[r[i].task] = "proxy"
  <2>1. CASE i = 1
    BY <1>1, <2>1
  <2>2. CASE i # 1
    <3>1. i \in 2..Len(r) /\ i \in 1..Len(s) /\ r[i] = s[i]
      BY <1>1, <1>2, <2>2
    <3>2. i < Len(r) => r[i + 1] = s[i + 1]
      BY <1>1, <1>2, <3>1
    <3>3. r[i].act = "submit" => i < Len(r)
      <4>1. ~(i < Len(r)) => i = Len(r)
        BY <1>1
      <4> QED
        BY <1>3, <4>1 DEF Suspended
    <3> QED
      BY <1>1, <3>1, <3>2, <3>3 DEF IsStack
  <2> QED
    BY <2>1, <2>2
<1> QED
  BY <1>1, <1>3, <1>4 DEF IsStack

(* A new task changes nothing for the stacks and deques.                    *)
LEMMA StackKept ==
  ASSUME NEW m \in Int, NEW n \in Int, NEW p, NEW k, NEW q, NEW l, NEW th, NEW s,
         m <= n, Tasks \subseteq Int, \A t \in Tasks : t <= m => p[t] = q[t] /\ k[t] = l[t],
         IsStack(p, k, m, th, s)
  PROVE  IsStack(q, l, n, th, s)
<1>1. \A i \in 1..Len(s) : s[i] \in Frame
  BY DEF IsStack
<1>2. ASSUME NEW i \in 1..Len(s)
      PROVE  /\ s[i].task <= n
             /\ i < Len(s) => s[i].task \in Explicit /\ s[i].act # "barrier"
             /\ s[i].act = "submit" => s[i + 1].act = "run" /\ q[s[i].task] = s[i + 1].task
             /\ s[i].act = "bottom" => l[s[i].task] = "proxy"
  <2>1. s[i].task \in Tasks /\ s[i].task <= m
    BY <1>1 DEF IsStack, Frame
  <2>0. PICK t \in Int : t = s[i].task
    BY <2>1
  <2>2. s[i].task <= n
    BY <2>0, <2>1
  <2>3. q[s[i].task] = p[s[i].task] /\ l[s[i].task] = k[s[i].task]
    BY <2>1
  <2> QED
    BY <2>2, <2>3 DEF IsStack
<1> QED
  BY <1>2 DEF IsStack

LEMMA DequeKept ==
  ASSUME NEW m \in Int, NEW n \in Int, NEW d, Explicit \subseteq Int, m <= n, IsDeque(m, d)
  PROVE  IsDeque(n, d)
<1> SUFFICES ASSUME NEW i \in 1..Len(d) PROVE d[i] <= n
  BY DEF IsDeque
<1>1. d[i] \in Explicit /\ d[i] <= m
  BY DEF IsDeque
<1>2. PICK t \in Int : t = d[i]
  BY <1>1
<1> QED
  BY <1>1, <1>2

LEMMA DequeAppended ==
  ASSUME NEW m \in Int, NEW d, NEW t \in Explicit, IsDeque(m, d), t <= m
  PROVE  IsDeque(m, Append(d, t))
  BY DEF IsDeque

LEMMA DequeTaken ==
  ASSUME NEW m \in Int, NEW d, IsDeque(m, d), d # <<>>
  PROVE  /\ Head(d) \in Explicit /\ Head(d) <= m /\ IsDeque(m, Tail(d))
         /\ Last(d) \in Explicit /\ Last(d) <= m /\ IsDeque(m, Front(d))
<1>1. Len(d) \in Nat \ {0} /\ d \in Seq(Explicit)
  BY DEF IsDeque
<1>2. Head(d) = d[1] /\ Last(d) = d[Len(d)] /\ 1 \in 1..Len(d) /\ Len(d) \in 1..Len(d)
  BY <1>1 DEF Last
<1>3. /\ Tail(d) \in Seq(Explicit) /\ Len(Tail(d)) = Len(d) - 1
      /\ \A i \in 1..Len(Tail(d)) : Tail(d)[i] = d[i + 1]
  BY <1>1
<1>4. /\ Front(d) \in Seq(Explicit) /\ Len(Front(d)) = Len(d) - 1
      /\ \A i \in 1..Len(Front(d)) : Front(d)[i] = d[i]
  <2>1. Front(d) = [i \in 1..Len(d) - 1 |-> d[i]]
    BY <1>1 DEF Front
  <2>2. Len(d) - 1 \in Nat /\ \A i \in 1..Len(d) - 1 : d[i] \in Explicit
    BY <1>1
  <2> QED
    BY <2>1, <2>2
<1> QED
  BY <1>1, <1>2, <1>3, <1>4 DEF IsDeque

-----------------------------------------------------------------------------
LEMMA ObedientPopped ==
  ASSUME NEW s \in Seq(Frame), NEW k, NEW A, NEW r, Obedient(k, A, s), IsPop(r, s)
  PROVE  Obedient(k, A, r)
<1> SUFFICES ASSUME NEW i \in 1..Len(r), NEW j \in 1..Len(r),
                    i < j, Between(k, r, i, j), r[i].act \in Working, r[j].act \in Suspended
             PROVE  r[j].task \in A[r[i].task]
  BY DEF Obedient
<1>1. Len(r) \in Nat /\ Len(s) = Len(r) + 1 /\ \A h \in 1..Len(r) : r[h] = s[h + 1]
  BY DEF IsPop
<1>2. Between(k, s, i + 1, j + 1)
  <2> SUFFICES ASSUME NEW h \in i + 1..j + 1 PROVE k[s[h].task] \in TiedKinds
    BY DEF Between
  <2>1. h - 1 \in i..j /\ h - 1 \in 1..Len(r) /\ (h - 1) + 1 = h
    BY <1>1
  <2>2. r[h - 1] = s[(h - 1) + 1]
    BY <1>1, <2>1
  <2> QED
    BY <2>1, <2>2 DEF Between
<1>3. i + 1 \in 1..Len(s) /\ j + 1 \in 1..Len(s) /\ i + 1 < j + 1 /\ r[i] = s[i + 1] /\ r[j] = s[j + 1]
  BY <1>1
<1> QED
  BY <1>2, <1>3 DEF Obedient

(* The new top only needs to look at what is below it.                      *)
LEMMA ObedientPushed ==
  ASSUME NEW s \in Seq(Frame), NEW k, NEW A, NEW r, NEW f \in Frame, Obedient(k, A, s), IsPush(r, f, s),
         f.act \in Working /\ k[f.task] \in TiedKinds =>
           \A j \in 1..Len(s) :
             Between(k, s, 1, j) /\ s[j].act \in Suspended => s[j].task \in A[f.task]
  PROVE  Obedient(k, A, r)
<1> SUFFICES ASSUME NEW i \in 1..Len(r), NEW j \in 1..Len(r),
                    i < j, Between(k, r, i, j), r[i].act \in Working, r[j].act \in Suspended
             PROVE  r[j].task \in A[r[i].task]
  BY DEF Obedient
<1>1. Len(s) \in Nat /\ Len(r) = Len(s) + 1 /\ r[1] = f /\ \A h \in 1..Len(s) : r[h + 1] = s[h]
  BY DEF IsPush
<1>2. j - 1 \in 1..Len(s) /\ r[(j - 1) + 1] = s[j - 1] /\ (j - 1) + 1 = j
  BY <1>1
<1>3. CASE i = 1
  <2>1. k[f.task] \in TiedKinds
    BY <1>1, <1>3, i \in i..j DEF Between
  <2>2. Between(k, s, 1, j - 1)
    <3> SUFFICES ASSUME NEW h \in 1..j - 1 PROVE k[s[h].task] \in TiedKinds
      BY DEF Between
    <3>1. h + 1 \in i..j /\ h \in 1..Len(s)
      BY <1>2, <1>3
    <3> QED
      BY <1>1, <3>1 DEF Between
  <2> QED
    BY <1>1, <1>2, <1>3, <2>1, <2>2
<1>4. CASE i # 1
  <2>1. i - 1 \in 1..Len(s) /\ r[(i - 1) + 1] = s[i - 1] /\ (i - 1) + 1 = i /\ i - 1 < j - 1
    <3>1. PICK n \in Nat : n = Len(s)
      BY <1>1
    <3>2. i \in 1..n + 1 /\ j \in 1..n + 1
      BY <1>1, <3>1
    <3>3. i - 1 \in 1..n /\ (i - 1) + 1 = i /\ i - 1 < j - 1
      BY <1>4, <3>1, <3>2
    <3> QED
      BY <1>1, <3>1, <3>3
  <2>2. Between(k, s, i - 1, j - 1)
    <3> SUFFICES ASSUME NEW h \in i - 1..j - 1 PROVE k[s[h].task] \in TiedKinds
      BY DEF Between
    <3>1. h + 1 \in i..j /\ h \in 1..Len(s)
      BY <1>2, <2>1
    <3> QED
      BY <1>1, <3>1 DEF Between
  <2> QED
    BY <1>2, <2>1, <2>2 DEF Obedient
<1> QED
  BY <1>3, <1>4

(* The top changes what it does: it worked before, or need not obey now.    *)
LEMMA ObedientTopped ==
  ASSUME NEW s \in Seq(Frame), NEW k, NEW A, NEW r, NEW f \in Frame, Obedient(k, A, s), IsTop(r, f, s),
         f.act \in Working /\ k[f.task] \in TiedKinds => f.task = s[1].task /\ s[1].act \in Working
  PROVE  Obedient(k, A, r)
<1> SUFFICES ASSUME NEW i \in 1..Len(r), NEW j \in 1..Len(r),
                    i < j, Between(k, r, i, j), r[i].act \in Working, r[j].act \in Suspended
             PROVE  r[j].task \in A[r[i].task]
  BY DEF Obedient
<1>1. Len(s) \in Nat /\ Len(r) = Len(s) /\ r[1] = f /\ \A h \in 2..Len(s) : r[h] = s[h]
  BY DEF IsTop
<1>2. r[i].task = s[i].task /\ s[i].act \in Working /\ r[j] = s[j]
  <2>1. r[j] = s[j]
    BY <1>1
  <2>2. CASE i = 1
    <3>1. k[f.task] \in TiedKinds
      BY <1>1, <2>2, i \in i..j DEF Between
    <3> QED
      BY <1>1, <2>1, <2>2, <3>1
  <2>3. CASE i # 1
    BY <1>1, <2>1, <2>3
  <2> QED
    BY <2>2, <2>3
<1>3. Between(k, s, i, j)
  <2> SUFFICES ASSUME NEW h \in i..j PROVE k[s[h].task] \in TiedKinds
    BY DEF Between
  <2>1. r[h].task = s[h].task
    BY <1>1, <1>2
  <2> QED
    BY <2>1 DEF Between
<1> QED
  BY <1>1, <1>2, <1>3 DEF Obedient

(* What is pushed on a working frame descends from it or is its sibling.    *)
LEMMA ObedientBelow ==
  ASSUME NEW s \in Seq(Frame), NEW k, NEW A, NEW r, NEW f \in Frame, Obedient(k, A, s), IsPush(r, f, s),
         s # <<>>, s[1].act \in Working, A[s[1].task] \subseteq A[f.task],
         k[f.task] \in TiedKinds /\ s[1].act \in Suspended => s[1].task \in A[f.task]
  PROVE  Obedient(k, A, r)
<1>1. Len(s) \in Nat \ {0}
  OBVIOUS
<1>2. ASSUME k[f.task] \in TiedKinds, NEW j \in 1..Len(s), Between(k, s, 1, j), s[j].act \in Suspended
      PROVE  s[j].task \in A[f.task]
  <2>1. CASE j = 1
    BY <1>2, <2>1
  <2>2. CASE j # 1
    <3>1. 1 \in 1..Len(s) /\ 1 < j
      BY <1>1, <2>2
    <3>2. s[j].task \in A[s[1].task]
      BY <1>2, <3>1 DEF Obedient
    <3> QED
      BY <3>2
  <2> QED
    BY <2>1, <2>2
<1> QED
  BY <1>2, ObedientPushed

LEMMA ObedientKept ==
  ASSUME NEW s \in Seq(Frame), NEW k, NEW A, NEW l, NEW B, NEW m \in Int,
         \A i \in 1..Len(s) : s[i].task <= m,
         \A t \in Tasks : t <= m => k[t] = l[t] /\ A[t] = B[t],
         Obedient(k, A, s)
  PROVE  Obedient(l, B, s)
<1>1. \A i \in 1..Len(s) : s[i].task \in Tasks /\ s[i].task <= m
  <2>1. \A i \in 1..Len(s) : s[i] \in Frame
    OBVIOUS
  <2> QED
    BY <2>1 DEF Frame
<1> SUFFICES ASSUME NEW i \in 1..Len(s), NEW j \in 1..Len(s),
                    i < j, Between(l, s, i, j), s[i].act \in Working, s[j].act \in Suspended
             PROVE  s[j].task \in B[s[i].task]
  BY DEF Obedient
<1>2. Between(k, s, i, j)
  <2> SUFFICES ASSUME NEW h \in i..j PROVE k[s[h].task] \in TiedKinds
    BY DEF Between
  <2>1. h \in 1..Len(s)
    OBVIOUS
  <2> QED
    BY <1>1, <2>1 DEF Between
<1> QED
  BY <1>1, <1>2 DEF Obedient

LastTask == NThreads + made

(* What may be run on top of a stack without breaking the constraint.       *)
Fits(t, s) ==
  kind[t] \in TiedKinds =>
    \/ s[1].act = "barrier"
    \/ /\ s[1].act \in Working /\ Ancestors[s[1].task] \subseteq Ancestors[t]
       /\ s[1].act \in Suspended => s[1].task \in Ancestors[t]

GoodStack(th, s) == IsStack(parent, kind, LastTask, th, s) /\ Obedient(kind, Ancestors, s)

GoodDeques(d) == d \in [Threads -> Seq(Explicit)] /\ \A th \in Threads : IsDeque(LastTask, d[th])

LEMMA MoreThanOne == ASSUME NEW n \in Nat \ {0}, n # 1 PROVE 1 \in 1..n /\ 1 < n
  OBVIOUS

LEMMA Numbers ==
  ASSUME Born
  PROVE  /\ LastTask \in Nat /\ made \in Nat /\ NThreads \in Nat \ {0} /\ Tasks \subseteq Nat
         /\ Threads \subseteq Tasks /\ Explicit \subseteq Tasks /\ Threads \cap Explicit = {}
         /\ Tasks = Threads \cup Explicit /\ Null \notin Tasks
         /\ program.tasks \in 0..MaxTasks /\ made <= program.tasks
<1>1. program \in [kinds : SUBSET TaskKinds, preds : SUBSET TaskKinds, openers : SUBSET Tasks,
                     cancels : BOOLEAN, tasks : 0..MaxTasks, parts : Nat \ {0}]
  BY ProgramsAssumption DEF Born
<1>2. program.tasks \in 0..MaxTasks
  BY <1>1
<1> QED
  BY <1>2, ThreadsAssumption, BoundsAssumption DEF Born, Tasks, Threads, Explicit, Null, LastTask

LEMMA TreeOfTasks ==
  ASSUME Born
  PROVE  IsTree(parent) /\ IsLineage(parent, Ancestors)
  BY Lineage DEF IsTree, Born

LEMMA Tree ==
  ASSUME Born, NEW t \in Tasks
  PROVE  /\ Ancestors[t] \subseteq Tasks
         /\ parent[t] = Null => Ancestors[t] = {}
         /\ parent[t] # Null => /\ parent[t] \in Tasks /\ parent[t] < t
                                /\ Ancestors[t] = {parent[t]} \cup Ancestors[parent[t]]
         /\ \A b \in Ancestors[t] : Ancestors[b] \subseteq Ancestors[t]
<1>1. IsTree(parent) /\ IsLineage(parent, Ancestors)
  BY TreeOfTasks
<1> QED
  BY <1>1, LineageTyped, LineageIs, LineageTransitive DEF IsTree

LEMMA StackFacts ==
  ASSUME CInv, NEW th \in Threads
  PROVE  /\ Born /\ stack[th] \in Seq(Frame) /\ stack[th] # <<>> /\ GoodStack(th, stack[th])
         /\ stack \in [Threads -> Seq(Frame)] /\ deque \in [Threads -> Seq(Explicit)]
         /\ IsDeque(LastTask, deque[th]) /\ GoodDeques(deque)
         /\ Len(stack[th]) \in Nat \ {0} /\ Head(stack[th]) = stack[th][1]
         /\ stack[th][1] \in Frame /\ stack[th][1].task \in Tasks /\ stack[th][1].act \in Acts
         /\ stack[th][1].task <= LastTask
<1>1. /\ Born /\ stack[th] \in Seq(Frame) /\ stack[th] # <<>> /\ GoodStack(th, stack[th])
      /\ stack \in [Threads -> Seq(Frame)] /\ deque \in [Threads -> Seq(Explicit)]
      /\ IsDeque(LastTask, deque[th]) /\ GoodDeques(deque)
  BY DEF CInv, GoodStack, GoodDeques, IsStack, LastTask
<1>2. /\ Len(stack[th]) \in Nat \ {0} /\ Head(stack[th]) = stack[th][1] /\ stack[th][1] \in Frame
  BY <1>1
<1>3. stack[th][1].task \in Tasks /\ stack[th][1].act \in Acts
  BY <1>2 DEF Frame
<1>4. stack[th][1].task <= LastTask
  <2>1. 1 \in 1..Len(stack[th])
    BY <1>2
  <2> QED
    BY <1>1, <2>1 DEF GoodStack, IsStack
<1> QED
  BY <1>1, <1>2, <1>3, <1>4

LEMMA OneStack ==
  ASSUME CInv, UNCHANGED born, NEW th \in Threads, NEW r, stack' = [stack EXCEPT ![th] = r],
         GoodStack(th, r), GoodDeques(deque')
  PROVE  CInv'
<1>1. /\ program' = program /\ made' = made /\ kind' = kind /\ parent' = parent /\ after' = after
      /\ Ancestors' = Ancestors
  BY DEF born, Ancestors
<1>2. Born'
  BY <1>1 DEF CInv, Born
<1>3. r \in Seq(Frame)
  BY DEF GoodStack, IsStack
<1>4. /\ stack' \in [Threads -> Seq(Frame)] /\ deque' \in [Threads -> Seq(Explicit)]
      /\ stack'[th] = r /\ \A x \in Threads \ {th} : stack'[x] = stack[x]
  BY <1>3 DEF CInv, GoodDeques
<1>5. ASSUME NEW x \in Threads
      PROVE  /\ IsStack(parent, kind, NThreads + made, x, stack'[x])
             /\ IsDeque(NThreads + made, deque'[x])
             /\ Obedient(kind, Ancestors, stack'[x])
  BY <1>4 DEF CInv, GoodStack, GoodDeques, LastTask
<1> QED
  BY <1>1, <1>2, <1>4, <1>5 DEF CInv

LEMMA SameDeques == ASSUME CInv, UNCHANGED deque PROVE GoodDeques(deque')
  BY DEF CInv, GoodDeques, LastTask

LEMMA AllSame ==
  ASSUME CInv, UNCHANGED born, UNCHANGED stack, GoodDeques(deque')
  PROVE  CInv'
<1>1. /\ program' = program /\ made' = made /\ kind' = kind /\ parent' = parent /\ after' = after
      /\ Ancestors' = Ancestors /\ stack' = stack
  BY DEF born, Ancestors
<1>2. Born'
  BY <1>1 DEF CInv, Born
<1> QED
  BY <1>1, <1>2 DEF CInv, GoodDeques, LastTask

(* The top frame goes away.                                                 *)
LEMMA PopStep ==
  ASSUME CInv, NEW th \in Threads, stack[th][1].act \notin Suspended \cup {"barrier"}
  PROVE  /\ GoodStack(th, Tail(stack[th])) /\ IsPop(Tail(stack[th]), stack[th])
         /\ Len(stack[th]) > 1
<1>1. /\ stack[th] \in Seq(Frame) /\ stack[th] # <<>> /\ GoodStack(th, stack[th]) /\ LastTask \in Int
  BY StackFacts, Numbers
<1>2. IsPop(Tail(stack[th]), stack[th])
  BY <1>1, Popped
<1>3. IsStack(parent, kind, LastTask, th, Tail(stack[th])) /\ Len(stack[th]) > 1
  BY <1>1, <1>2, StackPopped DEF GoodStack
<1>4. Obedient(kind, Ancestors, Tail(stack[th]))
  BY <1>1, <1>2, ObedientPopped DEF GoodStack
<1> QED
  BY <1>2, <1>3, <1>4 DEF GoodStack

(* The thread does something else in the task of its top frame.             *)
LEMMA BecomeStep ==
  ASSUME CInv, UNCHANGED <<born, deque>>, NEW th \in Threads, NEW a \in Acts \ {"submit", "bottom"},
         Become(th, a),
         Len(stack[th]) = 1 => a \in Suspended \cup {"barrier"},
         Len(stack[th]) # 1 => a # "barrier",
         a \in Working => stack[th][1].act \in Working \/ kind[stack[th][1].task] \notin TiedKinds
  PROVE  CInv'
<1> DEFINE s == stack[th]
           f == [task |-> s[1].task, act |-> a]
<1>1. /\ s \in Seq(Frame) /\ s # <<>> /\ GoodStack(th, s) /\ LastTask \in Int /\ Len(s) \in Nat \ {0}
      /\ s[1].task \in Tasks /\ s[1].task <= LastTask
  BY StackFacts, Numbers
<1>2. PICK r : r = [s EXCEPT ![1].act = a] /\ IsTop(r, f, s)
  BY <1>1, Topped
<1>3. stack' = [stack EXCEPT ![th] = r]
  BY <1>2 DEF Become
<1>4. f \in Frame /\ f.task = s[1].task /\ f.act = a
  BY <1>1 DEF Frame
<1>5. Len(s) = 1 => f.task = th
  BY <1>1, <1>4 DEF GoodStack, IsStack
<1>6. Len(s) # 1 => f.task \in Explicit
  <2>1. Len(s) # 1 => 1 \in 1..Len(s) /\ 1 < Len(s)
    BY <1>1, MoreThanOne
  <2> QED
    BY <1>1, <1>4, <2>1 DEF GoodStack, IsStack
<1>7. f.act \notin {"submit", "bottom"} /\ f.task <= LastTask
      /\ (Len(s) = 1 => f.task = th /\ f.act \in Suspended \cup {"barrier"})
      /\ (Len(s) # 1 => f.task \in Explicit /\ f.act # "barrier")
  BY <1>1, <1>4, <1>5, <1>6
<1>8. IsStack(parent, kind, LastTask, th, s) /\ Obedient(kind, Ancestors, s)
  BY <1>1 DEF GoodStack
<1>9. f.act \in Working /\ kind[f.task] \in TiedKinds => f.task = s[1].task /\ s[1].act \in Working
  BY <1>4
<1> HIDE DEF f, s
<1>10. IsStack(parent, kind, LastTask, th, r)
  BY <1>1, <1>2, <1>4, <1>7, <1>8, StackTopped
<1>11. Obedient(kind, Ancestors, r)
  BY <1>1, <1>2, <1>4, <1>8, <1>9, ObedientTopped
<1> QED
  BY <1>3, <1>10, <1>11, OneStack, SameDeques DEF GoodStack

(* A task is begun on top of a stack that it fits.                          *)
LEMMA RunStep ==
  ASSUME CInv, UNCHANGED born, GoodDeques(deque'), NEW th \in Threads, NEW s, NEW f \in Frame,
         stack' = [stack EXCEPT ![th] = <<f>> \o s], GoodStack(th, s), Fits(f.task, s),
         f.task \in Explicit, f.task <= LastTask, f.act \notin {"barrier", "submit"},
         f.act = "bottom" => kind[f.task] = "proxy"
  PROVE  CInv'
<1>1. s \in Seq(Frame) /\ s # <<>> /\ LastTask \in Int /\ Len(s) \in Nat \ {0}
  <2>1. Born
    BY DEF CInv
  <2>2. s \in Seq(Frame) /\ s # <<>>
    BY DEF GoodStack, IsStack
  <2> QED
    BY <2>1, <2>2, Numbers
<1>2. PICK r : r = <<f>> \o s
  OBVIOUS
<1>3. IsPush(r, f, s)
  BY <1>1, <1>2, Pushed
<1>4. IsStack(parent, kind, LastTask, th, s) /\ Obedient(kind, Ancestors, s)
  BY DEF GoodStack
<1>5. IsStack(parent, kind, LastTask, th, r)
  BY <1>1, <1>3, <1>4, StackPushed
<1>6. Obedient(kind, Ancestors, r)
  <2>1. CASE kind[f.task] \notin TiedKinds
    BY <1>1, <1>3, <1>4, <2>1, ObedientPushed
  <2>2. CASE kind[f.task] \in TiedKinds /\ s[1].act = "barrier"
    <3>1. Len(s) = 1
      <4>1. Len(s) # 1 => 1 \in 1..Len(s) /\ 1 < Len(s)
        BY <1>1
      <4> QED
        BY <1>4, <2>2, <4>1 DEF IsStack
    <3>2. \A j \in 1..Len(s) : s[j].act \notin Suspended
      BY <2>2, <3>1 DEF Suspended
    <3> QED
      BY <1>1, <1>3, <1>4, <3>2, ObedientPushed
  <2>3. CASE kind[f.task] \in TiedKinds /\ s[1].act # "barrier"
    BY <1>1, <1>3, <1>4, <2>3, ObedientBelow DEF Fits
  <2> QED
    BY <2>1, <2>2, <2>3
<1> QED
  BY <1>2, <1>5, <1>6, OneStack DEF GoodStack

LEMMA DequesAppended ==
  ASSUME CInv, NEW th \in Threads, NEW t \in Explicit, t <= LastTask,
         deque' = [deque EXCEPT ![th] = Append(@, t)]
  PROVE  GoodDeques(deque')
<1>1. LastTask \in Int /\ deque \in [Threads -> Seq(Explicit)] /\ \A x \in Threads : IsDeque(LastTask, deque[x])
  BY Numbers DEF CInv, LastTask
<1>2. PICK d : d = Append(deque[th], t)
  OBVIOUS
<1>3. IsDeque(LastTask, d)
  BY <1>1, <1>2, DequeAppended
<1>4. deque' = [deque EXCEPT ![th] = d] /\ d \in Seq(Explicit)
  BY <1>2, <1>3 DEF IsDeque
<1> QED
  BY <1>1, <1>3, <1>4 DEF GoodDeques

LEMMA DequesTaken ==
  ASSUME CInv, NEW v \in Threads, deque[v] # <<>>
  PROVE  /\ Head(deque[v]) \in Explicit /\ Head(deque[v]) <= LastTask
         /\ deque' = [deque EXCEPT ![v] = Tail(@)] => GoodDeques(deque')
         /\ Last(deque[v]) \in Explicit /\ Last(deque[v]) <= LastTask
         /\ deque' = [deque EXCEPT ![v] = Front(@)] => GoodDeques(deque')
<1>1. LastTask \in Int /\ deque \in [Threads -> Seq(Explicit)] /\ \A x \in Threads : IsDeque(LastTask, deque[x])
  BY Numbers DEF CInv, LastTask
<1>2. PICK d, e : d = Tail(deque[v]) /\ e = Front(deque[v])
  OBVIOUS
<1>3. /\ Head(deque[v]) \in Explicit /\ Head(deque[v]) <= LastTask /\ IsDeque(LastTask, d)
      /\ Last(deque[v]) \in Explicit /\ Last(deque[v]) <= LastTask /\ IsDeque(LastTask, e)
  BY <1>1, <1>2, DequeTaken
<1>4. d \in Seq(Explicit) /\ e \in Seq(Explicit)
  BY <1>3 DEF IsDeque
<1>5. deque' = [deque EXCEPT ![v] = Tail(@)] => GoodDeques(deque')
  BY <1>1, <1>2, <1>3, <1>4 DEF GoodDeques
<1>6. deque' = [deque EXCEPT ![v] = Front(@)] => GoodDeques(deque')
  BY <1>1, <1>2, <1>3, <1>4 DEF GoodDeques
<1> QED
  BY <1>3, <1>5, <1>6

LEMMA InvokeStep ==
  ASSUME CInv, UNCHANGED born, GoodDeques(deque'), NEW th \in Threads, NEW t \in Explicit, NEW s,
         t <= LastTask, GoodStack(th, s), Fits(t, s), Invoke(th, t, s)
  PROVE  CInv'
<1>1. PICK a \in {"return", "finish", "run"} : stack' = [stack EXCEPT ![th] = <<[task |-> t, act |-> a]>> \o s]
  BY DEF Invoke
<1>2. PICK f : f = [task |-> t, act |-> a]
  OBVIOUS
<1>3. t \in Tasks
  BY Numbers DEF CInv
<1>4. f \in Frame /\ f.task = t /\ f.act = a
  BY <1>2, <1>3 DEF Frame, Acts
<1>5. stack' = [stack EXCEPT ![th] = <<f>> \o s]
  BY <1>1, <1>2
<1> QED
  BY <1>4, <1>5, RunStep

LEMMA InvokeTakenStep ==
  ASSUME CInv, UNCHANGED born, GoodDeques(deque'), NEW th \in Threads, NEW t \in Explicit,
         t <= LastTask, Fits(t, stack[th]), InvokeTaken(th, t)
  PROVE  CInv'
<1>1. GoodStack(th, stack[th])
  BY StackFacts
<1>2. CASE kind[t] = "proxy"
  <2>1. PICK f : f = [task |-> t, act |-> "bottom"]
    OBVIOUS
  <2>2. t \in Tasks
    BY Numbers DEF CInv
  <2>3. f \in Frame /\ f.task = t /\ f.act = "bottom"
    BY <2>1, <2>2 DEF Frame, Acts
  <2>4. stack' = [stack EXCEPT ![th] = <<f>> \o stack[th]]
    BY <1>2, <2>1 DEF InvokeTaken, Push
  <2> QED
    BY <1>1, <1>2, <2>3, <2>4, RunStep
<1>3. CASE kind[t] # "proxy"
  BY <1>1, <1>3, InvokeStep DEF InvokeTaken
<1> QED
  BY <1>2, <1>3

(* A task is deferred or run at once.                                       *)
LEMMA DeferStep ==
  ASSUME CInv, UNCHANGED born, NEW th \in Threads, NEW t \in Explicit, NEW s,
         t <= LastTask, GoodStack(th, s), Defer(th, t, s)
  PROVE  CInv'
<1>1. GoodDeques(deque')
  BY DequesAppended DEF Defer
<1>2. stack' = [stack EXCEPT ![th] = s]
  BY DEF Defer
<1> QED
  BY <1>1, <1>2, OneStack

LEMMA RunNowStep ==
  ASSUME CInv, UNCHANGED born, NEW th \in Threads, NEW t \in Explicit, NEW s, NEW b,
         t <= LastTask, GoodStack(th, s), Fits(t, s), RunNow(th, t, s, b)
  PROVE  CInv'
  BY InvokeStep, SameDeques DEF RunNow

-----------------------------------------------------------------------------
LEMMA SubmitKeeps ==
  ASSUME CInv, NEW th \in Threads, Submit(th)
  PROVE  CInv'
<1> DEFINE s == stack[th]
           t == s[1].task
           rest == Tail(s)
<1>1. /\ Born /\ s \in Seq(Frame) /\ s # <<>> /\ GoodStack(th, s) /\ Len(s) \in Nat \ {0}
      /\ Head(s) = s[1] /\ t \in Tasks /\ t <= LastTask
  BY StackFacts
<1>2. s[1].act = "submit" /\ Task(th) = t
  BY <1>1 DEF Submit, Does, Top, Task
<1>3. GoodStack(th, rest) /\ IsPop(rest, s) /\ Len(s) > 1
  BY <1>2, PopStep DEF Suspended
<1>4. rest[1] = s[2] /\ Len(rest) \in Nat \ {0} /\ rest \in Seq(Frame) /\ rest[1] \in Frame
  <2>1. PICK r : r = rest /\ IsPop(r, s)
    BY <1>3
  <2>2. r \in Seq(Frame) /\ Len(r) \in Nat \ {0} /\ 1 \in 1..Len(r) /\ 1 + 1 = 2
    BY <1>1, <1>3, <2>1 DEF IsPop
  <2>3. r[1] = s[2]
    BY <2>1, <2>2 DEF IsPop
  <2>4. r[1] \in Frame
    BY <2>2
  <2> QED
    BY <2>1, <2>2, <2>3, <2>4
<1>5. t \in Explicit /\ s[2].act = "run" /\ parent[t] = s[2].task
  BY <1>1, <1>2, <1>3 DEF GoodStack, IsStack
<1>6. rest[1].task \in Tasks
  BY <1>4 DEF Frame
<1>7. Fits(t, rest)
  <2>1. rest[1].act = "run" /\ rest[1].task = parent[t] /\ parent[t] # Null
    BY <1>1, <1>4, <1>5, <1>6, Numbers
  <2>2. Ancestors[t] = {parent[t]} \cup Ancestors[parent[t]]
    BY <1>1, <2>1, Tree
  <2> HIDE DEF t, rest
  <2> QED
    BY <2>1, <2>2 DEF Fits, Working, Suspended
<1>8. UNCHANGED born
  BY DEF Submit
<1> HIDE DEF t, rest
<1>9. CASE Pop(th) /\ UNCHANGED deque
  BY <1>3, <1>8, <1>9, OneStack, SameDeques DEF Pop, rest
<1>10. CASE Defer(th, t, rest)
  BY <1>1, <1>3, <1>5, <1>8, <1>10, DeferStep
<1>11. CASE RunNow(th, t, rest, TRUE)
  BY <1>1, <1>3, <1>5, <1>7, <1>8, <1>11, RunNowStep
<1>12. (Pop(th) /\ UNCHANGED deque) \/ Defer(th, t, rest) \/ RunNow(th, t, rest, TRUE)
  BY <1>2 DEF Submit, rest
<1> QED
  BY <1>9, <1>10, <1>11, <1>12

LEMMA NextPartKeeps ==
  ASSUME CInv, NEW th \in Threads, NextPart(th)
  PROVE  CInv'
<1> DEFINE s == stack[th]
           t == s[1].task
           f == [task |-> t, act |-> "finish"]
<1>1. /\ Born /\ s \in Seq(Frame) /\ s # <<>> /\ GoodStack(th, s) /\ Len(s) \in Nat \ {0}
      /\ Head(s) = s[1] /\ t \in Tasks /\ t <= LastTask /\ LastTask \in Int
  BY StackFacts, Numbers
<1>2. s[1].act = "run" /\ Task(th) = t /\ kind[t] = "untied" /\ UNCHANGED born
  BY <1>1 DEF NextPart, Does, Top, Task
<1>3. t \in Explicit /\ t \notin Threads
  BY <1>1, <1>2, Numbers DEF Born
<1>4. Len(s) # 1
  <2>1. s[Len(s)].task = th
    BY <1>1 DEF GoodStack, IsStack
  <2> QED
    BY <1>3, <2>1
<1>5. PICK r : r = <<f>> \o Tail(s)
  OBVIOUS
<1>6. f \in Frame /\ f.task = t /\ f.act = "finish"
  BY <1>1 DEF Frame, Acts
<1> HIDE DEF f
<1>7. IsTop(r, f, s)
  BY <1>1, <1>5, <1>6 DEF IsTop
<1>8. IsStack(parent, kind, LastTask, th, r)
  BY <1>1, <1>3, <1>4, <1>6, <1>7, StackTopped DEF GoodStack
<1>9. Obedient(kind, Ancestors, r)
  BY <1>1, <1>2, <1>6, <1>7, ObedientTopped DEF GoodStack, TiedKinds
<1>10. GoodStack(th, r)
  BY <1>8, <1>9 DEF GoodStack
<1>11. Fits(t, r)
  BY <1>2 DEF Fits, TiedKinds
<1>12. CASE Defer(th, t, r)
  BY <1>1, <1>2, <1>3, <1>10, <1>12, DeferStep
<1>13. CASE RunNow(th, t, r, TRUE)
  BY <1>1, <1>2, <1>3, <1>10, <1>11, <1>13, RunNowStep
<1>14. Defer(th, t, r) \/ RunNow(th, t, r, TRUE)
  BY <1>2, <1>5 DEF NextPart, f
<1> QED
  BY <1>12, <1>13, <1>14

LEMMA RemoveKeeps ==
  ASSUME CInv, NEW th \in Threads, RemoveMyTask(th)
  PROVE  CInv'
<1> DEFINE s == stack[th]
<1>1. /\ Born /\ Head(s) = s[1] /\ s[1].task \in Tasks
  BY StackFacts
<1>2. PICK t : t = Last(deque[th])
  OBVIOUS
<1>3. t \in Explicit /\ t <= LastTask /\ GoodDeques(deque') /\ UNCHANGED born
  BY <1>2, DequesTaken DEF RemoveMyTask
<1>4. Fits(t, s)
  <2>1. s[1].act \in Suspended \cup {"barrier"}
    BY <1>1 DEF RemoveMyTask, CanTake, Top, Suspended
  <2>2. kind[t] = "tied" /\ s[1].act # "barrier" => s[1].task \in Ancestors[t]
    BY <1>1, <1>2 DEF RemoveMyTask, RemoveAllowed, Constrained, Does, Top, Task, Descends
  <2>3. kind[t] # "implicit" /\ t \in Tasks
    BY <1>1, <1>3, Numbers DEF Born
  <2> QED
    BY <1>1, <2>1, <2>2, <2>3, Tree DEF Fits, TiedKinds, Suspended, Working
<1>5. InvokeTaken(th, t)
  BY <1>2 DEF RemoveMyTask
<1> QED
  BY <1>3, <1>4, <1>5, InvokeTakenStep

LEMMA StealKeeps ==
  ASSUME CInv, NEW th \in Threads, NEW victim \in Threads, StealTask(th, victim)
  PROVE  CInv'
<1> DEFINE s == stack[th]
<1>1. /\ Born /\ Head(s) = s[1] /\ s[1].task \in Tasks
  BY StackFacts
<1>2. PICK t : t = Head(deque[victim])
  OBVIOUS
<1>3. t \in Explicit /\ t <= LastTask /\ GoodDeques(deque') /\ UNCHANGED born
  BY <1>2, DequesTaken DEF StealTask
<1>4. Fits(t, s)
  <2>1. s[1].act \in Suspended \cup {"barrier"}
    BY <1>1 DEF StealTask, CanTake, Top, Suspended
  <2>2. s[1].act # "barrier" => s[1].task \in Ancestors[t]
    BY <1>1, <1>2 DEF StealTask, Constrained, Does, Top, Task, Descends
  <2>3. t \in Tasks
    BY <1>1, <1>3, Numbers DEF Born
  <2> QED
    BY <1>1, <2>1, <2>2, <2>3, Tree DEF Fits, TiedKinds, Suspended, Working
<1>5. InvokeTaken(th, t)
  BY <1>2 DEF StealTask
<1> QED
  BY <1>3, <1>4, <1>5, InvokeTakenStep

LEMMA ReleaseKeeps ==
  ASSUME CInv, NEW th \in Threads, Release(th)
  PROVE  CInv'
<1> DEFINE s == stack[th]
           t == s[1].task
<1>1. /\ Born /\ s \in Seq(Frame) /\ s # <<>> /\ GoodStack(th, s) /\ Len(s) \in Nat \ {0}
      /\ Head(s) = s[1] /\ t \in Tasks /\ t <= LastTask
  BY StackFacts
<1>2. s[1].act = "release" /\ Task(th) = t /\ Len(s) # 1
  <2>1. s[1].act = "release" /\ Task(th) = t
    BY <1>1 DEF Release, Does, Top, Task
  <2>2. Len(s) # 1
    BY <1>1, <2>1 DEF GoodStack, IsStack, Suspended
  <2> QED
    BY <2>1, <2>2
<1>3. ASSUME NEW u \in Successors(t), Defer(th, u, s) \/ RunNow(th, u, s, FALSE), UNCHANGED born
      PROVE  CInv'
  <2>1. u \in Explicit /\ u \in Tasks /\ after[u] = t /\ t # Null
    BY <1>1, Numbers DEF Successors
  <2>2. u <= LastTask /\ parent[u] = parent[t]
    BY <1>1, <2>1 DEF Born, LastTask
  <2>3. Ancestors[t] \subseteq Ancestors[u]
    BY <1>1, <2>1, <2>2, Tree
  <2>4. Fits(u, s)
    BY <1>2, <2>3 DEF Fits, Working, Suspended
  <2>5. CASE Defer(th, u, s)
    BY <1>1, <1>3, <2>1, <2>2, <2>5, DeferStep
  <2>6. CASE RunNow(th, u, s, FALSE)
    BY <1>1, <1>3, <2>1, <2>2, <2>4, <2>6, RunNowStep
  <2> QED
    BY <1>3, <2>5, <2>6
<1>4. ASSUME Become(th, "free"), UNCHANGED <<born, deque>> PROVE CInv'
  <2>1. "free" \in Acts \ {"submit", "bottom"} /\ "free" # "barrier" /\ "free" \notin Working
    BY DEF Acts, Working
  <2> QED
    BY <1>2, <1>4, <2>1, BecomeStep
<1>5. \/ \E u \in Successors(t) : (Defer(th, u, s) \/ RunNow(th, u, s, FALSE)) /\ UNCHANGED born
      \/ Become(th, "free") /\ UNCHANGED <<born, deque>>
  BY <1>2 DEF Release
<1> QED
  BY <1>3, <1>4, <1>5

(* The top frame goes on in the same task.                                  *)
LEMMA WaitsKeep ==
  ASSUME CInv, NEW th \in Threads,
         TaskWait(th) \/ WaitEnds(th) \/ EndTaskGroup(th) \/ GroupEnds(th)
  PROVE  CInv'
<1>1. Head(stack[th]) = stack[th][1]
  BY StackFacts
<1>2. PICK a \in Suspended : Become(th, a) /\ stack[th][1].act \in Suspended /\ UNCHANGED <<born, deque>>
  BY <1>1 DEF TaskWait, WaitEnds, EndTaskGroup, GroupEnds, Does, Top, Suspended
<1>3. a \in Acts \ {"submit", "bottom"} /\ a # "barrier" /\ stack[th][1].act \in Working
  BY <1>2 DEF Suspended, Acts, Working
<1> QED
  BY <1>2, <1>3, BecomeStep

LEMMA BodyEndsKeeps ==
  ASSUME CInv, NEW th \in Threads, BodyEnds(th)
  PROVE  CInv'
<1> DEFINE s == stack[th]
<1>1. Born /\ GoodStack(th, s) /\ Head(s) = s[1] /\ Len(s) \in Nat \ {0}
  BY StackFacts
<1>2. PICK a : a = IF s[1].task \in Threads THEN "barrier" ELSE "finish"
  OBVIOUS
<1>3. s[1].act = "run" /\ Become(th, a) /\ UNCHANGED <<born, deque>>
  BY <1>1, <1>2 DEF BodyEnds, Does, Top, Task
<1>4. Len(s) = 1 => a = "barrier"
  BY <1>1, <1>2 DEF GoodStack, IsStack
<1>5. Len(s) # 1 => a = "finish"
  <2>1. Len(s) # 1 => 1 \in 1..Len(s) /\ 1 < Len(s)
    BY <1>1, MoreThanOne
  <2>2. Len(s) # 1 => s[1].task \in Explicit
    BY <1>1, <2>1 DEF GoodStack, IsStack
  <2> QED
    BY <1>1, <1>2, <2>2, Numbers
<1>6. a \in Acts \ {"submit", "bottom"} /\ s[1].act \in Working
  BY <1>2, <1>3 DEF Acts, Working
<1> QED
  BY <1>3, <1>4, <1>5, <1>6, BecomeStep

LEMMA EndsKeep ==
  ASSUME CInv, NEW th \in Threads, Finish(th) \/ Ungroup(th) \/ BottomHalf(th) \/ Return(th)
  PROVE  CInv'
<1> DEFINE s == stack[th]
<1>1. Born /\ GoodStack(th, s) /\ Head(s) = s[1] /\ Len(s) \in Nat \ {0}
  BY StackFacts
<1>2. /\ s[1].act \in {"finish", "ungroup", "bottom", "return"}
      /\ s[1].act = "bottom" => kind[s[1].task] = "proxy"
      /\ UNCHANGED <<born, deque>>
      /\ Pop(th) \/ \E a \in {"ungroup", "release"} : Become(th, a) /\ s[1].act # "return"
  <2>1. 1 \in 1..Len(s)
    BY <1>1
  <2> QED
    BY <1>1, <2>1 DEF Finish, Ungroup, BottomHalf, Return, Does, Top, GoodStack, IsStack
<1>3. CASE Pop(th)
  <2>1. GoodStack(th, Tail(s))
    BY <1>2, PopStep DEF Suspended
  <2> QED
    BY <1>2, <1>3, <2>1, OneStack, SameDeques DEF Pop
<1>4. ASSUME NEW a \in {"ungroup", "release"}, Become(th, a), s[1].act # "return" PROVE CInv'
  <2>1. Len(s) # 1
    BY <1>1, <1>2 DEF GoodStack, IsStack, Suspended
  <2>2. a \in Acts \ {"submit", "bottom"} /\ a # "barrier"
    BY DEF Acts
  <2>3. s[1].act \in Working \/ kind[s[1].task] \notin TiedKinds
    BY <1>2, <1>4 DEF Working, TiedKinds
  <2> QED
    BY <1>2, <1>4, <2>1, <2>2, <2>3, BecomeStep
<1> QED
  BY <1>2, <1>3, <1>4

LEMMA FreeKeeps ==
  ASSUME CInv, NEW th \in Threads, Free(th)
  PROVE  CInv'
<1> DEFINE s == stack[th]
<1>1. /\ Born /\ s \in Seq(Frame) /\ s # <<>> /\ GoodStack(th, s) /\ Len(s) \in Nat \ {0}
      /\ Head(s) = s[1] /\ s[1].task \in Tasks /\ s[1].task <= LastTask /\ LastTask \in Int
  BY StackFacts, Numbers
<1>2. s[1].act = "free" /\ Task(th) = s[1].task /\ UNCHANGED <<born, deque>>
  BY <1>1 DEF Free, Does, Top, Task
<1>3. CASE Pop(th)
  <2>1. GoodStack(th, Tail(s))
    BY <1>2, PopStep DEF Suspended
  <2> QED
    BY <1>2, <1>3, <2>1, OneStack, SameDeques DEF Pop
<1>4. CASE Above(s[1].task) # Null /\ stack' = [stack EXCEPT ![th][1].task = Above(s[1].task)]
  <2>1. PICK u : u = Above(s[1].task)
    OBVIOUS
  <2>2. u \in Explicit /\ u = parent[s[1].task] /\ u \in Tasks /\ u # Null
    BY <1>1, <1>4, <2>1, Numbers DEF Above
  <2>3. u <= LastTask
    <3>1. u < s[1].task
      BY <1>1, <2>2 DEF Born
    <3> QED
      BY <1>1, <2>2, <3>1, Numbers
  <2>4. PICK f : f = [task |-> u, act |-> s[1].act]
    OBVIOUS
  <2>5. f \in Frame /\ f.task = u /\ f.act = "free"
    BY <1>2, <2>2, <2>4 DEF Frame, Acts
  <2>6. PICK r : r = [s EXCEPT ![1].task = u] /\ IsTop(r, f, s)
    BY <1>1, <2>2, <2>4, ToppedTask
  <2>7. stack' = [stack EXCEPT ![th] = r]
    BY <1>4, <2>1, <2>6
  <2>8. Len(s) # 1
    BY <1>1, <1>2 DEF GoodStack, IsStack, Suspended
  <2>9. IsStack(parent, kind, LastTask, th, r)
    BY <1>1, <2>2, <2>3, <2>5, <2>6, <2>8, StackTopped DEF GoodStack
  <2>10. Obedient(kind, Ancestors, r)
    BY <1>1, <2>5, <2>6, ObedientTopped DEF GoodStack, Working
  <2> QED
    BY <1>2, <2>7, <2>9, <2>10, OneStack, SameDeques DEF GoodStack
<1>5. Pop(th) \/ (Above(s[1].task) # Null /\ stack' = [stack EXCEPT ![th][1].task = Above(s[1].task)])
  BY <1>2 DEF Free
<1> QED
  BY <1>3, <1>4, <1>5

LEMMA GroupsKeep ==
  ASSUME CInv, NEW th \in Threads, TaskGroup(th) \/ Cancel(th)
  PROVE  CInv'
<1>1. UNCHANGED <<born, stack, deque>>
  BY DEF TaskGroup, Cancel
<1> QED
  BY <1>1, AllSame, SameDeques

LEMMA OutsideKeeps ==
  ASSUME CInv, NEW p \in Explicit, Outside(p)
  PROVE  CInv'
<1>1. CASE FirstTopHalf(p) \/ SecondTopHalf(p)
  <2>1. UNCHANGED <<born, stack, deque>>
    BY <1>1 DEF FirstTopHalf, SecondTopHalf
  <2> QED
    BY <2>1, AllSame, SameDeques
<1>2. ASSUME NEW th \in Threads, GiveTask(p, th) PROVE CInv'
  <2>1. UNCHANGED born /\ UNCHANGED stack /\ deque' = [deque EXCEPT ![th] = Append(@, p)] /\ kind[p] = "proxy"
    BY <1>2 DEF GiveTask
  <2>2. p <= LastTask
    <3>1. p \in Tasks /\ p \in Nat /\ LastTask \in Nat
      BY Numbers DEF CInv
    <3>2. ~(p > LastTask)
      BY <2>1, <3>1 DEF CInv, Born, LastTask
    <3> QED
      BY <3>1, <3>2
  <2> QED
    BY <2>1, <2>2, DequesAppended, AllSame
<1> QED
  BY <1>1, <1>2 DEF Outside

LEMMA AllocKeeps ==
  ASSUME CInv, NEW th \in Threads, NEW k \in program.kinds, NEW p \in Explicit \cup {Null}, Alloc(th, k, p)
  PROVE  CInv'
<1> DEFINE s == stack[th]
           cur == s[1].task
           t == NThreads + made + 1
           f == [task |-> t, act |-> "submit"]
<1>1. /\ Born /\ s \in Seq(Frame) /\ s # <<>> /\ GoodStack(th, s) /\ Len(s) \in Nat \ {0}
      /\ Head(s) = s[1] /\ cur \in Tasks /\ cur <= LastTask /\ LastTask \in Int
  BY StackFacts, Numbers
<1>2. /\ s[1].act = "run" /\ made < program.tasks /\ made' = made + 1
      /\ kind' = [kind EXCEPT ![t] = k] /\ parent' = [parent EXCEPT ![t] = cur]
      /\ after' = [after EXCEPT ![t] = p] /\ UNCHANGED <<program, deque>>
      /\ stack' = [stack EXCEPT ![th] = <<f>> \o @]
      /\ p # Null => parent[p] = cur /\ kind[p] \in program.preds
  BY <1>1, Zenon DEF Alloc, Does, Top, Task, Push
<1>3. t \in Explicit /\ t \in Tasks /\ t = LastTask + 1 /\ t \notin Threads
  <2>1. /\ NThreads \in Nat /\ made \in Nat /\ MaxTasks \in Nat /\ program.tasks \in Nat
        /\ made < program.tasks /\ program.tasks <= MaxTasks
    BY <1>1, <1>2, Numbers, BoundsAssumption
  <2>2. t \in Explicit /\ t \notin Threads /\ t = LastTask + 1
    BY <2>1 DEF Explicit, Threads, LastTask
  <2> QED
    BY <1>1, <2>2, Numbers
<1>4. program.kinds \subseteq TaskKinds /\ program.preds \subseteq TaskKinds
  BY <1>1, ProgramsAssumption DEF Born
<1>5. p # Null => p \in Tasks /\ p <= LastTask /\ p \in Int
  <2>1. SUFFICES ASSUME p # Null PROVE p \in Tasks /\ p <= LastTask /\ p \in Int
    OBVIOUS
  <2>2. p \in Tasks /\ p \in Int
    BY <1>1, <2>1, Numbers
  <2>3. ~(p > LastTask)
    BY <1>1, <1>2, <1>4, <2>1, <2>2 DEF Born, LastTask, TaskKinds
  <2> QED
    BY <1>1, <2>2, <2>3
<1>6. Tasks \subseteq Nat /\ Explicit \subseteq Tasks /\ Null \notin Tasks /\ cur # Null
  BY <1>1, Numbers
<1>7. Born'
  <2>1. program' \in Programs /\ made' \in 0..program'.tasks
    <3>1. made \in Nat /\ program.tasks \in Nat /\ program \in Programs
      BY <1>1, Numbers DEF Born
    <3>2. program' = program /\ made' = made + 1 /\ made < program.tasks
      BY <1>2
    <3> QED
      BY <3>1, <3>2
  <2>2. kind' \in [Tasks -> {"implicit", "none", "tied", "untied", "proxy"}]
    BY <1>1, <1>2, <1>4 DEF Born, TaskKinds
  <2>3. parent' \in [Tasks -> Tasks \cup {Null}] /\ after' \in [Tasks -> Tasks \cup {Null}]
    BY <1>1, <1>2, <1>5 DEF Born
  <2>4. ASSUME NEW u \in Tasks
        PROVE  /\ kind'[u] = "implicit" <=> u \in Threads
               /\ kind'[u] = "none" <=> u > NThreads + made'
               /\ parent'[u] # Null <=> kind'[u] \notin {"implicit", "none"}
               /\ parent'[u] # Null => parent'[u] < u
               /\ after'[u] # Null => /\ after'[u] \in Explicit /\ u \in Explicit /\ after'[u] < u
                                      /\ u <= NThreads + made' /\ parent'[after'[u]] = parent'[u]
    <3>1. CASE u = t
      <4>1. kind'[u] = k /\ parent'[u] = cur /\ after'[u] = p /\ k \in {"tied", "untied", "proxy"}
        BY <1>1, <1>2, <1>3, <1>4, <3>1 DEF Born, TaskKinds
      <4>2. p # Null => p # t /\ parent'[p] = cur /\ p \in Explicit /\ p < t
        BY <1>1, <1>2, <1>3, <1>5 DEF Born
      <4>3. ~(u > NThreads + made') /\ u <= NThreads + made' /\ cur < u
        <5>1. PICK n \in Nat, m \in Nat, v \in Nat : n = NThreads /\ m = made /\ v = cur
          BY <1>1, <1>6, Numbers
        <5>2. made' = m + 1 /\ u = n + m + 1 /\ v <= n + m
          BY <1>1, <1>2, <1>3, <3>1, <5>1 DEF LastTask
        <5>3. ~(u > n + (m + 1)) /\ u <= n + (m + 1) /\ v < u
          BY <5>1, <5>2
        <5> QED
          BY <5>1, <5>2, <5>3
      <4> QED
        BY <1>3, <1>6, <3>1, <4>1, <4>2, <4>3
    <3>2. CASE u # t
      <4>1. kind'[u] = kind[u] /\ parent'[u] = parent[u] /\ after'[u] = after[u]
        BY <1>1, <1>2, <3>2 DEF Born
      <4>2. u > NThreads + made' <=> u > NThreads + made
        <5>1. u \in Nat /\ made \in Nat /\ NThreads \in Nat /\ made' = made + 1
          BY <1>1, <1>2, <1>6, Numbers
        <5> QED
          BY <3>2, <5>1
      <4>3. u <= NThreads + made => u <= NThreads + made'
        BY <1>1, <1>2, <1>6, Numbers
      <4>4. after[u] # Null => parent'[after[u]] = parent[after[u]]
        <5>1. after[u] # Null => after[u] \in Tasks /\ after[u] # t
          BY <1>1, <1>3, <1>6, Numbers DEF Born, LastTask
        <5> QED
          BY <1>1, <1>2, <5>1 DEF Born
      <4> QED
        BY <1>1, <4>1, <4>2, <4>3, <4>4 DEF Born
    <3> QED
      BY <3>1, <3>2
  <2> QED
    BY <2>1, <2>2, <2>3, <2>4 DEF Born
<1>8. \A u \in Tasks : u <= LastTask => parent[u] = parent'[u] /\ kind[u] = kind'[u]
  BY <1>1, <1>2, <1>3, <1>6 DEF Born
<1>9. \A u \in Tasks : u <= LastTask => kind[u] = kind'[u] /\ Ancestors[u] = Ancestors'[u]
  <2>1. IsTree(parent) /\ IsLineage(parent, Ancestors)
    BY <1>1, TreeOfTasks
  <2>2. IsTree(parent') /\ IsLineage(parent', Ancestors')
    BY <1>7, LineagePrime DEF IsTree, Born
  <2>3. LastTask \in Nat
    BY <1>1, Numbers
  <2> QED
    BY <1>8, <2>1, <2>2, <2>3, LineageKept
<1>10. NThreads + made' = LastTask + 1 /\ LastTask + 1 \in Int /\ LastTask <= LastTask + 1 /\ Tasks \subseteq Int
  <2>1. PICK n \in Nat, m \in Nat : n = NThreads /\ m = made
    BY <1>1, Numbers
  <2>2. made' = m + 1 /\ LastTask = n + m
    BY <1>2, <2>1 DEF LastTask
  <2>3. n + (m + 1) = (n + m) + 1 /\ (n + m) + 1 \in Int /\ n + m <= (n + m) + 1
    BY <2>1
  <2> QED
    BY <1>6, <2>1, <2>2, <2>3
<1>11. ASSUME NEW x \in Threads
       PROVE  /\ IsStack(parent', kind', LastTask + 1, x, stack[x]) /\ IsDeque(LastTask + 1, deque[x])
              /\ Obedient(kind', Ancestors', stack[x]) /\ stack[x] \in Seq(Frame)
  <2>1. /\ IsStack(parent, kind, LastTask, x, stack[x]) /\ IsDeque(LastTask, deque[x])
        /\ Obedient(kind, Ancestors, stack[x]) /\ stack[x] \in Seq(Frame)
    BY DEF CInv, LastTask
  <2>2. IsStack(parent', kind', LastTask + 1, x, stack[x])
    BY <1>1, <1>8, <1>10, <2>1, StackKept
  <2>3. IsDeque(LastTask + 1, deque[x])
    BY <1>1, <1>6, <1>10, <2>1, DequeKept
  <2>4. \A i \in 1..Len(stack[x]) : stack[x][i].task <= LastTask
    BY <2>1 DEF IsStack
  <2>5. Obedient(kind', Ancestors', stack[x])
    BY <1>1, <1>9, <2>1, <2>4, ObedientKept
  <2> QED
    BY <2>1, <2>2, <2>3, <2>5
<1>12. f \in Frame /\ f.task = t /\ f.act = "submit"
  BY <1>3 DEF Frame, Acts
<1>13. PICK r : r = <<f>> \o s
  OBVIOUS
<1>14. IsPush(r, f, s)
  BY <1>1, <1>12, <1>13, Pushed
<1>15. parent'[t] = cur
  BY <1>1, <1>2, <1>3 DEF Born
<1>16. f.task \in Explicit /\ f.task <= LastTask + 1 /\ f.act \notin {"barrier", "bottom"} \cup Working
  BY <1>3, <1>10, <1>12 DEF Working
<1> HIDE DEF f, t, cur
<1>17. IsStack(parent', kind', LastTask + 1, th, r)
  BY <1>2, <1>10, <1>11, <1>12, <1>14, <1>15, <1>16, StackPushed DEF cur
<1>18. Obedient(kind', Ancestors', r)
  BY <1>1, <1>11, <1>12, <1>14, <1>16, ObedientPushed
<1>19. stack' = [stack EXCEPT ![th] = r] /\ r \in Seq(Frame)
  BY <1>2, <1>13, <1>14 DEF IsPush
<1>20. ASSUME NEW x \in Threads
       PROVE  /\ IsStack(parent', kind', NThreads + made', x, stack'[x])
              /\ IsDeque(NThreads + made', deque'[x])
              /\ Obedient(kind', Ancestors', stack'[x])
  BY <1>2, <1>10, <1>11, <1>17, <1>18, <1>19 DEF CInv
<1>21. stack' \in [Threads -> Seq(Frame)] /\ deque' \in [Threads -> Seq(Explicit)]
  BY <1>2, <1>19 DEF CInv
<1> QED
  BY <1>7, <1>20, <1>21 DEF CInv

LEMMA CInvInit == Init => CInv
<1> SUFFICES ASSUME Init PROVE CInv
  OBVIOUS
<1>1. /\ NThreads \in Nat \ {0} /\ MaxTasks \in Nat /\ Masters \subseteq 1..NThreads
      /\ Threads \subseteq Tasks /\ Tasks \subseteq Nat
  BY ThreadsAssumption, BoundsAssumption DEF Threads, Tasks
<1>2. program \in Programs /\ made \in 0..program.tasks /\ made = 0
  <2>1. program \in [kinds : SUBSET TaskKinds, preds : SUBSET TaskKinds, openers : SUBSET Tasks,
                       cancels : BOOLEAN, tasks : 0..MaxTasks, parts : Nat \ {0}]
    BY ProgramsAssumption DEF Init
  <2>2. program.tasks \in 0..MaxTasks
    BY <2>1
  <2> QED
    BY <1>1, <2>2 DEF Init
<1>3. Born
  <2>1. \A t \in Tasks : t \in Threads <=> ~(t > NThreads + 0)
    BY <1>1 DEF Threads, Tasks
  <2> QED
    BY <1>1, <1>2, <2>1 DEF Init, Born
<1>4. ASSUME NEW th \in Threads
      PROVE  /\ stack[th] \in Seq(Frame) /\ deque[th] \in Seq(Explicit)
             /\ IsStack(parent, kind, NThreads + made, th, stack[th])
             /\ IsDeque(NThreads + made, deque[th])
             /\ Obedient(kind, Ancestors, stack[th])
  <2>1. PICK f : f = [task |-> th, act |-> IF th \in Masters THEN "run" ELSE "barrier"]
    OBVIOUS
  <2>2. f \in Frame /\ f.task = th /\ f.act \in {"run", "barrier"}
    BY <1>1, <2>1 DEF Frame, Acts
  <2>3. stack[th] = <<f>> /\ deque[th] = <<>>
    BY <2>1 DEF Init
  <2>4. Len(stack[th]) = 1 /\ stack[th][1] = f /\ stack[th] \in Seq(Frame)
    BY <2>2, <2>3
  <2>5. f.task <= NThreads + made
    BY <1>1, <1>2, <2>2 DEF Threads
  <2>6. IsStack(parent, kind, NThreads + made, th, stack[th])
    BY <2>2, <2>3, <2>4, <2>5 DEF IsStack, Suspended
  <2>7. Obedient(kind, Ancestors, stack[th])
    BY <2>4 DEF Obedient
  <2>8. IsDeque(NThreads + made, deque[th]) /\ deque[th] \in Seq(Explicit)
    BY <2>3 DEF IsDeque
  <2> QED
    BY <2>4, <2>6, <2>7, <2>8
<1>5. stack \in [Threads -> Seq(Frame)] /\ deque \in [Threads -> Seq(Explicit)]
  <2>1. \E F, G : stack = [th \in Threads |-> F[th]] /\ deque = [th \in Threads |-> G[th]]
    <3>1. stack = [th \in Threads |-> stack[th]] /\ deque = [th \in Threads |-> deque[th]]
      BY DEF Init
    <3> QED
      BY <3>1
  <2> QED
    BY <1>4, <2>1
<1> QED
  BY <1>3, <1>4, <1>5 DEF CInv

LEMMA CInvNext == CInv /\ [Next]_vars => CInv'
<1> SUFFICES ASSUME CInv, [Next]_vars PROVE CInv'
  OBVIOUS
<1>1. CASE UNCHANGED vars
  BY <1>1, AllSame, SameDeques DEF vars
<1>2. ASSUME NEW th \in Threads, Body(th) PROVE CInv'
  BY <1>2, AllocKeeps, NextPartKeeps, WaitsKeep, GroupsKeep, BodyEndsKeeps DEF Body
<1>3. ASSUME NEW th \in Threads, Runtime(th) PROVE CInv'
  BY <1>3, SubmitKeeps, WaitsKeep, EndsKeep, ReleaseKeeps, FreeKeeps, RemoveKeeps, StealKeeps DEF Runtime
<1>4. ASSUME NEW p \in Explicit, Outside(p) PROVE CInv'
  BY <1>4, OutsideKeeps
<1> QED
  BY <1>1, <1>2, <1>3, <1>4 DEF Next

LEMMA CInvMeansConstraint == CInv => ConstraintUnlessUntied
<1> SUFFICES ASSUME CInv, NEW th \in Threads,
                    \A i \in DOMAIN stack[th] : kind[stack[th][i].task] \notin {"untied", "proxy"}
             PROVE  Obeys(th)
  BY DEF ConstraintUnlessUntied
<1>1. stack[th] \in Seq(Frame) /\ GoodStack(th, stack[th]) /\ Born
  BY StackFacts
<1>2. DOMAIN stack[th] = 1..Len(stack[th])
  BY <1>1
<1> SUFFICES ASSUME NEW i \in DOMAIN stack[th], NEW j \in DOMAIN stack[th], i < j,
                    Tied(stack[th][i]), Tied(stack[th][j])
             PROVE  Descends(stack[th][i].task, stack[th][j].task)
  BY DEF Obeys
<1>3. ASSUME NEW h \in i..j PROVE kind[stack[th][h].task] \in TiedKinds
  <2>1. h \in DOMAIN stack[th] /\ h \in 1..Len(stack[th])
    BY <1>2
  <2>2. stack[th][h] \in Frame
    BY <1>1, <2>1
  <2>3. stack[th][h].task \in Tasks /\ stack[th][h].task <= LastTask
    BY <1>1, <2>1, <2>2 DEF Frame, GoodStack, IsStack
  <2>4. ~(stack[th][h].task > LastTask)
    <3>1. PICK t \in Nat : t = stack[th][h].task
      BY <1>1, <2>3, Numbers
    <3> QED
      BY <1>1, <2>3, <3>1, Numbers
  <2>5. kind[stack[th][h].task] \in {"implicit", "tied", "untied", "proxy"}
    BY <1>1, <2>3, <2>4 DEF Born, LastTask
  <2> QED
    BY <2>1, <2>5 DEF TiedKinds
<1>4. stack[th][i].act \in Working /\ stack[th][j].act \in Suspended
  BY DEF Tied, Working, Suspended
<1> QED
  BY <1>1, <1>2, <1>3, <1>4 DEF GoodStack, Obedient, Between, Descends

(* A tied task that a thread runs descends from the tied tasks it has       *)
(* suspended, as long as no untied or proxy task is on its stack.           *)
THEOREM ConstraintHolds == Spec => []ConstraintUnlessUntied
<1>1. Init => CInv
  BY CInvInit
<1>2. CInv /\ [Next]_vars => CInv'
  BY CInvNext
<1>3. CInv => ConstraintUnlessUntied
  BY CInvMeansConstraint
<1> QED
  BY <1>1, <1>2, <1>3, PTL DEF Spec

One(b) == IF b THEN 1 ELSE 0

(* The places of a list and of a function to lists that hold one of C.      *)
Indices(list, C) == {i \in DOMAIN list : list[i] \in C}
Places(f, C)     == UNION {{t} \X Indices(f[t], C) : t \in DOMAIN f}
Num(f, C)        == Cardinality(Places(f, C))

(* A value is at finitely many places of a list.                            *)
LEMMA IndicesAreFinite ==
  ASSUME NEW T, NEW l \in Seq(T), NEW C
  PROVE  /\ IsFiniteSet(Indices(l, C)) /\ Cardinality(Indices(l, C)) \in Nat
         /\ Indices(l, C) \subseteq 1..Len(l)
<1>1. IsFiniteSet(1..Len(l))
  BY FS_Interval
<1>2. Indices(l, C) \in SUBSET (1..Len(l))
  BY DEF Indices
<1> QED
  BY <1>1, <1>2, FS_Subset, FS_CardinalityType

(* The first element of a list is one place more.                           *)
LEMMA IndicesOfTail ==
  ASSUME NEW T, NEW l \in Seq(T), l # <<>>, NEW C
  PROVE  Cardinality(Indices(l, C))
           = Cardinality(Indices(Tail(l), C)) + One(Head(l) \in C)
<1> DEFINE I == Indices(l, C)
           J == Indices(Tail(l), C)
           K == I \ {1}
           f == [i \in J |-> i + 1]
<1>1. Tail(l) \in Seq(T) /\ Len(l) \in Nat \ {0} /\ Len(Tail(l)) = Len(l) - 1
      /\ Head(l) = l[1] /\ \A i \in 1..Len(Tail(l)) : Tail(l)[i] = l[i + 1]
  OBVIOUS
<1>2. /\ IsFiniteSet(I) /\ I \subseteq 1..Len(l) /\ Cardinality(I) \in Nat
      /\ IsFiniteSet(J) /\ J \subseteq 1..Len(Tail(l)) /\ Cardinality(J) \in Nat
  BY <1>1, IndicesAreFinite
<1>3. \A i : i \in J <=> i \in 1..Len(l) - 1 /\ l[i + 1] \in C
  BY <1>1 DEF Indices
<1>4. \A i : i \in I <=> i \in 1..Len(l) /\ l[i] \in C
  BY DEF Indices
<1>5. f \in Bijection(J, K)
  <2>1. \A i \in J : i \in Int /\ i + 1 \in K
    BY <1>1, <1>2, <1>3, <1>4
  <2>2. \A k \in K : k - 1 \in J /\ k \in Int
    BY <1>1, <1>2, <1>3, <1>4
  <2>3. f \in [J -> K] /\ \A i, j \in J : f[i] = f[j] => i = j
    BY <2>1
  <2>4. \A k \in K : \E i \in J : f[i] = k
    <3> SUFFICES ASSUME NEW k \in K PROVE \E i \in J : f[i] = k
      OBVIOUS
    <3>1. k - 1 \in J /\ k \in Int
      BY <2>2
    <3>2. f[k - 1] = (k - 1) + 1
      BY <3>1
    <3> QED
      BY <3>1, <3>2
  <2>5. f \in Injection(J, K)
    BY <2>3 DEF Injection, IsInjective
  <2>6. f \in Surjection(J, K)
    BY <2>3, <2>4 DEF Surjection
  <2> QED
    BY <2>5, <2>6 DEF Bijection
<1>6. Cardinality(K) = Cardinality(J)
  <2>1. ExistsBijection(J, K)
    BY <1>5 DEF ExistsBijection
  <2> QED
    BY <1>2, <2>1, FS_Bijection
<1>7. Cardinality(K) = Cardinality(I) - One(1 \in I)
  <2>1. Cardinality(K) = IF 1 \in I THEN Cardinality(I) - 1 ELSE Cardinality(I)
    BY <1>2, FS_RemoveElement
  <2> QED
    BY <1>2, <2>1 DEF One
<1>8. 1 \in I <=> Head(l) \in C
  BY <1>1, <1>4
<1> QED
  BY <1>2, <1>6, <1>7, <1>8 DEF One

(* An element put before a list.                                            *)
LEMMA IndicesOfCons ==
  ASSUME NEW T, NEW l \in Seq(T), NEW x \in T, NEW C
  PROVE  Cardinality(Indices(<<x>> \o l, C)) = Cardinality(Indices(l, C)) + One(x \in C)
<1> DEFINE s == <<x>> \o l
<1>1. s \in Seq(T) /\ s # <<>> /\ Head(s) = x /\ Tail(s) = l
  <2>1. s \in Seq(T) /\ Len(s) = Len(l) + 1 /\ s[1] = x
        /\ \A i \in 1..Len(l) : s[i + 1] = l[i]
    OBVIOUS
  <2>2. s # <<>> /\ Head(s) = x
    BY <2>1
  <2>3. Tail(s) \in Seq(T) /\ Len(Tail(s)) = Len(l)
        /\ \A i \in 1..Len(l) : Tail(s)[i] = l[i]
    BY <2>1, <2>2
  <2>4. Tail(s) = l
    BY <2>3
  <2> QED
    BY <2>1, <2>2, <2>4
<1> HIDE DEF s
<1>2. Cardinality(Indices(s, C)) = Cardinality(Indices(Tail(s), C)) + One(Head(s) \in C)
  BY <1>1, IndicesOfTail
<1> QED
  BY <1>1, <1>2 DEF s

(* An element put behind a list.                                            *)
LEMMA IndicesOfAppend ==
  ASSUME NEW T, NEW l \in Seq(T), NEW x, NEW C
  PROVE  Cardinality(Indices(Append(l, x), C)) = Cardinality(Indices(l, C)) + One(x \in C)
<1> DEFINE I == Indices(l, C)
           J == Indices(Append(l, x), C)
<1>1. IsFiniteSet(I) /\ Cardinality(I) \in Nat /\ I \subseteq 1..Len(l)
  BY IndicesAreFinite
<1>2. /\ DOMAIN Append(l, x) = 1..Len(l) + 1 /\ Append(l, x)[Len(l) + 1] = x
      /\ DOMAIN l = 1..Len(l) /\ Len(l) \in Nat
      /\ \A i \in 1..Len(l) : Append(l, x)[i] = l[i]
  OBVIOUS
<1>3. \A i : i \in J <=> i \in I \/ (i = Len(l) + 1 /\ x \in C)
  BY <1>2 DEF Indices
<1>4. CASE x \in C
  <2>1. J = I \cup {Len(l) + 1} /\ Len(l) + 1 \notin I
    BY <1>1, <1>2, <1>3, <1>4
  <2> QED
    BY <1>1, <1>4, <2>1, FS_AddElement DEF One
<1>5. CASE x \notin C
  <2>1. J = I
    BY <1>3, <1>5
  <2> QED
    BY <1>1, <1>5, <2>1 DEF One
<1> QED
  BY <1>4, <1>5

(* Nothing is in the empty list.                                            *)
LEMMA IndicesOfEmpty ==
  ASSUME NEW C
  PROVE  Cardinality(Indices(<<>>, C)) = 0
<1>1. Indices(<<>>, C) = {}
  BY DEF Indices
<1> QED
  BY <1>1, FS_EmptySet

(* The lists of a function with a finite domain have a finite number of     *)
(* places for C, as many as its elements; there are none if no list has C.  *)
LEMMA PlacesAreFinite ==
  ASSUME NEW S, IsFiniteSet(S), NEW T, NEW f \in [S -> Seq(T)], NEW C
  PROVE  /\ IsFiniteSet(Places(f, C)) /\ Cardinality(Places(f, C)) \in Nat
         /\ Cardinality(Places(f, C)) = 0
              <=> \A t \in S : \A i \in DOMAIN f[t] : f[t][i] \notin C
<1> DEFINE G == {{t} \X Indices(f[t], C) : t \in S}
<1>1. IsFiniteSet(G)
  <2> DEFINE g == [t \in S |-> {t} \X Indices(f[t], C)]
  <2>1. g \in Surjection(S, G)
    BY DEF Surjection
  <2> QED
    BY <2>1, FS_Surjection
<1>2. \A s \in G : IsFiniteSet(s)
  <2> SUFFICES ASSUME NEW t \in S PROVE IsFiniteSet({t} \X Indices(f[t], C))
    OBVIOUS
  <2>1. IsFiniteSet({t}) /\ IsFiniteSet(Indices(f[t], C))
    BY FS_Singleton, IndicesAreFinite
  <2> QED
    BY <2>1, FS_Product
<1>3. Places(f, C) = UNION G
  BY DEF Places
<1>4. IsFiniteSet(Places(f, C))
  BY <1>1, <1>2, <1>3, FS_UNION
<1>5. Places(f, C) = {} <=> \A t \in S : \A i \in DOMAIN f[t] : f[t][i] \notin C
  <2>1. Places(f, C) = {} <=> \A t \in S : Indices(f[t], C) = {}
    <3>1. \A t \in S : Indices(f[t], C) = {} <=> {t} \X Indices(f[t], C) = {}
      <4> SUFFICES ASSUME NEW t \in S
                   PROVE  Indices(f[t], C) = {} <=> {t} \X Indices(f[t], C) = {}
        OBVIOUS
      <4>1. \A i \in Indices(f[t], C) : <<t, i>> \in {t} \X Indices(f[t], C)
        OBVIOUS
      <4>2. \A x \in {t} \X Indices(f[t], C) : x[2] \in Indices(f[t], C)
        OBVIOUS
      <4> QED
        BY <4>1, <4>2
    <3>2. UNION G = {} <=> \A s \in G : s = {}
      OBVIOUS
    <3> QED
      BY <1>3, <3>1, <3>2
  <2>2. \A t \in S : Indices(f[t], C) = {} <=> \A i \in DOMAIN f[t] : f[t][i] \notin C
    BY DEF Indices
  <2> QED
    BY <2>1, <2>2
<1> QED
  BY <1>4, <1>5, FS_EmptySet, FS_CardinalityType

(* Functions to lists that differ at one argument.                          *)
AreLists(S, T, f)    == f \in [S -> Seq(T)]
AgreeBut(S, f, g, p) == \A t \in S : t # p => g[t] = f[t]

LEMMA OneTimes ==
  ASSUME NEW p, NEW S, IsFiniteSet(S)
  PROVE  IsFiniteSet({p} \X S) /\ Cardinality({p} \X S) = Cardinality(S)
<1>1. PICK P : P = {p}
  OBVIOUS
<1>2. IsFiniteSet(P) /\ Cardinality(P) = 1
  BY <1>1, FS_Singleton
<1>3. IsFiniteSet(P \X S) /\ Cardinality(P \X S) = Cardinality(P) * Cardinality(S)
  BY <1>2, FS_Product
<1>4. PICK n \in Nat : n = Cardinality(S)
  BY FS_CardinalityType
<1>5. 1 * n = n
  OBVIOUS
<1> QED
  BY <1>1, <1>2, <1>3, <1>4, <1>5

(* One list of a function is replaced.                                      *)
LEMMA Replaced ==
  ASSUME NEW S, IsFiniteSet(S), NEW T, NEW f, NEW g, AreLists(S, T, f), AreLists(S, T, g),
         NEW p \in S, AgreeBut(S, f, g, p), NEW C
  PROVE  /\ Cardinality(Places(f, C)) \in Nat /\ Cardinality(Places(g, C)) \in Nat
         /\ Cardinality(Places(g, C)) + Cardinality(Indices(f[p], C))
              = Cardinality(Places(f, C)) + Cardinality(Indices(g[p], C))
<1> DEFINE Rest == UNION {{t} \X Indices(f[t], C) : t \in S \ {p}}
           F    == {p} \X Indices(f[p], C)
           G    == {p} \X Indices(g[p], C)
<1> USE DEF AreLists
<1>1. \A t \in S \ {p} : g[t] = f[t]
  BY DEF AgreeBut
<1>2. Places(f, C) = Rest \cup F /\ Rest \cap F = {}
  BY DEF Places
<1>3. Places(g, C) = Rest \cup G /\ Rest \cap G = {}
  <2>1. Places(g, C) = UNION {{t} \X Indices(g[t], C) : t \in S}
    BY <1>1 DEF Places
  <2>2. \A x : x \in Places(g, C) <=> \E t \in S : x \in {t} \X Indices(g[t], C)
    BY <2>1
  <2>3. \A x : x \in Rest <=> \E t \in S \ {p} : x \in {t} \X Indices(f[t], C)
    OBVIOUS
  <2>4. \A x : x \in Places(g, C) <=> x \in Rest \/ x \in G
    BY <1>1, <2>2, <2>3
  <2>5. Places(g, C) = Rest \cup G
    BY <2>4
  <2>6. Rest \cap G = {}
    OBVIOUS
  <2> QED
    BY <2>5, <2>6
<1>4. IsFiniteSet(Places(f, C)) /\ Rest \in SUBSET Places(f, C)
  BY <1>2, PlacesAreFinite
<1>5. IsFiniteSet(Rest)
  BY <1>4, FS_Subset
<1>6. /\ IsFiniteSet(F) /\ Cardinality(F) = Cardinality(Indices(f[p], C))
      /\ IsFiniteSet(G) /\ Cardinality(G) = Cardinality(Indices(g[p], C))
  <2>1. IsFiniteSet(Indices(f[p], C)) /\ IsFiniteSet(Indices(g[p], C))
    BY IndicesAreFinite
  <2> QED
    BY <2>1, OneTimes
<1>7. Cardinality(Rest) \in Nat /\ Cardinality(F) \in Nat /\ Cardinality(G) \in Nat
  BY <1>5, <1>6, FS_CardinalityType
<1> HIDE DEF Rest, F, G
<1>8. Cardinality(Places(f, C)) = Cardinality(Rest) + Cardinality(F)
  <2>1. Cardinality(Rest \cup F)
          = Cardinality(Rest) + Cardinality(F) - Cardinality(Rest \cap F)
    BY <1>5, <1>6, FS_Union
  <2>2. Cardinality(Rest \cap F) = 0
    BY <1>2, FS_EmptySet
  <2>3. Cardinality(Places(f, C)) = Cardinality(Rest \cup F)
    BY <1>2, Zenon
  <2> QED
    BY <1>7, <2>1, <2>2, <2>3
<1>9. Cardinality(Places(g, C)) = Cardinality(Rest) + Cardinality(G)
  <2>1. Cardinality(Rest \cup G)
          = Cardinality(Rest) + Cardinality(G) - Cardinality(Rest \cap G)
    BY <1>5, <1>6, FS_Union
  <2>2. Cardinality(Rest \cap G) = 0
    BY <1>3, FS_EmptySet
  <2>3. Cardinality(Places(g, C)) = Cardinality(Rest \cup G)
    BY <1>3, Zenon
  <2> QED
    BY <1>7, <2>1, <2>2, <2>3
<1> QED
  BY <1>6, <1>7, <1>8, <1>9, PlacesAreFinite


-----------------------------------------------------------------------------
(* Two sets that differ in one element at most.                             *)
LEMMA SetChange ==
  ASSUME NEW S, IsFiniteSet(S), NEW T, NEW x, \A y : y # x => (y \in S <=> y \in T)
  PROVE  /\ IsFiniteSet(T) /\ Cardinality(S) \in Nat /\ Cardinality(T) \in Nat
         /\ Cardinality(T) + One(x \in S) = Cardinality(S) + One(x \in T)
<1> DEFINE R == S \ {x}
<1>1. IsFiniteSet(R) /\ Cardinality(R) \in Nat /\ x \notin R
  BY FS_RemoveElement, FS_CardinalityType
<1>2. S = IF x \in S THEN R \cup {x} ELSE R
  OBVIOUS
<1>3. T = IF x \in T THEN R \cup {x} ELSE R
  <2>1. \A y : y \in T <=> y \in IF x \in T THEN R \cup {x} ELSE R
    OBVIOUS
  <2> QED
    BY <2>1
<1> HIDE DEF R
<1>4. Cardinality(R \cup {x}) = Cardinality(R) + 1 /\ IsFiniteSet(R \cup {x})
  BY <1>1, FS_AddElement
<1>5. Cardinality(S) = Cardinality(R) + One(x \in S)
  <2>1. CASE x \in S
    <3>1. S = R \cup {x}
      BY <1>2, <2>1
    <3> QED
      BY <1>4, <2>1, <3>1 DEF One
  <2>2. CASE x \notin S
    <3>1. S = R
      BY <1>2, <2>2
    <3> QED
      BY <1>1, <2>2, <3>1 DEF One
  <2> QED
    BY <2>1, <2>2
<1>6. Cardinality(T) = Cardinality(R) + One(x \in T) /\ IsFiniteSet(T)
  <2>1. CASE x \in T
    <3>1. T = R \cup {x}
      BY <1>3, <2>1
    <3> QED
      BY <1>4, <2>1, <3>1 DEF One
  <2>2. CASE x \notin T
    <3>1. T = R
      BY <1>3, <2>2
    <3> QED
      BY <1>1, <2>2, <3>1 DEF One
  <2> QED
    BY <2>1, <2>2
<1> QED
  BY <1>1, <1>5, <1>6 DEF One

LEMMA IndicesOfFront ==
  ASSUME NEW T, NEW l \in Seq(T), l # <<>>, NEW C
  PROVE  Cardinality(Indices(l, C)) = Cardinality(Indices(Front(l), C)) + One(Last(l) \in C)
<1>1. /\ Len(l) \in Nat \ {0} /\ Front(l) \in Seq(T) /\ Len(Front(l)) = Len(l) - 1 /\ Last(l) = l[Len(l)]
      /\ \A i \in 1..Len(l) - 1 : Front(l)[i] = l[i]
  <2>1. Front(l) = [i \in 1..Len(l) - 1 |-> l[i]] /\ Last(l) = l[Len(l)]
    BY DEF Front, Last
  <2>2. Len(l) \in Nat \ {0} /\ Len(l) - 1 \in Nat /\ \A i \in 1..Len(l) - 1 : l[i] \in T
    OBVIOUS
  <2> QED
    BY <2>1, <2>2
<1>2. IsFiniteSet(Indices(l, C))
  BY IndicesAreFinite
<1>3. \A y : y # Len(l) => (y \in Indices(l, C) <=> y \in Indices(Front(l), C))
  BY <1>1 DEF Indices
<1>4. (Len(l) \in Indices(l, C) <=> Last(l) \in C) /\ Len(l) \notin Indices(Front(l), C)
  BY <1>1 DEF Indices
<1>5. Cardinality(Indices(Front(l), C)) + One(Len(l) \in Indices(l, C))
        = Cardinality(Indices(l, C)) + One(Len(l) \in Indices(Front(l), C))
      /\ Cardinality(Indices(l, C)) \in Nat /\ Cardinality(Indices(Front(l), C)) \in Nat
  BY <1>2, <1>3, SetChange
<1> QED
  BY <1>4, <1>5 DEF One

(* The first element is replaced.                                           *)
LEMMA IndicesOfFirst ==
  ASSUME NEW T, NEW l \in Seq(T), l # <<>>, NEW m \in Seq(T), Len(m) = Len(l),
         \A i \in 2..Len(l) : m[i] = l[i], NEW C
  PROVE  Cardinality(Indices(m, C)) + One(l[1] \in C) = Cardinality(Indices(l, C)) + One(m[1] \in C)
<1>1. Len(l) \in Nat \ {0} /\ DOMAIN l = 1..Len(l) /\ DOMAIN m = 1..Len(l)
  OBVIOUS
<1>2. IsFiniteSet(Indices(l, C))
  BY IndicesAreFinite
<1>3. \A y : y # 1 => (y \in Indices(l, C) <=> y \in Indices(m, C))
  BY <1>1 DEF Indices
<1>4. (1 \in Indices(l, C) <=> l[1] \in C) /\ (1 \in Indices(m, C) <=> m[1] \in C)
  BY <1>1 DEF Indices
<1>5. Cardinality(Indices(m, C)) + One(1 \in Indices(l, C))
        = Cardinality(Indices(l, C)) + One(1 \in Indices(m, C))
  BY <1>2, <1>3, SetChange
<1> QED
  BY <1>4, <1>5 DEF One

-----------------------------------------------------------------------------
(* The same for a function to lists of which one is changed.                *)
LEMMA NumIsNat ==
  ASSUME NEW S, IsFiniteSet(S), NEW T, NEW f \in [S -> Seq(T)], NEW C
  PROVE  /\ Num(f, C) \in Nat
         /\ Num(f, C) = 0 <=> \A t \in S : \A i \in 1..Len(f[t]) : f[t][i] \notin C
<1>1. \A t \in S : DOMAIN f[t] = 1..Len(f[t])
  OBVIOUS
<1> QED
  BY <1>1, PlacesAreFinite DEF Num

(* f and g differ in the list of p, which is l in g.                        *)
Put(f, p, l, g) == g = [f EXCEPT ![p] = l]

Balance(f, p, l, g, C) ==
  /\ Num(f, C) \in Nat /\ Num(g, C) \in Nat
  /\ Num(g, C) + Cardinality(Indices(f[p], C)) = Num(f, C) + Cardinality(Indices(l, C))

LEMMA NumChange ==
  ASSUME NEW S, NEW T, NEW f, NEW p \in S, NEW l \in Seq(T), NEW C, NEW g,
         IsFiniteSet(S), AreLists(S, T, f), Put(f, p, l, g)
  PROVE  AreLists(S, T, g) /\ Balance(f, p, l, g, C)
<1>1. g \in [S -> Seq(T)] /\ g[p] = l
  BY DEF Put, AreLists
<1>2. AreLists(S, T, f) /\ AreLists(S, T, g) /\ AgreeBut(S, f, g, p)
  BY <1>1 DEF AreLists, AgreeBut, Put
<1>3. /\ Cardinality(Places(f, C)) \in Nat /\ Cardinality(Places(g, C)) \in Nat
      /\ Cardinality(Places(g, C)) + Cardinality(Indices(f[p], C))
           = Cardinality(Places(f, C)) + Cardinality(Indices(g[p], C))
  BY <1>2, Replaced
<1> QED
  BY <1>1, <1>2, <1>3 DEF Num, Balance

BusyActs == Acts \ {"barrier", "free", "return"}
Busy(t)    == {f \in Frame : f.task = t /\ f.act \in BusyActs}
Inside(t)  == {f \in Frame : f.task = t /\ f.act \in Suspended}
Freeing(t) == {f \in Frame : f.task = t /\ f.act = "free"}

Stacks == [Threads -> Seq(Frame)]
Deques == [Threads -> Seq(Explicit)]

IsWithPush(g, st, th, f) == g = [st EXCEPT ![th] = <<f>> \o @]
IsWithPop(g, st, th)     == g = [st EXCEPT ![th] = Tail(@)]
IsWithLast(g, dq, th, t) == g = [dq EXCEPT ![th] = Append(@, t)]

IsTaken(t, r, d) == (t = Head(d) /\ r = Tail(d)) \/ (t = Last(d) /\ r = Front(d))

LEMMA ThreadsAreFinite == IsFiniteSet(Threads) /\ IsFiniteSet(Explicit)
  BY ThreadsAssumption, BoundsAssumption, FS_Interval DEF Threads, Explicit

LEMMA TopIsPush ==
  ASSUME NEW s \in Seq(Frame), s # <<>>, NEW f \in Frame, NEW r, IsTop(r, f, s)
  PROVE  r = <<f>> \o Tail(s)
<1>1. PICK q : q = <<f>> \o Tail(s)
  OBVIOUS
<1>2. /\ Len(s) \in Nat \ {0} /\ Tail(s) \in Seq(Frame) /\ Len(Tail(s)) = Len(s) - 1
      /\ \A i \in 1..Len(s) - 1 : Tail(s)[i] = s[i + 1]
  OBVIOUS
<1>3. q \in Seq(Frame) /\ Len(q) = Len(s) /\ q[1] = f /\ \A i \in 1..Len(s) - 1 : q[i + 1] = s[i + 1]
  BY <1>1, <1>2
<1>4. r \in Seq(Frame) /\ Len(r) = Len(s) /\ r[1] = f /\ \A i \in 2..Len(s) : r[i] = s[i]
  BY DEF IsTop
<1>5. ASSUME NEW i \in 1..Len(s) PROVE q[i] = r[i]
  <2>1. CASE i = 1
    BY <1>3, <1>4, <2>1
  <2>2. CASE i # 1
    <3>1. i - 1 \in 1..Len(s) - 1 /\ (i - 1) + 1 = i /\ i \in 2..Len(s)
      BY <1>2, <2>2
    <3>2. q[(i - 1) + 1] = s[(i - 1) + 1]
      BY <1>3, <3>1
    <3> QED
      BY <1>4, <3>1, <3>2
  <2> QED
    BY <2>1, <2>2
<1>6. q = r
  BY <1>3, <1>4, <1>5
<1> QED
  BY <1>1, <1>6

LEMMA StackChange ==
  ASSUME NEW st \in Stacks, NEW th \in Threads, NEW l \in Seq(Frame), NEW C, NEW g, Put(st, th, l, g)
  PROVE  g \in Stacks /\ Balance(st, th, l, g, C)
<1>1. IsFiniteSet(Threads) /\ AreLists(Threads, Frame, st)
  BY ThreadsAreFinite DEF Stacks, AreLists
<1>2. AreLists(Threads, Frame, g) /\ Balance(st, th, l, g, C)
  BY <1>1, NumChange, Zenon
<1> QED
  BY <1>2 DEF Stacks, AreLists

LEMMA DequeChange ==
  ASSUME NEW dq \in Deques, NEW th \in Threads, NEW l \in Seq(Explicit), NEW C, NEW g, Put(dq, th, l, g)
  PROVE  g \in Deques /\ Balance(dq, th, l, g, C)
<1>1. IsFiniteSet(Threads) /\ AreLists(Threads, Explicit, dq)
  BY ThreadsAreFinite DEF Deques, AreLists
<1>2. AreLists(Threads, Explicit, g) /\ Balance(dq, th, l, g, C)
  BY <1>1, NumChange, Zenon
<1> QED
  BY <1>2 DEF Deques, AreLists

LEMMA OneIsInt == ASSUME NEW b PROVE One(b) \in {0, 1}
  BY DEF One

(* What a push and a pop do to the stacks and their places.                 *)
LEMMA PushCounts ==
  ASSUME NEW st \in Stacks, NEW th \in Threads, NEW f \in Frame, NEW C, NEW g,
         IsWithPush(g, st, th, f)
  PROVE  /\ g \in Stacks
         /\ Num(st, C) \in Nat /\ Num(g, C) = Num(st, C) + (IF f \in C THEN 1 ELSE 0)
<1>1. st[th] \in Seq(Frame) /\ st \in [Threads -> Seq(Frame)]
  BY DEF Stacks
<1>2. PICK r : r = <<f>> \o st[th]
  OBVIOUS
<1>3. r \in Seq(Frame)
  BY <1>1, <1>2
<1>4. Put(st, th, r, g)
  BY <1>2 DEF IsWithPush, Put
<1>5. Cardinality(Indices(r, C)) = Cardinality(Indices(st[th], C)) + One(f \in C)
  BY <1>1, <1>2, IndicesOfCons
<1>6. Cardinality(Indices(st[th], C)) \in Nat
  BY <1>1, IndicesAreFinite
<1>7. g \in Stacks /\ Balance(st, th, r, g, C)
  BY <1>2, <1>3, <1>4, StackChange
<1> QED
  <2>1. g[th] = r /\ g \in Stacks
    BY <1>1, <1>3, <1>4, <1>7 DEF Stacks, Put
  <2>2. Balance(st, th, r, g, C) /\ One(f \in C) \in {0, 1}
    BY <1>7, OneIsInt
  <2>3. Num(st, C) \in Nat /\ Num(g, C) = Num(st, C) + One(f \in C)
    BY <1>5, <1>6, <2>2 DEF Balance
  <2>4. One(f \in C) = IF f \in C THEN 1 ELSE 0
    BY DEF One
  <2> QED
    BY <1>2, <2>1, <2>3, <2>4

LEMMA PopCounts ==
  ASSUME NEW st \in Stacks, NEW th \in Threads, st[th] # <<>>, NEW C, NEW g,
         IsWithPop(g, st, th)
  PROVE  /\ g \in Stacks /\ g[th] = Tail(st[th])
         /\ Num(st, C) \in Nat /\ Num(g, C) \in Nat
         /\ Num(st, C) = Num(g, C) + One(st[th][1] \in C)
<1>1. st[th] \in Seq(Frame) /\ st \in [Threads -> Seq(Frame)] /\ Head(st[th]) = st[th][1]
  BY DEF Stacks
<1>2. PICK r : r = Tail(st[th])
  OBVIOUS
<1>3. r \in Seq(Frame)
  BY <1>1, <1>2
<1>4. Put(st, th, r, g)
  BY <1>2 DEF IsWithPop, Put
<1>5. Cardinality(Indices(st[th], C)) = Cardinality(Indices(r, C)) + One(st[th][1] \in C)
  BY <1>1, <1>2, IndicesOfTail
<1>6. Cardinality(Indices(r, C)) \in Nat
  BY <1>3, IndicesAreFinite
<1>7. g \in Stacks /\ Balance(st, th, r, g, C)
  BY <1>2, <1>3, <1>4, StackChange
<1> QED
  <2>1. g[th] = r /\ g \in Stacks
    BY <1>1, <1>3, <1>4, <1>7 DEF Stacks, Put
  <2> QED
    BY <1>2, <1>5, <1>6, <1>7, <2>1, OneIsInt DEF Balance

LEMMA AppendCounts ==
  ASSUME NEW dq \in Deques, NEW th \in Threads, NEW t \in Explicit, NEW C, NEW g,
         IsWithLast(g, dq, th, t)
  PROVE  /\ g \in Deques
         /\ Num(dq, C) \in Nat /\ Num(g, C) = Num(dq, C) + One(t \in C)
<1>1. dq[th] \in Seq(Explicit) /\ dq \in [Threads -> Seq(Explicit)]
  BY DEF Deques
<1>2. PICK r : r = Append(dq[th], t)
  OBVIOUS
<1>3. r \in Seq(Explicit)
  BY <1>1, <1>2
<1>4. Put(dq, th, r, g)
  BY <1>2 DEF IsWithLast, Put
<1>5. Cardinality(Indices(r, C)) = Cardinality(Indices(dq[th], C)) + One(t \in C)
  BY <1>1, <1>2, IndicesOfAppend
<1>6. Cardinality(Indices(dq[th], C)) \in Nat
  BY <1>1, IndicesAreFinite
<1>7. g \in Deques /\ Balance(dq, th, r, g, C)
  BY <1>2, <1>3, <1>4, DequeChange
<1> QED
  BY <1>5, <1>6, <1>7, OneIsInt DEF Balance

(* A task is taken from either end.                                         *)
LEMMA TakeCounts ==
  ASSUME NEW dq \in Deques, NEW th \in Threads, dq[th] # <<>>, NEW t, NEW r,
         NEW C, NEW g, IsTaken(t, r, dq[th]),
         Put(dq, th, r, g)
  PROVE  /\ g \in Deques
         /\ Num(dq, C) \in Nat /\ Num(g, C) \in Nat
         /\ Num(dq, C) = Num(g, C) + One(t \in C)
<1>1. dq[th] \in Seq(Explicit) /\ dq \in [Threads -> Seq(Explicit)]
  BY DEF Deques
<1>2. r \in Seq(Explicit)
  <2>1. Tail(dq[th]) \in Seq(Explicit)
    BY <1>1
  <2>2. Front(dq[th]) \in Seq(Explicit)
    <3>1. Len(dq[th]) \in Nat \ {0} /\ Len(dq[th]) - 1 \in Nat
      BY <1>1
    <3>2. Front(dq[th]) = [i \in 1..Len(dq[th]) - 1 |-> dq[th][i]]
      BY <1>1 DEF Front
    <3>3. \A i \in 1..Len(dq[th]) - 1 : dq[th][i] \in Explicit
      BY <1>1
    <3> QED
      BY <3>1, <3>2, <3>3
  <2> QED
    BY <2>1, <2>2 DEF IsTaken
<1>3. Cardinality(Indices(dq[th], C)) = Cardinality(Indices(r, C)) + One(t \in C)
  BY <1>1, IndicesOfTail, IndicesOfFront DEF IsTaken
<1>4. Cardinality(Indices(r, C)) \in Nat
  BY <1>2, IndicesAreFinite
<1>5. g \in Deques /\ Balance(dq, th, r, g, C)
  BY <1>2, <1>3, <1>4, DequeChange
<1> QED
  BY <1>3, <1>4, <1>5, OneIsInt DEF Balance

(* What is nowhere.                                                         *)
LEMMA NoPlaces ==
  ASSUME NEW st \in Stacks, NEW C
  PROVE  Num(st, C) = 0 <=> \A th \in Threads : \A i \in 1..Len(st[th]) : st[th][i] \notin C
  BY ThreadsAreFinite, NumIsNat DEF Stacks

LEMMA NoSlots ==
  ASSUME NEW dq \in Deques, NEW C
  PROVE  /\ Num(dq, C) \in Nat
         /\ Num(dq, C) = 0 <=> \A th \in Threads : \A i \in 1..Len(dq[th]) : dq[th][i] \notin C
  BY ThreadsAreFinite, NumIsNat DEF Deques

-----------------------------------------------------------------------------
Kids(p, X, u) == Cardinality({c \in X : p[c] = u})

LEMMA KidsChange ==
  ASSUME NEW X \in SUBSET Explicit, NEW Y \in SUBSET Explicit, NEW p, NEW q, NEW t,
         \A c \in Explicit : c # t => (c \in X <=> c \in Y) /\ p[c] = q[c]
  PROVE  \A u : /\ Kids(p, X, u) \in Nat /\ Kids(q, Y, u) \in Nat
                /\ Kids(q, Y, u) + One(t \in X /\ p[t] = u) = Kids(p, X, u) + One(t \in Y /\ q[t] = u)
<1> TAKE u
<1> DEFINE S == {c \in X : p[c] = u}
           T == {c \in Y : q[c] = u}
<1>1. IsFiniteSet(S)
  <2>1. S \in SUBSET Explicit
    OBVIOUS
  <2> QED
    BY <2>1, ThreadsAreFinite, FS_Subset
<1>2. \A y : y # t => (y \in S <=> y \in T)
  OBVIOUS
<1>3. (t \in S <=> t \in X /\ p[t] = u) /\ (t \in T <=> t \in Y /\ q[t] = u)
  OBVIOUS
<1> HIDE DEF S, T
<1>4. /\ Cardinality(S) \in Nat /\ Cardinality(T) \in Nat
      /\ Cardinality(T) + One(t \in S) = Cardinality(S) + One(t \in T)
  BY <1>1, <1>2, SetChange
<1>5. One(t \in S) = One(t \in X /\ p[t] = u) /\ One(t \in T) = One(t \in Y /\ q[t] = u)
  BY <1>3 DEF One
<1> QED
  BY <1>4, <1>5 DEF Kids, S, T

LEMMA NoKids ==
  ASSUME NEW X \in SUBSET Explicit, NEW p, NEW u
  PROVE  Kids(p, X, u) \in Nat /\ (Kids(p, X, u) = 0 <=> \A c \in X : p[c] # u)
<1> DEFINE S == {c \in X : p[c] = u}
<1>1. IsFiniteSet(S)
  <2>1. S \in SUBSET Explicit
    OBVIOUS
  <2> QED
    BY <2>1, ThreadsAreFinite, FS_Subset
<1>2. S = {} <=> \A c \in X : p[c] # u
  OBVIOUS
<1> HIDE DEF S
<1> QED
  BY <1>1, <1>2, FS_EmptySet, FS_CardinalityType DEF Kids, S

Statuses  == {"none", "new", "held", "queued", "running", "async", "complete",
              "given", "counted", "ungrouped", "released", "freed"}
UnrunSt   == {"new", "held", "queued", "running", "async"}
AwaitedSt == UnrunSt \cup {"complete", "given"}

Unfreed == {c \in Explicit : status[c] # "freed"}
Awaited == {c \in Explicit : status[c] \in AwaitedSt}
Unrun   == {c \in Explicit : status[c] \in UnrunSt}
Counted == {c \in Explicit : status[c] \in UnrunSt \/ (status[c] = "counted" /\ kind[c] # "proxy")}

LTyped ==
  /\ status \in [Tasks -> Statuses]
  /\ incomplete \in [Tasks -> Int] /\ allocated \in [Tasks -> Int]
  /\ untied \in [Tasks -> Int] /\ part \in [Tasks -> Nat]
  /\ serial \in [Tasks -> BOOLEAN]
  /\ inherited \in [Tasks -> Tasks \cup {Null}]
  /\ group \in [Tasks -> {"none", "open", "ended"}]
  /\ count \in [Tasks -> Int] /\ cancelled \in [Tasks -> BOOLEAN]
  /\ fault \in {"none", "lost", "freed"}

(* A status fits a kind, an act of a thread in a task fits its status, and  *)
(* so does its being in a deque.                                            *)
StatusFits(k, s) ==
  /\ k = "none" <=> s = "none"
  /\ k = "implicit" => s = "running"
  /\ k # "proxy" => s \notin {"async", "complete", "given", "ungrouped"}
  /\ k = "proxy" => s # "queued"

FrameFits(k, s, a) ==
  /\ a = "submit" => s = "new"
  /\ a \in Suspended \cup {"finish"} => s = "running" /\ k # "proxy"
  /\ a = "ungroup" => s = "counted" /\ k # "proxy"
  /\ a = "release" => s = "released"
  /\ a = "bottom" => s \in {"given", "counted", "ungrouped"}

SlotFits(k, s) ==
  \/ s = "queued" /\ k # "proxy"
  \/ s = "running" /\ k = "untied"
  \/ s \in {"given", "counted", "ungrouped"} /\ k = "proxy"

StacksFit(k, st, sk) ==
  \A th \in Threads : \A i \in 1..Len(sk[th]) :
    FrameFits(k[sk[th][i].task], st[sk[th][i].task], sk[th][i].act)

DequesFit(k, st, dq) ==
  \A th \in Threads : \A i \in 1..Len(dq[th]) : SlotFits(k[dq[th][i]], st[dq[th][i]])

Consistent ==
  /\ \A t \in Tasks : StatusFits(kind[t], status[t])
  /\ StacksFit(kind, status, stack)
  /\ DequesFit(kind, status, deque)

(* In how many places a task is used, by its status and kind; an untied     *)
(* task counts them itself.                                                 *)
Slots(dq, t)      == Num(dq, {t})
UsesOf(sk, dq, t) == Num(sk, Busy(t)) + Slots(dq, t)

UsesFit(k, s, n, un) ==
  /\ un = (IF k = "untied" /\ s \in {"queued", "running"} THEN n ELSE 0)
  /\ s \in {"none", "held", "async", "complete", "freed"} \/ (k = "proxy" /\ s = "running") => n = 0
  /\ s \in {"new", "given", "counted", "ungrouped"} \/ (k = "tied" /\ s \in {"queued", "running"}) => n = 1

UsesCounted ==
  \A t \in Explicit : UsesFit(kind[t], status[t], UsesOf(stack, deque, t), untied[t])

(* td_allocated_child_tasks: the task itself until it has been released,    *)
(* its children that have not been freed, and the threads about to free it. *)
Own(s, n) == IF s \in {"none", "freed"} THEN 0 ELSE IF s = "released" THEN n ELSE 1

AllocFits(s, n, al, kids, freeing) ==
  /\ al = Own(s, n) + kids + freeing
  /\ s = "freed" => al = 0

MemoryCounted ==
  /\ \A t \in Threads : allocated[t] = 0 /\ untied[t] = 0
  /\ \A t \in Explicit :
       AllocFits(status[t], UsesOf(stack, deque, t), allocated[t], Kids(parent, Unfreed, t),
                 Num(stack, Freeing(t)))

(* td_incomplete_child_tasks, with the flag of a proxy task.                *)
Flag(k, s) == IF k = "proxy" /\ s \in {"complete", "given", "counted"} THEN 1 ELSE 0

ChildrenCounted ==
  \A t \in Tasks : incomplete[t] = Kids(parent, Awaited, t) + Flag(kind[t], status[t])

(* The tasks of a group that are still to run have it open.                 *)
MembersCounted == \A g \in Tasks : count[g] = Kids(inherited, Counted, g)

GroupTree ==
  \A t \in Tasks : /\ inherited[t] # Null => inherited[t] < t
                   /\ kind[t] \in {"implicit", "none"} => inherited[t] = Null

GroupsOpen == \A d \in Unrun : inherited[d] # Null => group[inherited[d]] = "open"

GroupsHeld == \A g \in Tasks : group[g] = "open" => Num(stack, Inside(g)) # 0

LInv == /\ CInv /\ LTyped /\ Consistent /\ UsesCounted /\ MemoryCounted /\ ChildrenCounted
        /\ MembersCounted /\ GroupTree /\ GroupsOpen /\ GroupsHeld

-----------------------------------------------------------------------------
LEMMA FitPush ==
  ASSUME NEW k, NEW st, NEW sk \in Stacks, NEW th \in Threads, NEW f \in Frame, NEW g,
         IsWithPush(g, sk, th, f), StacksFit(k, st, sk), FrameFits(k[f.task], st[f.task], f.act)
  PROVE  StacksFit(k, st, g)
<1> SUFFICES ASSUME NEW x \in Threads, NEW i \in 1..Len(g[x])
             PROVE  FrameFits(k[g[x][i].task], st[g[x][i].task], g[x][i].act)
  BY DEF StacksFit
<1>1. CASE x # th
  <2>1. g[x] = sk[x]
    BY <1>1 DEF IsWithPush, Stacks
  <2> QED
    BY <2>1 DEF StacksFit
<1>2. CASE x = th
  <2>1. g[x] = <<f>> \o sk[x] /\ sk[x] \in Seq(Frame)
    BY <1>2 DEF IsWithPush, Stacks
  <2>2. Len(sk[x]) \in Nat /\ Len(g[x]) = Len(sk[x]) + 1 /\ g[x][1] = f
        /\ \A j \in 1..Len(sk[x]) : g[x][j + 1] = sk[x][j]
    BY <2>1
  <2>3. CASE i = 1
    BY <2>2, <2>3
  <2>4. CASE i # 1
    <3>1. i - 1 \in 1..Len(sk[x]) /\ (i - 1) + 1 = i
      BY <2>2, <2>4
    <3>2. g[x][i] = sk[x][i - 1]
      BY <2>2, <3>1
    <3> QED
      BY <3>1, <3>2 DEF StacksFit
  <2> QED
    BY <2>3, <2>4
<1> QED
  BY <1>1, <1>2

LEMMA FitPop ==
  ASSUME NEW k, NEW st, NEW sk \in Stacks, NEW th \in Threads, sk[th] # <<>>, NEW g,
         IsWithPop(g, sk, th), StacksFit(k, st, sk)
  PROVE  StacksFit(k, st, g)
<1> SUFFICES ASSUME NEW x \in Threads, NEW i \in 1..Len(g[x])
             PROVE  FrameFits(k[g[x][i].task], st[g[x][i].task], g[x][i].act)
  BY DEF StacksFit
<1>1. CASE x # th
  <2>1. g[x] = sk[x]
    BY <1>1 DEF IsWithPop, Stacks
  <2> QED
    BY <2>1 DEF StacksFit
<1>2. CASE x = th
  <2>1. g[x] = Tail(sk[x]) /\ sk[x] \in Seq(Frame) /\ sk[x] # <<>>
    BY <1>2 DEF IsWithPop, Stacks
  <2>2. Len(sk[x]) \in Nat \ {0} /\ Len(g[x]) = Len(sk[x]) - 1 /\ g[x][i] = sk[x][i + 1]
        /\ i + 1 \in 1..Len(sk[x])
    BY <2>1
  <2> QED
    BY <2>2 DEF StacksFit
<1> QED
  BY <1>1, <1>2

(* The status of a task changes that is in no frame, or in frames that fit  *)
(* the new one as well.                                                     *)
LEMMA FitMark ==
  ASSUME NEW k, NEW st \in [Tasks -> Statuses], NEW sk \in Stacks, NEW t \in Tasks, NEW x, NEW q,
         q = [st EXCEPT ![t] = x], StacksFit(k, st, sk),
         Num(sk, Busy(t)) = 0 \/ \A a \in BusyActs : FrameFits(k[t], st[t], a) => FrameFits(k[t], x, a)
  PROVE  StacksFit(k, q, sk)
<1> SUFFICES ASSUME NEW y \in Threads, NEW i \in 1..Len(sk[y])
             PROVE  FrameFits(k[sk[y][i].task], q[sk[y][i].task], sk[y][i].act)
  BY DEF StacksFit
<1>1. PICK f \in Frame : f = sk[y][i]
  BY DEF Stacks
<1>2. FrameFits(k[f.task], st[f.task], f.act) /\ f.task \in Tasks /\ f.act \in Acts
  BY <1>1 DEF StacksFit, Frame
<1>3. CASE f.task # t
  <2>1. q[f.task] = st[f.task]
    BY <1>3
  <2> QED
    BY <1>1, <1>2, <2>1
<1>4. CASE f.task = t /\ f.act \notin BusyActs
  BY <1>1, <1>2, <1>4 DEF FrameFits, BusyActs, Suspended, Acts
<1>5. CASE f.task = t /\ f.act \in BusyActs
  <2>1. f \in Busy(t)
    BY <1>5 DEF Busy
  <2>2. Num(sk, Busy(t)) # 0
    BY <1>1, <2>1, NoPlaces
  <2>3. q[t] = x
    OBVIOUS
  <2> QED
    BY <1>1, <1>2, <1>5, <2>2, <2>3
<1> QED
  BY <1>3, <1>4, <1>5

LEMMA DFitAppend ==
  ASSUME NEW k, NEW st, NEW dq \in Deques, NEW th \in Threads, NEW t \in Explicit, NEW g,
         IsWithLast(g, dq, th, t), DequesFit(k, st, dq), SlotFits(k[t], st[t])
  PROVE  DequesFit(k, st, g)
<1> SUFFICES ASSUME NEW x \in Threads, NEW i \in 1..Len(g[x]) PROVE SlotFits(k[g[x][i]], st[g[x][i]])
  BY DEF DequesFit
<1>1. CASE x # th
  <2>1. g[x] = dq[x]
    BY <1>1 DEF IsWithLast, Deques
  <2> QED
    BY <2>1 DEF DequesFit
<1>2. CASE x = th
  <2>1. g[x] = Append(dq[x], t) /\ dq[x] \in Seq(Explicit)
    BY <1>2 DEF IsWithLast, Deques
  <2>2. g[x][i] = t \/ (i \in 1..Len(dq[x]) /\ g[x][i] = dq[x][i])
    BY <2>1
  <2> QED
    BY <2>2 DEF DequesFit
<1> QED
  BY <1>1, <1>2

LEMMA DFitTake ==
  ASSUME NEW k, NEW st, NEW dq \in Deques, NEW th \in Threads, dq[th] # <<>>, NEW t, NEW r, NEW g,
         IsTaken(t, r, dq[th]), Put(dq, th, r, g), DequesFit(k, st, dq)
  PROVE  DequesFit(k, st, g) /\ t \in Explicit /\ SlotFits(k[t], st[t])
<1>1. dq[th] \in Seq(Explicit) /\ Len(dq[th]) \in Nat \ {0}
  BY DEF Deques
<1>2. \A i \in 1..Len(r) : \E j \in 1..Len(dq[th]) : r[i] = dq[th][j]
  <2>1. CASE r = Tail(dq[th])
    <3>1. \A i \in 1..Len(r) : i + 1 \in 1..Len(dq[th]) /\ r[i] = dq[th][i + 1]
      BY <1>1, <2>1
    <3> QED
      BY <3>1
  <2>2. CASE r = Front(dq[th])
    <3>1. r = [i \in 1..Len(dq[th]) - 1 |-> dq[th][i]] /\ Len(dq[th]) - 1 \in Nat
      BY <1>1, <2>2 DEF Front
    <3>2. Len(r) = Len(dq[th]) - 1
      BY <1>1, <3>1
    <3>3. \A i \in 1..Len(r) : i \in 1..Len(dq[th]) /\ r[i] = dq[th][i]
      BY <1>1, <3>1, <3>2
    <3> QED
      BY <3>3
  <2> QED
    BY <2>1, <2>2 DEF IsTaken
<1>3. \E j \in 1..Len(dq[th]) : t = dq[th][j]
  <2>1. 1 \in 1..Len(dq[th]) /\ Len(dq[th]) \in 1..Len(dq[th])
    BY <1>1
  <2> QED
    BY <1>1, <2>1 DEF IsTaken, Last
<1>4. t \in Explicit /\ SlotFits(k[t], st[t])
  BY <1>1, <1>3 DEF DequesFit
<1>5. ASSUME NEW x \in Threads, NEW i \in 1..Len(g[x]) PROVE SlotFits(k[g[x][i]], st[g[x][i]])
  <2>1. CASE x # th
    <3>1. g[x] = dq[x]
      BY <2>1 DEF Put, Deques
    <3> QED
      BY <3>1 DEF DequesFit
  <2>2. CASE x = th
    <3>1. g[x] = r
      BY <2>2 DEF Put, Deques
    <3> QED
      BY <1>2, <2>2, <3>1 DEF DequesFit
  <2> QED
    BY <2>1, <2>2
<1> QED
  BY <1>4, <1>5 DEF DequesFit

LEMMA DFitMark ==
  ASSUME NEW k, NEW st \in [Tasks -> Statuses], NEW dq \in Deques, NEW t \in Tasks, NEW x, NEW q,
         q = [st EXCEPT ![t] = x], DequesFit(k, st, dq), Explicit \subseteq Tasks,
         Slots(dq, t) = 0 \/ (SlotFits(k[t], st[t]) => SlotFits(k[t], x))
  PROVE  DequesFit(k, q, dq)
<1> SUFFICES ASSUME NEW y \in Threads, NEW i \in 1..Len(dq[y]) PROVE SlotFits(k[dq[y][i]], q[dq[y][i]])
  BY DEF DequesFit
<1>1. PICK u \in Explicit : u = dq[y][i]
  BY DEF Deques
<1>2. SlotFits(k[u], st[u]) /\ u \in Tasks
  BY <1>1 DEF DequesFit
<1>3. CASE u # t
  BY <1>1, <1>2, <1>3
<1>4. CASE u = t
  <2>1. Slots(dq, t) # 0
    <3>1. PICK C : C = {t}
      OBVIOUS
    <3>2. dq[y][i] \in C
      BY <1>1, <1>4, <3>1
    <3>3. Num(dq, C) # 0
      BY <3>2, NoSlots
    <3> QED
      BY <3>1, <3>3 DEF Slots
  <2> QED
    BY <1>1, <1>2, <1>4, <2>1
<1> QED
  BY <1>3, <1>4

LEMMA InSets ==
  ASSUME NEW f \in Frame, NEW u
  PROVE  /\ f \in Busy(u) <=> u = f.task /\ f.act \in BusyActs
         /\ f \in Freeing(u) <=> u = f.task /\ f.act = "free"
         /\ f \in Inside(u) <=> u = f.task /\ f.act \in Suspended
  BY DEF Busy, Freeing, Inside

LEMMA PushAll ==
  ASSUME NEW sk \in Stacks, NEW th \in Threads, NEW f \in Frame, NEW g, IsWithPush(g, sk, th, f)
  PROVE  /\ g \in Stacks
         /\ \A u : /\ Num(sk, Busy(u)) \in Nat /\ Num(sk, Freeing(u)) \in Nat /\ Num(sk, Inside(u)) \in Nat
                   /\ Num(g, Busy(u)) = Num(sk, Busy(u)) + (IF u = f.task /\ f.act \in BusyActs THEN 1 ELSE 0)
                   /\ Num(g, Freeing(u)) = Num(sk, Freeing(u)) + (IF u = f.task /\ f.act = "free" THEN 1 ELSE 0)
                   /\ Num(g, Inside(u)) = Num(sk, Inside(u)) + (IF u = f.task /\ f.act \in Suspended THEN 1 ELSE 0)
<1>1. g \in Stacks
  BY PushCounts
<1>2. ASSUME NEW u
      PROVE  /\ Num(sk, Busy(u)) \in Nat /\ Num(sk, Freeing(u)) \in Nat /\ Num(sk, Inside(u)) \in Nat
             /\ Num(g, Busy(u)) = Num(sk, Busy(u)) + (IF u = f.task /\ f.act \in BusyActs THEN 1 ELSE 0)
             /\ Num(g, Freeing(u)) = Num(sk, Freeing(u)) + (IF u = f.task /\ f.act = "free" THEN 1 ELSE 0)
             /\ Num(g, Inside(u)) = Num(sk, Inside(u)) + (IF u = f.task /\ f.act \in Suspended THEN 1 ELSE 0)
  <2>1. /\ f \in Busy(u) <=> u = f.task /\ f.act \in BusyActs
        /\ f \in Freeing(u) <=> u = f.task /\ f.act = "free"
        /\ f \in Inside(u) <=> u = f.task /\ f.act \in Suspended
    BY InSets
  <2>2. PICK B, F, I : B = Busy(u) /\ F = Freeing(u) /\ I = Inside(u)
    OBVIOUS
  <2>3. Num(sk, B) \in Nat /\ Num(g, B) = Num(sk, B) + (IF f \in B THEN 1 ELSE 0)
    BY PushCounts
  <2>4. Num(sk, F) \in Nat /\ Num(g, F) = Num(sk, F) + (IF f \in F THEN 1 ELSE 0)
    BY PushCounts
  <2>5. Num(sk, I) \in Nat /\ Num(g, I) = Num(sk, I) + (IF f \in I THEN 1 ELSE 0)
    BY PushCounts
  <2> QED
    BY <2>1, <2>2, <2>3, <2>4, <2>5
<1> QED
  BY <1>1, <1>2

LEMMA PopAll ==
  ASSUME NEW sk \in Stacks, NEW th \in Threads, sk[th] # <<>>, NEW f \in Frame, f = sk[th][1],
         NEW g, IsWithPop(g, sk, th)
  PROVE  /\ g \in Stacks /\ g[th] = Tail(sk[th])
         /\ \A u : /\ Num(g, Busy(u)) \in Nat /\ Num(g, Freeing(u)) \in Nat /\ Num(g, Inside(u)) \in Nat
                   /\ Num(sk, Busy(u)) = Num(g, Busy(u)) + (IF u = f.task /\ f.act \in BusyActs THEN 1 ELSE 0)
                   /\ Num(sk, Freeing(u)) = Num(g, Freeing(u)) + (IF u = f.task /\ f.act = "free" THEN 1 ELSE 0)
                   /\ Num(sk, Inside(u)) = Num(g, Inside(u)) + (IF u = f.task /\ f.act \in Suspended THEN 1 ELSE 0)
<1>1. g \in Stacks /\ g[th] = Tail(sk[th])
  BY PopCounts
<1>2. ASSUME NEW u
      PROVE  /\ Num(g, Busy(u)) \in Nat /\ Num(g, Freeing(u)) \in Nat /\ Num(g, Inside(u)) \in Nat
             /\ Num(sk, Busy(u)) = Num(g, Busy(u)) + (IF u = f.task /\ f.act \in BusyActs THEN 1 ELSE 0)
             /\ Num(sk, Freeing(u)) = Num(g, Freeing(u)) + (IF u = f.task /\ f.act = "free" THEN 1 ELSE 0)
             /\ Num(sk, Inside(u)) = Num(g, Inside(u)) + (IF u = f.task /\ f.act \in Suspended THEN 1 ELSE 0)
  <2>1. /\ f \in Busy(u) <=> u = f.task /\ f.act \in BusyActs
        /\ f \in Freeing(u) <=> u = f.task /\ f.act = "free"
        /\ f \in Inside(u) <=> u = f.task /\ f.act \in Suspended
    BY DEF Busy, Freeing, Inside
  <2>2. Num(g, Busy(u)) \in Nat /\ Num(sk, Busy(u)) = Num(g, Busy(u)) + One(f \in Busy(u))
    BY PopCounts
  <2>3. Num(g, Freeing(u)) \in Nat /\ Num(sk, Freeing(u)) = Num(g, Freeing(u)) + One(f \in Freeing(u))
    BY PopCounts
  <2>4. Num(g, Inside(u)) \in Nat /\ Num(sk, Inside(u)) = Num(g, Inside(u)) + One(f \in Inside(u))
    BY PopCounts
  <2>5. /\ One(f \in Busy(u)) = IF u = f.task /\ f.act \in BusyActs THEN 1 ELSE 0
        /\ One(f \in Freeing(u)) = IF u = f.task /\ f.act = "free" THEN 1 ELSE 0
        /\ One(f \in Inside(u)) = IF u = f.task /\ f.act \in Suspended THEN 1 ELSE 0
    BY <2>1 DEF One
  <2> QED
    BY <2>2, <2>3, <2>4, <2>5
<1> QED
  BY <1>1, <1>2

LEMMA AppendAll ==
  ASSUME NEW dq \in Deques, NEW th \in Threads, NEW t \in Explicit, NEW g, IsWithLast(g, dq, th, t)
  PROVE  /\ g \in Deques
         /\ \A u : Slots(dq, u) \in Nat /\ Slots(g, u) = Slots(dq, u) + (IF u = t THEN 1 ELSE 0)
<1>1. g \in Deques
  BY AppendCounts
<1>2. ASSUME NEW u
      PROVE  Slots(dq, u) \in Nat /\ Slots(g, u) = Slots(dq, u) + (IF u = t THEN 1 ELSE 0)
  <2>1. PICK C : C = {u}
    OBVIOUS
  <2>2. Num(dq, C) \in Nat /\ Num(g, C) = Num(dq, C) + One(t \in C)
    BY AppendCounts
  <2>3. One(t \in C) = IF u = t THEN 1 ELSE 0
    BY <2>1 DEF One
  <2> QED
    BY <2>1, <2>2, <2>3 DEF Slots
<1> QED
  BY <1>1, <1>2

HadTask(dq, g, t) ==
  \A u : Slots(g, u) \in Nat /\ Slots(dq, u) = Slots(g, u) + (IF u = t THEN 1 ELSE 0)

LEMMA TakeAll ==
  ASSUME NEW dq \in Deques, NEW th \in Threads, dq[th] # <<>>, NEW t, NEW r, NEW g,
         IsTaken(t, r, dq[th]), Put(dq, th, r, g)
  PROVE  /\ g \in Deques
         /\ HadTask(dq, g, t)
<1>1. g \in Deques
  BY TakeCounts
<1>2. ASSUME NEW u
      PROVE  Slots(g, u) \in Nat /\ Slots(dq, u) = Slots(g, u) + (IF u = t THEN 1 ELSE 0)
  <2>1. PICK C : C = {u}
    OBVIOUS
  <2>2. Num(g, C) \in Nat /\ Num(dq, C) = Num(g, C) + One(t \in C)
    BY TakeCounts
  <2>3. One(t \in C) = IF u = t THEN 1 ELSE 0
    BY <2>1 DEF One
  <2> QED
    BY <2>1, <2>2, <2>3 DEF Slots
<1> QED
  BY <1>1, <1>2 DEF HadTask

LEMMA NumsAreNat ==
  ASSUME NEW sk \in Stacks, NEW dq \in Deques
  PROVE  \A u : /\ Num(sk, Busy(u)) \in Nat /\ Num(sk, Freeing(u)) \in Nat /\ Num(sk, Inside(u)) \in Nat
                /\ Slots(dq, u) \in Nat /\ UsesOf(sk, dq, u) \in Nat
<1> TAKE u
<1>1. Num(sk, Busy(u)) \in Nat /\ Num(sk, Freeing(u)) \in Nat /\ Num(sk, Inside(u)) \in Nat
  BY ThreadsAreFinite, NumIsNat DEF Stacks
<1>2. Slots(dq, u) \in Nat
  BY NoSlots DEF Slots
<1> QED
  BY <1>1, <1>2 DEF UsesOf

-----------------------------------------------------------------------------
(* The parts of the invariant that a step leaves alone.                     *)
LEMMA MemoryKept ==
  ASSUME MemoryCounted, UNCHANGED <<allocated, parent>>,
         \A u \in Threads : untied'[u] = untied[u],
         \A u \in Explicit :
           /\ Own(status'[u], UsesOf(stack', deque', u)) + Num(stack', Freeing(u))
                = Own(status[u], UsesOf(stack, deque, u)) + Num(stack, Freeing(u))
           /\ status'[u] = "freed" <=> status[u] = "freed"
           /\ UsesOf(stack, deque, u) \in Nat /\ UsesOf(stack', deque', u) \in Nat
           /\ Num(stack, Freeing(u)) \in Nat /\ Num(stack', Freeing(u)) \in Nat
  PROVE  MemoryCounted'
<1>1. \A t \in Threads : allocated'[t] = 0 /\ untied'[t] = 0
  BY DEF MemoryCounted
<1>2. ASSUME NEW u \in Explicit
      PROVE  AllocFits(status'[u], UsesOf(stack', deque', u), allocated'[u], Kids(parent', Unfreed', u),
                       Num(stack', Freeing(u)))
  <2>1. Unfreed' = Unfreed /\ Unfreed \in SUBSET Explicit
    BY DEF Unfreed
  <2>2. Kids(parent', Unfreed', u) = Kids(parent, Unfreed, u) /\ Kids(parent, Unfreed, u) \in Nat
    BY <2>1, NoKids
  <2>3. AllocFits(status[u], UsesOf(stack, deque, u), allocated[u], Kids(parent, Unfreed, u),
                  Num(stack, Freeing(u)))
    BY DEF MemoryCounted
  <2>4. /\ Own(status[u], UsesOf(stack, deque, u)) \in Nat
        /\ Own(status'[u], UsesOf(stack', deque', u)) \in Nat
    BY DEF Own
  <2>5. allocated'[u] = Own(status'[u], UsesOf(stack', deque', u)) + Kids(parent, Unfreed, u) + Num(stack', Freeing(u))
    BY <2>2, <2>3, <2>4 DEF AllocFits
  <2> QED
    BY <2>2, <2>3, <2>5 DEF AllocFits
<1> QED
  BY <1>1, <1>2 DEF MemoryCounted

LEMMA ChildrenKept ==
  ASSUME ChildrenCounted, UNCHANGED <<incomplete, parent>>,
         \A u \in Tasks : Flag(kind'[u], status'[u]) = Flag(kind[u], status[u]),
         \A u \in Explicit : status'[u] \in AwaitedSt <=> status[u] \in AwaitedSt
  PROVE  ChildrenCounted'
<1>1. Awaited' = Awaited
  BY DEF Awaited
<1> QED
  BY <1>1 DEF ChildrenCounted, Kids

LEMMA MembersKept ==
  ASSUME MembersCounted, UNCHANGED <<count, inherited>>, Counted' = Counted
  PROVE  MembersCounted'
  BY DEF MembersCounted, Kids

LEMMA TreeKept ==
  ASSUME GroupTree, UNCHANGED <<inherited, kind>>
  PROVE  GroupTree'
  BY DEF GroupTree

LEMMA OpenKept ==
  ASSUME GroupsOpen, UNCHANGED <<inherited, group>>,
         \A u \in Explicit : status'[u] \in UnrunSt => status[u] \in UnrunSt
  PROVE  GroupsOpen'
  BY DEF GroupsOpen, Unrun

Counts(k, s) == s \in UnrunSt \/ (s = "counted" /\ k # "proxy")

LEMMA CountedKept ==
  ASSUME \A u \in Explicit : Counts(kind'[u], status'[u]) <=> Counts(kind[u], status[u])
  PROVE  Counted' = Counted
  BY DEF Counted, Counts

(* Statuses that mean the same to the counters of other tasks.              *)
Alike(k, s, x) ==
  /\ s \in AwaitedSt <=> x \in AwaitedSt
  /\ s \in UnrunSt <=> x \in UnrunSt
  /\ Counts(k, s) <=> Counts(k, x)
  /\ s \in {"none", "freed", "released"} \/ x \in {"none", "freed", "released"} => s = x
  /\ Flag(k, s) = Flag(k, x)

(* A task only moves.                                                       *)
LEMMA KeepLife ==
  ASSUME LInv, CInv', LTyped', UNCHANGED <<born, incomplete, allocated, count>>,
         StacksFit(kind, status', stack'), DequesFit(kind, status', deque'),
         \A u \in Tasks : StatusFits(kind[u], status'[u]),
         \A u \in Explicit : Alike(kind[u], status[u], status'[u]),
         \A u \in Explicit : UsesFit(kind[u], status'[u], UsesOf(stack', deque', u), untied'[u]),
         \A u \in Explicit : status[u] = "released" => UsesOf(stack', deque', u) = UsesOf(stack, deque, u),
         \A u \in Explicit : Num(stack', Freeing(u)) = Num(stack, Freeing(u)),
         \A u \in Threads : untied'[u] = untied[u],
         GroupsOpen', GroupsHeld'
  PROVE  LInv'
<1>1. /\ kind' = kind /\ parent' = parent /\ inherited' = inherited
      /\ incomplete' = incomplete /\ allocated' = allocated /\ count' = count
  BY DEF born
<1>2. stack \in Stacks /\ deque \in Deques /\ stack' \in Stacks /\ deque' \in Deques /\ Born
  BY DEF LInv, CInv, Stacks, Deques
<1>3. Consistent'
  BY <1>1 DEF Consistent
<1>4. UsesCounted'
  BY <1>1 DEF UsesCounted
<1>5. MemoryCounted'
  <2>1. ASSUME NEW u \in Explicit
        PROVE  /\ Own(status'[u], UsesOf(stack', deque', u)) + Num(stack', Freeing(u))
                    = Own(status[u], UsesOf(stack, deque, u)) + Num(stack, Freeing(u))
               /\ status'[u] = "freed" <=> status[u] = "freed"
               /\ UsesOf(stack, deque, u) \in Nat /\ UsesOf(stack', deque', u) \in Nat
               /\ Num(stack, Freeing(u)) \in Nat /\ Num(stack', Freeing(u)) \in Nat
    <3>1. /\ UsesOf(stack, deque, u) \in Nat /\ UsesOf(stack', deque', u) \in Nat
          /\ Num(stack, Freeing(u)) \in Nat /\ Num(stack', Freeing(u)) \in Nat
      BY <1>2, NumsAreNat
    <3>2. Alike(kind[u], status[u], status'[u])
      OBVIOUS
    <3>3. Own(status'[u], UsesOf(stack', deque', u)) = Own(status[u], UsesOf(stack, deque, u))
      <4>1. CASE status[u] \in {"none", "freed"} \/ status'[u] \in {"none", "freed"}
        BY <3>2, <4>1 DEF Alike, Own
      <4>2. CASE status[u] = "released" \/ status'[u] = "released"
        BY <3>2, <4>2 DEF Alike, Own
      <4>3. CASE /\ status[u] \notin {"none", "freed", "released"}
                 /\ status'[u] \notin {"none", "freed", "released"}
        BY <4>3 DEF Own
      <4> QED
        BY <4>1, <4>2, <4>3
    <3>4. status'[u] = "freed" <=> status[u] = "freed"
      BY <3>2 DEF Alike
    <3> QED
      BY <3>1, <3>3, <3>4
  <2> QED
    BY <1>1, <2>1, MemoryKept DEF LInv
<1>6. ChildrenCounted'
  <2>1. \A u \in Tasks : Flag(kind'[u], status'[u]) = Flag(kind[u], status[u])
    <3> SUFFICES ASSUME NEW u \in Tasks PROVE Flag(kind[u], status'[u]) = Flag(kind[u], status[u])
      BY <1>1
    <3>1. CASE u \in Explicit
      BY <3>1 DEF Alike
    <3>2. CASE u \in Threads
      BY <1>2, <3>2 DEF Flag, Born
    <3> QED
      BY <1>2, <3>1, <3>2, Numbers
  <2> QED
    BY <1>1, <2>1, ChildrenKept DEF LInv, Alike
<1>7. MembersCounted'
  <2>1. Counted' = Counted
    BY <1>1, CountedKept DEF Alike
  <2> QED
    BY <1>1, <2>1, MembersKept DEF LInv
<1>8. GroupTree'
  BY <1>1, TreeKept DEF LInv
<1> QED
  BY <1>3, <1>4, <1>5, <1>6, <1>7, <1>8 DEF LInv

LEMMA LifeFacts ==
  ASSUME LInv
  PROVE  /\ stack \in Stacks /\ deque \in Deques /\ Born /\ CInv
         /\ Consistent /\ StacksFit(kind, status, stack) /\ DequesFit(kind, status, deque)
         /\ Tasks = Threads \cup Explicit /\ Explicit \subseteq Tasks /\ Threads \subseteq Tasks
         /\ Threads \cap Explicit = {} /\ Null \notin Tasks
         /\ status \in [Tasks -> Statuses]
         /\ \A u \in Threads : untied[u] = 0
<1>1. /\ stack \in Stacks /\ deque \in Deques /\ Born /\ CInv
  BY DEF LInv, CInv, Stacks, Deques
<1>2. /\ Consistent /\ StacksFit(kind, status, stack) /\ DequesFit(kind, status, deque)
      /\ status \in [Tasks -> Statuses] /\ \A u \in Threads : untied[u] = 0
  BY DEF LInv, Consistent, LTyped, MemoryCounted
<1> QED
  BY <1>1, <1>2, Numbers

(* The frame on top of a stack.                                             *)
LEMMA TopFacts ==
  ASSUME LInv, NEW th \in Threads
  PROVE  /\ stack[th] # <<>> /\ stack[th][1] \in Frame /\ stack[th][1].task \in Tasks
         /\ stack[th][1].act \in Acts
         /\ stack[th][1].task = Task(th) /\ stack[th][1].act = Top(th).act
         /\ FrameFits(kind[Task(th)], status[Task(th)], Top(th).act)
         /\ status[Task(th)] # "none" /\ kind[Task(th)] # "none"
         /\ Task(th) <= LastTask
         /\ Top(th).act \notin Suspended \cup {"barrier"} => Task(th) \in Explicit
         /\ Top(th).act = "submit" => parent[Task(th)] # Null
<1>1. /\ stack[th] \in Seq(Frame) /\ stack[th] # <<>> /\ GoodStack(th, stack[th])
      /\ Len(stack[th]) \in Nat \ {0} /\ Head(stack[th]) = stack[th][1]
      /\ stack[th][1] \in Frame /\ stack[th][1].task \in Tasks /\ stack[th][1].act \in Acts
      /\ stack[th][1].task <= LastTask
  BY StackFacts DEF LInv
<1>2. stack[th][1].task = Task(th) /\ stack[th][1].act = Top(th).act
  BY <1>1 DEF Task, Top
<1>3. 1 \in 1..Len(stack[th])
  BY <1>1
<1>4. FrameFits(kind[Task(th)], status[Task(th)], Top(th).act)
  BY <1>2, <1>3, LifeFacts DEF StacksFit
<1>5. LastTask \in Nat /\ Tasks \subseteq Nat
  BY Numbers, LifeFacts
<1>6. ~(Task(th) > LastTask)
  <2>1. PICK t \in Nat : t = Task(th)
    BY <1>1, <1>2, <1>5
  <2> QED
    BY <1>1, <1>2, <1>5, <2>1
<1>7. kind[Task(th)] # "none"
  BY <1>1, <1>2, <1>6, LifeFacts DEF Born, LastTask
<1>8. status[Task(th)] # "none"
  BY <1>1, <1>2, <1>7, LifeFacts DEF Consistent, StatusFits
<1>9. Top(th).act \notin Suspended \cup {"barrier"} => Task(th) \in Explicit
  <2> SUFFICES ASSUME stack[th][1].act \notin Suspended \cup {"barrier"} PROVE stack[th][1].task \in Explicit
    BY <1>2
  <2>1. Len(stack[th]) # 1
    BY <1>1 DEF GoodStack, IsStack
  <2>2. 1 \in 1..Len(stack[th]) /\ 1 < Len(stack[th])
    BY <1>1, <2>1, MoreThanOne
  <2> QED
    BY <1>1, <2>2 DEF GoodStack, IsStack
<1>10. Top(th).act = "submit" => parent[Task(th)] # Null
  <2> SUFFICES ASSUME Top(th).act = "submit" PROVE parent[Task(th)] # Null
    OBVIOUS
  <2>1. Task(th) \in Explicit
    BY <1>9 DEF Suspended
  <2>2. kind[Task(th)] # "implicit"
    BY <1>1, <1>2, <2>1, LifeFacts DEF Born
  <2> QED
    BY <1>1, <1>2, <1>7, <2>2, LifeFacts DEF Born
<1> QED
  BY <1>1, <1>2, <1>4, <1>7, <1>8, <1>9, <1>10

(* The thread does something else in the task of its top frame: a pop and a *)
(* push.                                                                    *)
LEMMA BecomePush ==
  ASSUME LInv, NEW th \in Threads, NEW a \in Acts, Become(th, a)
  PROVE  \E h, e : /\ e \in Frame /\ e.task = Task(th) /\ e.act = a
                   /\ IsWithPop(h, stack, th) /\ IsWithPush(stack', h, th, e)
<1>1. stack \in Stacks /\ stack[th] \in Seq(Frame) /\ stack[th] # <<>> /\ stack[th][1].task = Task(th)
      /\ Task(th) \in Tasks
  BY LifeFacts, TopFacts DEF Stacks
<1>2. PICK r : r = [stack[th] EXCEPT ![1].act = a]
               /\ IsTop(r, [task |-> stack[th][1].task, act |-> a], stack[th])
  BY <1>1, Topped
<1>3. PICK e : e = [task |-> Task(th), act |-> a]
  OBVIOUS
<1>4. e \in Frame /\ e.task = Task(th) /\ e.act = a
  BY <1>1, <1>3 DEF Frame
<1>5. r = <<e>> \o Tail(stack[th])
  BY <1>1, <1>2, <1>3, <1>4, TopIsPush
<1>6. stack' = [stack EXCEPT ![th] = r]
  BY <1>2 DEF Become
<1>7. PICK h : h = [stack EXCEPT ![th] = Tail(@)]
  OBVIOUS
<1>8. stack' = [h EXCEPT ![th] = <<e>> \o @]
  BY <1>1, <1>5, <1>6, <1>7 DEF Stacks
<1> QED
  BY <1>4, <1>7, <1>8 DEF IsWithPop, IsWithPush

(* What exchanging the frame f for e does to the places of a task.           *)
Exchanged(g, sk, f, e) ==
  \A u : /\ Num(sk, Busy(u)) \in Nat /\ Num(sk, Freeing(u)) \in Nat /\ Num(sk, Inside(u)) \in Nat
         /\ Num(g, Busy(u)) \in Nat /\ Num(g, Freeing(u)) \in Nat /\ Num(g, Inside(u)) \in Nat
         /\ Num(g, Busy(u)) + (IF u = f.task /\ f.act \in BusyActs THEN 1 ELSE 0)
              = Num(sk, Busy(u)) + (IF u = e.task /\ e.act \in BusyActs THEN 1 ELSE 0)
         /\ Num(g, Freeing(u)) + (IF u = f.task /\ f.act = "free" THEN 1 ELSE 0)
              = Num(sk, Freeing(u)) + (IF u = e.task /\ e.act = "free" THEN 1 ELSE 0)
         /\ Num(g, Inside(u)) + (IF u = f.task /\ f.act \in Suspended THEN 1 ELSE 0)
              = Num(sk, Inside(u)) + (IF u = e.task /\ e.act \in Suspended THEN 1 ELSE 0)

LEMMA TopChange ==
  ASSUME NEW sk \in Stacks, NEW th \in Threads, sk[th] # <<>>, NEW f \in Frame, f = sk[th][1],
         NEW e \in Frame, NEW h, NEW g, IsWithPop(h, sk, th), IsWithPush(g, h, th, e)
  PROVE  /\ g \in Stacks /\ h \in Stacks
         /\ Exchanged(g, sk, f, e)
<1>1. /\ h \in Stacks
      /\ \A u : /\ Num(h, Busy(u)) \in Nat /\ Num(h, Freeing(u)) \in Nat /\ Num(h, Inside(u)) \in Nat
                /\ Num(sk, Busy(u)) = Num(h, Busy(u)) + (IF u = f.task /\ f.act \in BusyActs THEN 1 ELSE 0)
                /\ Num(sk, Freeing(u)) = Num(h, Freeing(u)) + (IF u = f.task /\ f.act = "free" THEN 1 ELSE 0)
                /\ Num(sk, Inside(u)) = Num(h, Inside(u)) + (IF u = f.task /\ f.act \in Suspended THEN 1 ELSE 0)
  BY PopAll
<1>2. /\ g \in Stacks
      /\ \A u : /\ Num(g, Busy(u)) = Num(h, Busy(u)) + (IF u = e.task /\ e.act \in BusyActs THEN 1 ELSE 0)
                /\ Num(g, Freeing(u)) = Num(h, Freeing(u)) + (IF u = e.task /\ e.act = "free" THEN 1 ELSE 0)
                /\ Num(g, Inside(u)) = Num(h, Inside(u)) + (IF u = e.task /\ e.act \in Suspended THEN 1 ELSE 0)
  BY <1>1, PushAll
<1>3. ASSUME NEW u
      PROVE  /\ Num(sk, Busy(u)) \in Nat /\ Num(sk, Freeing(u)) \in Nat /\ Num(sk, Inside(u)) \in Nat
             /\ Num(g, Busy(u)) \in Nat /\ Num(g, Freeing(u)) \in Nat /\ Num(g, Inside(u)) \in Nat
             /\ Num(g, Busy(u)) + (IF u = f.task /\ f.act \in BusyActs THEN 1 ELSE 0)
                  = Num(sk, Busy(u)) + (IF u = e.task /\ e.act \in BusyActs THEN 1 ELSE 0)
             /\ Num(g, Freeing(u)) + (IF u = f.task /\ f.act = "free" THEN 1 ELSE 0)
                  = Num(sk, Freeing(u)) + (IF u = e.task /\ e.act = "free" THEN 1 ELSE 0)
             /\ Num(g, Inside(u)) + (IF u = f.task /\ f.act \in Suspended THEN 1 ELSE 0)
                  = Num(sk, Inside(u)) + (IF u = e.task /\ e.act \in Suspended THEN 1 ELSE 0)
  <2>1. PICK b \in Nat, c \in Nat, d \in Nat : b = Num(h, Busy(u)) /\ c = Num(h, Freeing(u)) /\ d = Num(h, Inside(u))
    BY <1>1
  <2> QED
    BY <1>1, <1>2, <2>1
<1> QED
  BY <1>1, <1>2, <1>3 DEF Exchanged

LEMMA FitTop ==
  ASSUME NEW k, NEW st, NEW sk \in Stacks, NEW th \in Threads, sk[th] # <<>>, NEW e \in Frame, NEW h, NEW g,
         h \in Stacks, IsWithPop(h, sk, th), IsWithPush(g, h, th, e), StacksFit(k, st, sk), FrameFits(k[e.task], st[e.task], e.act)
  PROVE  StacksFit(k, st, g)
<1>1. StacksFit(k, st, h)
  BY FitPop
<1> QED
  BY <1>1, FitPush

LEMMA SameLife ==
  ASSUME LInv, CInv', LTyped', UNCHANGED <<born, status, incomplete, allocated, count>>,
         StacksFit(kind, status, stack'), DequesFit(kind, status, deque'),
         \A u \in Explicit : UsesFit(kind[u], status[u], UsesOf(stack', deque', u), untied'[u]),
         \A u \in Explicit : status[u] = "released" => UsesOf(stack', deque', u) = UsesOf(stack, deque, u),
         \A u \in Explicit : Num(stack', Freeing(u)) = Num(stack, Freeing(u)),
         \A u \in Threads : untied'[u] = untied[u],
         GroupsOpen', GroupsHeld'
  PROVE  LInv'
<1>1. \A k, s : Alike(k, s, s)
  BY DEF Alike
<1>2. \A u \in Tasks : StatusFits(kind[u], status[u])
  BY DEF LInv, Consistent
<1>3. status' = status
  OBVIOUS
<1>4. /\ StacksFit(kind, status', stack') /\ DequesFit(kind, status', deque')
      /\ \A u \in Tasks : StatusFits(kind[u], status'[u])
      /\ \A u \in Explicit : Alike(kind[u], status[u], status'[u])
      /\ \A u \in Explicit : UsesFit(kind[u], status'[u], UsesOf(stack', deque', u), untied'[u])
  BY <1>1, <1>2, <1>3
<1> QED
  BY <1>4, KeepLife

LEMMA SameGroups ==
  ASSUME LInv, UNCHANGED <<inherited, status, group>>
  PROVE  GroupsOpen'
  BY OpenKept DEF LInv

(* The thread goes on in its body, or ends it.                              *)
LEMMA MoveLife ==
  ASSUME LInv, CInv', LTyped', NEW th \in Threads, NEW a \in Acts, Become(th, a),
         Top(th).act \in Suspended,
         \/ a \in Suspended
         \/ a = "finish" /\ Task(th) \in Explicit
         \/ a = "barrier" /\ Task(th) \in Threads,
         a \notin Suspended => group[Task(th)] # "open",
         UNCHANGED <<born, status, incomplete, allocated, untied, count, deque>>,
         \A g \in Tasks : group'[g] = "open" => group[g] = "open",
         GroupsOpen'
  PROVE  LInv'
<1>1. /\ stack \in Stacks /\ deque \in Deques /\ StacksFit(kind, status, stack)
      /\ DequesFit(kind, status, deque) /\ Threads \cap Explicit = {} /\ Tasks = Threads \cup Explicit
  BY LifeFacts
<1>2. PICK f \in Frame : f = stack[th][1] /\ f.task = Task(th) /\ f.act = Top(th).act
  BY TopFacts
<1>3. PICK h, e : /\ e \in Frame /\ e.task = Task(th) /\ e.act = a
                  /\ IsWithPop(h, stack, th) /\ IsWithPush(stack', h, th, e)
  BY BecomePush
<1>4. PICK sk : sk = stack'
  OBVIOUS
<1>5. sk \in Stacks /\ h \in Stacks /\ Exchanged(sk, stack, f, e)
  <2>1. stack[th] # <<>> /\ IsWithPush(sk, h, th, e)
    BY <1>3, <1>4, TopFacts
  <2> QED
    BY <1>1, <1>2, <1>3, <2>1, TopChange
<1>6. StacksFit(kind, status, sk)
  <2>1. FrameFits(kind[Task(th)], status[Task(th)], Top(th).act)
    BY TopFacts
  <2>2. FrameFits(kind[Task(th)], status[Task(th)], a)
    BY <2>1 DEF FrameFits, Suspended
  <2>3. FrameFits(kind[e.task], status[e.task], e.act)
    BY <1>3, <2>2
  <2>4. stack[th] # <<>>
    BY TopFacts
  <2> QED
    BY <1>1, <1>3, <1>4, <1>5, <2>3, <2>4, FitTop
<1>7. /\ f.act \in BusyActs /\ f.act # "free" /\ f.act \in Suspended
      /\ e.act # "free" /\ (e.act \in BusyActs \/ Task(th) \in Threads)
  BY <1>2, <1>3 DEF Suspended, BusyActs, Acts
<1>8. ASSUME NEW u \in Explicit
      PROVE  Num(sk, Busy(u)) = Num(stack, Busy(u)) /\ Num(sk, Freeing(u)) = Num(stack, Freeing(u))
  BY <1>1, <1>2, <1>3, <1>5, <1>7 DEF Exchanged
<1>9. \A u \in Explicit : UsesOf(sk, deque', u) = UsesOf(stack, deque, u)
  BY <1>8 DEF UsesOf
<1>10. GroupsHeld'
  <2> SUFFICES ASSUME NEW g \in Tasks, group[g] = "open" PROVE Num(sk, Inside(g)) # 0
    BY <1>4 DEF GroupsHeld
  <2>1. Num(stack, Inside(g)) # 0
    BY DEF LInv, GroupsHeld
  <2>2. CASE g = Task(th)
    <3>1. e.act \in Suspended
      BY <1>3, <2>2
    <3> QED
      BY <1>2, <1>3, <1>5, <1>7, <2>1, <2>2, <3>1 DEF Exchanged
  <2>3. CASE g # Task(th)
    BY <1>2, <1>3, <1>5, <2>1, <2>3 DEF Exchanged
  <2> QED
    BY <2>2, <2>3
<1>11. /\ StacksFit(kind, status, stack') /\ DequesFit(kind, status, deque')
       /\ \A u \in Explicit : UsesFit(kind[u], status[u], UsesOf(stack', deque', u), untied'[u])
       /\ \A u \in Explicit : UsesOf(stack', deque', u) = UsesOf(stack, deque, u)
       /\ \A u \in Explicit : Num(stack', Freeing(u)) = Num(stack, Freeing(u))
       /\ \A u \in Threads : untied'[u] = untied[u]
  <2>1. \A u \in Explicit : UsesFit(kind[u], status[u], UsesOf(stack, deque, u), untied[u])
    BY DEF LInv, UsesCounted
  <2> QED
    BY <1>1, <1>4, <1>6, <1>8, <1>9, <2>1
<1> QED
  BY <1>10, <1>11, SameLife

LEMMA WaitsLife ==
  ASSUME LInv, CInv', LTyped', NEW th \in Threads,
         TaskWait(th) \/ WaitEnds(th) \/ EndTaskGroup(th) \/ BodyEnds(th)
  PROVE  LInv'
<1>1. \A a \in {"run", "wait", "endgroup", "finish", "barrier"} : a \in Acts
  BY DEF Acts
<1>2. UNCHANGED <<inherited, status, group>>
  BY DEF TaskWait, WaitEnds, EndTaskGroup, BodyEnds, born, groups
<1>3. GroupsOpen'
  BY <1>2, SameGroups
<1>4. /\ UNCHANGED <<born, status, incomplete, allocated, untied, count, deque>>
      /\ \A g \in Tasks : group'[g] = "open" => group[g] = "open"
  BY DEF TaskWait, WaitEnds, EndTaskGroup, BodyEnds, born, groups, counts
<1>5. CASE TaskWait(th) \/ WaitEnds(th) \/ EndTaskGroup(th)
  <2>1. Top(th).act \in Suspended /\ \E a \in Suspended : Become(th, a)
    BY <1>5 DEF TaskWait, WaitEnds, EndTaskGroup, Does, Suspended
  <2>2. PICK a \in Suspended : Become(th, a)
    BY <2>1
  <2>3. a \in Acts
    BY DEF Suspended, Acts
  <2> QED
    BY <1>3, <1>4, <2>1, <2>2, <2>3, MoveLife
<1>6. CASE BodyEnds(th)
  <2>1. Top(th).act \in Suspended /\ group[Task(th)] # "open"
    BY <1>6 DEF BodyEnds, Does, Suspended
  <2>2. PICK a : a = IF Task(th) \in Threads THEN "barrier" ELSE "finish"
    OBVIOUS
  <2>3. Become(th, a) /\ a \in Acts
    BY <1>1, <1>6, <2>2 DEF BodyEnds
  <2>4. Task(th) \in Threads \cup Explicit
    BY TopFacts, LifeFacts
  <2>5. \/ a = "finish" /\ Task(th) \in Explicit
        \/ a = "barrier" /\ Task(th) \in Threads
    BY <2>2, <2>4
  <2> QED
    BY <1>3, <1>4, <2>1, <2>3, <2>5, MoveLife
<1> QED
  BY <1>5, <1>6

(* A group ends when no task counts in it any more.                         *)
LEMMA GroupEndsLife ==
  ASSUME LInv, CInv', LTyped', NEW th \in Threads, GroupEnds(th)
  PROVE  LInv'
<1>1. /\ Top(th).act \in Suspended /\ Become(th, "run") /\ "run" \in Acts /\ "run" \in Suspended
      /\ count[Task(th)] = 0 /\ group' = [group EXCEPT ![Task(th)] = "ended"]
      /\ UNCHANGED <<born, status, incomplete, allocated, untied, count, deque>>
  BY DEF GroupEnds, Does, Suspended, Acts, counts
<1>2. Task(th) \in Tasks /\ group \in [Tasks -> {"none", "open", "ended"}]
  BY TopFacts DEF LInv, LTyped
<1>3. \A g \in Tasks : group'[g] = "open" => group[g] = "open" /\ g # Task(th)
  BY <1>1, <1>2
<1>4. GroupsOpen'
  <2>1. Kids(inherited, Counted, Task(th)) = 0
    BY <1>1, <1>2 DEF LInv, MembersCounted
  <2>2. Counted \in SUBSET Explicit
    BY DEF Counted
  <2>3. \A d \in Counted : inherited[d] # Task(th)
    BY <2>1, <2>2, NoKids
  <2>4. Unrun \subseteq Counted /\ Unrun' = Unrun /\ inherited' = inherited
    BY <1>1 DEF Unrun, Counted, born
  <2>5. Explicit \subseteq Tasks /\ inherited \in [Tasks -> Tasks \cup {Null}]
    BY LifeFacts DEF LInv, LTyped
  <2>6. \A d \in Unrun : d \in Tasks /\ inherited[d] # Null => group[inherited[d]] = "open" /\ inherited[d] \in Tasks
    BY <2>5 DEF LInv, GroupsOpen, Unrun
  <2> QED
    BY <1>1, <1>2, <2>3, <2>4, <2>5, <2>6 DEF GroupsOpen, Unrun
<1> QED
  BY <1>1, <1>3, <1>4, MoveLife

(* A task opens a group.                                                    *)
LEMMA TaskGroupLife ==
  ASSUME LInv, CInv', LTyped', NEW th \in Threads, TaskGroup(th)
  PROVE  LInv'
<1>1. /\ Top(th).act = "run" /\ group' = [group EXCEPT ![Task(th)] = "open"]
      /\ UNCHANGED <<born, status, incomplete, allocated, untied, count, stack, deque>>
  BY DEF TaskGroup, Does, counts
<1>2. /\ Task(th) \in Tasks /\ group \in [Tasks -> {"none", "open", "ended"}]
      /\ inherited \in [Tasks -> Tasks \cup {Null}] /\ inherited' = inherited /\ Explicit \subseteq Tasks
  <2>1. Task(th) \in Tasks /\ Explicit \subseteq Tasks
    BY TopFacts, LifeFacts
  <2>2. LTyped /\ inherited' = inherited
    BY <1>1 DEF LInv, born
  <2> QED
    BY <2>1, <2>2 DEF LTyped
<1>3. GroupsOpen'
  <2>1. Unrun' = Unrun
    BY <1>1 DEF Unrun
  <2>2. \A d \in Unrun : inherited[d] # Null => group[inherited[d]] = "open" /\ inherited[d] \in Tasks
    BY <1>2 DEF LInv, GroupsOpen, Unrun
  <2> QED
    BY <1>1, <1>2, <2>1, <2>2 DEF GroupsOpen
<1>4. GroupsHeld'
  <2> SUFFICES ASSUME NEW g \in Tasks, group'[g] = "open" PROVE Num(stack, Inside(g)) # 0
    BY <1>1 DEF GroupsHeld
  <2>1. CASE g # Task(th)
    BY <1>1, <1>2, <2>1 DEF LInv, GroupsHeld
  <2>2. CASE g = Task(th)
    <3>1. stack[th][1] \in Inside(g) /\ stack[th] # <<>> /\ stack \in Stacks
      BY <1>1, <2>2, TopFacts, LifeFacts DEF Inside, Suspended
    <3>2. 1 \in 1..Len(stack[th])
      BY <3>1 DEF Stacks
    <3> QED
      BY <3>1, <3>2, NoPlaces
  <2> QED
    BY <2>1, <2>2
<1>5. \A u \in Explicit : UsesFit(kind[u], status[u], UsesOf(stack, deque, u), untied[u])
  BY DEF LInv, UsesCounted
<1>6. StacksFit(kind, status, stack) /\ DequesFit(kind, status, deque)
  BY LifeFacts
<1> QED
  BY <1>1, <1>3, <1>4, <1>5, <1>6, SameLife

LEMMA CancelLife ==
  ASSUME LInv, CInv', LTyped', NEW th \in Threads, Cancel(th)
  PROVE  LInv'
<1>1. UNCHANGED <<born, status, incomplete, allocated, untied, group, count, stack, deque>>
  BY DEF Cancel, counts
<1>2. GroupsOpen'
  BY <1>1, SameGroups DEF born
<1>3. GroupsHeld'
  BY <1>1 DEF LInv, GroupsHeld
<1>4. \A u \in Explicit : UsesFit(kind[u], status[u], UsesOf(stack, deque, u), untied[u])
  BY DEF LInv, UsesCounted
<1>5. StacksFit(kind, status, stack) /\ DequesFit(kind, status, deque)
  BY LifeFacts
<1> QED
  BY <1>1, <1>2, <1>3, <1>4, <1>5, SameLife

LEMMA StutterLife ==
  ASSUME LInv, UNCHANGED vars
  PROVE  LInv'
<1>1. UNCHANGED <<born, status, incomplete, allocated, untied, group, count, stack, deque>>
      /\ UNCHANGED <<part, serial, cancelled, fault>>
  BY DEF vars, counts, groups
<1>2. CInv'
  BY <1>1, AllSame, SameDeques DEF LInv
<1>3. LTyped'
  BY <1>1 DEF LInv, LTyped, born
<1>4. GroupsOpen'
  BY <1>1, SameGroups DEF born
<1>5. GroupsHeld'
  BY <1>1 DEF LInv, GroupsHeld
<1>6. \A u \in Explicit : UsesFit(kind[u], status[u], UsesOf(stack, deque, u), untied[u])
  BY DEF LInv, UsesCounted
<1>7. StacksFit(kind, status, stack) /\ DequesFit(kind, status, deque)
  BY LifeFacts
<1> QED
  BY <1>1, <1>2, <1>3, <1>4, <1>5, <1>6, <1>7, SameLife

(* __kmp_invoke_task returns for a proxy task.                              *)
LEMMA ReturnLife ==
  ASSUME LInv, CInv', LTyped', NEW th \in Threads, Return(th)
  PROVE  LInv'
<1>1. /\ Top(th).act = "return" /\ IsWithPop(stack', stack, th)
      /\ UNCHANGED <<born, status, incomplete, allocated, untied, group, count, deque>>
  BY DEF Return, Does, counts, groups, Pop, IsWithPop
<1>2. /\ stack \in Stacks /\ stack[th] # <<>> /\ StacksFit(kind, status, stack)
      /\ DequesFit(kind, status, deque)
  BY LifeFacts, TopFacts
<1>3. PICK f \in Frame : f = stack[th][1] /\ f.task = Task(th) /\ f.act = Top(th).act
  BY TopFacts
<1>4. PICK sk : sk = stack'
  OBVIOUS
<1>5. IsWithPop(sk, stack, th)
  BY <1>1, <1>4
<1>6. \A u : /\ Num(sk, Busy(u)) \in Nat /\ Num(sk, Freeing(u)) \in Nat /\ Num(sk, Inside(u)) \in Nat
             /\ Num(stack, Busy(u)) = Num(sk, Busy(u)) + (IF u = f.task /\ f.act \in BusyActs THEN 1 ELSE 0)
             /\ Num(stack, Freeing(u)) = Num(sk, Freeing(u)) + (IF u = f.task /\ f.act = "free" THEN 1 ELSE 0)
             /\ Num(stack, Inside(u)) = Num(sk, Inside(u)) + (IF u = f.task /\ f.act \in Suspended THEN 1 ELSE 0)
  BY <1>2, <1>3, <1>5, PopAll
<1>7. f.act \notin BusyActs /\ f.act # "free" /\ f.act \notin Suspended
  BY <1>1, <1>3 DEF BusyActs, Suspended
<1>8. \A u : /\ Num(sk, Busy(u)) = Num(stack, Busy(u)) /\ Num(sk, Freeing(u)) = Num(stack, Freeing(u))
             /\ Num(sk, Inside(u)) = Num(stack, Inside(u))
  BY <1>6, <1>7
<1>9. StacksFit(kind, status, sk)
  BY <1>2, <1>5, FitPop
<1>10. GroupsOpen'
  BY <1>1, SameGroups DEF born
<1>11. GroupsHeld'
  BY <1>1, <1>4, <1>8 DEF LInv, GroupsHeld
<1>12. \A u \in Explicit : UsesFit(kind[u], status[u], UsesOf(stack, deque, u), untied[u])
  BY DEF LInv, UsesCounted
<1>13. \A u : UsesOf(sk, deque, u) = UsesOf(stack, deque, u)
  BY <1>8 DEF UsesOf
<1> QED
  BY <1>1, <1>2, <1>4, <1>8, <1>9, <1>10, <1>11, <1>12, <1>13, SameLife

(* A task is about to be put somewhere: the stacks sk and the deques dq are *)
(* those without the place that it leaves.                                  *)
Base(t, sk, dq) ==
  /\ sk \in Stacks /\ dq \in Deques /\ StacksFit(kind, status, sk) /\ DequesFit(kind, status, dq)
  /\ \A u \in Explicit : Num(sk, Freeing(u)) = Num(stack, Freeing(u))
  /\ \A u \in Explicit \ {t} : UsesOf(sk, dq, u) = UsesOf(stack, deque, u)
  /\ \A g \in Tasks : group[g] = "open" => Num(sk, Inside(g)) # 0
  /\ \/ status[t] \in {"new", "held", "queued"} /\ UsesOf(sk, dq, t) = 0
     \/ status[t] \in {"queued", "running"} /\ kind[t] = "untied"

LEMMA PlaceLife ==
  ASSUME LInv, CInv', LTyped', NEW t \in Explicit, NEW x \in {"held", "queued", "running", "async"},
         NEW sk, NEW dq, Base(t, sk, dq),
         status' = [status EXCEPT ![t] = x], StatusFits(kind[t], x),
         UNCHANGED <<born, incomplete, allocated, count, group>>,
         StacksFit(kind, status', stack'), DequesFit(kind, status', deque'),
         \A u \in Explicit : Num(stack', Freeing(u)) = Num(sk, Freeing(u)),
         \A g \in Tasks : Num(sk, Inside(g)) # 0 => Num(stack', Inside(g)) # 0,
         \A u \in Explicit \ {t} : UsesOf(stack', deque', u) = UsesOf(sk, dq, u),
         \A u \in Tasks \ {t} : untied'[u] = untied[u],
         UsesFit(kind[t], x, UsesOf(stack', deque', t), untied'[t])
  PROVE  LInv'
<1>1. /\ status \in [Tasks -> Statuses] /\ Explicit \subseteq Tasks /\ Threads \subseteq Tasks
      /\ Threads \cap Explicit = {} /\ t \in Tasks
  BY LifeFacts
<1>2. /\ status'[t] = x /\ \A u \in Tasks : u # t => status'[u] = status[u]
  BY <1>1
<1>3. status[t] \in {"new", "held", "queued", "running"}
  BY DEF Base
<1>4. \A u \in Tasks : StatusFits(kind[u], status'[u])
  <2>1. \A u \in Tasks : StatusFits(kind[u], status[u])
    BY DEF LInv, Consistent
  <2> QED
    BY <1>2, <2>1
<1>5. ASSUME NEW u \in Explicit PROVE Alike(kind[u], status[u], status'[u])
  <2>1. CASE u = t
    BY <1>2, <1>3, <2>1 DEF Alike, AwaitedSt, UnrunSt, Counts, Flag
  <2>2. CASE u # t
    BY <1>1, <1>2, <2>2 DEF Alike
  <2> QED
    BY <2>1, <2>2
<1>6. ASSUME NEW u \in Explicit PROVE UsesFit(kind[u], status'[u], UsesOf(stack', deque', u), untied'[u])
  <2>1. CASE u = t
    BY <1>2, <2>1
  <2>2. CASE u # t
    <3>1. UsesFit(kind[u], status[u], UsesOf(stack, deque, u), untied[u])
      BY DEF LInv, UsesCounted
    <3>2. UsesOf(stack', deque', u) = UsesOf(stack, deque, u) /\ untied'[u] = untied[u] /\ status'[u] = status[u]
      BY <1>1, <1>2, <2>2 DEF Base
    <3> QED
      BY <3>1, <3>2
  <2> QED
    BY <2>1, <2>2
<1>7. ASSUME NEW u \in Explicit, status[u] = "released" PROVE UsesOf(stack', deque', u) = UsesOf(stack, deque, u)
  BY <1>3, <1>7 DEF Base
<1>8. \A u \in Explicit : Num(stack', Freeing(u)) = Num(stack, Freeing(u))
  BY DEF Base
<1>9. GroupsOpen'
  <2>1. \A u \in Explicit : status'[u] \in UnrunSt => status[u] \in UnrunSt
    BY <1>5 DEF Alike
  <2>2. UNCHANGED <<inherited, group>>
    BY DEF born
  <2> QED
    BY <2>1, <2>2, OpenKept DEF LInv
<1>10. GroupsHeld'
  BY DEF GroupsHeld, Base
<1>11. \A u \in Threads : untied'[u] = untied[u]
  BY <1>1
<1>12. UNCHANGED <<born, incomplete, allocated, count>>
  OBVIOUS
<1> QED
  BY <1>4, <1>5, <1>6, <1>7, <1>8, <1>9, <1>10, <1>11, <1>12, KeepLife

(* The status of the task changes before it is put there.                   *)
LEMMA PlaceFits ==
  ASSUME LInv, NEW t \in Explicit, NEW x \in Statuses, NEW sk, NEW dq, Base(t, sk, dq),
         UsesOf(sk, dq, t) = 0 \/ x = "running", NEW st, st = [status EXCEPT ![t] = x]
  PROVE  StacksFit(kind, st, sk) /\ DequesFit(kind, st, dq)
<1>1. /\ status \in [Tasks -> Statuses] /\ t \in Tasks /\ Explicit \subseteq Tasks
      /\ sk \in Stacks /\ dq \in Deques /\ StacksFit(kind, status, sk) /\ DequesFit(kind, status, dq)
  BY LifeFacts DEF Base
<1>2. Num(sk, Busy(t)) \in Nat /\ Slots(dq, t) \in Nat
  BY <1>1, NumsAreNat
<1>3. Num(sk, Busy(t)) = 0 \/ \A a \in BusyActs : FrameFits(kind[t], status[t], a) => FrameFits(kind[t], x, a)
  <2>1. CASE UsesOf(sk, dq, t) = 0
    BY <1>2, <2>1 DEF UsesOf
  <2>2. CASE UsesOf(sk, dq, t) # 0
    <3>1. x = "running" /\ status[t] \in {"queued", "running"}
      BY <2>2 DEF Base
    <3>2. status[t] = "queued" => \A a \in BusyActs : ~FrameFits(kind[t], status[t], a)
      BY DEF FrameFits, BusyActs, Acts, Suspended
    <3> QED
      BY <3>1, <3>2
  <2> QED
    BY <2>1, <2>2
<1>4. Slots(dq, t) = 0 \/ (SlotFits(kind[t], status[t]) => SlotFits(kind[t], x))
  <2>1. CASE UsesOf(sk, dq, t) = 0
    BY <1>2, <2>1 DEF UsesOf
  <2>2. CASE UsesOf(sk, dq, t) # 0
    BY <2>2 DEF Base, SlotFits
  <2> QED
    BY <2>1, <2>2
<1>5. StacksFit(kind, st, sk)
  BY <1>1, <1>3, FitMark
<1>6. DequesFit(kind, st, dq)
  BY <1>1, <1>4, DFitMark
<1> QED
  BY <1>5, <1>6

(* The task is deferred: it goes to the tail of a deque.                    *)
LEMMA DeferLife ==
  ASSUME LInv, CInv', LTyped', NEW th \in Threads, NEW t \in Explicit, NEW sk, NEW frames,
         Base(t, sk, deque), status[t] # "queued", Put(stack, th, frames, sk),
         untied[t] = (IF kind[t] = "untied" THEN UsesOf(sk, deque, t) ELSE 0),
         UNCHANGED <<born, incomplete, allocated, count, group>>,
         Defer(th, t, frames)
  PROVE  LInv'
<1>1. PICK x \in {"queued", "running"} : x = IF status[t] = "running" THEN "running" ELSE "queued"
  OBVIOUS
<1>2. /\ kind[t] # "proxy" /\ IsWithLast(deque', deque, th, t)
      /\ untied' = Submitted(t) /\ status' = [status EXCEPT ![t] = x] /\ stack' = sk
  BY <1>1 DEF Defer, IsWithLast, Mark, Put
<1>3. /\ status \in [Tasks -> Statuses] /\ t \in Tasks /\ Explicit \subseteq Tasks
      /\ sk \in Stacks /\ deque \in Deques /\ untied \in [Tasks -> Int]
      /\ status[t] # "none" /\ StatusFits(kind[t], status[t])
  BY LifeFacts DEF Base, LInv, LTyped, Consistent
<1>4. UsesOf(sk, deque, t) = 0 \/ x = "running"
  BY <1>1 DEF Base
<1>5. PICK st : st = [status EXCEPT ![t] = x]
  OBVIOUS
<1>6. StacksFit(kind, st, sk) /\ DequesFit(kind, st, deque)
  BY <1>4, <1>5, PlaceFits DEF Statuses
<1>7. PICK dq : dq = deque'
  OBVIOUS
<1>8. IsWithLast(dq, deque, th, t)
  BY <1>2, <1>7
<1>9. dq \in Deques /\ \A u : Slots(deque, u) \in Nat /\ Slots(dq, u) = Slots(deque, u) + (IF u = t THEN 1 ELSE 0)
  <2>1. deque \in Deques
    BY <1>3
  <2> QED
    BY <1>8, <2>1, AppendAll
<1>10. st[t] = x /\ SlotFits(kind[t], x)
  <2>1. x = "running" => kind[t] = "untied"
    BY <1>1 DEF Base
  <2> QED
    BY <1>2, <1>3, <1>5, <2>1 DEF SlotFits
<1>11. DequesFit(kind, st, dq)
  BY <1>3, <1>6, <1>8, <1>10, DFitAppend
<1>12. \A u : Num(sk, Busy(u)) \in Nat
  BY <1>3, NumsAreNat
<1>13. /\ \A u : u # t => UsesOf(sk, dq, u) = UsesOf(sk, deque, u)
       /\ UsesOf(sk, dq, t) = UsesOf(sk, deque, t) + 1 /\ UsesOf(sk, deque, t) \in Nat
  <2>1. ASSUME NEW u, u # t PROVE UsesOf(sk, dq, u) = UsesOf(sk, deque, u)
    BY <1>9, <2>1 DEF UsesOf
  <2>2. PICK m \in Nat, n \in Nat : m = Num(sk, Busy(t)) /\ n = Slots(deque, t)
    BY <1>9, <1>12
  <2>3. Slots(dq, t) = n + 1
    BY <1>9, <2>2
  <2>4. UsesOf(sk, dq, t) = m + (n + 1) /\ UsesOf(sk, deque, t) = m + n
    BY <2>2, <2>3 DEF UsesOf
  <2> QED
    BY <2>1, <2>2, <2>4
<1>14. /\ untied'[t] = untied[t] + (IF kind[t] = "untied" THEN 1 ELSE 0)
       /\ \A u \in Tasks \ {t} : untied'[u] = untied[u]
  BY <1>2, <1>3 DEF Submitted
<1>15. UsesFit(kind[t], x, UsesOf(sk, dq, t), untied'[t])
  <2>1. kind[t] = "tied" => UsesOf(sk, deque, t) = 0
    BY DEF Base
  <2> QED
    BY <1>2, <1>13, <1>14, <2>1 DEF UsesFit
<1>16. StatusFits(kind[t], x)
  <2>1. kind[t] # "implicit" /\ kind[t] # "none"
    BY <1>3, LifeFacts DEF StatusFits, Born
  <2> QED
    BY <1>2, <2>1 DEF StatusFits
<1> QED
  BY <1>2, <1>5, <1>6, <1>7, <1>11, <1>13, <1>14, <1>15, <1>16, PlaceLife

(* The task is run on top of a stack, or its routine at least.              *)
LEMMA InvokeLife ==
  ASSUME LInv, CInv', LTyped', NEW th \in Threads, NEW t \in Explicit, NEW sk, NEW frames,
         Base(t, sk, deque'), Put(stack, th, frames, sk),
         untied'[t] = (IF kind[t] = "untied" THEN UsesOf(sk, deque', t) + 1 ELSE 0),
         \A u \in Tasks \ {t} : untied'[u] = untied[u],
         UNCHANGED <<born, incomplete, allocated, count, group>>,
         Invoke(th, t, frames)
  PROVE  LInv'
<1>1. PICK x \in {"running", "async"} :
        x = IF kind[t] = "proxy" /\ ~Discarded(t) THEN "async" ELSE "running"
  OBVIOUS
<1>2. PICK a \in {"run", "finish", "return"} :
        a = IF kind[t] = "proxy" THEN "return" ELSE IF Discarded(t) THEN "finish" ELSE "run"
  OBVIOUS
<1>3. PICK f : f = [task |-> t, act |-> a]
  OBVIOUS
<1>4. /\ status \in [Tasks -> Statuses] /\ t \in Tasks /\ Explicit \subseteq Tasks
      /\ stack \in Stacks /\ sk \in Stacks /\ deque' \in Deques /\ status[t] # "none" /\ StatusFits(kind[t], status[t])
  BY LifeFacts DEF Base, Consistent
<1>5. f \in Frame /\ f.task = t /\ f.act = a
  BY <1>3, <1>4 DEF Frame, Acts
<1>6. PICK g : g = stack'
  OBVIOUS
<1>7. IsWithPush(g, sk, th, f)
  <2>1. stack' = [stack EXCEPT ![th] = <<f>> \o frames]
    BY <1>2, <1>3 DEF Invoke
  <2>2. [sk EXCEPT ![th] = <<f>> \o @] = [stack EXCEPT ![th] = <<f>> \o frames]
    BY <1>4 DEF Put, Stacks
  <2> QED
    BY <1>6, <2>1, <2>2 DEF IsWithPush
<1>8. status' = [status EXCEPT ![t] = x]
  BY <1>1 DEF Invoke
<1>9. kind[t] # "implicit" /\ kind[t] # "none"
  BY <1>4, LifeFacts DEF StatusFits, Born
<1>10. StatusFits(kind[t], x)
  BY <1>1, <1>9 DEF StatusFits
<1>11. kind[t] = "proxy" => UsesOf(sk, deque', t) = 0
  BY DEF Base
<1>12. kind[t] = "tied" => UsesOf(sk, deque', t) = 0
  BY DEF Base
<1>13. PICK st : st = [status EXCEPT ![t] = x]
  OBVIOUS
<1>14. StacksFit(kind, st, sk) /\ DequesFit(kind, st, deque')
  <2>1. UsesOf(sk, deque', t) = 0 \/ x = "running"
    BY <1>1, <1>11
  <2>2. PICK dq : dq = deque'
    OBVIOUS
  <2>3. StacksFit(kind, st, sk) /\ DequesFit(kind, st, dq)
    BY <1>13, <2>1, <2>2, PlaceFits DEF Statuses
  <2> QED
    BY <2>2, <2>3
<1>15. StacksFit(kind, st, g)
  <2>1. FrameFits(kind[t], x, a)
    BY <1>1, <1>2 DEF FrameFits, Suspended
  <2>2. FrameFits(kind[f.task], st[f.task], f.act)
    BY <1>4, <1>5, <1>13, <2>1
  <2> QED
    BY <1>4, <1>5, <1>7, <1>14, <2>2, FitPush
<1>16. \A u : /\ Num(sk, Busy(u)) \in Nat /\ Num(sk, Freeing(u)) \in Nat /\ Num(sk, Inside(u)) \in Nat
              /\ Num(g, Busy(u)) = Num(sk, Busy(u)) + (IF u = f.task /\ f.act \in BusyActs THEN 1 ELSE 0)
              /\ Num(g, Freeing(u)) = Num(sk, Freeing(u)) + (IF u = f.task /\ f.act = "free" THEN 1 ELSE 0)
              /\ Num(g, Inside(u)) = Num(sk, Inside(u)) + (IF u = f.task /\ f.act \in Suspended THEN 1 ELSE 0)
  BY <1>4, <1>5, <1>7, PushAll
<1>17. \A u \in Tasks : Num(sk, Inside(u)) # 0 => Num(g, Inside(u)) # 0
  BY <1>16
<1>18. \A u \in Explicit : Num(g, Freeing(u)) = Num(sk, Freeing(u))
  BY <1>5, <1>16
<1>19. \A u \in Explicit \ {t} : UsesOf(g, deque', u) = UsesOf(sk, deque', u)
  BY <1>5, <1>16 DEF UsesOf
<1>20. PICK m \in Nat, n \in Nat : m = Num(sk, Busy(t)) /\ n = Slots(deque', t)
  BY <1>4, NumsAreNat
<1>21. UsesOf(sk, deque', t) = m + n
  BY <1>20 DEF UsesOf
<1>22. UsesFit(kind[t], x, UsesOf(g, deque', t), untied'[t])
  <2>1. CASE kind[t] = "proxy"
    <3>1. f.act \notin BusyActs
      BY <1>2, <1>5, <2>1 DEF BusyActs
    <3>2. UsesOf(g, deque', t) = m + n
      BY <1>5, <1>16, <1>20, <3>1 DEF UsesOf
    <3> QED
      BY <1>1, <1>11, <1>21, <2>1, <3>2 DEF UsesFit
  <2>2. CASE kind[t] # "proxy"
    <3>1. f.act \in BusyActs
      BY <1>2, <1>5, <2>2 DEF BusyActs, Acts
    <3>2. Num(g, Busy(t)) = m + 1
      BY <1>5, <1>16, <1>20, <3>1
    <3>3. UsesOf(g, deque', t) = (m + n) + 1
      BY <1>20, <3>2 DEF UsesOf
    <3> QED
      BY <1>1, <1>12, <1>21, <2>2, <3>3 DEF UsesFit
  <2> QED
    BY <2>1, <2>2
<1> QED
  BY <1>6, <1>8, <1>10, <1>13, <1>14, <1>15, <1>17, <1>18, <1>19, <1>22, PlaceLife

(* A new task is held back, deferred or run at once.                        *)
LEMMA SubmitLife ==
  ASSUME LInv, CInv', LTyped', NEW th \in Threads, Submit(th)
  PROVE  LInv'
<1>1. PICK t : t = Task(th)
  OBVIOUS
<1>2. PICK f \in Frame : f = stack[th][1] /\ f.task = t /\ f.act = "submit"
  BY <1>1, TopFacts DEF Submit, Does
<1>3. t \in Explicit /\ t \in Tasks /\ status[t] = "new" /\ stack \in Stacks /\ deque \in Deques
      /\ stack[th] # <<>> /\ StacksFit(kind, status, stack) /\ DequesFit(kind, status, deque)
      /\ untied \in [Tasks -> Int] /\ Explicit \subseteq Tasks
  <2>1. Top(th).act = "submit"
    BY DEF Submit, Does
  <2> QED
    BY <1>1, <2>1, TopFacts, LifeFacts DEF FrameFits, Suspended, LInv, LTyped
<1>4. UsesFit(kind[t], status[t], UsesOf(stack, deque, t), untied[t])
  BY <1>3 DEF LInv, UsesCounted
<1>5. UsesOf(stack, deque, t) = 1 /\ untied[t] = 0
  BY <1>3, <1>4 DEF UsesFit
<1>6. PICK h : h = [stack EXCEPT ![th] = Tail(@)]
  OBVIOUS
<1>7. IsWithPop(h, stack, th) /\ Put(stack, th, Tail(stack[th]), h)
  BY <1>6 DEF IsWithPop, Put
<1>8. /\ h \in Stacks
      /\ \A u : /\ Num(h, Busy(u)) \in Nat /\ Num(h, Freeing(u)) \in Nat /\ Num(h, Inside(u)) \in Nat
                /\ Num(stack, Busy(u)) = Num(h, Busy(u)) + (IF u = f.task /\ f.act \in BusyActs THEN 1 ELSE 0)
                /\ Num(stack, Freeing(u)) = Num(h, Freeing(u)) + (IF u = f.task /\ f.act = "free" THEN 1 ELSE 0)
                /\ Num(stack, Inside(u)) = Num(h, Inside(u)) + (IF u = f.task /\ f.act \in Suspended THEN 1 ELSE 0)
  BY <1>2, <1>3, <1>7, PopAll
<1>9. f.act \in BusyActs /\ f.act # "free" /\ f.act \notin Suspended
  BY <1>2 DEF BusyActs, Acts, Suspended
<1>10. Slots(deque, t) \in Nat
  BY <1>3, NumsAreNat
<1>11. UsesOf(h, deque, t) = 0
  BY <1>2, <1>5, <1>8, <1>9, <1>10 DEF UsesOf
<1>12. Base(t, h, deque)
  <2>1. \A u \in Explicit : Num(h, Freeing(u)) = Num(stack, Freeing(u))
    BY <1>8, <1>9
  <2>2. \A u \in Explicit \ {t} : UsesOf(h, deque, u) = UsesOf(stack, deque, u)
    BY <1>2, <1>8 DEF UsesOf
  <2>3. \A g \in Tasks : group[g] = "open" => Num(h, Inside(g)) # 0
    BY <1>8, <1>9 DEF LInv, GroupsHeld
  <2>4. StacksFit(kind, status, h)
    BY <1>3, <1>7, FitPop
  <2> QED
    BY <1>3, <1>8, <1>11, <2>1, <2>2, <2>3, <2>4 DEF Base
<1>13. UNCHANGED <<born, incomplete, allocated, count, group>>
  BY DEF Submit, groups
<1>14. kind[t] # "none" /\ kind[t] # "implicit"
  BY <1>1, <1>3, TopFacts, LifeFacts DEF Born
<1>15. CASE Mark(t, "held") /\ Pop(th) /\ UNCHANGED <<untied, serial, deque, fault>>
  <2>1. stack' = h /\ status' = [status EXCEPT ![t] = "held"]
    BY <1>6, <1>15 DEF Pop, Mark
  <2>2. StacksFit(kind, status', h) /\ DequesFit(kind, status', deque)
    BY <1>3, <1>11, <1>12, <2>1, PlaceFits DEF Statuses
  <2>3. StatusFits(kind[t], "held")
    BY <1>14 DEF StatusFits
  <2>4. UsesFit(kind[t], "held", UsesOf(h, deque, t), untied[t])
    BY <1>5, <1>11 DEF UsesFit
  <2> QED
    BY <1>3, <1>12, <1>13, <1>15, <2>1, <2>2, <2>3, <2>4, PlaceLife
<1>16. CASE Defer(th, t, Tail(stack[th]))
  BY <1>3, <1>5, <1>7, <1>11, <1>12, <1>13, <1>16, DeferLife
<1>17. CASE RunNow(th, t, Tail(stack[th]), TRUE)
  <2>1. Base(t, h, deque') /\ UsesOf(h, deque', t) = 0
    BY <1>11, <1>12, <1>17 DEF RunNow
  <2>2. /\ untied'[t] = (IF kind[t] = "untied" THEN UsesOf(h, deque', t) + 1 ELSE 0)
        /\ \A u \in Tasks \ {t} : untied'[u] = untied[u]
    BY <1>3, <1>5, <1>17, <2>1 DEF RunNow, Submitted
  <2> QED
    BY <1>3, <1>7, <1>13, <1>17, <2>1, <2>2, InvokeLife DEF RunNow
<1> QED
  BY <1>1, <1>15, <1>16, <1>17 DEF Submit

(* An untied task goes on in its next part.                                 *)
LEMMA NextPartLife ==
  ASSUME LInv, CInv', LTyped', NEW th \in Threads, NextPart(th)
  PROVE  LInv'
<1>1. PICK t : t = Task(th)
  OBVIOUS
<1>2. Top(th).act = "run" /\ kind[t] = "untied" /\ GroupOf(t) = inherited[t]
  BY <1>1 DEF NextPart, Does
<1>3. PICK f \in Frame : f = stack[th][1] /\ f.task = t /\ f.act = "run"
  BY <1>1, <1>2, TopFacts
<1>4. /\ t \in Tasks /\ status[t] = "running" /\ stack \in Stacks /\ deque \in Deques
      /\ stack[th] # <<>> /\ StacksFit(kind, status, stack) /\ DequesFit(kind, status, deque)
      /\ untied \in [Tasks -> Int] /\ Explicit \subseteq Tasks /\ Tasks = Threads \cup Explicit /\ Null \notin Tasks
  BY <1>1, <1>2, TopFacts, LifeFacts DEF FrameFits, Suspended, LInv, LTyped
<1>5. t \in Explicit
  BY <1>2, <1>4, LifeFacts DEF Born
<1>6. UsesFit(kind[t], status[t], UsesOf(stack, deque, t), untied[t])
  BY <1>5 DEF LInv, UsesCounted
<1>7. untied[t] = UsesOf(stack, deque, t)
  BY <1>2, <1>4, <1>6 DEF UsesFit
<1>8. PICK e : e = [task |-> t, act |-> "finish"]
  OBVIOUS
<1>9. e \in Frame /\ e.task = t /\ e.act = "finish"
  BY <1>4, <1>8 DEF Frame, Acts
<1>10. PICK h : h = [stack EXCEPT ![th] = Tail(@)]
  OBVIOUS
<1>11. PICK frames : frames = <<e>> \o Tail(stack[th])
  OBVIOUS
<1>12. PICK sk : sk = [stack EXCEPT ![th] = frames]
  OBVIOUS
<1>13. IsWithPop(h, stack, th) /\ IsWithPush(sk, h, th, e) /\ Put(stack, th, frames, sk)
  <2>1. [h EXCEPT ![th] = <<e>> \o @] = [stack EXCEPT ![th] = <<e>> \o Tail(stack[th])]
    BY <1>4, <1>10 DEF Stacks
  <2> QED
    BY <1>10, <1>11, <1>12, <2>1 DEF IsWithPop, IsWithPush, Put
<1>14. sk \in Stacks /\ h \in Stacks /\ Exchanged(sk, stack, f, e)
  BY <1>3, <1>4, <1>9, <1>13, TopChange
<1>15. StacksFit(kind, status, sk)
  <2>1. FrameFits(kind[e.task], status[e.task], e.act)
    BY <1>2, <1>4, <1>9 DEF FrameFits, Suspended
  <2> QED
    BY <1>4, <1>9, <1>13, <1>14, <2>1, FitTop
<1>16. f.act \in BusyActs /\ e.act \in BusyActs /\ f.act # "free" /\ e.act # "free"
  BY <1>3, <1>9 DEF BusyActs, Acts
<1>17. \A u : Num(sk, Busy(u)) = Num(stack, Busy(u)) /\ Num(sk, Freeing(u)) = Num(stack, Freeing(u))
  BY <1>3, <1>9, <1>14, <1>16 DEF Exchanged
<1>18. \A u : UsesOf(sk, deque, u) = UsesOf(stack, deque, u)
  BY <1>17 DEF UsesOf
<1>19. group[t] # "open"
  <2>1. SUFFICES ASSUME group[t] = "open" PROVE FALSE
    OBVIOUS
  <2>2. inherited[t] = t
    BY <1>2, <2>1 DEF GroupOf
  <2>3. inherited[t] < t
    BY <1>4, <2>2 DEF LInv, GroupTree
  <2> QED
    BY <1>4, <2>2, <2>3, Numbers, LifeFacts
<1>20. ASSUME NEW g \in Tasks, group[g] = "open" PROVE Num(sk, Inside(g)) # 0
  <2>1. Num(stack, Inside(g)) # 0 /\ g # t
    BY <1>19, <1>20 DEF LInv, GroupsHeld
  <2> QED
    BY <1>3, <1>9, <1>14, <2>1 DEF Exchanged
<1>21. Base(t, sk, deque)
  BY <1>2, <1>4, <1>14, <1>15, <1>17, <1>18, <1>20 DEF Base
<1>22. UNCHANGED <<born, incomplete, allocated, count, group>>
  BY DEF NextPart, groups
<1>23. frames = <<[task |-> t, act |-> "finish"]>> \o Tail(stack[th])
  BY <1>8, <1>11
<1>24. CASE Defer(th, t, frames)
  BY <1>2, <1>4, <1>5, <1>7, <1>13, <1>18, <1>21, <1>22, <1>24, DeferLife
<1>25. CASE RunNow(th, t, frames, TRUE)
  <2>1. Base(t, sk, deque') /\ UsesOf(sk, deque', t) = UsesOf(stack, deque, t)
    BY <1>18, <1>21, <1>25 DEF RunNow
  <2>2. /\ untied'[t] = (IF kind[t] = "untied" THEN UsesOf(sk, deque', t) + 1 ELSE 0)
        /\ \A u \in Tasks \ {t} : untied'[u] = untied[u]
    BY <1>2, <1>4, <1>7, <1>25, <2>1 DEF RunNow, Submitted
  <2> QED
    BY <1>5, <1>13, <1>22, <1>25, <2>1, <2>2, InvokeLife DEF RunNow
<1> QED
  BY <1>1, <1>23, <1>24, <1>25 DEF NextPart

(* A task that nobody has waits for its predecessor: it is put somewhere.   *)
LEMMA SuccessorLife ==
  ASSUME LInv, CInv', LTyped', NEW th \in Threads, NEW t \in Explicit, status[t] = "held",
         UNCHANGED <<born, incomplete, allocated, count, group>>,
         Defer(th, t, stack[th]) \/ RunNow(th, t, stack[th], FALSE)
  PROVE  LInv'
<1>1. /\ stack \in Stacks /\ deque \in Deques /\ StacksFit(kind, status, stack)
      /\ DequesFit(kind, status, deque) /\ untied \in [Tasks -> Int] /\ t \in Tasks
  BY LifeFacts DEF LInv, LTyped
<1>2. UsesFit(kind[t], status[t], UsesOf(stack, deque, t), untied[t])
  BY DEF LInv, UsesCounted
<1>3. UsesOf(stack, deque, t) = 0 /\ untied[t] = 0
  BY <1>2 DEF UsesFit
<1>4. Base(t, stack, deque)
  BY <1>1, <1>3 DEF Base, LInv, GroupsHeld
<1>5. Put(stack, th, stack[th], stack)
  BY <1>1 DEF Put, Stacks
<1>6. CASE Defer(th, t, stack[th])
  BY <1>3, <1>4, <1>5, <1>6, DeferLife
<1>7. CASE RunNow(th, t, stack[th], FALSE)
  <2>1. Base(t, stack, deque') /\ UsesOf(stack, deque', t) = 0
    BY <1>3, <1>4, <1>7 DEF RunNow
  <2>2. /\ untied'[t] = (IF kind[t] = "untied" THEN UsesOf(stack, deque', t) + 1 ELSE 0)
        /\ \A u \in Tasks \ {t} : untied'[u] = untied[u]
    BY <1>1, <1>3, <1>7, <2>1 DEF RunNow, Submitted
  <2> QED
    BY <1>5, <1>7, <2>1, <2>2, InvokeLife DEF RunNow
<1> QED
  BY <1>6, <1>7

(* A thread takes a task from a deque: it runs it, or begins the bottom     *)
(* half of a proxy task.                                                    *)
LEMMA TakeLife ==
  ASSUME LInv, CInv', LTyped', NEW th \in Threads, NEW v \in Threads, deque[v] # <<>>, NEW t, NEW r,
         IsTaken(t, r, deque[v]), Put(deque, v, r, deque'),
         UNCHANGED <<born, counts, groups>>, InvokeTaken(th, t)
  PROVE  LInv'
<1>1. /\ stack \in Stacks /\ deque \in Deques /\ StacksFit(kind, status, stack)
      /\ DequesFit(kind, status, deque) /\ untied \in [Tasks -> Int] /\ Explicit \subseteq Tasks
  BY LifeFacts DEF LInv, LTyped
<1>2. PICK dq : dq = deque'
  OBVIOUS
<1>3. Put(deque, v, r, dq)
  BY <1>2
<1>4. DequesFit(kind, status, dq) /\ t \in Explicit /\ SlotFits(kind[t], status[t])
  BY <1>1, <1>3, DFitTake
<1>5. dq \in Deques /\ \A u : Slots(dq, u) \in Nat /\ Slots(deque, u) = Slots(dq, u) + (IF u = t THEN 1 ELSE 0)
  <2>1. deque \in Deques
    BY <1>1
  <2>2. dq \in Deques /\ HadTask(deque, dq, t)
    BY <1>3, <2>1, TakeAll
  <2> QED
    BY <2>2 DEF HadTask
<1>6. PICK m \in Nat, n \in Nat : m = Num(stack, Busy(t)) /\ n = Slots(dq, t)
  BY <1>1, <1>5, NumsAreNat
<1>7. UsesOf(stack, dq, t) = m + n /\ UsesOf(stack, deque, t) = (m + n) + 1
  BY <1>5, <1>6 DEF UsesOf
<1>8. \A u \in Explicit \ {t} : UsesOf(stack, dq, u) = UsesOf(stack, deque, u)
  <2>1. ASSUME NEW u \in Explicit \ {t} PROVE UsesOf(stack, dq, u) = UsesOf(stack, deque, u)
    <3>1. Slots(dq, u) = Slots(deque, u)
      BY <1>5
    <3> QED
      BY <3>1 DEF UsesOf
  <2> QED
    BY <2>1
<1>9. UsesFit(kind[t], status[t], (m + n) + 1, untied[t])
  BY <1>4, <1>7 DEF LInv, UsesCounted
<1>10. UNCHANGED <<born, incomplete, allocated, untied, count, group>>
  BY DEF counts, groups
<1>11. CASE kind[t] = "proxy"
  <2>1. PICK f : f = [task |-> t, act |-> "bottom"]
    OBVIOUS
  <2>2. f \in Frame /\ f.task = t /\ f.act = "bottom"
    BY <1>1, <1>4, <2>1 DEF Frame, Acts
  <2>3. PICK g : g = stack'
    OBVIOUS
  <2>4. IsWithPush(g, stack, th, f) /\ UNCHANGED status
    BY <1>11, <2>1, <2>3 DEF InvokeTaken, Push, IsWithPush
  <2>5. FrameFits(kind[f.task], status[f.task], f.act)
    BY <1>4, <1>11, <2>2 DEF SlotFits, FrameFits, Suspended
  <2>6. StacksFit(kind, status, g)
    BY <1>1, <2>2, <2>4, <2>5, FitPush
  <2>7. \A u : /\ Num(stack, Busy(u)) \in Nat /\ Num(stack, Freeing(u)) \in Nat /\ Num(stack, Inside(u)) \in Nat
               /\ Num(g, Busy(u)) = Num(stack, Busy(u)) + (IF u = f.task /\ f.act \in BusyActs THEN 1 ELSE 0)
               /\ Num(g, Freeing(u)) = Num(stack, Freeing(u)) + (IF u = f.task /\ f.act = "free" THEN 1 ELSE 0)
               /\ Num(g, Inside(u)) = Num(stack, Inside(u)) + (IF u = f.task /\ f.act \in Suspended THEN 1 ELSE 0)
    BY <1>1, <2>2, <2>4, PushAll
  <2>8. f.act \in BusyActs /\ f.act # "free" /\ f.act \notin Suspended
    BY <2>2 DEF BusyActs, Acts, Suspended
  <2>9. \A u : Num(g, Freeing(u)) = Num(stack, Freeing(u)) /\ Num(g, Inside(u)) = Num(stack, Inside(u))
    BY <2>7, <2>8
  <2>10. \A u \in Explicit : UsesOf(g, dq, u) = UsesOf(stack, deque, u)
    <3>1. ASSUME NEW u \in Explicit PROVE UsesOf(g, dq, u) = UsesOf(stack, deque, u)
      <4>1. CASE u = t
        <5>1. Num(g, Busy(t)) = m + 1
          BY <1>6, <2>2, <2>7, <2>8
        <5> QED
          BY <1>6, <1>7, <4>1, <5>1 DEF UsesOf
      <4>2. CASE u # t
        <5>1. Num(g, Busy(u)) = Num(stack, Busy(u))
          BY <2>2, <2>7, <4>2
        <5>2. UsesOf(g, dq, u) = UsesOf(stack, dq, u)
          BY <5>1 DEF UsesOf
        <5> QED
          BY <1>8, <4>2, <5>2
      <4> QED
        BY <4>1, <4>2
    <3> QED
      BY <3>1
  <2>11. \A u \in Explicit : UsesFit(kind[u], status[u], UsesOf(stack, deque, u), untied[u])
    BY DEF LInv, UsesCounted
  <2>12. GroupsOpen'
    BY <1>10, <2>4, SameGroups DEF born
  <2>13. GroupsHeld'
    BY <1>10, <2>3, <2>9 DEF LInv, GroupsHeld
  <2> QED
    BY <1>2, <1>4, <1>10, <2>3, <2>4, <2>6, <2>9, <2>10, <2>11, <2>12, <2>13, SameLife
<1>12. CASE kind[t] # "proxy"
  <2>1. status[t] = "queued" \/ (status[t] = "running" /\ kind[t] = "untied")
    BY <1>4, <1>12 DEF SlotFits
  <2>2. kind[t] \in {"tied", "untied"}
    <3>1. status[t] # "none" /\ StatusFits(kind[t], status[t]) /\ t \in Tasks
      BY <1>1, <1>4, <2>1 DEF LInv, Consistent
    <3> QED
      <4>1. kind[t] \in {"implicit", "none", "tied", "untied", "proxy"}
        BY <3>1, LifeFacts DEF Born
      <4>2. kind[t] # "none"
        BY <3>1 DEF StatusFits
      <4>3. kind[t] # "implicit"
        BY <1>4, <3>1, LifeFacts DEF Born
      <4> QED
        BY <1>12, <4>1, <4>2, <4>3
  <2>3. kind[t] = "tied" => m + n = 0
    <3>1. kind[t] = "tied" => status[t] = "queued"
      BY <2>1
    <3>2. kind[t] = "tied" => (m + n) + 1 = 1
      BY <1>9, <3>1 DEF UsesFit
    <3>3. (m + n) + 1 = 1 => m + n = 0
      BY <1>6
    <3> QED
      BY <3>2, <3>3
  <2>4. untied[t] = (IF kind[t] = "untied" THEN (m + n) + 1 ELSE 0)
    BY <1>9, <2>1 DEF UsesFit
  <2>5. Base(t, stack, dq)
    BY <1>1, <1>4, <1>5, <1>7, <1>8, <2>1, <2>2, <2>3 DEF Base, LInv, GroupsHeld
  <2>6. Put(stack, th, stack[th], stack)
    BY <1>1 DEF Put, Stacks
  <2>7. untied'[t] = (IF kind[t] = "untied" THEN UsesOf(stack, deque', t) + 1 ELSE 0)
    BY <1>2, <1>7, <1>10, <2>4
  <2>8. Invoke(th, t, stack[th])
    BY <1>12 DEF InvokeTaken
  <2>9. Base(t, stack, deque')
    BY <1>2, <2>5
  <2> QED
    BY <1>4, <1>10, <2>6, <2>7, <2>8, <2>9, InvokeLife
<1> QED
  BY <1>11, <1>12

LEMMA RemoveLife ==
  ASSUME LInv, CInv', LTyped', NEW th \in Threads, RemoveMyTask(th)
  PROVE  LInv'
<1>1. deque \in Deques
  BY LifeFacts
<1>2. PICK t, r : t = Last(deque[th]) /\ r = Front(deque[th])
  OBVIOUS
<1>3. /\ deque[th] # <<>> /\ IsTaken(t, r, deque[th]) /\ Put(deque, th, r, deque')
      /\ UNCHANGED <<born, counts, groups>> /\ InvokeTaken(th, t)
  BY <1>1, <1>2 DEF RemoveMyTask, IsTaken, Put, Deques
<1> QED
  BY <1>3, TakeLife

LEMMA StealLife ==
  ASSUME LInv, CInv', LTyped', NEW th \in Threads, NEW v \in Threads, StealTask(th, v)
  PROVE  LInv'
<1>1. deque \in Deques
  BY LifeFacts
<1>2. PICK t, r : t = Head(deque[v]) /\ r = Tail(deque[v])
  OBVIOUS
<1>3. /\ deque[v] # <<>> /\ IsTaken(t, r, deque[v]) /\ Put(deque, v, r, deque')
      /\ UNCHANGED <<born, counts, groups>> /\ InvokeTaken(th, t)
  BY <1>1, <1>2 DEF StealTask, IsTaken, Put, Deques
<1> QED
  BY <1>3, TakeLife

(* A completed proxy task is given to the team.                             *)
LEMMA GiveLife ==
  ASSUME LInv, CInv', LTyped', NEW th \in Threads, NEW p \in Explicit, GiveTask(p, th)
  PROVE  LInv'
<1>1. /\ stack \in Stacks /\ deque \in Deques /\ StacksFit(kind, status, stack)
      /\ DequesFit(kind, status, deque) /\ status \in [Tasks -> Statuses] /\ Explicit \subseteq Tasks /\ p \in Tasks
  BY LifeFacts
<1>2. /\ kind[p] = "proxy" /\ status[p] = "complete" /\ status' = [status EXCEPT ![p] = "given"]
      /\ IsWithLast(deque', deque, th, p)
      /\ UNCHANGED <<born, incomplete, allocated, untied, count, group, stack>>
  BY DEF GiveTask, Mark, IsWithLast, counts, groups
<1>3. PICK dq : dq = deque'
  OBVIOUS
<1>4. IsWithLast(dq, deque, th, p)
  BY <1>2, <1>3
<1>5. dq \in Deques /\ \A u : Slots(deque, u) \in Nat /\ Slots(dq, u) = Slots(deque, u) + (IF u = p THEN 1 ELSE 0)
  BY <1>1, <1>4, AppendAll
<1>6. UsesFit(kind[p], status[p], UsesOf(stack, deque, p), untied[p])
  BY DEF LInv, UsesCounted
<1>7. UsesOf(stack, deque, p) = 0
  BY <1>2, <1>6 DEF UsesFit
<1>8. PICK m \in Nat, n \in Nat : m = Num(stack, Busy(p)) /\ n = Slots(deque, p)
  BY <1>1, NumsAreNat
<1>9. UsesOf(stack, dq, p) = 1 /\ m = 0 /\ n = 0
  BY <1>5, <1>7, <1>8 DEF UsesOf
<1>10. \A u \in Explicit \ {p} : UsesOf(stack, dq, u) = UsesOf(stack, deque, u)
  <2>1. ASSUME NEW u \in Explicit \ {p} PROVE UsesOf(stack, dq, u) = UsesOf(stack, deque, u)
    <3>1. Slots(dq, u) = Slots(deque, u)
      BY <1>5
    <3> QED
      BY <3>1 DEF UsesOf
  <2> QED
    BY <2>1
<1>11. PICK st : st = [status EXCEPT ![p] = "given"]
  OBVIOUS
<1>12. st[p] = "given" /\ \A u \in Tasks : u # p => st[u] = status[u]
  BY <1>1, <1>11
<1>13. StacksFit(kind, st, stack)
  BY <1>1, <1>8, <1>9, <1>11, FitMark
<1>14. DequesFit(kind, st, deque)
  BY <1>1, <1>8, <1>9, <1>11, DFitMark
<1>15. DequesFit(kind, st, dq)
  <2>1. SlotFits(kind[p], st[p])
    BY <1>2, <1>12 DEF SlotFits
  <2> QED
    BY <1>1, <1>4, <1>14, <2>1, DFitAppend
<1>16. \A u \in Tasks : StatusFits(kind[u], st[u])
  BY <1>2, <1>12 DEF LInv, Consistent, StatusFits
<1>17. \A u \in Explicit : Alike(kind[u], status[u], st[u])
  <2>1. Alike("proxy", "complete", "given") /\ \A k, s : Alike(k, s, s)
    BY DEF Alike, AwaitedSt, UnrunSt, Counts, Flag
  <2> QED
    BY <1>1, <1>2, <1>12, <2>1
<1>18. \A u \in Explicit : UsesFit(kind[u], st[u], UsesOf(stack, dq, u), untied[u])
  <2>1. UsesFit("proxy", "given", 1, untied[p])
    BY <1>2, <1>6 DEF UsesFit
  <2>2. ASSUME NEW u \in Explicit, u # p PROVE UsesFit(kind[u], st[u], UsesOf(stack, dq, u), untied[u])
    BY <1>1, <1>10, <1>12, <2>2 DEF LInv, UsesCounted
  <2> QED
    BY <1>2, <1>9, <1>12, <2>1, <2>2
<1>19. \A u \in Explicit : status[u] = "released" => UsesOf(stack, dq, u) = UsesOf(stack, deque, u)
  BY <1>2, <1>10
<1>20. GroupsOpen'
  <2>1. \A u \in Explicit : status'[u] \in UnrunSt => status[u] \in UnrunSt
    BY <1>2, <1>11, <1>17 DEF Alike
  <2>2. UNCHANGED <<inherited, group>>
    BY <1>2 DEF born
  <2> QED
    BY <2>1, <2>2, OpenKept DEF LInv
<1>21. GroupsHeld'
  BY <1>2 DEF LInv, GroupsHeld
<1> QED
  BY <1>2, <1>3, <1>11, <1>13, <1>15, <1>16, <1>17, <1>18, <1>19, <1>20, <1>21, KeepLife

(* One task goes on to another status: what it does not count for.          *)
LEMMA MarkLife ==
  ASSUME LInv, NEW t \in Explicit, NEW x \in Statuses,
         status' = [status EXCEPT ![t] = x], UNCHANGED <<born, group>>,
         StatusFits(kind[t], x), x \in UnrunSt => status[t] \in UnrunSt,
         StacksFit(kind, status', stack'), DequesFit(kind, status', deque'),
         \A u \in Explicit \ {t} : UsesOf(stack', deque', u) = UsesOf(stack, deque, u) /\ untied'[u] = untied[u],
         UsesFit(kind[t], x, UsesOf(stack', deque', t), untied'[t]),
         \A g \in Tasks : Num(stack, Inside(g)) # 0 => Num(stack', Inside(g)) # 0
  PROVE  Consistent' /\ UsesCounted' /\ GroupTree' /\ GroupsOpen' /\ GroupsHeld'
<1>1. /\ status \in [Tasks -> Statuses] /\ Explicit \subseteq Tasks /\ t \in Tasks
  BY LifeFacts
<1>2. /\ status'[t] = x /\ \A u \in Tasks : u # t => status'[u] = status[u]
  BY <1>1
<1>3. kind' = kind /\ inherited' = inherited /\ group' = group
  BY DEF born
<1>4. Consistent'
  <2>1. \A u \in Tasks : StatusFits(kind[u], status[u])
    BY DEF LInv, Consistent
  <2>2. \A u \in Tasks : StatusFits(kind[u], status'[u])
    BY <1>2, <2>1
  <2> QED
    BY <1>3, <2>2 DEF Consistent
<1>5. UsesCounted'
  <2>1. ASSUME NEW u \in Explicit PROVE UsesFit(kind[u], status'[u], UsesOf(stack', deque', u), untied'[u])
    <3>1. CASE u = t
      BY <1>2, <3>1
    <3>2. CASE u # t
      <4>1. UsesFit(kind[u], status[u], UsesOf(stack, deque, u), untied[u])
        BY DEF LInv, UsesCounted
      <4>2. UsesOf(stack', deque', u) = UsesOf(stack, deque, u) /\ untied'[u] = untied[u] /\ status'[u] = status[u]
        BY <1>1, <1>2, <3>2
      <4> QED
        BY <4>1, <4>2
    <3> QED
      BY <3>1, <3>2
  <2> QED
    BY <1>3, <2>1 DEF UsesCounted
<1>6. GroupTree'
  BY <1>3, TreeKept DEF LInv
<1>7. GroupsOpen'
  <2>1. \A u \in Explicit : status'[u] \in UnrunSt => status[u] \in UnrunSt
    BY <1>1, <1>2
  <2> QED
    BY <1>3, <2>1, OpenKept DEF LInv
<1>8. GroupsHeld'
  BY <1>3 DEF LInv, GroupsHeld
<1> QED
  BY <1>4, <1>5, <1>6, <1>7, <1>8

(* What the task counts for at its parent, and a proxy task for itself.     *)
Recounted(t, x) ==
  \A u \in Tasks :
    incomplete'[u] + (IF u = parent[t] /\ status[t] \in AwaitedSt THEN 1 ELSE 0)
        + (IF u = t THEN Flag(kind[t], status[t]) ELSE 0)
      = incomplete[u] + (IF u = parent[t] /\ x \in AwaitedSt THEN 1 ELSE 0)
        + (IF u = t THEN Flag(kind[t], x) ELSE 0)

LEMMA ChildrenChange ==
  ASSUME LInv, NEW t \in Explicit, NEW x \in Statuses,
         status' = [status EXCEPT ![t] = x], UNCHANGED born,
         Recounted(t, x), incomplete' \in [Tasks -> Int]
  PROVE  ChildrenCounted'
<1>1. /\ status \in [Tasks -> Statuses] /\ Explicit \subseteq Tasks /\ t \in Tasks /\ incomplete \in [Tasks -> Int]
  BY LifeFacts DEF LInv, LTyped
<1>2. /\ status'[t] = x /\ \A u \in Tasks : u # t => status'[u] = status[u]
  BY <1>1
<1>3. kind' = kind /\ parent' = parent
  BY DEF born
<1>4. /\ Awaited \in SUBSET Explicit /\ Awaited' \in SUBSET Explicit
      /\ \A c \in Explicit : c # t => (c \in Awaited <=> c \in Awaited')
      /\ t \in Awaited <=> status[t] \in AwaitedSt
      /\ t \in Awaited' <=> x \in AwaitedSt
  BY <1>1, <1>2 DEF Awaited
<1>5. PICK X, Y : X = Awaited /\ Y = Awaited'
  OBVIOUS
<1>6. \A u : /\ Kids(parent, X, u) \in Nat /\ Kids(parent, Y, u) \in Nat
             /\ Kids(parent, Y, u) + One(t \in X /\ parent[t] = u) = Kids(parent, X, u) + One(t \in Y /\ parent[t] = u)
  BY <1>4, <1>5, KidsChange
<1>7. ASSUME NEW u \in Tasks PROVE incomplete'[u] = Kids(parent, Y, u) + Flag(kind[u], status'[u])
  <2>1. incomplete[u] = Kids(parent, X, u) + Flag(kind[u], status[u])
    BY <1>5 DEF LInv, ChildrenCounted
  <2>2. PICK a \in Nat, b \in Nat : a = Kids(parent, X, u) /\ b = Kids(parent, Y, u)
    BY <1>6
  <2>3. PICK c \in {0, 1}, d \in {0, 1} :
          /\ c = (IF u = parent[t] /\ status[t] \in AwaitedSt THEN 1 ELSE 0)
          /\ d = (IF u = parent[t] /\ x \in AwaitedSt THEN 1 ELSE 0)
    OBVIOUS
  <2>4. One(t \in X /\ parent[t] = u) = c /\ One(t \in Y /\ parent[t] = u) = d
    BY <1>4, <1>5, <2>3 DEF One
  <2>5. b + c = a + d
    BY <1>6, <2>2, <2>4
  <2>6. PICK i \in Int, j \in Int : i = incomplete[u] /\ j = incomplete'[u]
    BY <1>1
  <2>7. CASE u = t
    <3>1. PICK f \in {0, 1}, h \in {0, 1} : f = Flag(kind[t], status[t]) /\ h = Flag(kind[t], x)
      BY DEF Flag
    <3>2. i = a + f
      BY <2>1, <2>2, <2>6, <2>7, <3>1
    <3>3. j + c + f = i + d + h
      BY <2>3, <2>6, <2>7, <3>1 DEF Recounted
    <3>4. j = b + h
      BY <2>5, <2>6, <3>1, <3>2, <3>3
    <3> QED
      BY <1>2, <2>2, <2>6, <2>7, <3>1, <3>4
  <2>8. CASE u # t
    <3>1. PICK f \in {0, 1} : f = Flag(kind[u], status[u])
      BY DEF Flag
    <3>2. i = a + f
      BY <2>1, <2>2, <2>6, <3>1
    <3>3. j + c + 0 = i + d + 0
      BY <2>3, <2>6, <2>8 DEF Recounted
    <3>4. j = b + f
      BY <2>5, <2>6, <3>1, <3>2, <3>3
    <3> QED
      BY <1>2, <2>2, <2>6, <2>8, <3>1, <3>4
  <2> QED
    BY <2>7, <2>8
<1> QED
  BY <1>3, <1>5, <1>7 DEF ChildrenCounted

(* A task leaves the group in which it counts.                              *)
LEMMA MembersLeave ==
  ASSUME LInv, NEW t \in Explicit, t \in Counted, Counted' = Counted \ {t}, UNCHANGED inherited,
         LeaveGroup(t)
  PROVE  MembersCounted'
<1>1. count \in [Tasks -> Int] /\ Counted \in SUBSET Explicit
  BY DEF LInv, LTyped, Counted
<1>2. PICK X, Y : X = Counted /\ Y = Counted'
  OBVIOUS
<1>3. /\ X \in SUBSET Explicit /\ Y \in SUBSET Explicit /\ t \in X /\ t \notin Y
      /\ \A c \in Explicit : c # t => (c \in X <=> c \in Y)
  BY <1>1, <1>2
<1>4. \A u : /\ Kids(inherited, X, u) \in Nat /\ Kids(inherited, Y, u) \in Nat
             /\ Kids(inherited, Y, u) + One(t \in X /\ inherited[t] = u)
                  = Kids(inherited, X, u) + One(t \in Y /\ inherited[t] = u)
  BY <1>3, KidsChange
<1>5. ASSUME NEW u \in Tasks PROVE count'[u] = Kids(inherited, Y, u)
  <2>1. count[u] = Kids(inherited, X, u)
    BY <1>2 DEF LInv, MembersCounted
  <2>2. count'[u] = count[u] - (IF u = inherited[t] THEN 1 ELSE 0)
    BY DEF LeaveGroup
  <2>3. PICK a \in Nat, b \in Nat : a = Kids(inherited, X, u) /\ b = Kids(inherited, Y, u)
    BY <1>4
  <2>4. PICK c \in {0, 1} : c = (IF u = inherited[t] THEN 1 ELSE 0)
    OBVIOUS
  <2>5. One(t \in X /\ inherited[t] = u) = c /\ One(t \in Y /\ inherited[t] = u) = 0
    BY <1>3, <2>4 DEF One
  <2>6. b + c = a
    BY <1>4, <2>3, <2>5
  <2>7. count'[u] = a - c
    BY <2>1, <2>2, <2>3, <2>4
  <2> QED
    BY <2>3, <2>6, <2>7
<1> QED
  BY <1>2, <1>5 DEF MembersCounted

(* A thread that is the only user of a task goes on with it, in another     *)
(* status.                                                                  *)
LEMMA TopMark ==
  ASSUME LInv, NEW th \in Threads, NEW t \in Explicit, t = Task(th), NEW x \in Statuses, NEW a \in Acts,
         Become(th, a), Top(th).act \in BusyActs \ Suspended, a \in BusyActs \ Suspended,
         UsesOf(stack, deque, t) = 1, UNCHANGED deque,
         status' = [status EXCEPT ![t] = x], FrameFits(kind[t], x, a)
  PROVE  /\ StacksFit(kind, status', stack') /\ DequesFit(kind, status', deque')
         /\ \A u : /\ UsesOf(stack', deque', u) = UsesOf(stack, deque, u)
                   /\ Num(stack', Freeing(u)) = Num(stack, Freeing(u))
                   /\ Num(stack', Inside(u)) = Num(stack, Inside(u))
<1>1. /\ stack \in Stacks /\ deque \in Deques /\ StacksFit(kind, status, stack) /\ stack[th] # <<>>
      /\ DequesFit(kind, status, deque) /\ status \in [Tasks -> Statuses] /\ Explicit \subseteq Tasks /\ t \in Tasks
  BY LifeFacts, TopFacts
<1>2. PICK f \in Frame : f = stack[th][1] /\ f.task = t /\ f.act = Top(th).act
  BY TopFacts
<1>3. PICK h, e : /\ e \in Frame /\ e.task = t /\ e.act = a
                  /\ IsWithPop(h, stack, th) /\ IsWithPush(stack', h, th, e)
  BY BecomePush
<1>4. PICK sk : sk = stack'
  OBVIOUS
<1>5. IsWithPush(sk, h, th, e)
  BY <1>3, <1>4
<1>6. sk \in Stacks /\ h \in Stacks /\ Exchanged(sk, stack, f, e)
  BY <1>1, <1>2, <1>3, <1>5, TopChange
<1>7. /\ f.act \in BusyActs /\ e.act \in BusyActs /\ f.act # "free" /\ e.act # "free"
      /\ f.act \notin Suspended /\ e.act \notin Suspended
  BY <1>2, <1>3 DEF BusyActs
<1>8. \A u : /\ Num(sk, Busy(u)) = Num(stack, Busy(u)) /\ Num(sk, Freeing(u)) = Num(stack, Freeing(u))
             /\ Num(sk, Inside(u)) = Num(stack, Inside(u))
  BY <1>2, <1>3, <1>6, <1>7 DEF Exchanged
<1>9. \A u : UsesOf(sk, deque, u) = UsesOf(stack, deque, u)
  BY <1>8 DEF UsesOf
<1>10. Num(h, Busy(t)) = 0 /\ Slots(deque, t) = 0
  <2>1. /\ Num(h, Busy(t)) \in Nat
        /\ Num(stack, Busy(t)) = Num(h, Busy(t)) + (IF t = f.task /\ f.act \in BusyActs THEN 1 ELSE 0)
    BY <1>1, <1>2, <1>3, PopAll
  <2>2. PICK m \in Nat, n \in Nat : m = Num(h, Busy(t)) /\ n = Slots(deque, t)
    BY <1>1, <2>1, NumsAreNat
  <2>3. (m + 1) + n = 1
    BY <1>2, <1>7, <2>1, <2>2 DEF UsesOf
  <2> QED
    BY <2>2, <2>3
<1>11. PICK st : st = [status EXCEPT ![t] = x]
  OBVIOUS
<1>12. StacksFit(kind, status, h)
  BY <1>1, <1>3, FitPop
<1>13. StacksFit(kind, st, h)
  BY <1>1, <1>6, <1>10, <1>11, <1>12, FitMark
<1>14. StacksFit(kind, st, sk)
  <2>1. FrameFits(kind[e.task], st[e.task], e.act)
    BY <1>1, <1>3, <1>11
  <2> QED
    BY <1>3, <1>5, <1>6, <1>13, <2>1, FitPush
<1>15. DequesFit(kind, st, deque)
  BY <1>1, <1>10, <1>11, DFitMark
<1> QED
  BY <1>4, <1>8, <1>9, <1>11, <1>14, <1>15

(* A task that keeps its memory.                                            *)
LEMMA MemoryMarked ==
  ASSUME LInv, NEW t \in Explicit, NEW x \in Statuses, status' = [status EXCEPT ![t] = x],
         UNCHANGED <<allocated, parent>>, \A u \in Threads : untied'[u] = untied[u],
         \A u : /\ UsesOf(stack', deque', u) = UsesOf(stack, deque, u)
                /\ Num(stack', Freeing(u)) = Num(stack, Freeing(u)),
         Own(x, UsesOf(stack, deque, t)) = Own(status[t], UsesOf(stack, deque, t)),
         x # "freed", status[t] # "freed"
  PROVE  MemoryCounted'
<1>1. /\ stack \in Stacks /\ deque \in Deques /\ Explicit \subseteq Tasks /\ t \in Tasks
      /\ status \in [Tasks -> Statuses]
  BY LifeFacts
<1>2. status'[t] = x /\ \A u \in Tasks : u # t => status'[u] = status[u]
  BY <1>1
<1>3. ASSUME NEW u \in Explicit
      PROVE  /\ Own(status'[u], UsesOf(stack', deque', u)) + Num(stack', Freeing(u))
                  = Own(status[u], UsesOf(stack, deque, u)) + Num(stack, Freeing(u))
             /\ status'[u] = "freed" <=> status[u] = "freed"
             /\ UsesOf(stack, deque, u) \in Nat /\ UsesOf(stack', deque', u) \in Nat
             /\ Num(stack, Freeing(u)) \in Nat /\ Num(stack', Freeing(u)) \in Nat
  <2>1. UsesOf(stack, deque, u) \in Nat /\ Num(stack, Freeing(u)) \in Nat
    BY <1>1, NumsAreNat
  <2>2. Own(status'[u], UsesOf(stack, deque, u)) = Own(status[u], UsesOf(stack, deque, u))
        /\ (status'[u] = "freed" <=> status[u] = "freed")
    <3>1. CASE u = t
      BY <1>2, <3>1
    <3>2. CASE u # t
      BY <1>1, <1>2, <3>2
    <3> QED
      BY <3>1, <3>2
  <2> QED
    BY <2>1, <2>2
<1> QED
  BY <1>3, MemoryKept DEF LInv

(* The last part of a task has run: its parent need not wait for it.        *)
LEMMA FinishLastLife ==
  ASSUME LInv, CInv', LTyped', NEW th \in Threads, Finish(th),
         kind[Task(th)] = "untied" => untied[Task(th)] = 1
  PROVE  LInv'
<1>1. PICK t : t = Task(th)
  OBVIOUS
<1>2. /\ Top(th).act = "finish" /\ Become(th, "ungroup") /\ status' = [status EXCEPT ![t] = "counted"]
      /\ incomplete' = [incomplete EXCEPT ![parent[t]] = @ - 1]
      /\ untied' = [untied EXCEPT ![t] = IF kind[t] = "untied" THEN @ - 1 ELSE @]
      /\ UNCHANGED <<born, allocated, group, count, deque>>
  BY <1>1 DEF Finish, Does, Mark, groups
<1>3. /\ t \in Explicit /\ t \in Tasks /\ status[t] = "running" /\ kind[t] # "proxy"
      /\ stack \in Stacks /\ deque \in Deques /\ Explicit \subseteq Tasks /\ Threads \subseteq Tasks
      /\ Threads \cap Explicit = {} /\ status \in [Tasks -> Statuses]
      /\ untied \in [Tasks -> Int] /\ incomplete \in [Tasks -> Int]
  BY <1>1, <1>2, TopFacts, LifeFacts DEF FrameFits, Suspended, LInv, LTyped
<1>4. kind[t] \in {"tied", "untied"} /\ parent[t] \in Tasks
  BY <1>1, <1>3, TopFacts, LifeFacts DEF Born
<1>5. UsesFit(kind[t], status[t], UsesOf(stack, deque, t), untied[t])
  BY <1>3 DEF LInv, UsesCounted
<1>6. UsesOf(stack, deque, t) = 1 /\ untied'[t] = 0
  BY <1>1, <1>2, <1>3, <1>4, <1>5 DEF UsesFit
<1>7. \A u \in Tasks \ {t} : untied'[u] = untied[u]
  BY <1>2, <1>3
<1>8. /\ StacksFit(kind, status', stack') /\ DequesFit(kind, status', deque')
      /\ \A u : /\ UsesOf(stack', deque', u) = UsesOf(stack, deque, u)
                /\ Num(stack', Freeing(u)) = Num(stack, Freeing(u))
                /\ Num(stack', Inside(u)) = Num(stack, Inside(u))
  <2>1. "finish" \in BusyActs \ Suspended /\ "ungroup" \in BusyActs \ Suspended /\ "ungroup" \in Acts
    BY DEF BusyActs, Suspended, Acts
  <2>2. FrameFits(kind[t], "counted", "ungroup")
    BY <1>3 DEF FrameFits, Suspended
  <2>3. "counted" \in Statuses
    BY DEF Statuses
  <2> QED
    BY <1>1, <1>2, <1>3, <1>6, <2>1, <2>2, <2>3, TopMark
<1>9. "counted" \in Statuses /\ "counted" \notin UnrunSt /\ "counted" \notin AwaitedSt /\ "running" \in AwaitedSt
  BY DEF Statuses, UnrunSt, AwaitedSt
<1>10. StatusFits(kind[t], "counted")
  BY <1>4 DEF StatusFits
<1>11. UsesFit(kind[t], "counted", UsesOf(stack', deque', t), untied'[t])
  BY <1>6, <1>8 DEF UsesFit
<1>12. Consistent' /\ UsesCounted' /\ GroupTree' /\ GroupsOpen' /\ GroupsHeld'
  BY <1>2, <1>3, <1>7, <1>8, <1>9, <1>10, <1>11, MarkLife
<1>13. MemoryCounted'
  <2>1. /\ Own("counted", UsesOf(stack, deque, t)) = Own(status[t], UsesOf(stack, deque, t))
        /\ "counted" # "freed" /\ status[t] # "freed"
    BY <1>3 DEF Own
  <2>2. \A u \in Threads : untied'[u] = untied[u]
    BY <1>3, <1>7
  <2>3. UNCHANGED <<allocated, parent>>
    BY <1>2 DEF born
  <2> QED
    BY <1>2, <1>3, <1>8, <1>9, <2>1, <2>2, <2>3, MemoryMarked
<1>14. ChildrenCounted'
  <2>1. Flag(kind[t], status[t]) = 0 /\ Flag(kind[t], "counted") = 0
    BY <1>3 DEF Flag
  <2>2. Recounted(t, "counted")
    BY <1>2, <1>3, <1>4, <1>9, <2>1 DEF Recounted
  <2>3. incomplete' \in [Tasks -> Int]
    BY <1>2, <1>3, <1>4
  <2> QED
    BY <1>2, <1>3, <1>9, <2>2, <2>3, ChildrenChange
<1>15. MembersCounted'
  <2>1. \A u \in Explicit : Counts(kind'[u], status'[u]) <=> Counts(kind[u], status[u])
    BY <1>2, <1>3 DEF Counts, UnrunSt, born
  <2>2. UNCHANGED <<count, inherited>>
    BY <1>2 DEF born
  <2> QED
    BY <2>1, <2>2, CountedKept, MembersKept DEF LInv
<1> QED
  BY <1>12, <1>13, <1>14, <1>15 DEF LInv

(* The task leaves its group.                                               *)
LEMMA UngroupLife ==
  ASSUME LInv, CInv', LTyped', NEW th \in Threads, Ungroup(th)
  PROVE  LInv'
<1>1. PICK t : t = Task(th)
  OBVIOUS
<1>2. /\ Top(th).act = "ungroup" /\ Become(th, "release") /\ status' = [status EXCEPT ![t] = "released"]
      /\ LeaveGroup(t)
      /\ UNCHANGED <<born, incomplete, allocated, untied, group, deque>>
  BY <1>1 DEF Ungroup, Does, Mark, counts
<1>3. /\ t \in Explicit /\ t \in Tasks /\ status[t] = "counted" /\ kind[t] # "proxy"
      /\ stack \in Stacks /\ deque \in Deques /\ Explicit \subseteq Tasks /\ Threads \subseteq Tasks
      /\ status \in [Tasks -> Statuses] /\ incomplete \in [Tasks -> Int]
  BY <1>1, <1>2, TopFacts, LifeFacts DEF FrameFits, Suspended, LInv, LTyped
<1>4. kind[t] \in {"tied", "untied"}
  BY <1>1, <1>3, TopFacts, LifeFacts DEF Born
<1>5. UsesFit(kind[t], status[t], UsesOf(stack, deque, t), untied[t])
  BY <1>3 DEF LInv, UsesCounted
<1>6. UsesOf(stack, deque, t) = 1 /\ untied[t] = 0
  BY <1>3, <1>5 DEF UsesFit
<1>7. /\ "released" \in Statuses /\ "released" \notin UnrunSt /\ "released" \notin AwaitedSt
      /\ "counted" \notin AwaitedSt
  BY DEF Statuses, UnrunSt, AwaitedSt
<1>8. /\ StacksFit(kind, status', stack') /\ DequesFit(kind, status', deque')
      /\ \A u : /\ UsesOf(stack', deque', u) = UsesOf(stack, deque, u)
                /\ Num(stack', Freeing(u)) = Num(stack, Freeing(u))
                /\ Num(stack', Inside(u)) = Num(stack, Inside(u))
  <2>1. "ungroup" \in BusyActs \ Suspended /\ "release" \in BusyActs \ Suspended /\ "release" \in Acts
    BY DEF BusyActs, Suspended, Acts
  <2>2. FrameFits(kind[t], "released", "release")
    BY DEF FrameFits, Suspended
  <2> QED
    BY <1>1, <1>2, <1>3, <1>6, <1>7, <2>1, <2>2, TopMark
<1>9. StatusFits(kind[t], "released")
  BY <1>4 DEF StatusFits
<1>10. UsesFit(kind[t], "released", UsesOf(stack', deque', t), untied'[t])
  BY <1>2, <1>6, <1>8 DEF UsesFit
<1>11. Consistent' /\ UsesCounted' /\ GroupTree' /\ GroupsOpen' /\ GroupsHeld'
  BY <1>2, <1>3, <1>7, <1>8, <1>9, <1>10, MarkLife
<1>12. MemoryCounted'
  <2>1. /\ Own("released", UsesOf(stack, deque, t)) = Own(status[t], UsesOf(stack, deque, t))
        /\ "released" # "freed" /\ status[t] # "freed"
    BY <1>3, <1>6 DEF Own
  <2>2. UNCHANGED <<allocated, parent>>
    BY <1>2 DEF born
  <2> QED
    BY <1>2, <1>3, <1>7, <1>8, <2>1, <2>2, MemoryMarked
<1>13. ChildrenCounted'
  <2>1. Flag(kind[t], status[t]) = 0 /\ Flag(kind[t], "released") = 0
    BY <1>3 DEF Flag
  <2>2. Recounted(t, "released")
    BY <1>2, <1>3, <1>7, <2>1 DEF Recounted
  <2> QED
    BY <1>2, <1>3, <1>7, <2>2, ChildrenChange
<1>14. MembersCounted'
  <2>1. t \in Counted
    BY <1>3 DEF Counted
  <2>2. Counted' = Counted \ {t}
    <3>1. kind' = kind /\ status'[t] = "released" /\ \A u \in Tasks : u # t => status'[u] = status[u]
      BY <1>2, <1>3 DEF born
    <3>2. \A u \in Explicit : u \in Counted' <=> u \in Counted /\ u # t
      BY <1>3, <3>1 DEF Counted, UnrunSt
    <3> QED
      BY <3>2 DEF Counted
  <2>3. UNCHANGED inherited
    BY <1>2 DEF born
  <2> QED
    BY <1>2, <1>3, <2>1, <2>2, <2>3, MembersLeave
<1> QED
  BY <1>11, <1>12, <1>13, <1>14 DEF LInv

(* The bottom half goes on when the top half is through.                    *)
LEMMA BottomLife ==
  ASSUME LInv, CInv', LTyped', NEW th \in Threads, BottomHalf(th)
  PROVE  LInv'
<1>1. PICK t : t = Task(th)
  OBVIOUS
<1>2. /\ Top(th).act = "bottom" /\ incomplete[t] = 0
      /\ Become(th, "release") /\ status' = [status EXCEPT ![t] = "released"]
      /\ UNCHANGED <<born, incomplete, allocated, untied, count, group, deque>>
  BY <1>1 DEF BottomHalf, Does, Mark, counts, groups, TopHalfDone
<1>3. /\ t \in Explicit /\ t \in Tasks /\ status[t] \in {"given", "counted", "ungrouped"}
      /\ stack \in Stacks /\ deque \in Deques /\ Explicit \subseteq Tasks /\ Threads \subseteq Tasks
      /\ status \in [Tasks -> Statuses] /\ incomplete \in [Tasks -> Int]
  BY <1>1, <1>2, TopFacts, LifeFacts DEF FrameFits, Suspended, LInv, LTyped
<1>4. kind[t] = "proxy"
  <2>1. GoodStack(th, stack[th]) /\ Len(stack[th]) \in Nat \ {0}
    BY StackFacts DEF LInv
  <2>2. 1 \in 1..Len(stack[th])
    BY <2>1
  <2>3. stack[th][1].act = "bottom" /\ stack[th][1].task = t
    BY <1>1, <1>2, TopFacts
  <2> QED
    BY <2>1, <2>2, <2>3 DEF GoodStack, IsStack
<1>5. status[t] = "ungrouped"
  <2>1. incomplete[t] = Kids(parent, Awaited, t) + Flag(kind[t], status[t])
    BY <1>3 DEF LInv, ChildrenCounted
  <2>2. Awaited \in SUBSET Explicit
    BY DEF Awaited
  <2>3. PICK n \in Nat : n = Kids(parent, Awaited, t)
    BY <2>2, NoKids
  <2>4. PICK f \in {0, 1} : f = Flag(kind[t], status[t])
    BY DEF Flag
  <2>5. n + f = 0
    BY <1>2, <2>1, <2>3, <2>4
  <2>6. Flag(kind[t], status[t]) = 0
    BY <2>4, <2>5
  <2> QED
    BY <1>3, <1>4, <2>6 DEF Flag
<1>6. UsesFit(kind[t], status[t], UsesOf(stack, deque, t), untied[t])
  BY <1>3 DEF LInv, UsesCounted
<1>7. UsesOf(stack, deque, t) = 1 /\ untied[t] = 0
  BY <1>4, <1>5, <1>6 DEF UsesFit
<1>8. /\ "released" \in Statuses /\ "released" \notin UnrunSt /\ "released" \notin AwaitedSt
      /\ "ungrouped" \notin AwaitedSt
  BY DEF Statuses, UnrunSt, AwaitedSt
<1>9. /\ StacksFit(kind, status', stack') /\ DequesFit(kind, status', deque')
      /\ \A u : /\ UsesOf(stack', deque', u) = UsesOf(stack, deque, u)
                /\ Num(stack', Freeing(u)) = Num(stack, Freeing(u))
                /\ Num(stack', Inside(u)) = Num(stack, Inside(u))
  <2>1. "bottom" \in BusyActs \ Suspended /\ "release" \in BusyActs \ Suspended /\ "release" \in Acts
    BY DEF BusyActs, Suspended, Acts
  <2>2. FrameFits(kind[t], "released", "release")
    BY DEF FrameFits, Suspended
  <2> QED
    BY <1>1, <1>2, <1>3, <1>7, <1>8, <2>1, <2>2, TopMark
<1>10. StatusFits(kind[t], "released")
  BY <1>4 DEF StatusFits
<1>11. UsesFit(kind[t], "released", UsesOf(stack', deque', t), untied'[t])
  BY <1>2, <1>7, <1>9 DEF UsesFit
<1>12. Consistent' /\ UsesCounted' /\ GroupTree' /\ GroupsOpen' /\ GroupsHeld'
  BY <1>2, <1>3, <1>8, <1>9, <1>10, <1>11, MarkLife
<1>13. MemoryCounted'
  <2>1. /\ Own("released", UsesOf(stack, deque, t)) = Own(status[t], UsesOf(stack, deque, t))
        /\ "released" # "freed" /\ status[t] # "freed"
    BY <1>5, <1>7 DEF Own
  <2>2. UNCHANGED <<allocated, parent>>
    BY <1>2 DEF born
  <2> QED
    BY <1>2, <1>3, <1>8, <1>9, <2>1, <2>2, MemoryMarked
<1>14. ChildrenCounted'
  <2>1. Flag(kind[t], status[t]) = 0 /\ Flag(kind[t], "released") = 0
    BY <1>5 DEF Flag
  <2>2. Recounted(t, "released")
    BY <1>2, <1>3, <1>5, <1>8, <2>1 DEF Recounted
  <2> QED
    BY <1>2, <1>3, <1>8, <2>2, ChildrenChange
<1>15. MembersCounted'
  <2>1. \A u \in Explicit : Counts(kind'[u], status'[u]) <=> Counts(kind[u], status[u])
    BY <1>2, <1>3, <1>4, <1>5 DEF Counts, UnrunSt, born
  <2>2. UNCHANGED <<count, inherited>>
    BY <1>2 DEF born
  <2> QED
    BY <2>1, <2>2, CountedKept, MembersKept DEF LInv
<1> QED
  BY <1>12, <1>13, <1>14, <1>15 DEF LInv

(* A status changes in the thread outside: the frames and the deques stay.  *)
LEMMA OutsideMark ==
  ASSUME LInv, NEW t \in Explicit, NEW x \in Statuses, status' = [status EXCEPT ![t] = x],
         UNCHANGED <<born, allocated, untied, group, stack, deque>>,
         StatusFits(kind[t], x), x \in UnrunSt => status[t] \in UnrunSt,
         \A a \in BusyActs : FrameFits(kind[t], status[t], a) => FrameFits(kind[t], x, a),
         SlotFits(kind[t], status[t]) => SlotFits(kind[t], x),
         UsesFit(kind[t], x, UsesOf(stack, deque, t), untied[t]),
         status[t] \notin {"none", "freed", "released"}, x \notin {"none", "freed", "released"}
  PROVE  Consistent' /\ UsesCounted' /\ GroupTree' /\ GroupsOpen' /\ GroupsHeld' /\ MemoryCounted'
<1>1. /\ stack \in Stacks /\ deque \in Deques /\ StacksFit(kind, status, stack)
      /\ DequesFit(kind, status, deque) /\ status \in [Tasks -> Statuses] /\ Explicit \subseteq Tasks /\ t \in Tasks
  BY LifeFacts
<1>2. PICK st : st = [status EXCEPT ![t] = x]
  OBVIOUS
<1>3. StacksFit(kind, st, stack)
  BY <1>1, <1>2, FitMark
<1>4. DequesFit(kind, st, deque)
  BY <1>1, <1>2, DFitMark
<1>5. StacksFit(kind, status', stack') /\ DequesFit(kind, status', deque')
  BY <1>2, <1>3, <1>4
<1>6. \A u : /\ UsesOf(stack', deque', u) = UsesOf(stack, deque, u)
             /\ Num(stack', Freeing(u)) = Num(stack, Freeing(u))
             /\ Num(stack', Inside(u)) = Num(stack, Inside(u))
  OBVIOUS
<1>7. UsesFit(kind[t], x, UsesOf(stack', deque', t), untied'[t])
  OBVIOUS
<1>8. Consistent' /\ UsesCounted' /\ GroupTree' /\ GroupsOpen' /\ GroupsHeld'
  BY <1>1, <1>5, <1>6, <1>7, MarkLife
<1>9. MemoryCounted'
  <2>1. Own(x, UsesOf(stack, deque, t)) = Own(status[t], UsesOf(stack, deque, t))
    BY DEF Own
  <2>2. UNCHANGED <<allocated, parent>> /\ x # "freed" /\ status[t] # "freed"
    BY DEF born
  <2> QED
    BY <1>6, <2>1, <2>2, MemoryMarked
<1> QED
  BY <1>8, <1>9

(* The first half: the task has run, and waits for itself.                  *)
LEMMA FirstHalfLife ==
  ASSUME LInv, CInv', LTyped', NEW p \in Explicit, FirstTopHalf(p)
  PROVE  LInv'
<1>1. /\ status[p] = "async" /\ status' = [status EXCEPT ![p] = "complete"] /\ LeaveGroup(p)
      /\ incomplete' = [incomplete EXCEPT ![p] = @ + 1]
      /\ UNCHANGED <<born, allocated, untied, group, stack, deque>>
  BY DEF FirstTopHalf, Mark
<1>2. /\ p \in Tasks /\ Explicit \subseteq Tasks /\ status \in [Tasks -> Statuses]
      /\ incomplete \in [Tasks -> Int] /\ StatusFits(kind[p], status[p])
  BY LifeFacts DEF LInv, LTyped, Consistent
<1>3. kind[p] = "proxy"
  BY <1>1, <1>2 DEF StatusFits
<1>4. UsesFit(kind[p], status[p], UsesOf(stack, deque, p), untied[p])
  BY DEF LInv, UsesCounted
<1>5. "complete" \in Statuses /\ "complete" \notin UnrunSt /\ "complete" \in AwaitedSt /\ "async" \in AwaitedSt
  BY DEF Statuses, UnrunSt, AwaitedSt
<1>6. Consistent' /\ UsesCounted' /\ GroupTree' /\ GroupsOpen' /\ GroupsHeld' /\ MemoryCounted'
  <2>1. StatusFits(kind[p], "complete")
    BY <1>3 DEF StatusFits
  <2>2. \A a \in BusyActs : FrameFits(kind[p], status[p], a) => FrameFits(kind[p], "complete", a)
    BY <1>1 DEF FrameFits, BusyActs, Acts, Suspended
  <2>3. ~SlotFits(kind[p], status[p])
    BY <1>1 DEF SlotFits
  <2>4. UsesFit(kind[p], "complete", UsesOf(stack, deque, p), untied[p])
    BY <1>1, <1>3, <1>4 DEF UsesFit
  <2> QED
    BY <1>1, <1>5, <2>1, <2>2, <2>3, <2>4, OutsideMark
<1>7. ChildrenCounted'
  <2>1. Flag(kind[p], status[p]) = 0 /\ Flag(kind[p], "complete") = 1
    BY <1>1, <1>3 DEF Flag
  <2>2. Recounted(p, "complete")
    <3>1. ASSUME NEW u \in Tasks
          PROVE  incomplete'[u] + (IF u = parent[p] THEN 1 ELSE 0) + 0
                   = incomplete[u] + (IF u = parent[p] THEN 1 ELSE 0) + (IF u = p THEN 1 ELSE 0)
      <4>1. PICK i \in Int : i = incomplete[u]
        BY <1>2
      <4>2. incomplete'[u] = i + (IF u = p THEN 1 ELSE 0)
        BY <1>1, <1>2, <4>1
      <4> QED
        BY <4>1, <4>2
    <3> QED
      BY <1>1, <1>5, <2>1, <3>1 DEF Recounted
  <2>3. incomplete' \in [Tasks -> Int]
    BY <1>1, <1>2
  <2> QED
    BY <1>1, <1>5, <2>2, <2>3, ChildrenChange
<1>8. MembersCounted'
  <2>1. p \in Counted
    BY <1>1 DEF Counted, UnrunSt
  <2>2. Counted' = Counted \ {p}
    <3>1. kind' = kind /\ status'[p] = "complete" /\ \A u \in Tasks : u # p => status'[u] = status[u]
      BY <1>1, <1>2 DEF born
    <3>2. \A u \in Explicit : u \in Counted' <=> u \in Counted /\ u # p
      BY <1>2, <3>1 DEF Counted, UnrunSt
    <3> QED
      BY <3>2 DEF Counted
  <2>3. UNCHANGED inherited
    BY <1>1 DEF born
  <2> QED
    BY <1>1, <2>1, <2>2, <2>3, MembersLeave
<1> QED
  BY <1>6, <1>7, <1>8 DEF LInv

(* The second half: the parent need not wait any more, then the task itself.*)
LEMMA SecondHalfLife ==
  ASSUME LInv, CInv', LTyped', NEW p \in Explicit, SecondTopHalf(p)
  PROVE  LInv'
<1>1. /\ p \in Tasks /\ Explicit \subseteq Tasks /\ status \in [Tasks -> Statuses]
      /\ incomplete \in [Tasks -> Int] /\ StatusFits(kind[p], status[p])
  BY LifeFacts DEF LInv, LTyped, Consistent
<1>2. UNCHANGED <<born, allocated, untied, group, count, stack, deque>>
  BY DEF SecondTopHalf, groups
<1>3. UsesFit(kind[p], status[p], UsesOf(stack, deque, p), untied[p])
  BY DEF LInv, UsesCounted
<1>4. /\ "counted" \in Statuses /\ "counted" \notin UnrunSt /\ "counted" \notin AwaitedSt /\ "given" \in AwaitedSt
      /\ "ungrouped" \in Statuses /\ "ungrouped" \notin UnrunSt /\ "ungrouped" \notin AwaitedSt
  BY DEF Statuses, UnrunSt, AwaitedSt
<1>5. CASE /\ status[p] = "given" /\ status' = [status EXCEPT ![p] = "counted"]
           /\ incomplete' = [incomplete EXCEPT ![parent[p]] = @ - 1]
  <2>1. kind[p] = "proxy"
    BY <1>1, <1>5 DEF StatusFits
  <2>2. parent[p] \in Tasks
    BY <1>1, <2>1, LifeFacts DEF Born
  <2>3. Consistent' /\ UsesCounted' /\ GroupTree' /\ GroupsOpen' /\ GroupsHeld' /\ MemoryCounted'
    <3>1. StatusFits(kind[p], "counted")
      BY <2>1 DEF StatusFits
    <3>2. \A a \in BusyActs : FrameFits(kind[p], status[p], a) => FrameFits(kind[p], "counted", a)
      BY <1>5 DEF FrameFits, BusyActs, Acts, Suspended
    <3>3. SlotFits(kind[p], "counted")
      BY <2>1 DEF SlotFits
    <3>4. UsesFit(kind[p], "counted", UsesOf(stack, deque, p), untied[p])
      BY <1>3, <1>5, <2>1 DEF UsesFit
    <3> QED
      BY <1>2, <1>4, <1>5, <3>1, <3>2, <3>3, <3>4, OutsideMark
  <2>4. ChildrenCounted'
    <3>1. Flag(kind[p], status[p]) = 1 /\ Flag(kind[p], "counted") = 1
      BY <1>5, <2>1 DEF Flag
    <3>2. Recounted(p, "counted")
      <4>1. ASSUME NEW u \in Tasks
            PROVE  incomplete'[u] + (IF u = parent[p] THEN 1 ELSE 0) + (IF u = p THEN 1 ELSE 0)
                     = incomplete[u] + 0 + (IF u = p THEN 1 ELSE 0)
        <5>1. PICK i \in Int : i = incomplete[u]
          BY <1>1
        <5>2. incomplete'[u] = i - (IF u = parent[p] THEN 1 ELSE 0)
          BY <1>1, <1>5, <2>2, <5>1
        <5> QED
          BY <5>1, <5>2
      <4> QED
        BY <1>4, <1>5, <3>1, <4>1 DEF Recounted
    <3>3. incomplete' \in [Tasks -> Int]
      BY <1>1, <1>5, <2>2
    <3> QED
      BY <1>2, <1>4, <1>5, <3>2, <3>3, ChildrenChange
  <2>5. MembersCounted'
    <3>1. \A u \in Explicit : Counts(kind'[u], status'[u]) <=> Counts(kind[u], status[u])
      BY <1>1, <1>2, <1>5, <2>1 DEF Counts, UnrunSt, born
    <3>2. UNCHANGED <<count, inherited>>
      BY <1>2 DEF born
    <3> QED
      BY <3>1, <3>2, CountedKept, MembersKept DEF LInv
  <2> QED
    BY <2>3, <2>4, <2>5 DEF LInv
<1>6. CASE /\ kind[p] = "proxy" /\ status[p] = "counted" /\ status' = [status EXCEPT ![p] = "ungrouped"]
           /\ incomplete' = [incomplete EXCEPT ![p] = @ - 1]
  <2>3. Consistent' /\ UsesCounted' /\ GroupTree' /\ GroupsOpen' /\ GroupsHeld' /\ MemoryCounted'
    <3>1. StatusFits(kind[p], "ungrouped")
      BY <1>6 DEF StatusFits
    <3>2. \A a \in BusyActs : FrameFits(kind[p], status[p], a) => FrameFits(kind[p], "ungrouped", a)
      BY <1>6 DEF FrameFits, BusyActs, Acts, Suspended
    <3>3. SlotFits(kind[p], "ungrouped")
      BY <1>6 DEF SlotFits
    <3>4. UsesFit(kind[p], "ungrouped", UsesOf(stack, deque, p), untied[p])
      BY <1>3, <1>6 DEF UsesFit
    <3> QED
      BY <1>2, <1>4, <1>6, <3>1, <3>2, <3>3, <3>4, OutsideMark
  <2>4. ChildrenCounted'
    <3>1. Flag(kind[p], status[p]) = 1 /\ Flag(kind[p], "ungrouped") = 0
      BY <1>6 DEF Flag
    <3>2. Recounted(p, "ungrouped")
      <4>1. ASSUME NEW u \in Tasks
            PROVE  incomplete'[u] + 0 + (IF u = p THEN 1 ELSE 0) = incomplete[u] + 0 + 0
        <5>1. PICK i \in Int : i = incomplete[u]
          BY <1>1
        <5>2. incomplete'[u] = i - (IF u = p THEN 1 ELSE 0)
          BY <1>1, <1>6, <5>1
        <5> QED
          BY <5>1, <5>2
      <4> QED
        BY <1>4, <1>6, <3>1, <4>1 DEF Recounted
    <3>3. incomplete' \in [Tasks -> Int]
      BY <1>1, <1>6
    <3> QED
      BY <1>2, <1>4, <1>6, <3>2, <3>3, ChildrenChange
  <2>5. MembersCounted'
    <3>1. \A u \in Explicit : Counts(kind'[u], status'[u]) <=> Counts(kind[u], status[u])
      BY <1>1, <1>2, <1>6 DEF Counts, UnrunSt, born
    <3>2. UNCHANGED <<count, inherited>>
      BY <1>2 DEF born
    <3> QED
      BY <3>1, <3>2, CountedKept, MembersKept DEF LInv
  <2> QED
    BY <2>3, <2>4, <2>5 DEF LInv
<1> QED
  BY <1>5, <1>6 DEF SecondTopHalf, Mark

(* A part of an untied task ends that is not the last one.                  *)
LEMMA FinishPartLife ==
  ASSUME LInv, CInv', LTyped', NEW th \in Threads, Finish(th),
         ~(kind[Task(th)] = "untied" => untied[Task(th)] = 1)
  PROVE  LInv'
<1>1. PICK t : t = Task(th)
  OBVIOUS
<1>2. /\ Top(th).act = "finish" /\ IsWithPop(stack', stack, th) /\ kind[t] = "untied"
      /\ untied' = [untied EXCEPT ![t] = @ - 1]
      /\ UNCHANGED <<born, status, incomplete, allocated, group, count, deque>>
  BY <1>1 DEF Finish, Does, Pop, IsWithPop, groups
<1>3. /\ t \in Explicit /\ t \in Tasks /\ status[t] = "running"
      /\ stack \in Stacks /\ stack[th] # <<>> /\ StacksFit(kind, status, stack)
      /\ deque \in Deques /\ DequesFit(kind, status, deque)
      /\ Explicit \subseteq Tasks /\ Threads \subseteq Tasks /\ Threads \cap Explicit = {}
      /\ untied \in [Tasks -> Int]
  BY <1>1, <1>2, TopFacts, LifeFacts DEF FrameFits, Suspended, LInv, LTyped
<1>4. PICK f \in Frame : f = stack[th][1] /\ f.task = t /\ f.act = Top(th).act
  BY <1>1, TopFacts
<1>5. PICK sk : sk = stack'
  OBVIOUS
<1>6. IsWithPop(sk, stack, th)
  BY <1>2, <1>5
<1>7. \A u : /\ Num(sk, Busy(u)) \in Nat /\ Num(sk, Freeing(u)) \in Nat /\ Num(sk, Inside(u)) \in Nat
             /\ Num(stack, Busy(u)) = Num(sk, Busy(u)) + (IF u = f.task /\ f.act \in BusyActs THEN 1 ELSE 0)
             /\ Num(stack, Freeing(u)) = Num(sk, Freeing(u)) + (IF u = f.task /\ f.act = "free" THEN 1 ELSE 0)
             /\ Num(stack, Inside(u)) = Num(sk, Inside(u)) + (IF u = f.task /\ f.act \in Suspended THEN 1 ELSE 0)
  BY <1>3, <1>4, <1>6, PopAll
<1>8. f.act \in BusyActs /\ f.act # "free" /\ f.act \notin Suspended
  BY <1>2, <1>4 DEF BusyActs, Suspended, Acts
<1>9. \A u : /\ Num(sk, Freeing(u)) = Num(stack, Freeing(u)) /\ Num(sk, Inside(u)) = Num(stack, Inside(u))
             /\ Num(stack, Busy(u)) = Num(sk, Busy(u)) + (IF u = t THEN 1 ELSE 0)
  BY <1>4, <1>7, <1>8
<1>10. StacksFit(kind, status, sk)
  BY <1>3, <1>6, FitPop
<1>11. GroupsOpen'
  BY <1>2, SameGroups DEF born
<1>12. GroupsHeld'
  BY <1>2, <1>5, <1>9 DEF LInv, GroupsHeld
<1>13. ASSUME NEW u \in Explicit
       PROVE  /\ UsesFit(kind[u], status[u], UsesOf(sk, deque, u), untied'[u])
              /\ status[u] = "released" => UsesOf(sk, deque, u) = UsesOf(stack, deque, u)
  <2>1. UsesFit(kind[u], status[u], UsesOf(stack, deque, u), untied[u])
    BY DEF LInv, UsesCounted
  <2>2. PICK m \in Nat, n \in Nat : m = Num(sk, Busy(u)) /\ n = Slots(deque, u)
    BY <1>3, <1>7, NumsAreNat
  <2>3. CASE u = t
    <3>1. untied[u] = (m + 1) + n
      BY <1>2, <1>3, <1>9, <2>1, <2>2, <2>3 DEF UsesFit, UsesOf
    <3>2. untied'[u] = m + n
      BY <1>2, <1>3, <2>3, <3>1
    <3> QED
      BY <1>2, <1>3, <2>2, <2>3, <3>2 DEF UsesFit, UsesOf
  <2>4. CASE u # t
    <3>1. Num(stack, Busy(u)) = Num(sk, Busy(u)) /\ untied'[u] = untied[u]
      BY <1>2, <1>3, <1>7, <1>9, <2>4
    <3> QED
      BY <2>1, <3>1 DEF UsesOf
  <2> QED
    BY <2>3, <2>4
<1>14. \A u \in Threads : untied'[u] = untied[u]
  BY <1>2, <1>3
<1>15. /\ StacksFit(kind, status, stack') /\ DequesFit(kind, status, deque')
       /\ \A u \in Explicit : UsesFit(kind[u], status[u], UsesOf(stack', deque', u), untied'[u])
       /\ \A u \in Explicit : status[u] = "released" => UsesOf(stack', deque', u) = UsesOf(stack, deque, u)
       /\ \A u \in Explicit : Num(stack', Freeing(u)) = Num(stack, Freeing(u))
  BY <1>2, <1>3, <1>5, <1>9, <1>10, <1>13
<1> QED
  BY <1>2, <1>11, <1>12, <1>14, <1>15, SameLife

(* All successors of the task are submitted.                                *)
LEMMA ReleasedLife ==
  ASSUME LInv, CInv', LTyped', NEW th \in Threads, Top(th).act = "release", Become(th, "free"),
         UNCHANGED <<born, status, counts, groups, deque>>
  PROVE  LInv'
<1>1. PICK t : t = Task(th)
  OBVIOUS
<1>2. UNCHANGED <<born, status, incomplete, allocated, untied, group, count, deque>>
      /\ kind' = kind /\ parent' = parent /\ inherited' = inherited
  BY DEF counts, groups, born
<1>3. /\ t \in Explicit /\ t \in Tasks /\ status[t] = "released"
      /\ stack \in Stacks /\ stack[th] # <<>> /\ StacksFit(kind, status, stack)
      /\ deque \in Deques /\ DequesFit(kind, status, deque)
      /\ Explicit \subseteq Tasks /\ Threads \subseteq Tasks /\ Threads \cap Explicit = {}
  BY <1>1, TopFacts, LifeFacts DEF FrameFits, Suspended, LInv, LTyped
<1>4. PICK f \in Frame : f = stack[th][1] /\ f.task = t /\ f.act = "release"
  BY <1>1, TopFacts
<1>5. "free" \in Acts
  BY DEF Acts
<1>6. PICK h, e : /\ e \in Frame /\ e.task = Task(th) /\ e.act = "free"
                  /\ IsWithPop(h, stack, th) /\ IsWithPush(stack', h, th, e)
  BY <1>5, BecomePush
<1>7. PICK sk : sk = stack'
  OBVIOUS
<1>8. IsWithPush(sk, h, th, e)
  BY <1>6, <1>7
<1>9. sk \in Stacks /\ h \in Stacks /\ Exchanged(sk, stack, f, e)
  BY <1>3, <1>4, <1>6, <1>8, TopChange
<1>10. /\ f.act \in BusyActs /\ f.act # "free" /\ f.act \notin Suspended
       /\ e.act \notin BusyActs /\ e.act \notin Suspended /\ e.task = t
  BY <1>1, <1>4, <1>6 DEF BusyActs, Suspended, Acts
<1>11. \A u : /\ Num(sk, Busy(u)) \in Nat /\ Num(stack, Freeing(u)) \in Nat
              /\ Num(sk, Inside(u)) = Num(stack, Inside(u))
              /\ Num(stack, Busy(u)) = Num(sk, Busy(u)) + (IF u = t THEN 1 ELSE 0)
              /\ Num(sk, Freeing(u)) = Num(stack, Freeing(u)) + (IF u = t THEN 1 ELSE 0)
  BY <1>4, <1>6, <1>9, <1>10 DEF Exchanged
<1>12. StacksFit(kind, status, sk)
  <2>1. FrameFits(kind[e.task], status[e.task], e.act)
    BY <1>3, <1>6, <1>10 DEF FrameFits, Suspended
  <2> QED
    BY <1>3, <1>6, <1>8, <1>9, <2>1, FitTop
<1>13. Consistent'
  <2>1. \A u \in Tasks : StatusFits(kind[u], status[u])
    BY DEF LInv, Consistent
  <2> QED
    BY <1>2, <1>3, <1>7, <1>12, <2>1 DEF Consistent
<1>14. UsesCounted'
  <2>1. ASSUME NEW u \in Explicit PROVE UsesFit(kind[u], status[u], UsesOf(sk, deque, u), untied[u])
    <3>1. UsesFit(kind[u], status[u], UsesOf(stack, deque, u), untied[u])
      BY DEF LInv, UsesCounted
    <3>2. CASE u = t
      BY <1>3, <3>1, <3>2 DEF UsesFit
    <3>3. CASE u # t
      <4>1. Num(stack, Busy(u)) = Num(sk, Busy(u))
        BY <1>11, <3>3
      <4> QED
        BY <3>1, <4>1 DEF UsesOf
    <3> QED
      BY <3>2, <3>3
  <2> QED
    BY <1>2, <1>7, <2>1 DEF UsesCounted
<1>15. MemoryCounted'
  <2>1. ASSUME NEW u \in Explicit
        PROVE  /\ Own(status[u], UsesOf(sk, deque, u)) + Num(sk, Freeing(u))
                    = Own(status[u], UsesOf(stack, deque, u)) + Num(stack, Freeing(u))
               /\ UsesOf(stack, deque, u) \in Nat /\ UsesOf(sk, deque, u) \in Nat
               /\ Num(stack, Freeing(u)) \in Nat /\ Num(sk, Freeing(u)) \in Nat
    <3>1. PICK m \in Nat, n \in Nat, q \in Nat :
            m = Num(sk, Busy(u)) /\ n = Slots(deque, u) /\ q = Num(stack, Freeing(u))
      BY <1>3, <1>11, NumsAreNat
    <3>2. CASE u = t
      <4>1. UsesOf(sk, deque, u) = m + n /\ UsesOf(stack, deque, u) = (m + 1) + n
        BY <1>11, <3>1, <3>2 DEF UsesOf
      <4>2. Num(sk, Freeing(u)) = q + 1
        BY <1>11, <3>1, <3>2
      <4>3. PICK a \in Nat, b \in Nat : a = UsesOf(sk, deque, u) /\ b = UsesOf(stack, deque, u)
        BY <4>1
      <4>4. Own(status[u], a) = a /\ Own(status[u], b) = b
        BY <1>3, <3>2 DEF Own
      <4> QED
        BY <3>1, <4>1, <4>2, <4>3, <4>4
    <3>3. CASE u # t
      <4>1. UsesOf(sk, deque, u) = m + n /\ UsesOf(stack, deque, u) = m + n /\ Num(sk, Freeing(u)) = q
        BY <1>11, <3>1, <3>3 DEF UsesOf
      <4> QED
        BY <3>1, <4>1
    <3> QED
      BY <3>2, <3>3
  <2>2. ASSUME NEW u \in Explicit
        PROVE  /\ Own(status'[u], UsesOf(stack', deque', u)) + Num(stack', Freeing(u))
                    = Own(status[u], UsesOf(stack, deque, u)) + Num(stack, Freeing(u))
               /\ status'[u] = "freed" <=> status[u] = "freed"
               /\ UsesOf(stack, deque, u) \in Nat /\ UsesOf(stack', deque', u) \in Nat
               /\ Num(stack, Freeing(u)) \in Nat /\ Num(stack', Freeing(u)) \in Nat
    BY <1>2, <1>7, <2>1
  <2> QED
    BY <1>2, <2>2, MemoryKept DEF LInv
<1>16. ChildrenCounted'
  BY <1>2, ChildrenKept DEF LInv
<1>17. MembersCounted'
  <2>1. Counted' = Counted
    BY <1>2, CountedKept
  <2> QED
    BY <1>2, <2>1, MembersKept DEF LInv
<1>18. GroupTree'
  BY <1>2, TreeKept DEF LInv
<1>19. GroupsOpen'
  BY <1>2, SameGroups
<1>20. GroupsHeld'
  BY <1>2, <1>7, <1>11 DEF LInv, GroupsHeld
<1> QED
  BY <1>13, <1>14, <1>15, <1>16, <1>17, <1>18, <1>19, <1>20 DEF LInv

LEMMA ReleaseLife ==
  ASSUME LInv, CInv', LTyped', NEW th \in Threads, Release(th)
  PROVE  LInv'
<1>1. CASE Become(th, "free") /\ UNCHANGED <<born, status, counts, groups, deque, fault>>
  <2>1. Top(th).act = "release" /\ UNCHANGED <<born, status, counts, groups, deque>>
    BY <1>1 DEF Release, Does
  <2> QED
    BY <1>1, <2>1, ReleasedLife
<1>2. CASE \E s \in Successors(Task(th)) :
          /\ \/ Defer(th, s, stack[th])
             \/ CannotDefer(th, s) /\ RunNow(th, s, stack[th], FALSE)
          /\ UNCHANGED <<born, incomplete, allocated, part, groups>>
  <2>1. PICK s \in Explicit : /\ status[s] = "held"
                              /\ Defer(th, s, stack[th]) \/ RunNow(th, s, stack[th], FALSE)
                              /\ UNCHANGED <<born, incomplete, allocated, part, groups>>
    BY <1>2 DEF Successors
  <2>2. UNCHANGED <<born, incomplete, allocated, count, group>>
    BY <2>1 DEF groups
  <2> QED
    BY <2>1, <2>2, SuccessorLife
<1> QED
  BY <1>1, <1>2 DEF Release

(* The thread is through with freeing t, or goes on to free the task up.    *)
FreeingMoved(g, t, up) ==
  \A u \in Tasks :
    /\ Num(stack, Busy(u)) \in Nat /\ Num(g, Busy(u)) = Num(stack, Busy(u))
    /\ Num(g, Inside(u)) = Num(stack, Inside(u))
    /\ Num(stack, Freeing(u)) \in Nat /\ Num(g, Freeing(u)) \in Nat
    /\ Num(g, Freeing(u)) + One(u = t) = Num(stack, Freeing(u)) + One(u = up)

StillFits(g) == \A st : StacksFit(kind, st, stack) => StacksFit(kind, st, g)

LEMMA FreedPop ==
  ASSUME LInv, NEW th \in Threads, Top(th).act = "free", Pop(th)
  PROVE  FreeingMoved(stack', Task(th), Null) /\ StillFits(stack')
<1>1. PICK t \in Tasks : t = Task(th)
  BY TopFacts
<1>2. stack \in Stacks /\ stack[th] # <<>> /\ Null \notin Tasks
  BY TopFacts, LifeFacts
<1>3. PICK f \in Frame : f = stack[th][1] /\ f.task = t /\ f.act = "free"
  BY <1>1, TopFacts
<1>4. PICK sk : sk = stack'
  OBVIOUS
<1>5. IsWithPop(sk, stack, th)
  BY <1>4 DEF Pop, IsWithPop
<1>6. \A u : /\ Num(sk, Busy(u)) \in Nat /\ Num(sk, Freeing(u)) \in Nat /\ Num(sk, Inside(u)) \in Nat
             /\ Num(stack, Busy(u)) = Num(sk, Busy(u)) + (IF u = f.task /\ f.act \in BusyActs THEN 1 ELSE 0)
             /\ Num(stack, Freeing(u)) = Num(sk, Freeing(u)) + (IF u = f.task /\ f.act = "free" THEN 1 ELSE 0)
             /\ Num(stack, Inside(u)) = Num(sk, Inside(u)) + (IF u = f.task /\ f.act \in Suspended THEN 1 ELSE 0)
  BY <1>2, <1>3, <1>5, PopAll
<1>7. f.act \notin BusyActs /\ f.act \notin Suspended
  BY <1>3 DEF BusyActs, Suspended
<1>8. ASSUME NEW u \in Tasks
      PROVE  /\ Num(stack, Busy(u)) \in Nat /\ Num(sk, Busy(u)) = Num(stack, Busy(u))
             /\ Num(sk, Inside(u)) = Num(stack, Inside(u))
             /\ Num(stack, Freeing(u)) \in Nat /\ Num(sk, Freeing(u)) \in Nat
             /\ Num(sk, Freeing(u)) + One(u = t) = Num(stack, Freeing(u)) + One(u = Null)
  BY <1>2, <1>3, <1>6, <1>7 DEF One
<1>9. StillFits(sk)
  BY <1>2, <1>5, FitPop DEF StillFits
<1> QED
  BY <1>1, <1>4, <1>8, <1>9 DEF FreeingMoved

LEMMA FreedUp ==
  ASSUME LInv, NEW th \in Threads, Top(th).act = "free", NEW up \in Tasks,
         stack' = [stack EXCEPT ![th][1].task = up]
  PROVE  FreeingMoved(stack', Task(th), up) /\ StillFits(stack')
<1>1. PICK t \in Tasks : t = Task(th)
  BY TopFacts
<1>2. stack \in Stacks /\ stack[th] # <<>> /\ stack[th] \in Seq(Frame)
  BY TopFacts, LifeFacts DEF Stacks
<1>3. PICK f \in Frame : f = stack[th][1] /\ f.task = t /\ f.act = "free"
  BY <1>1, TopFacts
<1>4. PICK r : r = [stack[th] EXCEPT ![1].task = up]
               /\ IsTop(r, [task |-> up, act |-> stack[th][1].act], stack[th])
  BY <1>2, ToppedTask
<1>5. PICK e : e = [task |-> up, act |-> "free"]
  OBVIOUS
<1>6. e \in Frame /\ e.task = up /\ e.act = "free"
  BY <1>5 DEF Frame, Acts
<1>7. r = <<e>> \o Tail(stack[th])
  BY <1>2, <1>3, <1>4, <1>5, <1>6, TopIsPush
<1>8. stack' = [stack EXCEPT ![th] = r]
  BY <1>4
<1>9. PICK h : h = [stack EXCEPT ![th] = Tail(@)]
  OBVIOUS
<1>10. stack' = [h EXCEPT ![th] = <<e>> \o @]
  BY <1>2, <1>7, <1>8, <1>9 DEF Stacks
<1>11. PICK sk : sk = stack'
  OBVIOUS
<1>12. IsWithPop(h, stack, th) /\ IsWithPush(sk, h, th, e)
  BY <1>9, <1>10, <1>11 DEF IsWithPop, IsWithPush
<1>13. sk \in Stacks /\ h \in Stacks /\ Exchanged(sk, stack, f, e)
  BY <1>2, <1>3, <1>6, <1>12, TopChange
<1>14. f.act \notin BusyActs /\ f.act \notin Suspended /\ e.act \notin BusyActs /\ e.act \notin Suspended
  BY <1>3, <1>6 DEF BusyActs, Suspended
<1>15. ASSUME NEW u \in Tasks
      PROVE  /\ Num(stack, Busy(u)) \in Nat /\ Num(sk, Busy(u)) = Num(stack, Busy(u))
             /\ Num(sk, Inside(u)) = Num(stack, Inside(u))
             /\ Num(stack, Freeing(u)) \in Nat /\ Num(sk, Freeing(u)) \in Nat
             /\ Num(sk, Freeing(u)) + One(u = t) = Num(stack, Freeing(u)) + One(u = up)
  BY <1>3, <1>6, <1>13, <1>14 DEF One, Exchanged
<1>16. ASSUME NEW st, StacksFit(kind, st, stack) PROVE StacksFit(kind, st, sk)
  <2>1. FrameFits(kind[e.task], st[e.task], e.act)
    BY <1>6 DEF FrameFits, Suspended
  <2> QED
    BY <1>2, <1>6, <1>12, <1>13, <1>16, <2>1, FitTop
<1> QED
  BY <1>1, <1>11, <1>15, <1>16 DEF FreeingMoved, StillFits

(* There are more turns to come, of the children of the task or of threads  *)
(* that are freeing it as well.                                             *)
LEMMA FreePartLife ==
  ASSUME LInv, CInv', LTyped', NEW th \in Threads, Free(th), allocated[Task(th)] # 1
  PROVE  LInv'
<1>1. PICK t : t = Task(th)
  OBVIOUS
<1>2. /\ Top(th).act = "free" /\ Pop(th) /\ allocated' = [allocated EXCEPT ![t] = @ - 1]
      /\ UNCHANGED <<born, status, incomplete, untied, group, count, deque>>
      /\ kind' = kind /\ parent' = parent /\ inherited' = inherited
  BY <1>1 DEF Free, Does, groups, born
<1>3. /\ t \in Explicit /\ t \in Tasks /\ Null \notin Tasks
      /\ stack \in Stacks /\ StacksFit(kind, status, stack) /\ deque \in Deques /\ DequesFit(kind, status, deque)
      /\ Explicit \subseteq Tasks /\ Threads \subseteq Tasks /\ Threads \cap Explicit = {}
      /\ allocated \in [Tasks -> Int]
  BY <1>1, <1>2, TopFacts, LifeFacts DEF Suspended, LInv, LTyped
<1>4. PICK sk : sk = stack'
  OBVIOUS
<1>5. FreeingMoved(sk, t, Null) /\ StillFits(sk)
  BY <1>1, <1>2, <1>4, FreedPop
<1>6. \A u \in Tasks : /\ Num(sk, Busy(u)) = Num(stack, Busy(u)) /\ Num(sk, Inside(u)) = Num(stack, Inside(u))
                       /\ UsesOf(sk, deque, u) = UsesOf(stack, deque, u)
  BY <1>5 DEF FreeingMoved, UsesOf
<1>7. Consistent'
  BY <1>2, <1>3, <1>4, <1>5 DEF Consistent, LInv, StillFits
<1>8. UsesCounted'
  BY <1>2, <1>3, <1>4, <1>6 DEF UsesCounted, LInv
<1>9. MemoryCounted'
  <2>1. \A u \in Threads : allocated'[u] = 0 /\ untied'[u] = 0
    BY <1>2, <1>3 DEF LInv, MemoryCounted
  <2>2. Unfreed' = Unfreed /\ Unfreed \in SUBSET Explicit
    BY <1>2 DEF Unfreed
  <2>3. ASSUME NEW u \in Explicit
        PROVE  AllocFits(status[u], UsesOf(sk, deque, u), allocated'[u], Kids(parent, Unfreed, u), Num(sk, Freeing(u)))
    <3>1. AllocFits(status[u], UsesOf(stack, deque, u), allocated[u], Kids(parent, Unfreed, u), Num(stack, Freeing(u)))
      BY DEF LInv, MemoryCounted
    <3>2. PICK a \in Nat, b \in Nat, c \in Nat, d \in Nat, n \in Nat :
            /\ a = Num(stack, Freeing(u)) /\ b = Num(sk, Freeing(u)) /\ c = Kids(parent, Unfreed, u)
            /\ n = UsesOf(stack, deque, u) /\ d = Own(status[u], n)
      <4>1. UsesOf(stack, deque, u) \in Nat
        BY <1>3, NumsAreNat
      <4>2. Own(status[u], UsesOf(stack, deque, u)) \in Nat
        BY <4>1 DEF Own
      <4>3. Kids(parent, Unfreed, u) \in Nat
        BY <2>2, NoKids
      <4>4. Num(stack, Freeing(u)) \in Nat /\ Num(sk, Freeing(u)) \in Nat
        BY <1>3, <1>5 DEF FreeingMoved
      <4> QED
        BY <4>1, <4>2, <4>3, <4>4
    <3>3. allocated[u] = d + c + a /\ (status[u] = "freed" => allocated[u] = 0) /\ UsesOf(sk, deque, u) = n
      BY <1>3, <1>6, <3>1, <3>2 DEF AllocFits
    <3>4. CASE u = t
      <4>1. b + 1 = a
        BY <1>3, <1>5, <3>2, <3>4 DEF FreeingMoved, One
      <4>2. allocated'[u] = (d + c + a) - 1
        BY <1>2, <1>3, <3>3, <3>4
      <4> QED
        BY <3>2, <3>3, <4>1, <4>2 DEF AllocFits
    <3>5. CASE u # t
      <4>1. b = a
        BY <1>3, <1>5, <3>2, <3>5 DEF FreeingMoved, One
      <4>2. allocated'[u] = allocated[u]
        BY <1>2, <1>3, <3>5
      <4> QED
        BY <3>2, <3>3, <4>1, <4>2 DEF AllocFits
    <3> QED
      BY <3>4, <3>5
  <2> QED
    BY <1>2, <1>4, <2>1, <2>2, <2>3 DEF MemoryCounted
<1>10. ChildrenCounted'
  BY <1>2, ChildrenKept DEF LInv
<1>11. MembersCounted'
  <2>1. Counted' = Counted
    BY <1>2, CountedKept
  <2> QED
    BY <1>2, <2>1, MembersKept DEF LInv
<1>12. GroupTree'
  BY <1>2, TreeKept DEF LInv
<1>13. GroupsOpen'
  BY <1>2, SameGroups
<1>14. GroupsHeld'
  BY <1>2, <1>4, <1>6 DEF LInv, GroupsHeld
<1> QED
  BY <1>7, <1>8, <1>9, <1>10, <1>11, <1>12, <1>13, <1>14 DEF LInv

(* Who frees a task as the last one finds it released, used by nobody,      *)
(* without children, and is alone.                                          *)
LEMMA NothingLeft ==
  ASSUME LInv, NEW th \in Threads, Top(th).act = "free", NEW t, t = Task(th), allocated[t] = 1
  PROVE  /\ status[t] = "released" /\ UsesOf(stack, deque, t) = 0 /\ untied[t] = 0
         /\ Num(stack, Busy(t)) = 0 /\ Slots(deque, t) = 0
         /\ Kids(parent, Unfreed, t) = 0 /\ Num(stack, Freeing(t)) = 1
<1>1. /\ t \in Explicit /\ t \in Tasks /\ stack \in Stacks /\ deque \in Deques /\ stack[th] \in Seq(Frame)
      /\ stack[th] # <<>> /\ status[t] # "none"
  BY TopFacts, LifeFacts DEF Suspended, Stacks
<1>2. stack[th][1] \in Freeing(t)
  BY TopFacts DEF Freeing
<1>3. Num(stack, Freeing(t)) # 0
  <2>1. 1 \in 1..Len(stack[th])
    BY <1>1
  <2> QED
    BY <1>1, <1>2, <2>1, NoPlaces
<1>4. AllocFits(status[t], UsesOf(stack, deque, t), allocated[t], Kids(parent, Unfreed, t), Num(stack, Freeing(t)))
  BY <1>1 DEF LInv, MemoryCounted
<1>5. PICK n \in Nat, d \in Nat, c \in Nat, a \in Nat :
        /\ n = UsesOf(stack, deque, t) /\ d = Own(status[t], n) /\ c = Kids(parent, Unfreed, t)
        /\ a = Num(stack, Freeing(t))
  <2>1. UsesOf(stack, deque, t) \in Nat /\ Num(stack, Freeing(t)) \in Nat
    BY <1>1, NumsAreNat
  <2>2. Own(status[t], UsesOf(stack, deque, t)) \in Nat
    BY <2>1 DEF Own
  <2>3. Unfreed \in SUBSET Explicit
    BY DEF Unfreed
  <2>4. Kids(parent, Unfreed, t) \in Nat
    BY <2>3, NoKids
  <2> QED
    BY <2>1, <2>2, <2>4
<1>6. d + c + a = 1 /\ a # 0 /\ status[t] # "freed"
  BY <1>3, <1>4, <1>5 DEF AllocFits
<1>7. d = 0 /\ c = 0 /\ a = 1
  BY <1>5, <1>6
<1>8. status[t] = "released" /\ n = 0
  BY <1>1, <1>5, <1>6, <1>7 DEF Own
<1>9. untied[t] = 0
  <2>1. UsesFit(kind[t], status[t], UsesOf(stack, deque, t), untied[t])
    BY <1>1 DEF LInv, UsesCounted
  <2> QED
    BY <1>8, <2>1 DEF UsesFit
<1>10. Num(stack, Busy(t)) = 0 /\ Slots(deque, t) = 0
  <2>1. PICK i \in Nat, j \in Nat : i = Num(stack, Busy(t)) /\ j = Slots(deque, t)
    BY <1>1, NumsAreNat
  <2>2. i + j = 0
    BY <1>5, <1>8, <2>1 DEF UsesOf
  <2> QED
    BY <2>1, <2>2
<1> QED
  BY <1>5, <1>7, <1>8, <1>9, <1>10

(* The memory of the task goes back, and its parent has a child less.       *)
LEMMA FreeLastLife ==
  ASSUME LInv, CInv', LTyped', NEW th \in Threads, Free(th), allocated[Task(th)] = 1
  PROVE  LInv'
<1>1. PICK t, up : t = Task(th) /\ up = Above(t)
  OBVIOUS
<1>2. /\ Top(th).act = "free" /\ status' = [status EXCEPT ![t] = "freed"]
      /\ IF up # Null THEN stack' = [stack EXCEPT ![th][1].task = up] ELSE Pop(th)
      /\ allocated' = [allocated EXCEPT ![t] = @ - 1]
      /\ UNCHANGED <<born, incomplete, untied, group, count, deque>>
      /\ kind' = kind /\ parent' = parent /\ inherited' = inherited
  BY <1>1 DEF Free, Does, Mark, groups, born
<1>3. /\ t \in Explicit /\ t \in Tasks /\ Null \notin Tasks
      /\ stack \in Stacks /\ StacksFit(kind, status, stack) /\ deque \in Deques /\ DequesFit(kind, status, deque)
      /\ Explicit \subseteq Tasks /\ Threads \subseteq Tasks /\ Threads \cap Explicit = {}
      /\ allocated \in [Tasks -> Int] /\ status \in [Tasks -> Statuses]
  BY <1>1, <1>2, TopFacts, LifeFacts DEF Suspended, LInv, LTyped
<1>4. /\ status[t] = "released" /\ UsesOf(stack, deque, t) = 0 /\ untied[t] = 0 /\ allocated[t] = 1
      /\ Num(stack, Busy(t)) = 0 /\ Slots(deque, t) = 0
      /\ Kids(parent, Unfreed, t) = 0 /\ Num(stack, Freeing(t)) = 1
  BY <1>1, <1>2, NothingLeft
<1>5. kind[t] \in {"tied", "untied", "proxy"}
  BY <1>1, <1>3, TopFacts, LifeFacts DEF Born
<1>6. parent[t] # t
  BY <1>3, <1>5, Tree, LifeFacts, Numbers DEF Born
<1>7. /\ up # Null => up \in Tasks
      /\ up # t
      /\ \A u \in Explicit : u = up <=> parent[t] = u
  BY <1>1, <1>3, <1>6 DEF Above
<1>8. PICK sk : sk = stack'
  OBVIOUS
<1>9. FreeingMoved(sk, t, up) /\ StillFits(sk)
  <2>1. CASE up = Null
    BY <1>1, <1>2, <1>8, <2>1, FreedPop
  <2>2. CASE up # Null
    BY <1>1, <1>2, <1>7, <1>8, <2>2, FreedUp
  <2> QED
    BY <2>1, <2>2
<1>10. \A u \in Tasks : /\ Num(sk, Busy(u)) = Num(stack, Busy(u)) /\ Num(sk, Inside(u)) = Num(stack, Inside(u))
                        /\ UsesOf(sk, deque, u) = UsesOf(stack, deque, u)
  BY <1>9 DEF FreeingMoved, UsesOf
<1>11. PICK st : st = [status EXCEPT ![t] = "freed"]
  OBVIOUS
<1>12. StacksFit(kind, st, sk) /\ DequesFit(kind, st, deque)
  <2>1. StacksFit(kind, st, stack)
    BY <1>3, <1>4, <1>11, FitMark
  <2>2. DequesFit(kind, st, deque)
    BY <1>3, <1>4, <1>11, DFitMark
  <2> QED
    BY <1>9, <2>1, <2>2 DEF StillFits
<1>13. "freed" \in Statuses /\ "freed" \notin UnrunSt /\ "freed" \notin AwaitedSt /\ "released" \notin AwaitedSt
  BY DEF Statuses, UnrunSt, AwaitedSt
<1>14. StatusFits(kind[t], "freed")
  BY <1>5 DEF StatusFits
<1>15. UsesFit(kind[t], "freed", UsesOf(sk, deque, t), untied[t])
  BY <1>3, <1>4, <1>10 DEF UsesFit
<1>16. Consistent' /\ UsesCounted' /\ GroupTree' /\ GroupsOpen' /\ GroupsHeld'
  <2>1. /\ StacksFit(kind, status', stack') /\ DequesFit(kind, status', deque')
        /\ \A u \in Explicit \ {t} : UsesOf(stack', deque', u) = UsesOf(stack, deque, u) /\ untied'[u] = untied[u]
        /\ UsesFit(kind[t], "freed", UsesOf(stack', deque', t), untied'[t])
        /\ \A g \in Tasks : Num(stack, Inside(g)) # 0 => Num(stack', Inside(g)) # 0
    BY <1>2, <1>3, <1>8, <1>10, <1>11, <1>12, <1>15
  <2>2. UNCHANGED <<born, group>>
    BY <1>2
  <2> QED
    BY <1>2, <1>3, <1>13, <1>14, <2>1, <2>2, MarkLife
<1>17. MemoryCounted'
  <2>1. \A u \in Threads : allocated'[u] = 0 /\ untied'[u] = 0
    BY <1>2, <1>3 DEF LInv, MemoryCounted
  <2>2. PICK X, Y : X = Unfreed /\ Y = Unfreed'
    OBVIOUS
  <2>3. /\ X \in SUBSET Explicit /\ Y \in SUBSET Explicit /\ t \in X /\ t \notin Y
        /\ \A c \in Explicit : c # t => (c \in X <=> c \in Y)
    BY <1>2, <1>3, <1>4, <2>2 DEF Unfreed
  <2>4. \A u : /\ Kids(parent, X, u) \in Nat /\ Kids(parent, Y, u) \in Nat
               /\ Kids(parent, Y, u) + One(t \in X /\ parent[t] = u)
                    = Kids(parent, X, u) + One(t \in Y /\ parent[t] = u)
    BY <2>3, KidsChange
  <2>5. ASSUME NEW u \in Explicit
        PROVE  AllocFits(status'[u], UsesOf(sk, deque, u), allocated'[u], Kids(parent, Y, u), Num(sk, Freeing(u)))
    <3>1. AllocFits(status[u], UsesOf(stack, deque, u), allocated[u], Kids(parent, X, u), Num(stack, Freeing(u)))
      BY <2>2 DEF LInv, MemoryCounted
    <3>2. PICK a \in Nat, b \in Nat, c \in Nat, e \in Nat, i \in {0, 1} :
            /\ a = Num(stack, Freeing(u)) /\ b = Num(sk, Freeing(u))
            /\ c = Kids(parent, X, u) /\ e = Kids(parent, Y, u) /\ i = One(u = up)
      BY <1>3, <1>9, <2>4, OneIsInt DEF FreeingMoved
    <3>3. e + i = c
      <4>1. One(t \in X /\ parent[t] = u) = i /\ One(t \in Y /\ parent[t] = u) = 0
        BY <1>7, <2>3, <3>2 DEF One
      <4> QED
        BY <2>4, <3>2, <4>1
    <3>4. b + One(u = t) = a + i
      BY <1>3, <1>9, <3>2 DEF FreeingMoved
    <3>5. CASE u = t
      <4>1. i = 0 /\ c = 0 /\ a = 1
        BY <1>4, <1>7, <2>2, <3>2, <3>5 DEF One
      <4>2. e = 0 /\ b = 0
        BY <3>2, <3>3, <3>4, <3>5, <4>1 DEF One
      <4>3. allocated'[u] = 0 /\ status'[u] = "freed"
        BY <1>2, <1>3, <1>4, <3>5
      <4> QED
        BY <3>2, <4>2, <4>3 DEF AllocFits, Own
    <3>6. CASE u # t
      <4>1. b = a + i
        BY <3>2, <3>4, <3>6 DEF One
      <4>2. allocated'[u] = allocated[u] /\ status'[u] = status[u] /\ UsesOf(sk, deque, u) = UsesOf(stack, deque, u)
        BY <1>2, <1>3, <1>10, <3>6
      <4>3. PICK n \in Nat, d \in Nat : n = UsesOf(stack, deque, u) /\ d = Own(status[u], n)
        <5>1. UsesOf(stack, deque, u) \in Nat
          BY <1>3, NumsAreNat
        <5>2. Own(status[u], UsesOf(stack, deque, u)) \in Nat
          BY <5>1 DEF Own
        <5> QED
          BY <5>1, <5>2
      <4>4. allocated[u] = d + c + a /\ (status[u] = "freed" => allocated[u] = 0)
        BY <3>1, <3>2, <4>3 DEF AllocFits
      <4>5. allocated[u] = d + e + b
        BY <3>2, <3>3, <4>1, <4>3, <4>4
      <4> QED
        BY <3>2, <4>2, <4>3, <4>4, <4>5 DEF AllocFits
    <3> QED
      BY <3>5, <3>6
  <2> QED
    BY <1>2, <1>8, <2>1, <2>2, <2>5 DEF MemoryCounted
<1>18. ChildrenCounted'
  <2>1. Flag(kind[t], status[t]) = 0 /\ Flag(kind[t], "freed") = 0
    BY <1>4 DEF Flag
  <2>2. Recounted(t, "freed")
    BY <1>2, <1>3, <1>4, <1>13, <2>1 DEF Recounted
  <2>3. UNCHANGED born /\ incomplete' \in [Tasks -> Int]
    BY <1>2 DEF LInv, LTyped
  <2> QED
    BY <1>2, <1>3, <1>13, <2>2, <2>3, ChildrenChange
<1>19. MembersCounted'
  <2>1. \A u \in Explicit : Counts(kind'[u], status'[u]) <=> Counts(kind[u], status[u])
    BY <1>2, <1>3, <1>4 DEF Counts, UnrunSt
  <2> QED
    BY <1>2, <2>1, CountedKept, MembersKept DEF LInv
<1> QED
  BY <1>16, <1>17, <1>18, <1>19 DEF LInv

(* A task t of kind k is made by cur, in the group g.                       *)
IsMade(t, k, cur, g) ==
  /\ t \in Explicit /\ k \in TaskKinds /\ cur \in Tasks /\ cur # t /\ cur < t /\ status[cur] = "running"
  /\ g = GroupOf(cur) /\ (g # Null => g \in Tasks /\ g < t)
  /\ kind[t] = "none" /\ status[t] = "none" /\ parent[t] = Null /\ inherited[t] = Null
  /\ kind'[t] = k /\ status'[t] = "new" /\ parent'[t] = cur /\ inherited'[t] = g
  /\ \A u \in Tasks : u # t => /\ kind'[u] = kind[u] /\ status'[u] = status[u]
                               /\ parent'[u] = parent[u] /\ inherited'[u] = inherited[u]
  /\ \A u \in Tasks : /\ incomplete'[u] = incomplete[u] + One(u = cur)
                      /\ allocated'[u] = allocated[u] + One(u = t \/ (u = cur /\ cur \in Explicit))
                      /\ count'[u] = count[u] + One(u = g)
  /\ UNCHANGED <<untied, group, deque>>

Nowhere(t) ==
  \A th \in Threads : /\ \A i \in 1..Len(stack[th]) : stack[th][i].task # t
                      /\ \A i \in 1..Len(deque[th]) : deque[th][i] # t

LEMMA AllocMakes ==
  ASSUME LInv, NEW th \in Threads, NEW k \in program.kinds, NEW p \in Explicit \cup {Null}, Alloc(th, k, p)
  PROVE  \E t, cur, g, e : /\ IsMade(t, k, cur, g) /\ Nowhere(t)
                           /\ e \in Frame /\ e.task = t /\ e.act = "submit"
                           /\ IsWithPush(stack', stack, th, e)
<1>1. PICK t, cur, g : t = NThreads + made + 1 /\ cur = Task(th) /\ g = GroupOf(cur)
  OBVIOUS
<1>2. /\ Top(th).act = "run" /\ made < program.tasks
      /\ kind' = [kind EXCEPT ![t] = k] /\ parent' = [parent EXCEPT ![t] = cur]
      /\ inherited' = [inherited EXCEPT ![t] = g] /\ status' = [status EXCEPT ![t] = "new"]
      /\ UNCHANGED <<untied, group, deque>>
      /\ stack' = [stack EXCEPT ![th] = <<[task |-> t, act |-> "submit"]>> \o @]
  BY <1>1, Zenon DEF Alloc, Does, Push, Mark
<1>3. /\ incomplete' = [incomplete EXCEPT ![cur] = @ + 1]
      /\ allocated' = [a \in Tasks |-> allocated[a] + (IF a = t \/ (a = cur /\ cur \in Explicit) THEN 1 ELSE 0)]
      /\ count' = [a \in Tasks |-> count[a] + (IF a = g THEN 1 ELSE 0)]
  BY <1>1, Zenon DEF Alloc, CountedBy
<1>4. /\ Born /\ Tasks \subseteq Nat /\ Explicit \subseteq Tasks /\ Null \notin Tasks /\ LastTask \in Nat
      /\ stack \in Stacks /\ deque \in Deques /\ Tasks = Threads \cup Explicit
      /\ status \in [Tasks -> Statuses] /\ incomplete \in [Tasks -> Int]
      /\ inherited \in [Tasks -> Tasks \cup {Null}]
  BY LifeFacts, Numbers DEF LInv, LTyped
<1>5. t \in Explicit /\ t \in Tasks /\ t = LastTask + 1 /\ t > NThreads + made
  <2>1. /\ NThreads \in Nat /\ made \in Nat /\ MaxTasks \in Nat /\ program.tasks \in Nat
        /\ made < program.tasks /\ program.tasks <= MaxTasks
    BY <1>2, <1>4, Numbers, BoundsAssumption
  <2> QED
    BY <1>1, <1>4, <2>1 DEF Explicit, LastTask
<1>6. k \in TaskKinds
  BY <1>4, ProgramsAssumption DEF Born
<1>7. cur \in Tasks /\ cur <= LastTask /\ status[cur] = "running"
  BY <1>1, <1>2, TopFacts DEF FrameFits, Suspended
<1>8. cur < t /\ cur # t
  <2>1. PICK m \in Nat, n \in Nat : m = cur /\ n = LastTask
    BY <1>4, <1>7
  <2> QED
    BY <1>5, <1>7, <2>1
<1>9. g # Null => g \in Tasks /\ g < t
  <2>1. CASE g = cur
    BY <1>7, <1>8, <2>1
  <2>2. CASE g = inherited[cur]
    <3>1. g # Null => g \in Tasks /\ g < cur
      BY <1>4, <1>7, <2>2 DEF LInv, GroupTree
    <3>2. g \in Tasks /\ g < cur => g < t
      <4>1. SUFFICES ASSUME g \in Tasks, g < cur PROVE g < t
        OBVIOUS
      <4>2. PICK i \in Nat, m \in Nat, n \in Nat : i = g /\ m = cur /\ n = t
        BY <1>4, <1>5, <1>7, <4>1
      <4> QED
        BY <1>8, <4>1, <4>2
    <3> QED
      BY <3>1, <3>2
  <2> QED
    BY <1>1, <2>1, <2>2 DEF GroupOf
<1>10. kind[t] = "none" /\ parent[t] = Null
  BY <1>4, <1>5 DEF Born
<1>11. status[t] = "none" /\ inherited[t] = Null
  BY <1>5, <1>10 DEF LInv, Consistent, StatusFits, GroupTree
<1>12. IsMade(t, k, cur, g)
  <2>1. \A u \in Tasks : u # t => /\ kind'[u] = kind[u] /\ status'[u] = status[u]
                                  /\ parent'[u] = parent[u] /\ inherited'[u] = inherited[u]
    BY <1>2, <1>4 DEF Born
  <2>2. kind'[t] = k /\ status'[t] = "new" /\ parent'[t] = cur /\ inherited'[t] = g
    BY <1>2, <1>4, <1>5 DEF Born
  <2>3. \A u \in Tasks : /\ incomplete'[u] = incomplete[u] + One(u = cur)
                         /\ allocated'[u] = allocated[u] + One(u = t \/ (u = cur /\ cur \in Explicit))
                         /\ count'[u] = count[u] + One(u = g)
    BY <1>3, <1>4 DEF One
  <2> QED
    BY <1>1, <1>2, <1>5, <1>6, <1>7, <1>8, <1>9, <1>10, <1>11, <2>1, <2>2, <2>3 DEF IsMade
<1>13. Nowhere(t)
  <2> SUFFICES ASSUME NEW x \in Threads
               PROVE  /\ \A i \in 1..Len(stack[x]) : stack[x][i].task # t
                      /\ \A i \in 1..Len(deque[x]) : deque[x][i] # t
    BY DEF Nowhere
  <2>1. /\ \A i \in 1..Len(stack[x]) : stack[x][i].task <= LastTask
        /\ \A i \in 1..Len(deque[x]) : deque[x][i] <= LastTask
    BY StackFacts DEF LInv, GoodStack, IsStack, IsDeque
  <2>2. ~(t <= LastTask)
    BY <1>4, <1>5
  <2> QED
    BY <2>1, <2>2
<1>14. PICK e : e = [task |-> t, act |-> "submit"]
  OBVIOUS
<1>15. e \in Frame /\ e.task = t /\ e.act = "submit"
  BY <1>5, <1>14 DEF Frame, Acts
<1>16. IsWithPush(stack', stack, th, e)
  BY <1>2, <1>14 DEF IsWithPush
<1> QED
  BY <1>12, <1>13, <1>15, <1>16

(* The new task is nowhere but in the frame of its creator.                 *)
LEMMA MadeFits ==
  ASSUME LInv, NEW th \in Threads, NEW t, NEW k, NEW cur, NEW g, IsMade(t, k, cur, g), Nowhere(t),
         NEW e \in Frame, e.task = t, e.act = "submit", IsWithPush(stack', stack, th, e)
  PROVE  /\ Consistent'
         /\ \A u : /\ UsesOf(stack', deque', u) = UsesOf(stack, deque, u) + One(u = t)
                   /\ UsesOf(stack, deque, u) \in Nat /\ Num(stack, Freeing(u)) \in Nat
                   /\ Num(stack', Freeing(u)) = Num(stack, Freeing(u))
                   /\ Num(stack, Inside(u)) \in Nat /\ Num(stack', Inside(u)) = Num(stack, Inside(u))
<1>1. /\ stack \in Stacks /\ StacksFit(kind, status, stack) /\ deque \in Deques /\ DequesFit(kind, status, deque)
      /\ Explicit \subseteq Tasks /\ t \in Explicit /\ deque' = deque
  BY LifeFacts DEF IsMade
<1>2. PICK sk : sk = stack'
  OBVIOUS
<1>3. IsWithPush(sk, stack, th, e)
  BY <1>2
<1>4. /\ sk \in Stacks
      /\ \A u : /\ Num(stack, Busy(u)) \in Nat /\ Num(stack, Freeing(u)) \in Nat /\ Num(stack, Inside(u)) \in Nat
                /\ Num(sk, Busy(u)) = Num(stack, Busy(u)) + (IF u = e.task /\ e.act \in BusyActs THEN 1 ELSE 0)
                /\ Num(sk, Freeing(u)) = Num(stack, Freeing(u)) + (IF u = e.task /\ e.act = "free" THEN 1 ELSE 0)
                /\ Num(sk, Inside(u)) = Num(stack, Inside(u)) + (IF u = e.task /\ e.act \in Suspended THEN 1 ELSE 0)
  BY <1>1, <1>3, PushAll
<1>5. e.act \in BusyActs /\ e.act # "free" /\ e.act \notin Suspended
  BY DEF BusyActs, Suspended, Acts
<1>6. ASSUME NEW u
      PROVE  /\ UsesOf(sk, deque, u) = UsesOf(stack, deque, u) + One(u = t)
             /\ UsesOf(stack, deque, u) \in Nat /\ Num(stack, Freeing(u)) \in Nat
             /\ Num(sk, Freeing(u)) = Num(stack, Freeing(u))
             /\ Num(stack, Inside(u)) \in Nat /\ Num(sk, Inside(u)) = Num(stack, Inside(u))
  <2>1. PICK m \in Nat, n \in Nat : m = Num(stack, Busy(u)) /\ n = Slots(deque, u)
    BY <1>1, NumsAreNat
  <2>2. Num(sk, Busy(u)) = m + One(u = t) /\ One(u = t) \in {0, 1}
    BY <1>4, <1>5, <2>1 DEF One
  <2>3. UsesOf(sk, deque, u) = UsesOf(stack, deque, u) + One(u = t) /\ UsesOf(stack, deque, u) \in Nat
    BY <2>1, <2>2 DEF UsesOf
  <2> QED
    BY <1>4, <1>5, <2>3
<1>7. PICK ki, st : ki = kind' /\ st = status'
  OBVIOUS
<1>8. /\ \A u \in Tasks : u # t => ki[u] = kind[u] /\ st[u] = status[u]
      /\ ki[t] = k /\ st[t] = "new" /\ k \in TaskKinds
  BY <1>7 DEF IsMade
<1>9. StacksFit(ki, st, stack)
  <2> SUFFICES ASSUME NEW x \in Threads, NEW i \in 1..Len(stack[x])
               PROVE  FrameFits(ki[stack[x][i].task], st[stack[x][i].task], stack[x][i].act)
    BY DEF StacksFit
  <2>1. PICK f \in Frame : f = stack[x][i]
    BY <1>1 DEF Stacks
  <2>2. FrameFits(kind[f.task], status[f.task], f.act) /\ f.task \in Tasks /\ f.task # t
    BY <1>1, <2>1 DEF StacksFit, Frame, Nowhere
  <2> QED
    BY <1>8, <2>1, <2>2
<1>10. StacksFit(ki, st, sk)
  <2>1. FrameFits(ki[e.task], st[e.task], e.act)
    BY <1>8 DEF FrameFits, Suspended
  <2> QED
    BY <1>1, <1>3, <1>9, <2>1, FitPush
<1>11. DequesFit(ki, st, deque)
  <2> SUFFICES ASSUME NEW x \in Threads, NEW i \in 1..Len(deque[x])
               PROVE  SlotFits(ki[deque[x][i]], st[deque[x][i]])
    BY DEF DequesFit
  <2>1. PICK u \in Explicit : u = deque[x][i]
    BY <1>1 DEF Deques
  <2>2. SlotFits(kind[u], status[u]) /\ u # t
    BY <1>1, <2>1 DEF DequesFit, Nowhere
  <2> QED
    BY <1>1, <1>8, <2>1, <2>2
<1>12. \A u \in Tasks : StatusFits(ki[u], st[u])
  <2> SUFFICES ASSUME NEW u \in Tasks PROVE StatusFits(ki[u], st[u])
    OBVIOUS
  <2>1. CASE u = t
    BY <1>8, <2>1 DEF StatusFits, TaskKinds
  <2>2. CASE u # t
    BY <1>8, <2>2 DEF LInv, Consistent
  <2> QED
    BY <2>1, <2>2
<1>13. Consistent'
  BY <1>1, <1>2, <1>7, <1>10, <1>11, <1>12 DEF Consistent
<1> QED
  BY <1>1, <1>2, <1>6, <1>13

(* The tasks in Y, by q, are those in X, by p, and a child of c.            *)
GrownBy(p, X, q, Y, c) ==
  \A u \in Tasks : /\ Kids(p, X, u) \in Nat /\ Kids(q, Y, u) \in Nat
                   /\ Kids(q, Y, u) = Kids(p, X, u) + One(u = c)

LEMMA OneMore ==
  ASSUME NEW t \in Explicit, NEW X \in SUBSET Explicit, NEW Y \in SUBSET Explicit,
         NEW p, NEW q, NEW c, p[t] = Null, q[t] = c, t \in Y,
         \A u \in Explicit : u # t => (u \in X <=> u \in Y) /\ p[u] = q[u],
         Null \notin Tasks
  PROVE  GrownBy(p, X, q, Y, c)
<1>1. \A u : /\ Kids(p, X, u) \in Nat /\ Kids(q, Y, u) \in Nat
             /\ Kids(q, Y, u) + One(t \in X /\ p[t] = u) = Kids(p, X, u) + One(t \in Y /\ q[t] = u)
  BY KidsChange
<1> SUFFICES ASSUME NEW u \in Tasks
             PROVE  /\ Kids(p, X, u) \in Nat /\ Kids(q, Y, u) \in Nat
                    /\ Kids(q, Y, u) = Kids(p, X, u) + One(u = c)
  BY DEF GrownBy
<1>2. One(t \in X /\ p[t] = u) = 0 /\ One(t \in Y /\ q[t] = u) = One(u = c)
  BY DEF One
<1>3. PICK a \in Nat, b \in Nat, i \in {0, 1} : a = Kids(p, X, u) /\ b = Kids(q, Y, u) /\ i = One(u = c)
  BY <1>1, OneIsInt
<1>4. b + 0 = a + i
  BY <1>1, <1>2, <1>3
<1> QED
  BY <1>3, <1>4

LEMMA MadeLife ==
  ASSUME LInv, CInv', LTyped', NEW th \in Threads, NEW t, NEW k, NEW cur, NEW g,
         IsMade(t, k, cur, g), Nowhere(t),
         NEW e \in Frame, e.task = t, e.act = "submit", IsWithPush(stack', stack, th, e)
  PROVE  LInv'
<1>1. /\ Consistent'
      /\ \A u : /\ UsesOf(stack', deque', u) = UsesOf(stack, deque, u) + One(u = t)
                /\ UsesOf(stack, deque, u) \in Nat /\ Num(stack, Freeing(u)) \in Nat
                /\ Num(stack', Freeing(u)) = Num(stack, Freeing(u))
                /\ Num(stack, Inside(u)) \in Nat /\ Num(stack', Inside(u)) = Num(stack, Inside(u))
  BY MadeFits
<1>2. /\ Explicit \subseteq Tasks /\ Threads \subseteq Tasks /\ Threads \cap Explicit = {} /\ Null \notin Tasks
      /\ t \in Explicit /\ t \in Tasks /\ Tasks = Threads \cup Explicit /\ Born
  BY LifeFacts DEF IsMade
<1>3. UsesCounted'
  <2>1. ASSUME NEW u \in Explicit
        PROVE  UsesFit(kind'[u], status'[u], UsesOf(stack', deque', u), untied'[u])
    <3>1. UsesFit(kind[u], status[u], UsesOf(stack, deque, u), untied[u]) /\ untied' = untied
      BY DEF LInv, UsesCounted, IsMade
    <3>2. CASE u = t
      <4>1. UsesOf(stack, deque, u) = 0 /\ untied[u] = 0
        BY <3>1, <3>2 DEF IsMade, UsesFit
      <4>2. UsesOf(stack', deque', u) = 1
        BY <1>1, <3>2, <4>1 DEF One
      <4> QED
        BY <3>1, <3>2, <4>1, <4>2 DEF IsMade, UsesFit
    <3>3. CASE u # t
      <4>1. UsesOf(stack', deque', u) = UsesOf(stack, deque, u)
        BY <1>1, <3>3 DEF One
      <4>2. kind'[u] = kind[u] /\ status'[u] = status[u]
        BY <1>2, <3>3 DEF IsMade
      <4> QED
        BY <3>1, <4>1, <4>2
    <3> QED
      BY <3>2, <3>3
  <2> QED
    BY <2>1 DEF UsesCounted
<1>4. MemoryCounted'
  <2>1. ASSUME NEW u \in Threads PROVE allocated'[u] = 0 /\ untied'[u] = 0
    <3>1. allocated[u] = 0 /\ untied[u] = 0 /\ untied' = untied
      BY DEF LInv, MemoryCounted, IsMade
    <3>2. One(u = t \/ (u = cur /\ cur \in Explicit)) = 0
      BY <1>2 DEF One
    <3>3. allocated'[u] = allocated[u] + One(u = t \/ (u = cur /\ cur \in Explicit))
      BY <1>2 DEF IsMade
    <3> QED
      BY <3>1, <3>2, <3>3
  <2>2. PICK X, Y, p, q : X = Unfreed /\ Y = Unfreed' /\ p = parent /\ q = parent'
    OBVIOUS
  <2>3. /\ X \in SUBSET Explicit /\ Y \in SUBSET Explicit /\ p[t] = Null /\ q[t] = cur /\ t \in Y
        /\ \A u \in Explicit : u # t => (u \in X <=> u \in Y) /\ p[u] = q[u]
    BY <1>2, <2>2 DEF Unfreed, IsMade
  <2>4. GrownBy(p, X, q, Y, cur)
    BY <1>2, <2>3, OneMore
  <2>5. ASSUME NEW u \in Explicit
        PROVE  AllocFits(status'[u], UsesOf(stack', deque', u), allocated'[u], Kids(q, Y, u), Num(stack', Freeing(u)))
    <3>1. AllocFits(status[u], UsesOf(stack, deque, u), allocated[u], Kids(p, X, u), Num(stack, Freeing(u)))
      BY <2>2 DEF LInv, MemoryCounted
    <3>2. PICK n \in Nat, a \in Nat, c \in Nat, i \in {0, 1} :
            /\ n = UsesOf(stack, deque, u) /\ a = Num(stack, Freeing(u)) /\ c = Kids(p, X, u) /\ i = One(u = cur)
      BY <1>1, <1>2, <2>4, OneIsInt DEF GrownBy
    <3>3. Kids(q, Y, u) = c + i /\ Num(stack', Freeing(u)) = a
      BY <1>1, <1>2, <2>4, <3>2 DEF GrownBy
    <3>4. allocated'[u] = allocated[u] + One(u = t \/ (u = cur /\ cur \in Explicit))
      BY <1>2 DEF IsMade
    <3>5. CASE u = t
      <4>1. status[u] = "none" /\ status'[u] = "new" /\ u # cur
        BY <3>5 DEF IsMade
      <4>2. allocated[u] = 0 + c + a
        BY <3>1, <3>2, <4>1 DEF AllocFits, Own
      <4>3. i = 0 /\ allocated'[u] = allocated[u] + 1
        BY <3>2, <3>4, <3>5, <4>1 DEF One
      <4>4. Own("new", UsesOf(stack', deque', u)) = 1
        BY DEF Own
      <4>5. allocated'[u] = 1 + (c + i) + a
        BY <3>2, <4>2, <4>3
      <4> QED
        BY <3>3, <4>1, <4>4, <4>5 DEF AllocFits
    <3>6. CASE u # t
      <4>1. status'[u] = status[u] /\ UsesOf(stack', deque', u) = n
        BY <1>1, <1>2, <3>2, <3>6 DEF IsMade, One
      <4>2. One(u = t \/ (u = cur /\ cur \in Explicit)) = i
        BY <3>2, <3>6 DEF One
      <4>3. PICK d \in Nat : d = Own(status[u], n)
        BY <3>2 DEF Own
      <4>4. allocated[u] = d + c + a /\ (status[u] = "freed" => allocated[u] = 0)
        BY <3>1, <3>2, <4>3 DEF AllocFits
      <4>5. allocated'[u] = d + (c + i) + a
        BY <3>2, <3>4, <4>2, <4>3, <4>4
      <4>6. status[u] = "freed" => i = 0
        <5>1. SUFFICES ASSUME status[u] = "freed" PROVE u # cur
          BY <3>2 DEF One
        <5> QED
          BY <5>1 DEF IsMade
      <4>7. status[u] = "freed" => allocated'[u] = 0
        BY <3>2, <3>4, <4>2, <4>4, <4>6
      <4> QED
        BY <3>3, <4>1, <4>3, <4>5, <4>7 DEF AllocFits
    <3> QED
      BY <3>5, <3>6
  <2> QED
    BY <2>1, <2>2, <2>5 DEF MemoryCounted
<1>5. ChildrenCounted'
  <2>1. PICK X, Y, p, q : X = Awaited /\ Y = Awaited' /\ p = parent /\ q = parent'
    OBVIOUS
  <2>2. /\ X \in SUBSET Explicit /\ Y \in SUBSET Explicit /\ p[t] = Null /\ q[t] = cur /\ t \in Y
        /\ \A u \in Explicit : u # t => (u \in X <=> u \in Y) /\ p[u] = q[u]
    BY <1>2, <2>1 DEF Awaited, IsMade, AwaitedSt, UnrunSt
  <2>3. GrownBy(p, X, q, Y, cur)
    BY <1>2, <2>2, OneMore
  <2>4. ASSUME NEW u \in Tasks PROVE incomplete'[u] = Kids(q, Y, u) + Flag(kind'[u], status'[u])
    <3>1. incomplete[u] = Kids(p, X, u) + Flag(kind[u], status[u])
      BY <2>1 DEF LInv, ChildrenCounted
    <3>2. PICK c \in Nat, i \in {0, 1}, f \in {0, 1} :
            c = Kids(p, X, u) /\ i = One(u = cur) /\ f = Flag(kind[u], status[u])
      BY <2>3, OneIsInt DEF Flag, GrownBy
    <3>3. Flag(kind'[u], status'[u]) = f
      <4>1. CASE u = t
        BY <3>2, <4>1 DEF IsMade, Flag
      <4>2. CASE u # t
        BY <3>2, <4>2 DEF IsMade
      <4> QED
        BY <4>1, <4>2
    <3>4. incomplete'[u] = (c + f) + i
      BY <3>1, <3>2 DEF IsMade
    <3>5. Kids(q, Y, u) = c + i
      BY <2>3, <3>2 DEF GrownBy
    <3> QED
      BY <3>2, <3>3, <3>4, <3>5
  <2> QED
    BY <2>1, <2>4 DEF ChildrenCounted
<1>6. MembersCounted'
  <2>1. PICK X, Y, p, q : X = Counted /\ Y = Counted' /\ p = inherited /\ q = inherited'
    OBVIOUS
  <2>2. /\ X \in SUBSET Explicit /\ Y \in SUBSET Explicit /\ p[t] = Null /\ q[t] = g /\ t \in Y
        /\ \A u \in Explicit : u # t => (u \in X <=> u \in Y) /\ p[u] = q[u]
    BY <1>2, <2>1 DEF Counted, IsMade, UnrunSt
  <2>3. GrownBy(p, X, q, Y, g)
    BY <1>2, <2>2, OneMore
  <2>4. \A u \in Tasks : count'[u] = Kids(q, Y, u)
    BY <2>1, <2>3 DEF LInv, MembersCounted, IsMade, GrownBy
  <2> QED
    BY <2>1, <2>4 DEF MembersCounted
<1>7. GroupTree'
  <2>1. ASSUME NEW u \in Tasks
        PROVE  /\ inherited'[u] # Null => inherited'[u] < u
               /\ kind'[u] \in {"implicit", "none"} => inherited'[u] = Null
    <3>1. CASE u = t
      BY <3>1 DEF IsMade, TaskKinds
    <3>2. CASE u # t
      BY <3>2 DEF IsMade, LInv, GroupTree
    <3> QED
      BY <3>1, <3>2
  <2> QED
    BY <2>1 DEF GroupTree
<1>8. GroupsOpen'
  <2>1. group' = group
    BY DEF IsMade
  <2>2. ASSUME NEW d \in Explicit, status'[d] \in UnrunSt, inherited'[d] # Null
        PROVE  group[inherited'[d]] = "open"
    <3>1. CASE d # t
      <4>1. status[d] \in UnrunSt /\ inherited'[d] = inherited[d]
        BY <1>2, <2>2, <3>1 DEF IsMade
      <4> QED
        BY <2>2, <4>1 DEF LInv, GroupsOpen, Unrun
    <3>2. CASE d = t
      <4>1. inherited'[d] = g /\ g = GroupOf(cur) /\ g # Null /\ cur \in Tasks /\ status[cur] = "running"
        BY <2>2, <3>2 DEF IsMade
      <4>2. CASE group[cur] = "open"
        BY <4>1, <4>2 DEF GroupOf
      <4>3. CASE group[cur] # "open"
        <5>1. g = inherited[cur]
          BY <4>1, <4>3 DEF GroupOf
        <5>2. cur \in Explicit
          <6>1. kind[cur] # "implicit"
            BY <4>1, <5>1 DEF LInv, GroupTree
          <6> QED
            BY <1>2, <4>1, <6>1 DEF Born
        <5>3. cur \in Unrun
          BY <4>1, <5>2 DEF Unrun, UnrunSt
        <5> QED
          BY <4>1, <5>1, <5>3 DEF LInv, GroupsOpen
      <4> QED
        BY <4>2, <4>3
    <3> QED
      BY <3>1, <3>2
  <2> QED
    BY <2>1, <2>2 DEF GroupsOpen, Unrun
<1>9. GroupsHeld'
  <2>1. group' = group
    BY DEF IsMade
  <2> QED
    BY <1>1, <2>1 DEF LInv, GroupsHeld
<1> QED
  BY <1>1, <1>3, <1>4, <1>5, <1>6, <1>7, <1>8, <1>9 DEF LInv

LEMMA AllocLife ==
  ASSUME LInv, CInv', LTyped', NEW th \in Threads, NEW k \in program.kinds, NEW p \in Explicit \cup {Null},
         Alloc(th, k, p)
  PROVE  LInv'
<1>1. PICK t, cur, g, e : /\ IsMade(t, k, cur, g) /\ Nowhere(t)
                          /\ e \in Frame /\ e.task = t /\ e.act = "submit"
                          /\ IsWithPush(stack', stack, th, e)
  BY AllocMakes
<1> QED
  BY <1>1, MadeLife

(* Types of what steps change.                                              *)
LEMMA Bumped ==
  ASSUME NEW S, NEW f \in [Tasks -> S], NEW x, NEW v, x \in Tasks => v \in S
  PROVE  [f EXCEPT ![x] = v] \in [Tasks -> S]
  OBVIOUS

LEMMA SubmittedTyped ==
  ASSUME LTyped, NEW t
  PROVE  Submitted(t) \in [Tasks -> Int]
<1>1. PICK v : v = IF kind[t] = "untied" THEN untied[t] + 1 ELSE untied[t]
  OBVIOUS
<1>2. Submitted(t) = [untied EXCEPT ![t] = v]
  BY <1>1 DEF Submitted
<1>3. untied \in [Tasks -> Int] /\ (t \in Tasks => v \in Int)
  BY <1>1 DEF LTyped
<1>4. [untied EXCEPT ![t] = v] \in [Tasks -> Int]
  BY <1>3, Bumped
<1> QED
  BY <1>2, <1>4

LEMMA MarkedTyped ==
  ASSUME LTyped, NEW t, NEW s \in Statuses, Mark(t, s)
  PROVE  status' \in [Tasks -> Statuses]
  BY DEF LTyped, Mark

LEMMA InvokeTyped ==
  ASSUME LTyped, NEW th, NEW t, NEW frames, Invoke(th, t, frames)
  PROVE  status' \in [Tasks -> Statuses] /\ fault' \in {"none", "lost", "freed"}
<1>1. PICK s \in Statuses : s = IF kind[t] = "proxy" /\ ~Discarded(t) THEN "async" ELSE "running"
  BY DEF Statuses
<1>2. status' = [status EXCEPT ![t] = s]
  BY <1>1 DEF Invoke
<1>3. fault' = "lost" \/ fault' = fault
  BY DEF Invoke
<1> QED
  BY <1>2, <1>3 DEF LTyped

LEMMA InvokeTakenTyped ==
  ASSUME LTyped, NEW th, NEW t, InvokeTaken(th, t)
  PROVE  status' \in [Tasks -> Statuses] /\ fault' \in {"none", "lost", "freed"}
<1>1. CASE UNCHANGED <<status, fault>>
  BY <1>1 DEF LTyped
<1>2. CASE Invoke(th, t, stack[th])
  BY <1>2, InvokeTyped
<1> QED
  BY <1>1, <1>2 DEF InvokeTaken

LEMMA DeferTyped ==
  ASSUME LTyped, NEW th, NEW t, NEW frames, Defer(th, t, frames)
  PROVE  /\ status' \in [Tasks -> Statuses] /\ fault' \in {"none", "lost", "freed"}
         /\ untied' \in [Tasks -> Int] /\ serial' \in [Tasks -> BOOLEAN]
<1>1. PICK s \in Statuses : s = IF status[t] = "running" THEN "running" ELSE "queued"
  BY DEF Statuses
<1>2. Mark(t, s) /\ untied' = Submitted(t) /\ UNCHANGED <<serial, fault>>
  BY <1>1 DEF Defer
<1>3. status' \in [Tasks -> Statuses] /\ untied' \in [Tasks -> Int]
  BY <1>2, MarkedTyped, SubmittedTyped
<1> QED
  BY <1>2, <1>3 DEF LTyped

LEMMA RunNowTyped ==
  ASSUME LTyped, NEW th, NEW t, NEW frames, NEW b \in BOOLEAN, RunNow(th, t, frames, b)
  PROVE  /\ status' \in [Tasks -> Statuses] /\ fault' \in {"none", "lost", "freed"}
         /\ untied' \in [Tasks -> Int] /\ serial' \in [Tasks -> BOOLEAN]
<1>1. Invoke(th, t, frames) /\ untied' = Submitted(t) /\ serial' = [serial EXCEPT ![t] = @ \/ b]
  BY DEF RunNow
<1>2. status' \in [Tasks -> Statuses] /\ fault' \in {"none", "lost", "freed"} /\ untied' \in [Tasks -> Int]
  BY <1>1, InvokeTyped, SubmittedTyped
<1>3. serial' \in [Tasks -> BOOLEAN]
  <2>1. PICK c \in BOOLEAN : c = (serial[t] \/ b)
    BY Zenon
  <2>2. serial' = [serial EXCEPT ![t] = c]
    BY <1>1, <2>1
  <2> QED
    BY <2>2 DEF LTyped
<1> QED
  BY <1>2, <1>3

-----------------------------------------------------------------------------
LEMMA AllocTyped ==
  ASSUME LInv, NEW th \in Threads, NEW k \in program.kinds, NEW p \in Explicit \cup {Null}, Alloc(th, k, p)
  PROVE  LTyped'
<1>1. LTyped /\ Task(th) \in Tasks
  BY TopFacts DEF LInv
<1>2. PICK t, cur, g, s : /\ t = NThreads + made + 1 /\ cur = Task(th) /\ g = GroupOf(cur) /\ s = "new"
  OBVIOUS
<1>3. /\ inherited' = [inherited EXCEPT ![t] = g] /\ Mark(t, s)
      /\ incomplete' = [incomplete EXCEPT ![cur] = @ + 1]
      /\ allocated' = [a \in Tasks |-> allocated[a] + (IF a = t \/ (a = cur /\ cur \in Explicit) THEN 1 ELSE 0)]
      /\ count' = [a \in Tasks |-> count[a] + (IF a = CountedBy(cur) THEN 1 ELSE 0)]
      /\ UNCHANGED <<untied, part, serial, group, cancelled, fault>>
  BY <1>2, Zenon DEF Alloc
<1>4. g \in Tasks \cup {Null}
  BY <1>1, <1>2 DEF GroupOf, LTyped
<1>5. inherited' \in [Tasks -> Tasks \cup {Null}]
  BY <1>1, <1>3, <1>4 DEF LTyped
<1>6. s \in Statuses
  BY <1>2 DEF Statuses
<1>7. status' \in [Tasks -> Statuses]
  BY <1>1, <1>3, <1>6, MarkedTyped
<1>8. incomplete' \in [Tasks -> Int] /\ allocated' \in [Tasks -> Int] /\ count' \in [Tasks -> Int]
  <2>1. PICK v : v = incomplete[cur] + 1
    OBVIOUS
  <2>2. incomplete \in [Tasks -> Int] /\ v \in Int
    BY <1>1, <1>2, <2>1 DEF LTyped
  <2>3. incomplete' = [incomplete EXCEPT ![cur] = v]
    BY <1>3, <2>1
  <2>4. incomplete' \in [Tasks -> Int]
    BY <2>2, <2>3
  <2>5. allocated' \in [Tasks -> Int] /\ count' \in [Tasks -> Int]
    BY <1>1, <1>3 DEF LTyped
  <2> QED
    BY <2>4, <2>5
<1> QED
  BY <1>1, <1>3, <1>5, <1>7, <1>8 DEF LTyped

LEMMA SubmitTyped ==
  ASSUME LTyped, NEW th \in Threads, Submit(th)
  PROVE  LTyped'
<1>1. UNCHANGED <<incomplete, allocated, part, inherited, group, count, cancelled>>
  BY DEF Submit, born, groups
<1>2. PICK s \in Statuses, b \in BOOLEAN : s = "held" /\ b = TRUE
  BY DEF Statuses
<1>3. CASE Mark(Task(th), s) /\ UNCHANGED <<untied, serial, fault>>
  <2>1. status' \in [Tasks -> Statuses]
    BY <1>3, MarkedTyped
  <2> QED
    BY <1>1, <1>3, <2>1 DEF LTyped
<1>4. CASE Defer(th, Task(th), Tail(stack[th]))
  <2>1. /\ status' \in [Tasks -> Statuses] /\ fault' \in {"none", "lost", "freed"}
        /\ untied' \in [Tasks -> Int] /\ serial' \in [Tasks -> BOOLEAN]
    BY <1>4, DeferTyped
  <2> QED
    BY <1>1, <2>1 DEF LTyped
<1>5. CASE RunNow(th, Task(th), Tail(stack[th]), b)
  <2>1. /\ status' \in [Tasks -> Statuses] /\ fault' \in {"none", "lost", "freed"}
        /\ untied' \in [Tasks -> Int] /\ serial' \in [Tasks -> BOOLEAN]
    BY <1>5, RunNowTyped
  <2> QED
    BY <1>1, <2>1 DEF LTyped
<1> QED
  BY <1>2, <1>3, <1>4, <1>5 DEF Submit

LEMMA NextPartTyped ==
  ASSUME LTyped, NEW th \in Threads, NextPart(th)
  PROVE  LTyped'
<1>1. /\ UNCHANGED <<incomplete, allocated, inherited, group, count, cancelled>>
      /\ part' = [part EXCEPT ![Task(th)] = @ + 1]
  BY DEF NextPart, born, groups
<1>2. part' \in [Tasks -> Nat]
  <2>1. PICK v : v = part[Task(th)] + 1
    OBVIOUS
  <2>2. part \in [Tasks -> Nat] /\ (Task(th) \in Tasks => v \in Nat)
    BY <2>1 DEF LTyped
  <2>3. part' = [part EXCEPT ![Task(th)] = v]
    BY <1>1, <2>1
  <2>4. [part EXCEPT ![Task(th)] = v] \in [Tasks -> Nat]
    BY <2>2, Bumped
  <2> QED
    BY <2>3, <2>4
<1>3. PICK frames : frames = <<[task |-> Task(th), act |-> "finish"]>> \o Tail(stack[th])
  OBVIOUS
<1>4. PICK b \in BOOLEAN : b = TRUE
  OBVIOUS
<1>5. Defer(th, Task(th), frames) \/ RunNow(th, Task(th), frames, b)
  BY <1>3, <1>4 DEF NextPart
<1>6. /\ status' \in [Tasks -> Statuses] /\ fault' \in {"none", "lost", "freed"}
      /\ untied' \in [Tasks -> Int] /\ serial' \in [Tasks -> BOOLEAN]
  BY <1>5, DeferTyped, RunNowTyped
<1> QED
  BY <1>1, <1>2, <1>6 DEF LTyped

LEMMA ReleaseTyped ==
  ASSUME LTyped, NEW th \in Threads, Release(th)
  PROVE  LTyped'
<1>1. CASE UNCHANGED <<born, status, counts, groups, deque, fault>>
  BY <1>1 DEF LTyped, born, counts, groups
<1>2. CASE \E s \in Successors(Task(th)) :
          /\ \/ Defer(th, s, stack[th])
             \/ CannotDefer(th, s) /\ RunNow(th, s, stack[th], FALSE)
          /\ UNCHANGED <<born, incomplete, allocated, part, groups>>
  <2>1. PICK b \in BOOLEAN : b = FALSE
    OBVIOUS
  <2>2. PICK s : /\ Defer(th, s, stack[th]) \/ RunNow(th, s, stack[th], b)
                 /\ UNCHANGED <<born, incomplete, allocated, part, groups>>
    BY <1>2, <2>1
  <2>3. /\ status' \in [Tasks -> Statuses] /\ fault' \in {"none", "lost", "freed"}
        /\ untied' \in [Tasks -> Int] /\ serial' \in [Tasks -> BOOLEAN]
    BY <2>2, DeferTyped, RunNowTyped
  <2> QED
    BY <2>2, <2>3 DEF LTyped, born, groups
<1> QED
  BY <1>1, <1>2 DEF Release

LEMMA TakenTyped ==
  ASSUME LTyped, NEW th \in Threads, NEW v \in Threads, RemoveMyTask(th) \/ StealTask(th, v)
  PROVE  LTyped'
<1>1. UNCHANGED <<born, counts, groups>> /\ \E t : InvokeTaken(th, t)
  BY DEF RemoveMyTask, StealTask
<1>2. status' \in [Tasks -> Statuses] /\ fault' \in {"none", "lost", "freed"}
  BY <1>1, InvokeTakenTyped
<1> QED
  BY <1>1, <1>2 DEF LTyped, born, counts, groups

LEMMA WaitsTyped ==
  ASSUME LTyped, NEW th \in Threads,
         \/ TaskWait(th) \/ WaitEnds(th) \/ TaskGroup(th) \/ EndTaskGroup(th) \/ GroupEnds(th)
         \/ Cancel(th) \/ BodyEnds(th) \/ Return(th)
  PROVE  LTyped'
<1>1. /\ UNCHANGED <<status, incomplete, allocated, untied, part, serial, inherited, count>>
  BY DEF TaskWait, WaitEnds, TaskGroup, EndTaskGroup, GroupEnds, Cancel, BodyEnds, Return, born, counts, groups
<1>2. group' \in [Tasks -> {"none", "open", "ended"}]
  <2>1. \E s \in {"open", "ended"} : UNCHANGED group \/ group' = [group EXCEPT ![Task(th)] = s]
    BY DEF TaskWait, WaitEnds, TaskGroup, EndTaskGroup, GroupEnds, Cancel, BodyEnds, Return, groups
  <2> QED
    BY <2>1 DEF LTyped
<1>3. cancelled' \in [Tasks -> BOOLEAN]
  <2>1. \E g : UNCHANGED cancelled \/ cancelled' = [cancelled EXCEPT ![g] = TRUE]
    BY DEF TaskWait, WaitEnds, TaskGroup, EndTaskGroup, GroupEnds, Cancel, BodyEnds, Return, groups
  <2> QED
    BY <2>1 DEF LTyped
<1>4. fault' \in {"none", "lost", "freed"}
  <2>1. fault' = fault \/ fault' = "freed"
    BY DEF TaskWait, WaitEnds, TaskGroup, EndTaskGroup, GroupEnds, Cancel, BodyEnds, Return
  <2> QED
    BY <2>1 DEF LTyped
<1> QED
  BY <1>1, <1>2, <1>3, <1>4 DEF LTyped

LEMMA EndsTyped ==
  ASSUME LTyped, NEW th \in Threads, Finish(th) \/ Ungroup(th) \/ Free(th) \/ BottomHalf(th)
  PROVE  LTyped'
<1>1. UNCHANGED <<part, serial, inherited, group, cancelled, fault>>
  BY DEF Finish, Ungroup, Free, BottomHalf, born, counts, groups
<1>2. status' \in [Tasks -> Statuses]
  <2>1. \E s \in {"counted", "released", "freed"} : UNCHANGED status \/ Mark(Task(th), s)
    BY DEF Finish, Ungroup, Free, BottomHalf
  <2>2. {"counted", "released", "freed"} \subseteq Statuses
    BY DEF Statuses
  <2>3. CASE UNCHANGED status
    BY <2>3 DEF LTyped
  <2> QED
    BY <2>1, <2>2, <2>3, MarkedTyped
<1>3. incomplete' \in [Tasks -> Int]
  <2>1. UNCHANGED incomplete \/ incomplete' = [incomplete EXCEPT ![parent[Task(th)]] = @ - 1]
    BY DEF Finish, Ungroup, Free, BottomHalf, counts
  <2> QED
    BY <2>1 DEF LTyped
<1>4. allocated' \in [Tasks -> Int]
  <2>1. UNCHANGED allocated \/ allocated' = [allocated EXCEPT ![Task(th)] = @ - 1]
    BY DEF Finish, Ungroup, Free, BottomHalf, counts
  <2> QED
    BY <2>1 DEF LTyped
<1>5. untied' \in [Tasks -> Int]
  <2>1. \/ UNCHANGED untied
        \/ untied' = [untied EXCEPT ![Task(th)] = IF kind[Task(th)] = "untied" THEN @ - 1 ELSE @]
    BY DEF Finish, Ungroup, Free, BottomHalf, counts
  <2> QED
    BY <2>1 DEF LTyped
<1>6. count' \in [Tasks -> Int]
  <2>1. UNCHANGED count \/ LeaveGroup(Task(th))
    BY DEF Finish, Ungroup, Free, BottomHalf, groups
  <2> QED
    BY <2>1 DEF LTyped, LeaveGroup
<1> QED
  BY <1>1, <1>2, <1>3, <1>4, <1>5, <1>6 DEF LTyped

LEMMA OutsideTyped ==
  ASSUME LTyped, NEW p \in Explicit, Outside(p)
  PROVE  LTyped'
<1>1. UNCHANGED <<allocated, untied, part, serial, inherited, group, cancelled, fault>>
  BY DEF Outside, FirstTopHalf, SecondTopHalf, GiveTask, born, counts, groups
<1>2. status' \in [Tasks -> Statuses]
  <2>1. \E s \in {"complete", "given", "counted", "ungrouped"} : Mark(p, s)
    BY DEF Outside, FirstTopHalf, SecondTopHalf, GiveTask
  <2>2. {"complete", "given", "counted", "ungrouped"} \subseteq Statuses
    BY DEF Statuses
  <2> QED
    BY <2>1, <2>2, MarkedTyped
<1>3. incomplete' \in [Tasks -> Int]
  <2>1. \/ UNCHANGED incomplete
        \/ \E x : incomplete' = [incomplete EXCEPT ![x] = @ - 1] \/ incomplete' = [incomplete EXCEPT ![x] = @ + 1]
    BY DEF Outside, FirstTopHalf, SecondTopHalf, GiveTask, counts
  <2> QED
    BY <2>1 DEF LTyped
<1>4. count' \in [Tasks -> Int]
  <2>1. UNCHANGED count \/ LeaveGroup(p)
    BY DEF Outside, FirstTopHalf, SecondTopHalf, GiveTask, groups
  <2> QED
    BY <2>1 DEF LTyped, LeaveGroup
<1> QED
  BY <1>1, <1>2, <1>3, <1>4 DEF LTyped

LEMMA LInvInit == Init => LInv
<1> SUFFICES ASSUME Init PROVE LInv
  OBVIOUS
<1>1. CInv
  BY CInvInit
<1>2. /\ Born /\ stack \in Stacks /\ deque \in Deques /\ Threads \cap Explicit = {} /\ Null \notin Tasks
      /\ Threads \subseteq Tasks /\ Explicit \subseteq Tasks /\ Tasks = Threads \cup Explicit
  BY <1>1, Numbers DEF CInv, Stacks, Deques
<1>3. LTyped
  BY <1>2 DEF Init, LTyped, Statuses
<1>4. /\ \A t \in Threads : kind[t] = "implicit" /\ status[t] = "running"
      /\ \A t \in Explicit : kind[t] = "none" /\ status[t] = "none"
      /\ \A t \in Tasks : /\ parent[t] = Null /\ inherited[t] = Null /\ group[t] = "none"
                          /\ incomplete[t] = 0 /\ allocated[t] = 0 /\ untied[t] = 0 /\ count[t] = 0
  BY <1>2 DEF Init
<1>5. \A th \in Threads : \A i \in 1..Len(stack[th]) :
        stack[th][i].task = th /\ stack[th][i].act \in {"run", "barrier"}
  <2> SUFFICES ASSUME NEW th \in Threads, NEW i \in 1..Len(stack[th])
               PROVE  stack[th][i].task = th /\ stack[th][i].act \in {"run", "barrier"}
    OBVIOUS
  <2>1. PICK f : f = [task |-> th, act |-> IF th \in Masters THEN "run" ELSE "barrier"]
    OBVIOUS
  <2>2. stack[th] = <<f>>
    BY <2>1 DEF Init
  <2>3. i = 1 /\ stack[th][i] = f
    BY <2>2
  <2> QED
    BY <2>1, <2>3
<1>6. \A th \in Threads : deque[th] = <<>>
  BY DEF Init
<1>7. Consistent
  <2>1. \A t \in Tasks : StatusFits(kind[t], status[t])
    BY <1>2, <1>4 DEF StatusFits
  <2>2. StacksFit(kind, status, stack)
    BY <1>4, <1>5 DEF StacksFit, FrameFits, Suspended
  <2>3. DequesFit(kind, status, deque)
    BY <1>6 DEF DequesFit
  <2> QED
    BY <2>1, <2>2, <2>3 DEF Consistent
<1>8. ASSUME NEW t \in Explicit
      PROVE  UsesOf(stack, deque, t) = 0 /\ Num(stack, Freeing(t)) = 0
  <2>1. \A th \in Threads : \A i \in 1..Len(stack[th]) : stack[th][i] \notin Busy(t) /\ stack[th][i] \notin Freeing(t)
    BY <1>2, <1>5 DEF Busy, Freeing
  <2>2. Num(stack, Busy(t)) = 0 /\ Num(stack, Freeing(t)) = 0
    BY <1>2, <2>1, NoPlaces
  <2>3. Slots(deque, t) = 0
    <3>1. PICK C : C = {t}
      OBVIOUS
    <3>2. \A th \in Threads : \A i \in 1..Len(deque[th]) : deque[th][i] \notin C
      BY <1>6
    <3>3. Num(deque, C) = 0
      BY <1>2, <3>2, NoSlots
    <3> QED
      BY <3>1, <3>3 DEF Slots
  <2> QED
    BY <2>2, <2>3 DEF UsesOf
<1>9. UsesCounted
  BY <1>2, <1>4, <1>8 DEF UsesCounted, UsesFit
<1>10. ASSUME NEW X \in SUBSET Explicit, NEW u \in Tasks
       PROVE  Kids(parent, X, u) = 0 /\ Kids(inherited, X, u) = 0
  <2>1. \A c \in X : parent[c] # u /\ inherited[c] # u
    BY <1>2, <1>4
  <2> QED
    BY <2>1, NoKids
<1>11. Unfreed \in SUBSET Explicit /\ Awaited \in SUBSET Explicit /\ Counted \in SUBSET Explicit /\ Unrun = {}
  BY <1>4 DEF Unfreed, Awaited, Counted, Unrun, UnrunSt
<1>12. MemoryCounted
  <2>1. \A t \in Threads : allocated[t] = 0 /\ untied[t] = 0
    BY <1>2, <1>4
  <2>2. ASSUME NEW t \in Explicit
        PROVE  AllocFits(status[t], UsesOf(stack, deque, t), allocated[t], Kids(parent, Unfreed, t),
                         Num(stack, Freeing(t)))
    BY <1>2, <1>4, <1>8, <1>10, <1>11 DEF AllocFits, Own
  <2> QED
    BY <2>1, <2>2 DEF MemoryCounted
<1>13. ChildrenCounted
  <2>1. \A t \in Tasks : Flag(kind[t], status[t]) = 0
    BY <1>2, <1>4 DEF Flag
  <2> QED
    BY <1>4, <1>10, <1>11, <2>1 DEF ChildrenCounted
<1>14. MembersCounted
  BY <1>4, <1>10, <1>11 DEF MembersCounted
<1>15. GroupTree /\ GroupsOpen /\ GroupsHeld
  BY <1>4, <1>11 DEF GroupTree, GroupsOpen, GroupsHeld
<1> QED
  BY <1>1, <1>3, <1>7, <1>9, <1>12, <1>13, <1>14, <1>15 DEF LInv

LEMMA BodyLife ==
  ASSUME LInv, CInv', NEW th \in Threads, Body(th)
  PROVE  LInv'
<1>1. LTyped
  BY DEF LInv
<1>2. CASE \E k \in program.kinds, p \in Explicit \cup {Null} : Alloc(th, k, p)
  <2>1. PICK k \in program.kinds, p \in Explicit \cup {Null} : Alloc(th, k, p)
    BY <1>2
  <2>2. LTyped'
    BY <2>1, AllocTyped
  <2> QED
    BY <2>1, <2>2, AllocLife
<1>3. CASE NextPart(th)
  <2>1. LTyped'
    BY <1>1, <1>3, NextPartTyped
  <2> QED
    BY <1>3, <2>1, NextPartLife
<1>4. CASE TaskWait(th) \/ EndTaskGroup(th) \/ BodyEnds(th)
  <2>1. LTyped'
    BY <1>1, <1>4, WaitsTyped
  <2> QED
    BY <1>4, <2>1, WaitsLife
<1>5. CASE TaskGroup(th)
  <2>1. LTyped'
    BY <1>1, <1>5, WaitsTyped
  <2> QED
    BY <1>5, <2>1, TaskGroupLife
<1>6. CASE Cancel(th)
  <2>1. LTyped'
    BY <1>1, <1>6, WaitsTyped
  <2> QED
    BY <1>6, <2>1, CancelLife
<1> QED
  BY <1>2, <1>3, <1>4, <1>5, <1>6 DEF Body

LEMMA RuntimeLife ==
  ASSUME LInv, CInv', NEW th \in Threads, Runtime(th)
  PROVE  LInv'
<1>1. LTyped
  BY DEF LInv
<1>2. CASE Submit(th)
  <2>1. LTyped'
    BY <1>1, <1>2, SubmitTyped
  <2> QED
    BY <1>2, <2>1, SubmitLife
<1>3. CASE WaitEnds(th)
  <2>1. LTyped'
    BY <1>1, <1>3, WaitsTyped
  <2> QED
    BY <1>3, <2>1, WaitsLife
<1>4. CASE GroupEnds(th)
  <2>1. LTyped'
    BY <1>1, <1>4, WaitsTyped
  <2> QED
    BY <1>4, <2>1, GroupEndsLife
<1>5. CASE Finish(th)
  <2>1. LTyped'
    BY <1>1, <1>5, EndsTyped
  <2>2. CASE kind[Task(th)] = "untied" => untied[Task(th)] = 1
    BY <1>5, <2>1, <2>2, FinishLastLife
  <2>3. CASE ~(kind[Task(th)] = "untied" => untied[Task(th)] = 1)
    BY <1>5, <2>1, <2>3, FinishPartLife
  <2> QED
    BY <2>2, <2>3
<1>6. CASE Ungroup(th)
  <2>1. LTyped'
    BY <1>1, <1>6, EndsTyped
  <2> QED
    BY <1>6, <2>1, UngroupLife
<1>7. CASE Release(th)
  <2>1. LTyped'
    BY <1>1, <1>7, ReleaseTyped
  <2> QED
    BY <1>7, <2>1, ReleaseLife
<1>8. CASE Free(th)
  <2>1. LTyped'
    BY <1>1, <1>8, EndsTyped
  <2>2. CASE allocated[Task(th)] = 1
    BY <1>8, <2>1, <2>2, FreeLastLife
  <2>3. CASE allocated[Task(th)] # 1
    BY <1>8, <2>1, <2>3, FreePartLife
  <2> QED
    BY <2>2, <2>3
<1>9. CASE Return(th)
  <2>1. LTyped'
    BY <1>1, <1>9, WaitsTyped
  <2> QED
    BY <1>9, <2>1, ReturnLife
<1>10. CASE BottomHalf(th)
  <2>1. LTyped'
    BY <1>1, <1>10, EndsTyped
  <2> QED
    BY <1>10, <2>1, BottomLife
<1>11. CASE RemoveMyTask(th)
  <2>1. LTyped'
    BY <1>1, <1>11, TakenTyped
  <2> QED
    BY <1>11, <2>1, RemoveLife
<1>12. CASE \E victim \in Threads : StealTask(th, victim)
  <2>1. PICK victim \in Threads : StealTask(th, victim)
    BY <1>12
  <2>2. LTyped'
    BY <1>1, <2>1, TakenTyped
  <2> QED
    BY <2>1, <2>2, StealLife
<1> QED
  BY <1>2, <1>3, <1>4, <1>5, <1>6, <1>7, <1>8, <1>9, <1>10, <1>11, <1>12 DEF Runtime

LEMMA LInvNext == LInv /\ [Next]_vars => LInv'
<1> SUFFICES ASSUME LInv, [Next]_vars PROVE LInv'
  OBVIOUS
<1>1. CInv' /\ LTyped
  BY CInvNext DEF LInv
<1>2. CASE UNCHANGED vars
  BY <1>2, StutterLife
<1>3. ASSUME NEW th \in Threads, Body(th) PROVE LInv'
  BY <1>1, <1>3, BodyLife
<1>4. ASSUME NEW th \in Threads, Runtime(th) PROVE LInv'
  BY <1>1, <1>4, RuntimeLife
<1>5. ASSUME NEW p \in Explicit, Outside(p) PROVE LInv'
  <2>1. LTyped'
    BY <1>1, <1>5, OutsideTyped
  <2>2. CASE FirstTopHalf(p)
    BY <1>1, <2>1, <2>2, FirstHalfLife
  <2>3. CASE SecondTopHalf(p)
    BY <1>1, <2>1, <2>3, SecondHalfLife
  <2>4. CASE \E th \in Threads : GiveTask(p, th)
    BY <1>1, <2>1, <2>4, GiveLife
  <2> QED
    BY <1>5, <2>2, <2>3, <2>4 DEF Outside
<1> QED
  BY <1>2, <1>3, <1>4, <1>5 DEF Next

LEMMA LInvMeansTypeOK == LInv => TypeOK
<1> SUFFICES ASSUME LInv PROVE TypeOK
  OBVIOUS
<1>1. /\ Born /\ stack \in Stacks /\ deque \in Deques /\ LTyped
      /\ Tasks = Threads \cup Explicit /\ Explicit \subseteq Tasks
  BY LifeFacts DEF LInv
<1>2. \A u : UsesOf(stack, deque, u) \in Nat /\ Num(stack, Freeing(u)) \in Nat
  BY <1>1, NumsAreNat
<1>3. Unfreed \in SUBSET Explicit /\ Awaited \in SUBSET Explicit /\ Counted \in SUBSET Explicit
  BY DEF Unfreed, Awaited, Counted
<1>4. ASSUME NEW t \in Tasks
      PROVE  incomplete[t] \in Nat /\ allocated[t] \in Nat /\ untied[t] \in Nat /\ count[t] \in Nat
  <2>1. incomplete[t] \in Nat
    <3>1. incomplete[t] = Kids(parent, Awaited, t) + Flag(kind[t], status[t])
      BY DEF LInv, ChildrenCounted
    <3>2. Kids(parent, Awaited, t) \in Nat /\ Flag(kind[t], status[t]) \in Nat
      BY <1>3, NoKids DEF Flag
    <3> QED
      BY <3>1, <3>2
  <2>2. count[t] \in Nat
    <3>1. count[t] = Kids(inherited, Counted, t)
      BY DEF LInv, MembersCounted
    <3> QED
      BY <1>3, <3>1, NoKids
  <2>3. CASE t \in Threads
    BY <2>1, <2>2, <2>3 DEF LInv, MemoryCounted
  <2>4. CASE t \in Explicit
    <3>1. AllocFits(status[t], UsesOf(stack, deque, t), allocated[t], Kids(parent, Unfreed, t), Num(stack, Freeing(t)))
      BY <2>4 DEF LInv, MemoryCounted
    <3>2. PICK n \in Nat, d \in Nat, c \in Nat, a \in Nat :
            /\ n = UsesOf(stack, deque, t) /\ d = Own(status[t], n) /\ c = Kids(parent, Unfreed, t)
            /\ a = Num(stack, Freeing(t))
      <4>1. Own(status[t], UsesOf(stack, deque, t)) \in Nat
        BY <1>2 DEF Own
      <4>2. Kids(parent, Unfreed, t) \in Nat
        BY <1>3, NoKids
      <4> QED
        BY <1>2, <4>1, <4>2
    <3>3. allocated[t] = d + c + a
      BY <3>1, <3>2 DEF AllocFits
    <3>4. UsesFit(kind[t], status[t], n, untied[t])
      BY <2>4, <3>2 DEF LInv, UsesCounted
    <3>5. untied[t] \in Nat
      BY <3>2, <3>4 DEF UsesFit
    <3> QED
      BY <2>1, <2>2, <3>2, <3>3, <3>5
  <2> QED
    BY <1>1, <2>3, <2>4
<1>5. /\ incomplete \in [Tasks -> Nat] /\ allocated \in [Tasks -> Nat]
      /\ untied \in [Tasks -> Nat] /\ count \in [Tasks -> Nat]
  BY <1>1, <1>4 DEF LTyped
<1>6. /\ stack \in [Threads -> Seq([task : Tasks, act : Acts])] /\ deque \in [Threads -> Seq(Explicit)]
  BY <1>1 DEF Stacks, Deques, Frame
<1> QED
  BY <1>1, <1>5, <1>6 DEF TypeOK, LTyped, Born, Statuses

(* Nothing is left of a freed task that uses its memory.                    *)
LEMMA LInvMeansFreedLast == LInv => FreedLast
<1> SUFFICES ASSUME LInv, NEW t \in Explicit, status[t] = "freed"
             PROVE  /\ \A th \in Threads :
                         /\ ~Contains(deque[th], t)
                         /\ \A i \in DOMAIN stack[th] : stack[th][i].task = t => stack[th][i].act = "return"
                    /\ incomplete[t] = 0
                    /\ \A c \in Explicit : parent[c] = t => status[c] = "freed"
  BY DEF FreedLast, Freed
<1>1. /\ stack \in Stacks /\ deque \in Deques /\ Threads \cap Explicit = {} /\ t \in Tasks
  BY LifeFacts
<1>2. UsesOf(stack, deque, t) = 0
  BY DEF LInv, UsesCounted, UsesFit
<1>3. Num(stack, Busy(t)) = 0 /\ Slots(deque, t) = 0
  <2>1. PICK i \in Nat, j \in Nat : i = Num(stack, Busy(t)) /\ j = Slots(deque, t)
    BY <1>1, NumsAreNat
  <2>2. i + j = 0
    BY <1>2, <2>1 DEF UsesOf
  <2> QED
    BY <2>1, <2>2
<1>4. Num(stack, Freeing(t)) = 0 /\ Kids(parent, Unfreed, t) = 0
  <2>1. AllocFits(status[t], UsesOf(stack, deque, t), allocated[t], Kids(parent, Unfreed, t), Num(stack, Freeing(t)))
    BY DEF LInv, MemoryCounted
  <2>2. PICK c \in Nat, a \in Nat : c = Kids(parent, Unfreed, t) /\ a = Num(stack, Freeing(t))
    <3>1. Unfreed \in SUBSET Explicit
      BY DEF Unfreed
    <3> QED
      BY <1>1, <3>1, NoKids, NumsAreNat
  <2>3. 0 + c + a = 0
    BY <2>1, <2>2 DEF AllocFits, Own
  <2> QED
    BY <2>2, <2>3
<1>5. \A c \in Explicit : parent[c] = t => status[c] = "freed"
  <2>1. Unfreed \in SUBSET Explicit
    BY DEF Unfreed
  <2>2. \A c \in Unfreed : parent[c] # t
    BY <1>4, <2>1, NoKids
  <2> QED
    BY <2>2 DEF Unfreed
<1>6. incomplete[t] = 0
  <2>1. Awaited \in SUBSET Explicit /\ \A c \in Awaited : parent[c] # t
    BY <1>5 DEF Awaited, AwaitedSt, UnrunSt
  <2>2. Kids(parent, Awaited, t) = 0
    BY <2>1, NoKids
  <2>3. Flag(kind[t], status[t]) = 0
    BY DEF Flag
  <2> QED
    BY <1>1, <2>2, <2>3 DEF LInv, ChildrenCounted
<1>7. ASSUME NEW th \in Threads PROVE ~Contains(deque[th], t)
  <2>1. PICK C : C = {t}
    OBVIOUS
  <2>2. Num(deque, C) = 0
    BY <1>3, <2>1 DEF Slots
  <2>3. \A i \in 1..Len(deque[th]) : deque[th][i] \notin C
    BY <1>1, <2>2, NoSlots
  <2> QED
    BY <2>1, <2>3 DEF Contains
<1>8. ASSUME NEW th \in Threads, NEW i \in DOMAIN stack[th], stack[th][i].task = t
      PROVE  stack[th][i].act = "return"
  <2>1. i \in 1..Len(stack[th]) /\ stack[th][i] \in Frame /\ stack[th][i].act \in Acts
    <3>1. stack[th] \in Seq(Frame)
      BY <1>1 DEF Stacks
    <3>2. i \in 1..Len(stack[th])
      BY <1>8, <3>1
    <3>3. stack[th][i] \in Frame
      BY <3>1, <3>2
    <3> QED
      BY <3>2, <3>3 DEF Frame
  <2>2. stack[th][i] \notin Busy(t) /\ stack[th][i] \notin Freeing(t)
    BY <1>1, <1>3, <1>4, <2>1, NoPlaces
  <2>3. stack[th][i].act \in {"barrier", "free", "return"} /\ stack[th][i].act # "free"
    BY <1>8, <2>1, <2>2 DEF Busy, Freeing, BusyActs
  <2>4. stack[th][i].act # "barrier"
    <3>1. IsStack(parent, kind, LastTask, th, stack[th])
      BY StackFacts DEF LInv, GoodStack
    <3>2. CASE i < Len(stack[th])
      BY <2>1, <3>1, <3>2 DEF IsStack
    <3>3. CASE i = Len(stack[th])
      <4>1. t = th
        BY <1>8, <3>1, <3>3 DEF IsStack
      <4> QED
        BY <1>1, <4>1
    <3>4. i < Len(stack[th]) \/ i = Len(stack[th])
      <4>1. Len(stack[th]) \in Nat
        BY StackFacts DEF LInv
      <4> QED
        BY <2>1, <4>1
    <3> QED
      BY <3>2, <3>3, <3>4
  <2> QED
    BY <2>3, <2>4
<1> QED
  BY <1>5, <1>6, <1>7, <1>8

-----------------------------------------------------------------------------
(* A thread leaves a wait in no other way than by the end of the wait.      *)
LEMMA OnlyOne ==
  ASSUME LInv, NEW x \in Threads, Body(x) \/ Runtime(x)
  PROVE  \E s : stack' = [stack EXCEPT ![x] = s]
<1>1. stack = [stack EXCEPT ![x] = stack[x]]
  BY LifeFacts DEF Stacks
<1>2. ASSUME NEW a, Become(x, a) PROVE \E s : stack' = [stack EXCEPT ![x] = s]
  BY <1>2 DEF Become
<1>3. ASSUME NEW t, InvokeTaken(x, t) PROVE \E s : stack' = [stack EXCEPT ![x] = s]
  BY <1>3 DEF InvokeTaken, Invoke, Push
<1>4. ASSUME NEW t, NEW f, NEW b, Defer(x, t, f) \/ RunNow(x, t, f, b) PROVE \E s : stack' = [stack EXCEPT ![x] = s]
  BY <1>4 DEF Defer, RunNow, Invoke
<1>5. CASE Body(x)
  <2>1. CASE \E k \in program.kinds, p \in Explicit \cup {Null} : Alloc(x, k, p)
    BY <2>1 DEF Alloc, Push
  <2>2. CASE NextPart(x)
    BY <1>4, <2>2 DEF NextPart
  <2>3. CASE TaskWait(x) \/ EndTaskGroup(x) \/ BodyEnds(x)
    BY <1>2, <2>3 DEF TaskWait, EndTaskGroup, BodyEnds
  <2>4. CASE TaskGroup(x) \/ Cancel(x)
    BY <1>1, <2>4 DEF TaskGroup, Cancel
  <2> QED
    BY <1>5, <2>1, <2>2, <2>3, <2>4 DEF Body
<1>6. CASE Runtime(x)
  <2>1. CASE Submit(x)
    BY <1>4, <2>1 DEF Submit, Pop
  <2>2. CASE WaitEnds(x) \/ GroupEnds(x) \/ Ungroup(x) \/ BottomHalf(x)
    BY <1>2, <2>2 DEF WaitEnds, GroupEnds, Ungroup, BottomHalf
  <2>3. CASE Finish(x)
    BY <1>2, <2>3 DEF Finish, Pop
  <2>4. CASE Release(x)
    BY <1>2, <1>4, <2>4 DEF Release
  <2>5. CASE Free(x)
    BY <2>5 DEF Free, Pop
  <2>6. CASE Return(x)
    BY <2>6 DEF Return, Pop
  <2>7. CASE RemoveMyTask(x) \/ \E victim \in Threads : StealTask(x, victim)
    BY <1>3, <2>7 DEF RemoveMyTask, StealTask
  <2> QED
    BY <1>6, <2>1, <2>2, <2>3, <2>4, <2>5, <2>6, <2>7 DEF Runtime
<1> QED
  BY <1>5, <1>6

(* The children of a task have run when it has none left to wait for.       *)
LEMMA WaitIsOver ==
  ASSUME LInv, NEW t \in Tasks, incomplete[t] = 0
  PROVE  \A c \in Explicit : parent[c] = t => HasRun(c)
<1>1. Awaited \in SUBSET Explicit
  BY DEF Awaited
<1>2. Kids(parent, Awaited, t) = 0
  <2>1. PICK n \in Nat : n = Kids(parent, Awaited, t)
    BY <1>1, NoKids
  <2>2. PICK m \in {0, 1} : m = Flag(kind[t], status[t])
    BY DEF Flag
  <2>3. n + m = 0
    BY <2>1, <2>2 DEF LInv, ChildrenCounted
  <2> QED
    BY <2>1, <2>2, <2>3
<1>3. \A c \in Awaited : parent[c] # t
  BY <1>1, <1>2, NoKids
<1> QED
  BY <1>3 DEF Awaited, AwaitedSt, UnrunSt, HasRun

LEMMA GroupLineage == ASSUME LInv PROVE IsTree(inherited) /\ IsLineage(inherited, InGroup)
<1>1. inherited \in [Tasks -> Tasks \cup {Null}]
  BY DEF LInv, LTyped
<1>2. IsTree(inherited)
  BY <1>1 DEF LInv, GroupTree, IsTree
<1>3. IsLineage(inherited, InGroup)
  BY <1>1, AncestorsAreLineage DEF InGroup
<1> QED
  BY <1>2, <1>3

(* A task that has an open group is running.                                *)
LEMMA OpenIsRunning ==
  ASSUME LInv, NEW h \in Tasks, group[h] = "open"
  PROVE  status[h] = "running"
<1>1. stack \in Stacks /\ StacksFit(kind, status, stack)
  BY LifeFacts
<1>2. Num(stack, Inside(h)) # 0
  BY DEF LInv, GroupsHeld
<1>3. PICK th \in Threads : \E i \in 1..Len(stack[th]) : stack[th][i] \in Inside(h)
  BY <1>1, <1>2, NoPlaces
<1>4. PICK i \in 1..Len(stack[th]) : stack[th][i] \in Inside(h)
  BY <1>3
<1>5. stack[th][i].task = h /\ stack[th][i].act \in Suspended
  BY <1>4 DEF Inside
<1> QED
  BY <1>1, <1>5 DEF StacksFit, FrameFits

(* The least task of a group that had not run would have been created in a  *)
(* group of its own that is open, by a task of the group that is running.   *)
LEMMA GroupIsOver ==
  ASSUME LInv, NEW t \in Tasks, count[t] = 0
  PROVE  \A d \in Explicit : t \in InGroup[d] => HasRun(d)
<1> DEFINE Bad == {d \in Unrun : t \in InGroup[d]}
<1>1. IsTree(inherited) /\ IsLineage(inherited, InGroup)
  BY GroupLineage
<1>2. Counted \in SUBSET Explicit /\ Unrun \subseteq Counted /\ Unrun \subseteq Tasks
  BY LifeFacts DEF Counted, Unrun
<1>3. \A c \in Counted : inherited[c] # t
  <2>1. Kids(inherited, Counted, t) = 0
    BY DEF LInv, MembersCounted
  <2> QED
    BY <1>2, <2>1, NoKids
<1>4. Bad = {}
  <2> SUFFICES ASSUME Bad # {} PROVE FALSE
    OBVIOUS
  <2>1. PICK d \in Bad : \A e \in Bad : ~(e < d)
    BY <1>2, LeastTask
  <2>2. d \in Unrun /\ t \in InGroup[d] /\ d \in Tasks
    BY <1>2, <2>1
  <2>3. PICK h : h = inherited[d]
    OBVIOUS
  <2>4. InGroup[d] = IF h = Null THEN {} ELSE {h} \cup InGroup[h]
    BY <1>1, <2>2, <2>3, LineageIs DEF IsTree
  <2>5. h # Null /\ h \in Tasks /\ h < d /\ h # t /\ t \in InGroup[h]
    BY <1>1, <1>2, <1>3, <2>2, <2>3, <2>4 DEF IsTree
  <2>6. status[h] = "running"
    BY <2>2, <2>3, <2>5, OpenIsRunning DEF LInv, GroupsOpen
  <2>7. inherited[h] # Null
    BY <1>1, <2>5, LineageIs DEF IsTree
  <2>8. h \in Explicit
    BY <2>5, <2>7, LifeFacts DEF Born, LInv, GroupTree
  <2>9. h \in Bad
    BY <2>5, <2>6, <2>8 DEF Unrun, UnrunSt
  <2> QED
    BY <2>1, <2>5, <2>9
<1>5. ASSUME NEW d \in Explicit, t \in InGroup[d], ~HasRun(d) PROVE FALSE
  <2>1. d \in Bad
    BY <1>5 DEF Unrun, UnrunSt, HasRun
  <2> QED
    BY <1>4, <2>1
<1> QED
  BY <1>5

-----------------------------------------------------------------------------
(* A step of another thread leaves the stack alone.                         *)
LEMMA OthersStand ==
  ASSUME LInv, NEW th \in Threads, NEW x \in Threads, x # th, Body(x) \/ Runtime(x)
  PROVE  stack'[th] = stack[th]
<1>1. PICK s : stack' = [stack EXCEPT ![x] = s]
  BY OnlyOne
<1> QED
  BY <1>1, LifeFacts DEF Stacks

(* Taking a task puts it on top.                                            *)
LEMMA TakingGrows ==
  ASSUME LInv, NEW th \in Threads, NEW t, InvokeTaken(th, t)
  PROVE  Len(stack'[th]) = Len(stack[th]) + 1
<1>1. stack \in [Threads -> Seq(Frame)] /\ stack[th] \in Seq(Frame)
  BY LifeFacts DEF Stacks
<1>2. PICK a : stack' = [stack EXCEPT ![th] = <<[task |-> t, act |-> a]>> \o stack[th]]
  <2>1. CASE kind[t] = "proxy"
    BY <1>1, <2>1 DEF InvokeTaken, Push
  <2>2. CASE kind[t] # "proxy"
    BY <2>2 DEF InvokeTaken, Invoke
  <2> QED
    BY <2>1, <2>2
<1>3. stack'[th] = <<[task |-> t, act |-> a]>> \o stack[th]
  BY <1>1, <1>2
<1> QED
  BY <1>1, <1>3

LEMMA LeavesBy ==
  ASSUME LInv, Next, NEW th \in Threads, Len(stack'[th]) = Len(stack[th]),
         Top(th).act \in {"wait", "endgroup"}, Head(stack'[th]).act = "run"
  PROVE  WaitEnds(th) \/ GroupEnds(th)
<1>1. stack'[th] # stack[th]
  BY DEF Top
<1>2. Len(stack[th]) \in Nat
  BY StackFacts DEF LInv
<1>3. \A p \in Explicit : ~Outside(p)
  BY <1>1 DEF Outside, FirstTopHalf, SecondTopHalf, GiveTask
<1>4. Body(th) \/ Runtime(th)
  BY <1>1, <1>3, OthersStand DEF Next
<1>5. ~Body(th)
  BY DEF Body, Alloc, NextPart, TaskWait, TaskGroup, EndTaskGroup, Cancel, BodyEnds, Does
<1>6. ~Submit(th) /\ ~Finish(th) /\ ~Ungroup(th) /\ ~Release(th) /\ ~Free(th) /\ ~Return(th) /\ ~BottomHalf(th)
  BY DEF Submit, Finish, Ungroup, Release, Free, Return, BottomHalf, Does
<1>7. \A t : ~InvokeTaken(th, t)
  BY <1>2, TakingGrows
<1>8. ~RemoveMyTask(th) /\ \A v \in Threads : ~StealTask(th, v)
  BY <1>7 DEF RemoveMyTask, StealTask
<1> QED
  BY <1>4, <1>5, <1>6, <1>8 DEF Runtime

(* A step in which no thread leaves a wait too early.                       *)
HonestStep ==
  \A th \in Threads :
    /\ Leaves(th, "wait") => \A c \in Explicit : parent[c] = Task(th) => HasRun(c)
    /\ Leaves(th, "endgroup") => \A d \in Explicit : Task(th) \in InGroup[d] => HasRun(d)

LEMMA HonestNext == LInv /\ [Next]_vars => [HonestStep]_vars
<1> SUFFICES ASSUME LInv, Next, NEW th \in Threads
             PROVE  /\ Leaves(th, "wait") => \A c \in Explicit : parent[c] = Task(th) => HasRun(c)
                    /\ Leaves(th, "endgroup") => \A d \in Explicit : Task(th) \in InGroup[d] => HasRun(d)
  BY DEF HonestStep
<1>1. Task(th) \in Tasks
  BY TopFacts
<1>2. ASSUME Leaves(th, "wait") PROVE \A c \in Explicit : parent[c] = Task(th) => HasRun(c)
  <2>1. Top(th).act = "wait"
    BY <1>2 DEF Leaves, Does
  <2>2. WaitEnds(th)
    <3>1. WaitEnds(th) \/ GroupEnds(th)
      BY <1>2, <2>1, LeavesBy DEF Leaves
    <3> QED
      BY <2>1, <3>1 DEF GroupEnds, Does
  <2>3. incomplete[Task(th)] = 0
    BY <2>2 DEF WaitEnds
  <2> QED
    BY <1>1, <2>3, WaitIsOver
<1>3. ASSUME Leaves(th, "endgroup") PROVE \A d \in Explicit : Task(th) \in InGroup[d] => HasRun(d)
  <2>1. Top(th).act = "endgroup"
    BY <1>3 DEF Leaves, Does
  <2>2. GroupEnds(th)
    <3>1. WaitEnds(th) \/ GroupEnds(th)
      BY <1>3, <2>1, LeavesBy DEF Leaves
    <3> QED
      BY <2>1, <3>1 DEF WaitEnds, Does
  <2>3. count[Task(th)] = 0
    BY <2>2 DEF GroupEnds
  <2> QED
    BY <1>1, <2>3, GroupIsOver
<1> QED
  BY <1>2, <1>3

(* The variables keep their types; in particular no counter of a task is    *)
(* ever decremented below zero.                                             *)
THEOREM TypeCorrect == Spec => []TypeOK
<1>1. LInv => TypeOK
  BY LInvMeansTypeOK
<1> QED
  BY <1>1, LInvInit, LInvNext, PTL DEF Spec

(* The memory of a task goes back when nobody uses it any more and its      *)
(* children have been freed (__kmp_free_task_and_ancestors).                *)
THEOREM MemoryLast == Spec => []FreedLast
  BY LInvInit, LInvNext, LInvMeansFreedLast, PTL DEF Spec

(* A taskwait and the end of a task group return only when the tasks they   *)
(* wait for have run.                                                       *)
THEOREM WaitsHonest == Spec => WaitsAreHonest
  BY LInvInit, LInvNext, HonestNext, PTL DEF Spec, WaitsAreHonest, HonestStep

=============================================================================
