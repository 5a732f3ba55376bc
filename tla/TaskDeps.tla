------------------------------ MODULE TaskDeps ------------------------------
(***************************************************************************)
(* Task dependences (runtime/src/kmp_taskdeps.cpp): the graph that a task   *)
(* builds for its children with depend clauses.  One thread, which runs the *)
(* parent, creates the children and enters their nodes into the hash table  *)
(* of the parent; the threads that have run a child release the successors  *)
(* of its node at the same time.                                            *)
(*                                                                          *)
(* A node is named by the number of its task.  A taskwait with dependences  *)
(* has a node too, on the stack of the waiting thread.  Once that thread    *)
(* has returned the node is gone; an access to it is a fault, at which the  *)
(* model stops.  A node on the heap is freed when its nrefs becomes 0.      *)
(***************************************************************************)
EXTENDS Integers, Sequences, FiniteSets, Functions

CONSTANTS
  Addrs,                     \* the addresses in depend clauses
  DepLists,                  \* the lists of dependences of the program
  MaxItems                   \* bound of the tasks and waits of the parent

ASSUME ItemsAssumption == MaxItems \in Nat
ASSUME AddrsAssumption == IsFiniteSet(Addrs)
ASSUME ListsAssumption ==
  DepLists \subseteq Seq([addr : Addrs, out : BOOLEAN]) /\ <<>> \notin DepLists

Items == 1..MaxItems
Null  == 0

(* __kmp_check_deps first folds every dependence into the first one with    *)
(* the same address; an out dependence among them makes it one.             *)
Firsts(list) ==
  {i \in DOMAIN list : \A j \in 1..i-1 : list[j].addr # list[i].addr}
Rank(list, i) == Cardinality({j \in Firsts(list) : j <= i})

Folded(list, i) ==
  [addr |-> list[i].addr,
   out  |-> \E j \in DOMAIN list : list[j].addr = list[i].addr /\ list[j].out]

Filter(list) ==
  [n \in 1..Cardinality(Firsts(list)) |->
     Folded(list, CHOOSE i \in Firsts(list) : Rank(list, i) = n)]

(* Where n is in a list, and where it is in the lists of a function.        *)
Indices(list, n) == {i \in DOMAIN list : list[i] = n}
Places(f, n)     == UNION {{t} \X Indices(f[t], n) : t \in DOMAIN f}

-----------------------------------------------------------------------------
VARIABLES
  kind, deps,                \* of every item: task or wait, its dependences
  last_out, last_ins,        \* the hash table: of every address
  task,                      \* dn.task is not NULL
  npredecessors, nrefs, successors,     \* of every node
  status,                    \* of every item
  cur,                       \* the item that is created or waited for last
  pc, dep, todo, npre,       \* of the creating thread: where it is, which
                             \* dependence it is at, the nodes it still has
                             \* to look at, and the predecessors found
  fault                      \* a node was used that is gone

items   == <<kind, deps>>
hash    == <<last_out, last_ins>>
creator == <<cur, pc, dep, todo, npre>>
vars == <<items, hash, task, npredecessors, nrefs, successors, status, creator, fault>>

Statuses == {"none", "created", "queued", "running", "notify", "drop", "wake", "done"}

Init ==
  /\ kind = [k \in Items |-> "task"]
  /\ deps = [k \in Items |-> <<>>]
  /\ last_out = [a \in Addrs |-> Null]
  /\ last_ins = [a \in Addrs |-> <<>>]
  /\ task = [k \in Items |-> FALSE]
  /\ npredecessors = [k \in Items |-> 0]
  /\ nrefs = [k \in Items |-> 0]
  /\ successors = [k \in Items |-> <<>>]
  /\ status = [k \in Items |-> "none"]
  /\ cur = 0 /\ pc = "create" /\ dep = 1 /\ todo = <<>> /\ npre = 0
  /\ fault = FALSE

-----------------------------------------------------------------------------
(* The creating thread.                                                     *)

(* Mutant: an out dependence only waits for the last output.                *)
Preds_OutsOnly(d) ==
  IF last_out[d.addr] # Null THEN <<last_out[d.addr]>> ELSE <<>>

(* The nodes that dependence d has to be linked to.                         *)
Preds(d) ==
  IF d.out /\ last_ins[d.addr] # <<>> THEN last_ins[d.addr]
  ELSE IF last_out[d.addr] # Null THEN <<last_out[d.addr]>>
  ELSE <<>>

(* Takes and drops references to the nodes of two lists.                    *)
Refs(added, dropped) ==
  nrefs' = [n \in Items |-> nrefs[n] + Cardinality(Indices(added, n))
                                     - Cardinality(Indices(dropped, n))]

(* __kmpc_omp_task_with_deps and __kmpc_omp_wait_deps.                      *)
Create(k, list) ==
  /\ pc = "create" /\ cur < MaxItems
  /\ cur' = cur + 1
  /\ kind' = [kind EXCEPT ![cur'] = k]
  /\ deps' = [deps EXCEPT ![cur'] = Filter(list)]
  /\ status' = [status EXCEPT ![cur'] = "created"]
  /\ nrefs' = [nrefs EXCEPT ![cur'] = 1]
  /\ npredecessors' = [npredecessors EXCEPT ![cur'] = -1]
  /\ pc' = "process" /\ dep' = 1 /\ npre' = 0
  /\ todo' = Preds(Filter(list)[1])
  /\ UNCHANGED <<hash, task, successors, fault>>

Dep == deps[cur][dep]

(* Mutant: links to a task that has finished already.                       *)
Link_Finished ==
  /\ pc = "process" /\ todo # <<>>
  /\ LET p == Head(todo) IN
       /\ successors' = [successors EXCEPT ![p] = <<cur>> \o @]
       /\ nrefs' = [nrefs EXCEPT ![cur] = @ + 1]
       /\ npre' = npre + 1
  /\ todo' = Tail(todo)
  /\ UNCHANGED <<items, hash, task, npredecessors, status, cur, pc, dep, fault>>

(* The section under the lock of one predecessor.                           *)
Link ==
  /\ pc = "process" /\ todo # <<>>
  /\ LET p == Head(todo) IN
       IF task[p]
         THEN /\ successors' = [successors EXCEPT ![p] = <<cur>> \o @]
              /\ nrefs' = [nrefs EXCEPT ![cur] = @ + 1]
              /\ npre' = npre + 1
         ELSE UNCHANGED <<successors, nrefs, npre>>
  /\ todo' = Tail(todo)
  /\ UNCHANGED <<items, hash, task, npredecessors, status, cur, pc, dep, fault>>

NextDep ==
  IF dep < Len(deps[cur])
    THEN dep' = dep + 1 /\ todo' = Preds(deps[cur][dep + 1]) /\ pc' = pc
    ELSE dep' = dep /\ todo' = <<>> /\ pc' = "publish"

(* The references that the entry of the hash table gives up.                *)
Dropped ==
  LET ins == IF Dep.out THEN last_ins[Dep.addr] ELSE <<>> IN
  IF Dep.out \/ kind[cur] = "wait" THEN Append(ins, last_out[Dep.addr]) ELSE <<>>

(* The end of one turn of the loop in __kmp_process_deps: the item becomes  *)
(* the last output or one of the last inputs of the address, unless it is a *)
(* wait, which leaves no output.                                            *)
Record ==
  /\ pc = "process" /\ todo = <<>>
  /\ LET a    == Dep.addr
         wait == kind[cur] = "wait"
         in   == ~wait /\ ~Dep.out
     IN /\ last_ins' = [last_ins EXCEPT
             ![a] = IF in THEN <<cur>> \o @ ELSE IF Dep.out THEN <<>> ELSE @]
        /\ last_out' = [last_out EXCEPT
             ![a] = IF wait THEN Null ELSE IF Dep.out THEN cur ELSE @]
        /\ Refs(IF wait THEN <<>> ELSE <<cur>>, Dropped)
  /\ NextDep
  /\ UNCHANGED <<items, task, npredecessors, successors, status, cur, npre, fault>>

(* node->dn.task = task, which is NULL for a wait.                          *)
Publish ==
  /\ pc = "publish"
  /\ task' = [task EXCEPT ![cur] = kind[cur] = "task"]
  /\ pc' = "count"
  /\ UNCHANGED <<items, hash, npredecessors, nrefs, successors, status, cur,
                 dep, todo, npre, fault>>

(* Mutant: the fake predecessor is not accounted for.                       *)
Total_KeepFake == npredecessors[cur] + npre

(* npre and the fake value are added in one atomic step.                    *)
Total == npredecessors[cur] + npre + 1

AddCount ==
  /\ pc = "count"
  /\ npredecessors' = [npredecessors EXCEPT ![cur] = Total]
  /\ pc' = IF Total > 0 /\ kind[cur] = "wait" THEN "wait" ELSE "create"
  /\ status' = [status EXCEPT ![cur] =
       IF Total > 0 THEN @ ELSE IF kind[cur] = "wait" THEN "done" ELSE "queued"]
  /\ UNCHANGED <<items, hash, task, nrefs, successors, cur, dep, todo, npre, fault>>

(* The loop of __kmpc_omp_wait_deps ends; the node is gone.                 *)
WaitReturns ==
  /\ pc = "wait" /\ npredecessors[cur] <= 0
  /\ status' = [status EXCEPT ![cur] = "done"]
  /\ pc' = "create"
  /\ UNCHANGED <<items, hash, task, npredecessors, nrefs, successors, cur,
                 dep, todo, npre, fault>>

(* The parent finishes and __kmp_release_deps frees its hash table.         *)
ParentFinishes ==
  /\ pc = "create"
  /\ pc' = "end"
  /\ nrefs' = [n \in Items |->
       nrefs[n] - Cardinality({a \in Addrs : last_out[a] = n})
                - Cardinality(Places(last_ins, n))]
  /\ last_out' = [a \in Addrs |-> Null]
  /\ last_ins' = [a \in Addrs |-> <<>>]
  /\ UNCHANGED <<items, task, npredecessors, successors, status, cur, dep, todo,
                 npre, fault>>

Creating ==
  \/ \E k \in {"task", "wait"}, list \in DepLists : Create(k, list)
  \/ Link \/ Record \/ Publish \/ AddCount \/ WaitReturns \/ ParentFinishes

-----------------------------------------------------------------------------
(* The threads that run the tasks.                                          *)

Goto(t, from, to) == status[t] = from /\ status' = [status EXCEPT ![t] = to]

Start(t) ==
  /\ Goto(t, "queued", "running")
  /\ UNCHANGED <<items, hash, task, npredecessors, nrefs, successors, creator, fault>>

(* The task is marked as finished under the lock of its node.               *)
Finish(t) ==
  /\ Goto(t, "running", "notify")
  /\ task' = [task EXCEPT ![t] = FALSE]
  /\ UNCHANGED <<items, hash, npredecessors, nrefs, successors, creator, fault>>

Gone(n) == kind[n] = "wait" /\ status[n] = "done"

(* The next successor has one predecessor less.                             *)
Decrement(t) ==
  /\ status[t] = "notify" /\ successors[t] # <<>>
  /\ LET s == Head(successors[t]) IN
       /\ npredecessors' = [npredecessors EXCEPT ![s] = @ - 1]
       /\ status' = [status EXCEPT ![t] =
            IF npredecessors[s] = 1 THEN "wake" ELSE "drop"]
       /\ fault' = Gone(s)
  /\ UNCHANGED <<items, hash, task, nrefs, successors, creator>>

Pop(t, s) ==
  /\ successors' = [successors EXCEPT ![t] = Tail(@)]
  /\ nrefs' = [nrefs EXCEPT ![s] = @ - 1]
  /\ fault' = Gone(s)

(* It is queued if that was the last one and it has a task, and the         *)
(* reference to it is dropped.                                              *)
Wake(t) ==
  /\ status[t] = "wake"
  /\ LET s == Head(successors[t]) IN
       /\ status' = [status EXCEPT ![t] = "notify",
                                   ![s] = IF task[s] THEN "queued" ELSE @]
       /\ Pop(t, s)
  /\ UNCHANGED <<items, hash, task, npredecessors, creator>>

Drop(t) ==
  /\ Goto(t, "drop", "notify")
  /\ Pop(t, Head(successors[t]))
  /\ UNCHANGED <<items, hash, task, npredecessors, creator>>

(* All successors are notified; the task gives up its own node.             *)
Released(t) ==
  /\ Goto(t, "notify", "done") /\ successors[t] = <<>>
  /\ nrefs' = [nrefs EXCEPT ![t] = @ - 1]
  /\ UNCHANGED <<items, hash, task, npredecessors, successors, creator, fault>>

Executing(t) ==
  Start(t) \/ Finish(t) \/ Decrement(t) \/ Wake(t) \/ Drop(t) \/ Released(t)

Next == ~fault /\ (Creating \/ \E t \in Items : Executing(t))

Spec == Init /\ [][Next]_vars

(* Threads run what is queued, and the parent goes on with what it began.   *)
FairSpec ==
  /\ Spec
  /\ WF_vars(~fault /\ pc # "create" /\ Creating)
  /\ \A t \in Items : WF_vars(~fault /\ Executing(t))

-----------------------------------------------------------------------------
TypeOK ==
  /\ kind \in [Items -> {"task", "wait"}]
  /\ deps \in [Items -> Seq([addr : Addrs, out : BOOLEAN])]
  /\ last_out \in [Addrs -> Items \cup {Null}]
  /\ last_ins \in [Addrs -> Seq(Items)]
  /\ task \in [Items -> BOOLEAN]
  /\ npredecessors \in [Items -> Int]
  /\ nrefs \in [Items -> Nat]
  /\ successors \in [Items -> Seq(Items)]
  /\ status \in [Items -> Statuses]
  /\ cur \in 0..MaxItems /\ dep \in Nat \ {0} /\ npre \in Nat
  /\ todo \in Seq(Items)
  /\ pc \in {"create", "process", "publish", "count", "wait", "end"}
  /\ fault \in BOOLEAN

(***************************************************************************)
(* The counter of a node: once its creator has added what it found it is    *)
(* the number of predecessors that have yet to decrement it, and before     *)
(* that it is below 0 by as many as have done so early, so that none of     *)
(* them queues the task before it is published.                             *)
(***************************************************************************)
ToNotify ==
  [t \in Items |->
     IF status[t] \in {"wake", "drop"} THEN Tail(successors[t]) ELSE successors[t]]

Outstanding(n) == Cardinality(Places(ToNotify, n))

Counting == pc \in {"process", "publish", "count"}

PredecessorsAreExact ==
  \A n \in 1..cur :
    IF n = cur /\ Counting
      THEN npredecessors[n] + npre + 1 = Outstanding(n) /\ npredecessors[n] < 0
      ELSE npredecessors[n] = Outstanding(n)

(***************************************************************************)
(* A node is freed when the last reference goes, neither earlier nor never: *)
(* nrefs is the number of references to the node in lists, in the hash      *)
(* table and in its own task (or the wait, which never drops its own).      *)
(***************************************************************************)
References(n) ==
  (IF status[n] = "none" \/ (kind[n] = "task" /\ status[n] = "done") THEN 0 ELSE 1)
  + Cardinality(Places(successors, n))
  + Cardinality({a \in Addrs : last_out[a] = n})
  + Cardinality(Places(last_ins, n))

RefsAreExact == ~fault => \A n \in Items : nrefs[n] = References(n)

(* Both counts of every node are exact.                                     *)
CountsAreExact == PredecessorsAreExact /\ RefsAreExact

(***************************************************************************)
(* The graph implements the order that the depend clauses ask for: an item  *)
(* depends on the earlier tasks with a common address that one of the two   *)
(* writes.                                                                  *)
(***************************************************************************)
Needs(k) ==
  {j \in 1..k-1 : /\ kind[j] = "task"
                  /\ \E d \in Range(deps[j]), e \in Range(deps[k]) :
                       d.addr = e.addr /\ (d.out \/ e.out)}

Promised(k) ==
  CASE status[k] \in {"none", "created"}    -> status[k]
    [] status[k] \in {"queued", "running"}  -> "started"
    [] OTHER                                -> "finished"

Abstract == INSTANCE TaskOrder WITH
  status <- [k \in Items |-> Promised(k)], needs <- [k \in Items |-> Needs(k)]

ImplementsTaskOrder == Abstract!Spec

(***************************************************************************)
(* In the end every task that was created has been run and every wait for   *)
(* dependences has returned, unless a thread has used a node that was gone. *)
(***************************************************************************)
EverythingRuns == <>[](fault \/ \A k \in Items : status[k] \in {"none", "done"})

(***************************************************************************)
(* The comment at kmp_taskdeps.cpp:397 says that the task of the successor  *)
(* "can be NULL for wait_depends": the release looks at it there, so the    *)
(* node of a wait would have to outlive the release.                        *)
(***************************************************************************)
WaitNodeIsLive == ~fault
=============================================================================
