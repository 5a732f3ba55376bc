----------------------------- MODULE TaskOrder ------------------------------
(***************************************************************************)
(* What the depend clauses of sibling tasks promise (the siblings are       *)
(* numbered in the order in which their parent creates them): a task starts *)
(* only when every earlier sibling that it depends on has finished.  A      *)
(* taskwait with depend clauses is an item of its own, which starts and     *)
(* finishes in one step.                                                    *)
(***************************************************************************)
EXTENDS Naturals

CONSTANT  Items              \* numbered tasks and waits
VARIABLES status, needs      \* of every item, the earlier ones it depends on

vars == <<status, needs>>

Init ==
  /\ status = [k \in Items |-> "none"]
  /\ needs = [k \in Items |-> {}]

Move(k, from, to) == status[k] = from /\ status' = [status EXCEPT ![k] = to]

Create(k) ==
  /\ Move(k, "none", "created")
  /\ \E S \in SUBSET {j \in Items : j < k} : needs' = [needs EXCEPT ![k] = S]

Free(k) == \A j \in needs[k] : status[j] = "finished"

Start(k)  == Free(k) /\ Move(k, "created", "started") /\ UNCHANGED needs
Finish(k) == Move(k, "started", "finished") /\ UNCHANGED needs
Pass(k)   == Free(k) /\ Move(k, "created", "finished") /\ UNCHANGED needs

Next == \E k \in Items : Create(k) \/ Start(k) \/ Finish(k) \/ Pass(k)

Spec == Init /\ [][Next]_vars
=============================================================================
