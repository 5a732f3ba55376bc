---------------------------- MODULE BarrierSpec ----------------------------
(***************************************************************************)
(* What a barrier promises: no thread leaves its k-th barrier before every  *)
(* thread of the team has entered its k-th, and once all have, each leaves. *)
(* A thread may enter the next barrier while others are still leaving.      *)
(***************************************************************************)
EXTENDS Naturals

CONSTANT Tids                \* the threads of the team

VARIABLES entered,           \* how many barriers each has entered
          left               \* and how many it has left

vars == <<entered, left>>

Init ==
  /\ entered = [t \in Tids |-> 0]
  /\ left = [t \in Tids |-> 0]

Enter(t) ==
  /\ entered[t] = left[t]
  /\ entered' = [entered EXCEPT ![t] = @ + 1]
  /\ UNCHANGED left

Leave(t) ==
  /\ left[t] < entered[t]
  /\ \A u \in Tids : entered[u] >= entered[t]
  /\ left' = [left EXCEPT ![t] = @ + 1]
  /\ UNCHANGED entered

Next == \E t \in Tids : Enter(t) \/ Leave(t)

Spec == Init /\ [][Next]_vars /\ \A t \in Tids : WF_vars(Leave(t))
=============================================================================
