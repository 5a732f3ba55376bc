------------------------------ MODULE Nesting ------------------------------
(***************************************************************************)
(* What a program is told about its parallel regions (omp_get_level,        *)
(* omp_get_ancestor_thread_num, omp_get_team_size).  A thread is outside,   *)
(* or it has come from a root and is in a region inside of a region ...,    *)
(* outermost first, and in each it, or the thread that it comes from there, *)
(* has a number in a team of a size.                                        *)
(***************************************************************************)
EXTENDS Integers, FiniteSets, Sequences, SequencesExt

CONSTANTS Threads

VARIABLE nest

Outside == [root |-> -1, path |-> <<>>]

At(root, path) == [root |-> root, path |-> path]

Init == nest \in [Threads -> {Outside} \cup {At(t, <<>>) : t \in Threads}]

(* A thread that the program has created comes, and goes.                   *)
Come(t) == nest[t] = Outside /\ nest' = [nest EXCEPT ![t] = At(t, <<>>)]

Go(t) == nest[t] = At(t, <<>>) /\ nest' = [nest EXCEPT ![t] = Outside]

(* t begins a region with threads from outside, who get the numbers from 1. *)
Begin(t) ==
  LET others  == {u \in Threads \ {t} : nest'[u] # nest[u]}
      into(i) == At(nest[t].root,
                    Append(nest[t].path, [num |-> i, size |-> Cardinality(others) + 1]))
  IN  /\ nest[t] # Outside /\ nest'[t] = into(0)
      /\ \A u \in others : nest[u] = Outside
      /\ {nest'[u] : u \in others} = {into(i) : i \in 1..Cardinality(others)}

(* A thread is done with its part of a region; the one that has begun it    *)
(* goes on outside of it, after all others and the regions they have begun. *)
Leave(t) ==
  /\ nest[t].path # <<>> /\ Last(nest[t].path).num # 0
  /\ nest' = [nest EXCEPT ![t] = Outside]

End(t) ==
  /\ nest[t].path # <<>> /\ Last(nest[t].path).num = 0
  /\ \A u \in Threads \ {t} :
       ~(nest[u].root = nest[t].root /\ IsStrictPrefix(Front(nest[t].path), nest[u].path))
  /\ nest' = [nest EXCEPT ![t].path = Front(@)]

Next == DOMAIN nest' = Threads /\ \E t \in Threads : Come(t) \/ Go(t) \/ Begin(t) \/ Leave(t) \/ End(t)

Spec == Init /\ [][Next]_nest
=============================================================================
