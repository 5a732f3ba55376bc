----------------------------- MODULE MCForkJoin -----------------------------
(***************************************************************************)
(* Instances of ForkJoin.                                                   *)
(***************************************************************************)
EXTENDS ForkJoin

Default ==
  [hot_levels |-> 1, hot_mode |-> 0, max_nth |-> 4, sys_nth |-> 6, slots |-> 4,
   nested |-> FALSE, levels |-> 3, sizes |-> {1, 2, 3}, roots |-> 1, bound |-> 4]

Nested == [Default EXCEPT !.nested = TRUE, !.bound = 3]

(* Regions of one thread, one after and in another; two threads of the      *)
(* program at the limit of threads; inner teams that are kept, grow, shrink *)
(* and serve others; no more than two active levels.                        *)
Some ==
  { Default,
    [Nested EXCEPT !.sizes = {2}, !.roots = 2, !.bound = 4,
                   !.max_nth = 3, !.slots = 3, !.sys_nth = 5],
    [Nested EXCEPT !.sizes = {2, 3}, !.hot_levels = 2],
    [Nested EXCEPT !.sizes = {1, 2}, !.hot_levels = 2, !.max_nth = 3, !.bound = 4],
    [Nested EXCEPT !.sizes = {1, 2}, !.levels = 2] }

(* Threads in reserve in the hot team; no hot teams.                        *)
Reserve == [Default EXCEPT !.hot_mode = 1, !.sizes = {2, 3}, !.bound = 3]
Cold    == [Default EXCEPT !.hot_levels = 0, !.sizes = {2, 3}, !.bound = 2]
Unusual == {Reserve, Cold}
=============================================================================
