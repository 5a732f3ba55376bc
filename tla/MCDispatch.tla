----------------------------- MODULE MCDispatch -----------------------------
EXTENDS Dispatch

Base == [schedule |-> "dynamic", tc |-> 4, chunk |-> 1, ordered |-> FALSE, gomp |-> FALSE,
         wide |-> FALSE, barrier |-> FALSE]

Of(s, tc, chunk) == [Base EXCEPT !.schedule = s, !.tc = tc, !.chunk = chunk]
Ordered(L, g)    == [L EXCEPT !.ordered = TRUE, !.gomp = g]
Steal(tc, chunk, wide) == [Of("static_steal", tc, chunk) EXCEPT !.wide = wide, !.barrier = TRUE]
Team(n, loops)   == [n |-> n, loops |-> loops]

(* Every schedule alone; more loops than buffers; ordered loops; stealing   *)
(* loops, with a barrier after each.                                        *)
Singles == {Team(2, <<Of(s, tc, chunk)>>) :
              s \in Schedules \ {"static_steal"}, tc \in {0, 1, 9}, chunk \in {1, 2}}
           \cup {Team(2, <<Of(s, 13, 2)>>) : s \in {"guided_iterative", "guided_analytical"}}
           \cup {Team(3, <<Of(s, 10, 1)>>) :
                   s \in {"guided_iterative", "guided_analytical", "trapezoidal", "static_greedy"}}
Chains  == {Team(3, <<Of(s, 2, 1), Of(r, 3, 2), Of(s, 3, 1)>>) :
              s \in {"dynamic", "static_balanced", "trapezoidal"},
              r \in {"dynamic", "static_chunked"}}
Sections == {Team(2, <<Ordered(Of(s, 3, 2), g), Ordered(Of("dynamic", 1, 1), g),
                       Ordered(Of(s, 2, 1), g)>>) :
               s \in {"dynamic", "static_chunked"}, g \in BOOLEAN}
            \cup {Team(2, <<Ordered(Of("static_balanced", 5, 1), g)>>) : g \in BOOLEAN}
Stealing == {Team(3, <<Steal(7, 1, FALSE)>>)}
            \cup {Team(2, <<Steal(9, 2, w), Steal(5, 1, w), Of("dynamic", 2, 1)>>) : w \in BOOLEAN}

MCPrograms == Singles \cup Chains \cup Sections \cup Stealing

(* Stealing loops without barriers between them.                            *)
NoWait(L)   == [L EXCEPT !.barrier = FALSE]
MCNoWait    == {Team(2, <<NoWait(Steal(3, 1, wide)), Steal(4, 1, wide)>>) : wide \in BOOLEAN}

(* A loop that ends near the largest value of the induction variable, when  *)
(* that has six bits.                                                       *)
MCNearTop   == {Team(3, <<Of("dynamic", 62, 10)>>)}

MCUnusual   == MCNoWait \cup MCNearTop
=============================================================================
