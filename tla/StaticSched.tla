---------------------------- MODULE StaticSched ----------------------------
(***************************************************************************)
(* The static schedules (runtime/src/kmp_sched.cpp): every thread of a team *)
(* computes alone, from the bounds of the loop and its number, which        *)
(* iterations are its own.  In a distribute construct there are n teams of  *)
(* m threads, and the masters' or all threads' iterations are computed.     *)
(*                                                                          *)
(* Bounds are signed numbers of 2 * Half values.  The code generated for    *)
(* the loop, which runs from lower to upper and, where there are chunks,    *)
(* goes on by the stride up to the bound of the whole loop, is Executed.    *)
(***************************************************************************)
EXTENDS Integers, FiniteSets

CONSTANTS
  Inputs,                    \* the calls of the program
  Half                       \* of the number of values, the sign bit's worth

Kinds == {"static_greedy", "static_balanced", "static_chunked", "static_balanced_chunked"}

MaxValue == Half - 1
MinValue == -Half
Values   == MinValue..MaxValue

(* A call: __kmp_for_static_init, __kmp_dist_for_static_init for n teams of *)
(* m threads, or __kmp_team_static_init for n teams.  Assumed where the     *)
(* constants get their values.                                              *)
Assumptions ==
  /\ Half \in Nat \ {0}
  /\ Inputs \subseteq [call : {"for", "dist_for", "team"}, schedule : Kinds,
                       lower : Values, upper : Values, incr : Values \ {0},
                       chunk : Nat, n : Nat \ {0}, m : Nat \ {0}]

VARIABLES
  input,
  result                     \* of every thread that has called

vars == <<input, result>>

NoResult == [lower |-> 0, upper |-> 0, bound |-> 0, stride |-> 0, last |-> FALSE, done |-> FALSE]

U(x) == x % (2 * Half)
T(x) == ((x - MinValue) % (2 * Half)) + MinValue

Ceiling(a, b) == (a + b - 1) \div b
Lesser(a, b)  == IF a < b THEN a ELSE b
Least(S)      == CHOOSE x \in S : \A y \in S : x <= y

(* a is before b in a loop with this increment.                             *)
Before(a, b, incr) == IF incr > 0 THEN a < b ELSE a > b

Distance(lower, upper, incr) == IF incr > 0 THEN upper - lower ELSE lower - upper
Size(incr) == IF incr > 0 THEN incr ELSE -incr

TripCount(lower, upper, incr) ==
  U(U(Distance(lower, upper, incr)) \div Size(incr) + 1)

Result(lower, upper, bound, stride, last) ==
  [lower |-> T(lower), upper |-> T(upper), bound |-> bound, stride |-> T(stride),
   last |-> last, done |-> TRUE]

-----------------------------------------------------------------------------
(* The part of thread id of n in the loop lower..upper with trip iterations.*)

(* Fewer iterations than threads; a thread without gets an empty part.      *)
Few(lower, upper, incr, trip, id) ==
  IF id < trip THEN Result(lower + id * incr, lower + id * incr, upper, incr, id = trip - 1)
               ELSE Result(upper + incr, upper, upper, incr, FALSE)

(* Mutant: the extra iterations are left to the last thread.                *)
Balanced_NoExtras(lower, upper, incr, trip, n, id) ==
  LET first == T(lower + incr * id * (trip \div n))
  IN  Result(first, first + (trip \div n) * incr - incr, upper, incr, id = n - 1)

Balanced(lower, upper, incr, trip, n, id) ==
  LET extras == trip % n
      first  == T(lower + incr * (id * (trip \div n) + Lesser(id, extras)))
  IN  Result(first, first + (trip \div n) * incr - (IF id < extras THEN 0 ELSE incr),
             upper, incr, id = n - 1)

(* The end of a part, where it has overflowed, and where it is beyond upper.*)
Capped(first, end, incr) ==
  IF ~Before(end, first, incr) THEN end ELSE IF incr > 0 THEN MaxValue ELSE MinValue

Cut(first, end, upper, incr) ==
  IF Before(upper, Capped(first, end, incr), incr) THEN upper ELSE Capped(first, end, incr)

LastGreedy(first, end, upper, incr) ==
  ~Before(upper, first, incr) /\ Before(T(upper - incr), Capped(first, end, incr), incr)

Greedy(lower, upper, incr, trip, n, id) ==
  LET big   == T(Ceiling(trip, n) * incr)
      first == T(lower + id * big)
      end   == T(first + big - incr)
  IN  Result(first, Cut(first, end, upper, incr), upper, incr,
             LastGreedy(first, end, upper, incr))

(* A chunk of no iterations is one of one.                                  *)
Pieces(chunk) == IF chunk < 1 THEN 1 ELSE chunk

Chunked(lower, upper, incr, trip, n, id, chunk) ==
  LET span  == T(Pieces(chunk) * incr)
      first == T(lower + span * id)
  IN  Result(first, first + span - incr, upper, span * n,
             id = ((trip - 1) \div Pieces(chunk)) % n)

(* The chunk is rounded up to a multiple of the (power of two) chunk.       *)
BalancedChunked(lower, upper, incr, trip, n, id, chunk) ==
  LET size  == Ceiling(Ceiling(trip, n), chunk) * chunk
      span  == T(size * incr)
      first == T(lower + span * id)
      end   == T(first + span - incr)
  IN  Result(first, IF Before(upper, end, incr) THEN upper ELSE end, upper, incr,
             id = (trip - 1) \div size)

(* The whole part of a thread, if it has one part; whole is the last bound  *)
(* of the loop, which for a team is not that of its part.                   *)
Static(schedule, lower, upper, whole, incr, trip, n, id) ==
  CASE trip < n -> Few(lower, whole, incr, trip, id)
    [] trip >= n /\ schedule = "static_balanced" -> Balanced(lower, upper, incr, trip, n, id)
    [] trip >= n /\ schedule = "static_greedy"   -> Greedy(lower, upper, incr, trip, n, id)

-----------------------------------------------------------------------------
ZeroTrip(c) == Before(c.upper, c.lower, c.incr)
Trip(c)     == TripCount(c.lower, c.upper, c.incr)

ForStaticInit(c, id) ==
  CASE ZeroTrip(c) -> Result(c.lower, c.upper, c.upper, c.incr, FALSE)
    [] ~ZeroTrip(c) /\ c.n = 1 ->
         Result(c.lower, c.upper, c.upper,
                c.upper - c.lower + (IF c.incr > 0 THEN 1 ELSE -1), TRUE)
    [] ~ZeroTrip(c) /\ c.n > 1 /\ c.schedule = "static_chunked" ->
         Chunked(c.lower, c.upper, c.incr, Trip(c), c.n, id, c.chunk)
    [] ~ZeroTrip(c) /\ c.n > 1 /\ c.schedule = "static_balanced_chunked" ->
         BalancedChunked(c.lower, c.upper, c.incr, Trip(c), c.n, id, c.chunk)
    [] OTHER -> Static(c.schedule, c.lower, c.upper, c.upper, c.incr, Trip(c), c.n, id)

(* With no more iterations than teams the masters take one each.            *)
OfMasters(c, team, id) ==
  LET r == Few(c.lower, c.upper, c.incr, IF id = 0 THEN Trip(c) ELSE 0, team)
  IN  [r EXCEPT !.bound = r.upper, !.stride = T(c.upper - c.lower),
                !.last = id = 0 /\ team = Trip(c) - 1]

(* First the part of the team, at most one.                                 *)
TeamPart(c, team) ==
  IF c.schedule = "static_greedy"
    THEN Greedy(c.lower, c.upper, c.incr, Trip(c), c.n, team)
    ELSE Balanced(c.lower, c.upper, c.incr, Trip(c), c.n, team)

DistForStaticInit(c, team, id) ==
  LET p     == TeamPart(c, team)
      trip  == TripCount(p.lower, p.upper, c.incr)
      mine  == IF c.schedule = "static_chunked"
                 THEN Chunked(p.lower, p.upper, c.incr, trip, c.m, id, c.chunk)
                 ELSE Static(c.schedule, p.lower, p.upper, c.upper, c.incr, trip, c.m, id)
      empty == Before(p.upper, p.lower, c.incr)
  IN  CASE Trip(c) <= c.n -> OfMasters(c, team, id)
        [] Trip(c) > c.n /\ empty -> p
        [] Trip(c) > c.n /\ ~empty -> [mine EXCEPT !.last = @ /\ p.last]

TeamStaticInit(c, team) ==
  LET r == Chunked(c.lower, c.upper, c.incr, Trip(c), c.n, team, c.chunk)
  IN  [r EXCEPT !.upper = Cut(r.lower, @, c.upper, c.incr)]

-----------------------------------------------------------------------------
Callers(c) == 0..c.n * c.m - 1

Init ==
  /\ input \in Inputs
  /\ result = [t \in Callers(input) |-> NoResult]

Call(t, call, r) ==
  /\ input.call = call /\ ~result[t].done
  /\ result' = [result EXCEPT ![t] = r]
  /\ UNCHANGED input

Next ==
  \E t \in Callers(input) :
    \/ Call(t, "for", ForStaticInit(input, t))
    \/ Call(t, "dist_for", DistForStaticInit(input, t \div input.m, t % input.m))
    \/ Call(t, "team", TeamStaticInit(input, t))

Spec == Init /\ [][Next]_vars

-----------------------------------------------------------------------------
From(lower, upper, incr) ==
  {i \in Values : /\ ~Before(i, lower, incr) /\ ~Before(upper, i, incr)
                  /\ (i - lower) % Size(incr) = 0}

(* What the generated code makes of the result.                             *)
Executed(c, r) ==
  IF c.schedule # "static_chunked" THEN From(r.lower, r.upper, c.incr) ELSE
  {i \in From(r.lower, r.bound, c.incr) :
     LET into == IF r.stride = 0 THEN Distance(r.lower, i, c.incr)
                                 ELSE Distance(r.lower, i, c.incr) % Size(r.stride)
     IN  into <= Distance(r.lower, r.upper, c.incr)}

Called == \A t \in Callers(input) : result[t].done

(* The threads together execute every iteration of the loop once, and       *)
(* nothing else: the division leaves no gap, no overlap and no overflow.    *)
EveryIterationOnce ==
  LET parts == [t \in Callers(input) |-> Executed(input, result[t])]
  IN  Called => /\ UNION {parts[t] : t \in Callers(input)}
                     = From(input.lower, input.upper, input.incr)
                /\ \A t, u \in Callers(input) : t # u => parts[t] \cap parts[u] = {}

(* The thread that is told that it has the last iteration, whose variables  *)
(* lastprivate copies out, is the one that has it, and there is one.        *)
FinalIteration == CHOOSE i \in From(input.lower, input.upper, input.incr) :
                    \A j \in From(input.lower, input.upper, input.incr) : ~Before(i, j, input.incr)

LastIsRight ==
  Called /\ ~ZeroTrip(input) =>
    \A t \in Callers(input) :
      result[t].last <=> FinalIteration \in Executed(input, result[t])
=============================================================================
