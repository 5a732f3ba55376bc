------------------------------ MODULE MCLoops ------------------------------
(***************************************************************************)
(* Worksharing loops: a team either passes through the loops of a program   *)
(* whose iterations are dispatched (Dispatch), or computes its shares of    *)
(* one loop with a static schedule (StaticSched).  The two have no state in *)
(* common.                                                                  *)
(***************************************************************************)
EXTENDS MCDispatch

CONSTANTS StaticInputs, StaticHalf

VARIABLES input, result

Static == INSTANCE StaticSched WITH Inputs <- StaticInputs, Half <- StaticHalf

(* What the inputs are made of does not depend on the inputs.               *)
OfStatic == INSTANCE StaticSched WITH Inputs <- {}, Half <- StaticHalf

ASSUME StaticAssumption == Static!Assumptions

-----------------------------------------------------------------------------
(* The inputs of static schedules.                                          *)

Incrs == {-2, 1, 3}
Parts == {"static_greedy", "static_balanced"}

Calls(call, schedules, ns, ms, chunks) ==
  [call : {call}, schedule : schedules, lower : OfStatic!Values, upper : OfStatic!Values,
   incr : Incrs, chunk : chunks, n : ns, m : ms]

AllCalls ==
  Calls("for", Parts, {1, 2, 3}, {1}, {1})
  \cup Calls("for", {"static_chunked"}, {2, 3}, {1}, {0, 2})
  \cup Calls("for", {"static_balanced_chunked"}, {2, 3}, {1}, {1, 2})
  \cup Calls("dist_for", Parts \cup {"static_chunked"}, {2}, {2}, {1})
  \cup Calls("team", {"static_chunked"}, {2}, {1}, {1, 2})

(* The generated code does not call for a loop without iterations in a      *)
(* distribute construct.  There is room in the type behind the last value   *)
(* for the increment or, if parts are rounded up, for the largest parts.    *)
Room(c) == IF c.schedule = "static_balanced" THEN OfStatic!Size(c.incr)
           ELSE OfStatic!Size(c.incr) * OfStatic!Pieces(c.chunk) * (c.n * c.m + 1)

Proper(c) ==
  /\ c.call # "for" => ~OfStatic!Before(c.upper, c.lower, c.incr)
  /\ OfStatic!Before(c.lower - c.incr, c.upper, c.incr) =>
       /\ c.upper + Room(c) <= OfStatic!MaxValue /\ c.upper - Room(c) >= OfStatic!MinValue

AllInputs == {c \in AllCalls : Proper(c)}

(* Loops at the end of the values.                                          *)
TopInputs == {c \in AllCalls : c.schedule = "static_greedy" /\ c.call = "for" /\ c.incr = 1}

-----------------------------------------------------------------------------
StaticOnly  == Team(2, <<>>)
AllPrograms == MCPrograms \cup {StaticOnly}

LoopsInit ==
  /\ Init
  /\ IF program = StaticOnly
     THEN Static!Init
     ELSE /\ input = CHOOSE c \in StaticInputs : TRUE
          /\ result = [t \in Static!Callers(input) |-> Static!NoResult]

LoopsNext ==
  \/ program # StaticOnly /\ Next /\ UNCHANGED <<input, result>>
  \/ program = StaticOnly /\ Static!Next /\ UNCHANGED vars

LoopsSpec ==
  /\ LoopsInit /\ [][LoopsNext]_<<vars, input, result>>
  /\ \A t \in 0..3 :
       WF_vars(~fault /\ t \in Tids /\ Step(t) /\ UNCHANGED <<input, result>>)

(***************************************************************************)
(* The threads of a static loop together execute every iteration once, and  *)
(* the one that is told so executes the last.                               *)
(***************************************************************************)
SharesAreExact == Static!EveryIterationOnce /\ Static!LastIsRight
=============================================================================
