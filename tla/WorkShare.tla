----------------------------- MODULE WorkShare -----------------------------
(***************************************************************************)
(* What a sequence of worksharing loops promises to the threads of a team:  *)
(* every iteration is given to one thread, once; the thread that is the     *)
(* last to leave a loop leaves no iteration behind; and the ordered         *)
(* sections of a loop are executed one at a time, in the order of the       *)
(* iterations.  How the iterations are divided is left open.                *)
(***************************************************************************)
EXTENDS Integers, Sequences

CONSTANT Programs

VARIABLES
  program,                   \* the team size n and the loops
  left,                      \* the number of loops every thread has left
  ran,                       \* how often every iteration was given away
  section                    \* of every loop: the ordered section

vars == <<program, left, ran, section>>

Outside == -1

Loops         == DOMAIN program.loops
Tids          == 0..program.n-1
Iterations(l) == 0..program.loops[l].tc-1

Init ==
  /\ program \in Programs
  /\ left    = [t \in Tids |-> 0]
  /\ ran     = [l \in Loops |-> [i \in Iterations(l) |-> 0]]
  /\ section = [l \in Loops |-> [last |-> Outside, in |-> Outside]]

(* A thread may be in its next loop, but not beyond a barrier alone.        *)
In(t, l) ==
  /\ l = left[t] + 1
  /\ l > 1 /\ program.loops[l-1].barrier => \A u \in Tids : left[u] >= l - 1

(* Some iterations that nobody has are given to the thread.                 *)
Chunk(t, l) ==
  /\ In(t, l)
  /\ ran' # ran /\ ran' = [ran EXCEPT ![l] = ran'[l]]
  /\ \A i \in Iterations(l) : ran'[l][i] = ran[l][i] \/ (ran[l][i] = 0 /\ ran'[l][i] = 1)
  /\ UNCHANGED <<program, left, section>>

Leave(t, l) ==
  /\ In(t, l)
  /\ (\A u \in Tids \ {t} : left[u] >= l) => \A i \in Iterations(l) : ran[l][i] = 1
  /\ left' = [left EXCEPT ![t] = l]
  /\ UNCHANGED <<program, ran, section>>

BeginOrdered(l, i) ==
  /\ program.loops[l].ordered
  /\ section[l].in = Outside /\ section[l].last < i /\ ran[l][i] = 1
  /\ section' = [section EXCEPT ![l].in = i]
  /\ UNCHANGED <<program, left, ran>>

EndOrdered(l) ==
  /\ section[l].in # Outside
  /\ section' = [section EXCEPT ![l] = [last |-> @.in, in |-> Outside]]
  /\ UNCHANGED <<program, left, ran>>

Next ==
  \E l \in Loops :
    \/ EndOrdered(l)
    \/ \E i \in Iterations(l) : BeginOrdered(l, i)
    \/ \E t \in Tids : Chunk(t, l) \/ Leave(t, l)

Spec == Init /\ [][Next]_vars
=============================================================================
