------------------------------ MODULE OneMemory ------------------------------
(***************************************************************************)
(* What offloading promises a program that maps its variables: every thread *)
(* goes through its regions, on the host or on the device, as if there were *)
(* one memory.  A region sees the values of the variables it reads as they  *)
(* are, and writes the next values of those it writes.                      *)
(***************************************************************************)
EXTENDS Naturals, Sequences

CONSTANTS Threads, Cells

VARIABLES
  regions,                   \* of each thread, in order: what is read and written
  ran,                       \* how many of its regions each thread has run
  value,                     \* how often every variable has been written
  seen                       \* what the latest region of each thread has read

vars == <<regions, ran, value, seen>>

Init ==
  /\ ran   = [t \in Threads |-> 0]
  /\ value = [c \in Cells |-> 0]
  /\ seen  = [t \in Threads |-> <<>>]

Region(t) ==
  LET r == regions[t][ran[t] + 1]
  IN  /\ ran[t] < Len(regions[t])
      /\ ran'   = [ran EXCEPT ![t] = @ + 1]
      /\ value' = [c \in Cells |-> IF c \in r.writes THEN value[c] + 1 ELSE value[c]]
      /\ seen'  = [seen EXCEPT ![t] = [c \in r.reads |-> value[c]]]
      /\ UNCHANGED regions

Next == \E t \in Threads : Region(t)

Spec == Init /\ [][Next]_vars
=============================================================================
