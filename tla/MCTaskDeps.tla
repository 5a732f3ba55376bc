----------------------------- MODULE MCTaskDeps -----------------------------
EXTENDS TaskDeps

In(a)  == [addr |-> a, out |-> FALSE]
Out(a) == [addr |-> a, out |-> TRUE]

(* An address is read, an address is read and written twice in one clause,  *)
(* and a task depends through two addresses.                                *)
MCLists(x, y) == {<<In(x)>>, <<In(x), Out(x)>>, <<Out(x), In(y)>>}
MCAddrs    == {"x", "y"}
MCDepLists == MCLists("x", "y")
=============================================================================
