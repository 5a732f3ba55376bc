----------------------------- MODULE MCTargetMap -----------------------------
(***************************************************************************)
(* Programs for TargetMap, with the map entries of their clauses as the     *)
(* comments of translate_map have them: a variable x in cell 1, a structure *)
(* s with a number in cell 3 and a pointer in cell 4 to an array q in cells *)
(* 6 and 7, another pointer in cell 9 to cell 11, and one in cell 13 to a   *)
(* pointer in cell 15 to cell 17.                                           *)
(***************************************************************************)
EXTENDS TargetMap

MCThreads == {1, 2}
MCCells   == {1, 3, 4, 6, 7, 9, 11, 13, 15, 17}
MCPoints  == (4 :> 6) @@ (9 :> 11) @@ (13 :> 15) @@ (15 :> 17)

E(base, begin, size, type) == [base |-> base, begin |-> begin, size |-> size, type |-> type]

Both == {"TO", "FROM"}

X(type)       == <<E(1, 1, 1, type \cup {"PARAM"})>>
S(type)       == <<E(3, 3, 2, type \cup {"PARAM"})>>
SA(type)      == <<E(3, 3, 1, type \cup {"PARAM"})>>
SP(type)      == <<E(3, 4, 1, type \cup {"PARAM"}), E(4, 6, 2, type \cup {"PTR"})>>
SASP(type)    == <<E(3, 3, 1, type \cup {"PARAM"}), E(3, 4, 1, type), E(4, 6, 2, type \cup {"PTR"})>>
PP(type)      == <<E(13, 13, 1, type \cup {"PARAM"}), E(13, 15, 1, type \cup {"PTR"}),
                   E(15, 17, 1, type \cup {"PTR"})>>
R(type)       == <<E(9, 9, 1, type \cup {"PARAM"}), E(9, 11, 1, type \cup {"PTR"})>>

None(type)    == <<E(1, 1, 0, type \cup {"PARAM"})>>
FA            == <<E(3, 3, 1, {"TO", "PRIVATE", "PARAM"})>>

Acc(param, base, path, write) == [param |-> param, base |-> base, path |-> path, write |-> write]
AccX(n)   == {Acc(n, 1, <<1>>, TRUE)}
AccA(n)   == {Acc(n, 3, <<3>>, TRUE)}
AccQ(n)   == {Acc(n, 3, <<4, 6>>, TRUE), Acc(n, 3, <<4, 7>>, FALSE)}
AccR(n)   == {Acc(n, 9, <<9, 11>>, TRUE)}
AccPP(n)  == {Acc(n, 13, <<13, 15, 17>>, TRUE)}
ReadX(n)  == {Acc(n, 1, <<1>>, FALSE)}
ReadR(n)  == {Acc(n, 9, <<9, 11>>, FALSE)}
ReadQ(n)  == {Acc(n, 3, <<4, 6>>, FALSE), Acc(n, 3, <<4, 7>>, FALSE)}
ReadA(n)  == {Acc(n, 3, <<3>>, FALSE)}

Do(op, args)          == [op |-> op, args |-> args, accesses |-> {}, after |-> <<>>]
Region(args, acc)     == [op |-> "target", args |-> args, accesses |-> acc, after |-> <<>>]
OnHost(acc)           == [op |-> "host", args |-> <<>>, accesses |-> acc, after |-> <<>>]
When(c, t, k)         == [c EXCEPT !.after = (t :> k)]
Place(op, begin, size) == [op |-> op, begin |-> begin, size |-> size, accesses |-> {}, after |-> <<>>]

Alone(constructs, memory) == [threads |-> <<constructs, <<>>>>, memory |-> memory]

(* A region with everything, between accesses of the host.                  *)
Everything ==
  <<OnHost(AccX(1)), Region(X(Both) \o SASP(Both), AccX(1) \cup AccA(2) \cup AccQ(2)),
    OnHost(AccX(1) \cup AccQ(1) \cup AccA(1))>>

(* Nested data regions of a structure and of what its pointer points to.    *)
Nested ==
  <<Do("begin", S(Both)), Region(SP(Both), AccQ(1)),
    Region(SASP(Both), AccA(1) \cup AccQ(1)),
    Do("end", S(Both)), OnHost(AccQ(1) \cup AccA(1))>>

(* Updates of part of a structure, and of all of it with its pointer.       *)
Updates ==
  <<Do("begin", SASP(Both)), Region(SASP(Both), AccA(1) \cup AccQ(1)),
    Do("update", SA({"FROM"})), OnHost(AccA(1)), Do("update", SA({"TO"})),
    Region(SASP(Both), AccA(1)), Do("update", S(Both)),
    Region(SASP(Both), AccQ(1)), Do("end", SASP(Both)), OnHost(AccQ(1) \cup AccA(1))>>

(* Counts and modifiers: data entered twice, copied always, deleted.        *)
Modifiers ==
  <<Do("begin", X({})), Region(X(Both \cup {"ALWAYS"}), AccX(1)), OnHost(AccX(1)),
    Do("begin", X({"TO", "ALWAYS"})), Region(X({}), AccX(1)),
    Do("end", X({"FROM", "DELETE"})), OnHost(AccX(1)),
    Do("begin", X({"TO"})), Do("begin", X({})), Do("end", X({})),
    Region(X(Both), AccX(1)), Do("end", X({"FROM"})), OnHost(AccX(1))>>

(* Memory that the program has associated, and a pointer that it has asked  *)
(* for; sections of no length, and data that are there in part.             *)
Associated ==
  <<Place("associate", 1, 1), Do("update", X({"TO"})), Region(X(Both), AccX(1)),
    Do("update", X({"FROM"})), Place("disassociate", 1, 1), OnHost(AccX(1))>>

Returned ==
  <<Do("begin", X(Both \cup {"RETURN"})), Region(<<E(0, 1, 0, {"LITERAL", "PARAM"})>>, AccX(1)),
    Do("end", X(Both)), OnHost(AccX(1))>>

Partial ==
  <<Region(None(Both), {}), Do("begin", X(Both) \o SA(Both)), Region(None(Both), AccX(1)),
    Region(S(Both \cup {"IMPLICIT"}), AccA(1)),
    Do("end", X(Both)), Do("end", SA(Both)), OnHost(AccX(1) \cup AccA(1))>>

(* Firstprivate data.                                                       *)
Firstprivate ==
  <<OnHost(AccA(1)), Region(X(Both) \o FA, AccX(1) \cup ReadA(2)), OnHost(AccX(1))>>

(* Two threads that do not use the same data, in the same table; an outer   *)
(* data region of one of them has the structure of both.                    *)
OnesOwn ==
  [threads |-> <<<<Region(SASP(Both), AccA(1) \cup AccQ(1)), OnHost(AccQ(1))>>,
                 <<Region(R(Both), AccR(1)), OnHost(AccR(1))>>>>, memory |-> 9]

InOuter ==
  [threads |-> <<<<Do("begin", S(Both)), Region(SP(Both), AccQ(1)),
                   When(Do("end", S(Both)), 2, 1), OnHost(AccQ(1) \cup AccA(1))>>,
                 <<When(Region(SA(Both), AccA(1)), 1, 1)>>>>, memory |-> 9]

(* Two threads that only read the same data, and always copy them; behind a *)
(* pointer, while the structure that has it is mapped.                      *)
BothRead ==
  LET read == <<Region(X({"TO", "ALWAYS"}), ReadX(1)), Region(X({"TO", "ALWAYS"}), ReadX(1))>>
  IN  [threads |-> <<read, read>>, memory |-> 9]

BothFollow ==
  LET follow == Region(SP({"TO", "ALWAYS"}), ReadQ(1))
  IN  [threads |-> <<<<Do("begin", S({"TO"})), follow, When(Do("end", S({})), 2, 2)>>,
                     <<When(follow, 1, 1), follow>>>>, memory |-> 9]

MCPrograms ==
  {Alone(c, 9) : c \in {Everything, Nested, Updates, Modifiers, Associated, Returned, Partial,
                        Firstprivate}}
  \cup {Alone(Everything, m) : m \in 0..4} \cup {Alone(Firstprivate, m) : m \in 0..1}
  \cup {OnesOwn, InOuter, BothRead, BothFollow}

(* A pointer to a pointer: the pointer that is pointed to is counted for    *)
(* itself and for its own pointee, and given back once.                     *)
Chains == {Alone(<<Region(PP(Both), AccPP(1)), OnHost(AccPP(1))>>, 9)}

(* Data that two threads map at the same time: the second one does not wait *)
(* for the transfer of the first, and leaves a shadow behind.               *)
Simultaneous ==
  LET used(args, accesses) == <<Region(args, accesses), Region(args, accesses)>>
  IN  {[threads |-> <<c, c>>, memory |-> 9] :
         c \in {used(X({"TO"}), ReadX(1)), used(R({"TO", "ALWAYS"}), ReadR(1))}}
=============================================================================
