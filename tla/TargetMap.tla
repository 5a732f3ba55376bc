------------------------------ MODULE TargetMap ------------------------------
(***************************************************************************)
(* The data environments of a device in libomptarget/src/omptarget.cpp: the *)
(* translation of the compiler's map entries, the table of host data that   *)
(* are mapped to the device with its reference counts, the transfers when a *)
(* construct begins, ends or updates, the shadow copies of pointers, and    *)
(* target regions, which the host runs when the device has failed.          *)
(*                                                                          *)
(* A host address is the number of a cell; a cell has room for a pointer.   *)
(* An address <<0, a>> is the host's, or NULL; <<b, o>> is at offset o of   *)
(* the device's block b.  The value of a cell of data is the number of      *)
(* times it has been written.  Each access to the table is one step, under  *)
(* DataMapMtx, and so are each transfer and each use of the shadow map.     *)
(***************************************************************************)
EXTENDS Integers, Sequences, FiniteSets, SequencesExt

CONSTANTS
  Threads,
  Cells,
  Points,                    \* the pointer cells, and where they point to
  Programs                   \* constructs of each thread, and the device's memory

VARIABLES
  program,
  table,                     \* HostDataToTargetMap, the latest entry first
  shadow,                    \* ShadowPtrMap, by the address of the pointer
  dev, allocs,               \* the blocks of the device; how many there were
  host,                      \* the host's memory
  local,                     \* where every thread is
  crashed,
  ran, seen                  \* the regions run, and what the latest has read

vars == <<program, table, shadow, dev, allocs, host, local, crashed, ran, seen>>

NoAddress == <<0, 0>>
Undefined == -1
INF_REF_CNT == 100
ConsideredInf(n) == n > INF_REF_CNT \div 2

At(addr, n) == <<addr[1], addr[2] + n>>
IsPtr(c)    == c \in DOMAIN Points

-----------------------------------------------------------------------------
(* The translation of map entries.  An entry of the compiler has a base, a  *)
(* beginning, a size and a type.  One that has its base in common with an   *)
(* earlier one, or is a pointee of one, becomes a member of a combined      *)
(* entry, that is inserted before the first of them.                        *)

IsMapPtr(e) == "PTR" \in e.type
Span(e)    == IF IsMapPtr(e) THEN <<e.base, e.base + e.size>> ELSE <<e.begin, e.begin + e.size>>
(* As the later entry of the two: a pointee brings the pointer.             *)
Brings(e)   == IF IsMapPtr(e) THEN <<e.base, e.base + 1>> ELSE <<e.begin, e.begin + e.size>>

Combines(e, d) ==
  IF IsMapPtr(e) THEN e.base = d.begin /\ ~IsMapPtr(d)
  ELSE "PARAM" \notin e.type /\ e.base = d.base

(* The earlier entry that an entry is combined with, or 0.                  *)
Partners(args) ==
  [i \in DOMAIN args |->
     LET found == {j \in 1..i-1 : Combines(args[i], args[j])}
     IN  IF found = {} THEN 0 ELSE Min(found)]

Heads(args, partner) ==
  LET head[i \in DOMAIN args] == IF partner[i] = 0 THEN i ELSE head[partner[i]]
  IN  head

(* The entries that others were combined with, in the order in which it     *)
(* happened, which is that of the combined entries.                         *)
Combined(args, partner, head) ==
  LET joined(h) == Min({i \in DOMAIN args : partner[i] # 0 /\ head[i] = h})
  IN  SetToSortSeq({head[i] : i \in {j \in DOMAIN args : partner[j] # 0}},
                   LAMBDA h, k : joined(h) < joined(k))

(* A pointer that is a pointee of another one is not transferred, nor is    *)
(* one whose pointee is mapped.                                             *)
Modified(args, partner, i) ==
  LET behind == {j \in i+1..Len(args) : IsMapPtr(args[j]) /\ args[j].base = args[i].begin}
  IN  IF IsMapPtr(args[i])
      THEN IF \E j \in behind : partner[j] = 0 \/ i < partner[j]
           THEN args[i].type \ {"TO", "FROM", "ALWAYS", "DELETE"} ELSE args[i].type
      ELSE IF \E j \in behind : partner[j] = i
           THEN args[i].type \ {"TO", "FROM"} ELSE args[i].type

CombinedEntry(args, head, h) ==
  LET members == {i \in DOMAIN args : head[i] = h}
      of(i)   == IF i = h THEN Span(args[i]) ELSE Brings(args[i])
      first   == Min({of(i)[1] : i \in members})
  IN  [base |-> args[h].base, begin |-> first,
       size |-> Max({of(i)[2] : i \in members}) - first, type |-> {"PARAM"}, parent |-> 0]

Translate(args, isTarget) ==
  LET partner  == Partners(args)
      head     == Heads(args, partner)
      combined == Combined(args, partner, head)
      member   == [i \in DOMAIN args |->
                     IF head[i] \in ToSet(combined)
                     THEN CHOOSE c \in DOMAIN combined : combined[c] = head[i] ELSE 0]
      Add(acc, i) ==
        LET opens == member[i] = Len(acc.new) + 1
            ids   == IF opens THEN Append(acc.new, Len(acc.args) + 1) ELSE acc.new
            type  == Modified(args, partner, i)
            old   == [base |-> args[i].base, begin |-> args[i].begin, size |-> args[i].size,
                      type |-> IF member[i] = 0 /\ isTarget THEN type ELSE type \ {"PARAM"},
                      parent |-> IF member[i] = 0 THEN 0 ELSE ids[member[i]]]
        IN  [new |-> ids,
             args |-> acc.args \o (IF opens THEN <<CombinedEntry(args, head, head[i])>> ELSE <<>>)
                               \o <<old>>]
  IN  FoldLeft(Add, [new |-> <<>>, args |-> <<>>], [i \in DOMAIN args |-> i]).args

-----------------------------------------------------------------------------
(* The table.                                                               *)

IsContained(e, h, n)   == h >= e.lo /\ h < e.hi /\ h + n <= e.hi
ExtendsBefore(e, h, n) == h < e.lo /\ h + n > e.lo
ExtendsAfter(e, h, n)  == h < e.hi /\ h + n > e.hi

(* lookupMapping: the place of the first entry that data have a part in.    *)
Lookup(h, n) ==
  SelectInSeq(table, LAMBDA e : IsContained(e, h, n) \/ ExtendsBefore(e, h, n)
                                                     \/ ExtendsAfter(e, h, n))

Target(h, n) ==
  LET i == Lookup(h, n)
  IN  IF i = 0 THEN NoAddress ELSE At(table[i].tgt, h - table[i].lo)

RefCount(h) ==
  LET i == SelectInSeq(table, LAMBDA e : h >= e.lo /\ h < e.hi)
  IN  IF i = 0 THEN -1 ELSE table[i].ref

(* The device's memory.                                                     *)
Holds(b, o, n) == b \in DOMAIN dev /\ o >= 0 /\ o + n <= Len(dev[b])
IsLive(addr, n) == Holds(addr[1], addr[2], n)
Get(addr)      == IF IsLive(addr, 1) THEN dev[addr[1]][addr[2] + 1] ELSE NoAddress
HasRoom(n)     == n + MapThenSumSet(LAMBDA b : Len(dev[b]), DOMAIN dev) <= program.memory

(* What a block holds before anything is copied to it.                      *)
Fresh(h, n) == [o \in 1..n |-> IF IsPtr(h + o - 1) THEN NoAddress ELSE Undefined]

(* data_alloc for host data at h, as the next block or as NULL; after it    *)
(* the address is Allocated.                                                *)
Allocate(h, n) ==
  IF n > 0 /\ HasRoom(n)
  THEN dev' = dev @@ (allocs + 1 :> Fresh(h, n)) /\ allocs' = allocs + 1
  ELSE UNCHANGED <<dev, allocs>>
Allocated(n) == IF n > 0 /\ HasRoom(n) THEN <<allocs + 1, 0>> ELSE NoAddress

With(block, o, values) ==
  [p \in DOMAIN block |-> IF p - o \in DOMAIN values THEN values[p - o] ELSE block[p]]

(* data_submit: nothing is copied to memory that is not the device's.       *)
Submit(addr, values) ==
  dev' = IF values # <<>> /\ IsLive(addr, Len(values))
         THEN [dev EXCEPT ![addr[1]] = With(@, addr[2], values)] ELSE dev

Submitted(addr, n) == n = 0 \/ IsLive(addr, n)

HostData(h, n) == [o \in 1..n |-> host[h + o - 1]]

Delete(addrs) == dev' = Restrict(dev, DOMAIN dev \ {addr[1] : addr \in addrs})

-----------------------------------------------------------------------------
(* A thread in its constructs.  Entries of private variables and literals   *)
(* are not mapped; the others are gone through upwards when a construct     *)
(* begins and downwards when it ends.                                       *)

Construct(t) == program.threads[t][local[t].k]
Arg(t)       == local[t].args[local[t].i]
Has(e, flag) == flag \in e.type

Mapped(args) == {i \in DOMAIN args : ~Has(args[i], "LITERAL") /\ ~Has(args[i], "PRIVATE")}
Params(args) == {i \in DOMAIN args : Has(args[i], "PARAM")}
After(S, i)  == {j \in S : j > i}
Before(S, i) == {j \in S : j < i}

Idle == [k |-> 1, pc |-> "start", op |-> "none", args |-> <<>>, i |-> 0, tgt |-> NoAddress,
         ptgt |-> NoAddress, pbase |-> NoAddress, new |-> FALSE, ok |-> TRUE,
         refused |-> FALSE, params |-> <<>>, private |-> {}, returned |-> <<>>]

Finish(l) == [Idle EXCEPT !.k = l.k + 1, !.returned = l.returned]

(* cleanup_map: the bases, which may have been replaced by those on the     *)
(* device, are given back to the program from the end of the list.          *)
Cleanup(l, n) ==
  [l EXCEPT !.returned = [j \in 1..n |-> l.args[j + Len(l.args) - n].base]]

ToEnd(l, i) ==
  LET rest == Before(Mapped(l.args), i)
  IN  IF rest # {} THEN [l EXCEPT !.pc = "end", !.i = Max(rest)]
      ELSE IF l.op = "end" \/ l.ok THEN Finish(l) ELSE [l EXCEPT !.pc = "fallback"]

ToParam(l, i) ==
  LET rest == After(Params(l.args), i)
  IN  IF rest # {} THEN [l EXCEPT !.pc = "param", !.i = Min(rest)] ELSE [l EXCEPT !.pc = "run"]

ToBegin(t, l, i) ==
  LET rest == After(Mapped(l.args), i)
  IN  IF rest # {} THEN [l EXCEPT !.pc = "begin", !.i = Min(rest), !.tgt = NoAddress]
      ELSE IF l.op = "begin" THEN Finish(Cleanup(l, Len(Construct(t).args)))
      ELSE IF l.ok THEN ToParam(l, 0)
      ELSE ToEnd(l, Len(l.args) + 1)

ToUpdate(l, i) ==
  LET rest == After(Mapped(l.args), i)
  IN  IF rest # {} THEN [l EXCEPT !.pc = "update", !.i = Min(rest)] ELSE Finish(l)

Goto(t, l) == local' = [local EXCEPT ![t] = l]
Step(t, pc) == ~crashed /\ local[t].pc = pc

Device  == <<dev, allocs>>
Regions == <<ran, seen>>

-----------------------------------------------------------------------------
(* Regions.                                                                 *)

Variable(a) == Last(a.path)
Reads(c)    == {Variable(a) : a \in c.accesses}
Writes(c)   == {Variable(a) : a \in {b \in c.accesses : b.write}}

(* On the host a path leads to its variable if its pointers are the host's. *)
Reaches(path) == \A j \in 1..Len(path)-1 : host[path[j]] = <<0, Points[path[j]]>>
Reached(c)    == {Variable(a) : a \in {b \in c.accesses : Reaches(b.path)}}

RunOnHost(t, c) ==
  /\ host' = [x \in Cells |-> IF x \in Writes(c) \cap Reached(c) THEN host[x] + 1 ELSE host[x]]
  /\ seen' = [seen EXCEPT ![t] =
                [x \in Reads(c) |-> IF x \in Reached(c) THEN host[x] ELSE Undefined]]
  /\ ran'  = [ran EXCEPT ![t] = @ + 1]

(* In the region the compiler adds to the base that it is given, and to     *)
(* pointers that it loads, what it would add on the host.                   *)
Location(params, a) ==
  FoldLeft(LAMBDA loc, j : At(Get(loc), a.path[j + 1] - Points[a.path[j]]),
           At(params[a.param], a.path[1] - a.base), [j \in 1..Len(a.path)-1 |-> j])

Runs(params, c) == \A a \in c.accesses : IsLive(Location(params, a), 1)

RunOnDevice(t, params, c) ==
  LET written == {Location(params, a) : a \in {b \in c.accesses : b.write}}
  IN  /\ dev'  = [b \in DOMAIN dev |->
                    [p \in DOMAIN dev[b] |-> IF <<b, p - 1>> \in written THEN dev[b][p] + 1
                                             ELSE dev[b][p]]]
      /\ seen' = [seen EXCEPT ![t] =
                    [x \in Reads(c) |->
                       Get(Location(params, CHOOSE a \in c.accesses : Variable(a) = x))]]
      /\ ran'  = [ran EXCEPT ![t] = @ + 1]

-----------------------------------------------------------------------------
(* The first steps of constructs.  A construct may have to wait for some of *)
(* other threads, as the program has it.                                    *)

Begins(t, ops) ==
  /\ Step(t, "start") /\ local[t].k <= Len(program.threads[t])
  /\ Construct(t).op \in ops
  /\ \A u \in DOMAIN Construct(t).after : local[u].k > Construct(t).after[u]

(* What use_device_ptr has returned is the base of an entry.                *)
Given(t, args) ==
  [i \in DOMAIN args |->
     IF Has(args[i], "LITERAL") THEN [args[i] EXCEPT !.base = local[t].returned[args[i].begin]]
     ELSE args[i]]

HostRegion(t) ==
  /\ Begins(t, {"host"}) /\ RunOnHost(t, Construct(t))
  /\ Goto(t, Finish(local[t]))
  /\ UNCHANGED <<program, table, shadow, Device, crashed>>

Enter(t) ==
  /\ Begins(t, {"begin", "end", "target"})
  /\ LET op   == Construct(t).op
         args == Translate(Given(t, Construct(t).args), op = "target")
         l    == [local[t] EXCEPT !.op = op, !.args = args]
     IN  Goto(t, IF op = "end" THEN ToEnd(l, Len(args) + 1) ELSE ToBegin(t, l, 0))
  /\ UNCHANGED <<program, table, shadow, Device, host, crashed, Regions>>

EnterUpdate(t) ==
  /\ Begins(t, {"update"})
  /\ Goto(t, ToUpdate([local[t] EXCEPT !.op = "update", !.args = Construct(t).args], 0))
  /\ UNCHANGED <<program, table, shadow, Device, host, crashed, Regions>>

(* omp_target_associate_ptr, with memory that the program has allocated on  *)
(* the device, and omp_target_disassociate_ptr before it is freed.          *)
Associate(t) ==
  /\ Begins(t, {"associate"})
  /\ LET c == Construct(t)
     IN  /\ Allocate(c.begin, c.size)
         /\ table' = IF \E i \in DOMAIN table : table[i].lo = c.begin THEN table
                     ELSE <<[lo |-> c.begin, hi |-> c.begin + c.size,
                             tgt |-> Allocated(c.size), ref |-> INF_REF_CNT]>> \o table
  /\ Goto(t, Finish(local[t]))
  /\ UNCHANGED <<program, shadow, host, crashed, Regions>>

Disassociate(t) ==
  /\ Begins(t, {"disassociate"})
  /\ LET i == SelectInSeq(table, LAMBDA e : e.lo = Construct(t).begin)
     IN  IF i # 0 /\ ConsideredInf(table[i].ref)
         THEN table' = RemoveAt(table, i) /\ Delete({table[i].tgt})
         ELSE UNCHANGED <<table, dev>>
  /\ Goto(t, Finish(local[t]))
  /\ UNCHANGED <<program, shadow, allocs, host, crashed, Regions>>

-----------------------------------------------------------------------------
(* target_data_begin.                                                       *)

(* getOrAllocTgtPtr, and what it returns: the address, and whether the      *)
(* entry is new.  One that would extend another is refused; then whether it *)
(* is new is not told.                                                      *)
Fits(h, n, implicit) ==
  LET i == Lookup(h, n) IN i # 0 /\ (IsContained(table[i], h, n) \/ implicit)

Refuses(h, n) == Lookup(h, n) # 0 \/ n = 0

GetOrAlloc(h, n, implicit, update) ==
  IF Fits(h, n, implicit)
  THEN /\ table' = IF update THEN [table EXCEPT ![Lookup(h, n)].ref = @ + 1] ELSE table
       /\ UNCHANGED Device
  ELSE IF Refuses(h, n) THEN UNCHANGED <<table, Device>>
  ELSE /\ Allocate(h, n)
       /\ table' = <<[lo |-> h, hi |-> h + n, tgt |-> Allocated(n), ref |-> 1]>> \o table

Gotten(h, n, implicit) ==
  IF Fits(h, n, implicit) THEN {[addr |-> Target(h, n), new |-> FALSE]}
  ELSE IF Refuses(h, n) THEN [addr : {NoAddress}, new : BOOLEAN]
  ELSE {[addr |-> Allocated(n), new |-> TRUE]}

(* The pointer of an entry with pointer and object.                         *)
BeginPointer(t) ==
  /\ Step(t, "begin") /\ Has(Arg(t), "PTR")
  /\ LET e == Arg(t)
     IN  /\ GetOrAlloc(e.base, 1, Has(e, "IMPLICIT"), e.parent = 0)
         /\ \E got \in Gotten(e.base, 1, Has(e, "IMPLICIT")) :
              Goto(t, [local[t] EXCEPT !.pc = "object", !.ptgt = got.addr, !.pbase = host[e.base],
                                       !.refused = @ \/ got.addr = NoAddress])
  /\ UNCHANGED <<program, shadow, host, crashed, Regions>>

Attached(t, l) == IF Has(Arg(t), "PTR") THEN [l EXCEPT !.pc = "attach"] ELSE ToBegin(t, l, l.i)

(* The data: they are copied if they are new here, always, or if they are   *)
(* part of a structure that is.                                             *)
BeginObject(t) ==
  /\ \/ Step(t, "object")
     \/ Step(t, "begin") /\ ~Has(Arg(t), "PTR")
  /\ LET e == Arg(t)
     IN  /\ GetOrAlloc(e.begin, e.size, Has(e, "IMPLICIT"), e.parent = 0 \/ Has(e, "PTR"))
         /\ \E got \in Gotten(e.begin, e.size, Has(e, "IMPLICIT")) :
              LET ret == IF Has(e, "PTR") THEN local[t].ptgt ELSE got.addr
                  l   == [local[t] EXCEPT
                           !.tgt = got.addr,
                           !.refused = @ \/ (got.addr = NoAddress /\ e.size > 0),
                           !.args[local[t].i].base = IF Has(e, "RETURN") THEN ret ELSE @]
              IN  Goto(t, IF ~Has(e, "TO") THEN Attached(t, l)
                          ELSE IF got.new \/ Has(e, "ALWAYS") THEN [l EXCEPT !.pc = "submit"]
                          ELSE IF e.parent # 0 THEN [l EXCEPT !.pc = "parent"]
                          ELSE Attached(t, l))
  /\ UNCHANGED <<program, shadow, host, crashed, Regions>>

BeginParent(t) ==
  /\ Step(t, "parent")
  /\ Goto(t, IF RefCount(local[t].args[Arg(t).parent].begin) = 1
             THEN [local[t] EXCEPT !.pc = "submit"] ELSE Attached(t, local[t]))
  /\ UNCHANGED <<program, table, shadow, Device, host, crashed, Regions>>

BeginSubmit(t) ==
  /\ Step(t, "submit")
  /\ LET e == Arg(t)
     IN  /\ Submit(local[t].tgt, HostData(e.begin, e.size))
         /\ Goto(t, Attached(t, [local[t] EXCEPT !.ok = @ /\ Submitted(local[t].tgt, e.size)]))
  /\ UNCHANGED <<program, table, shadow, allocs, host, crashed, Regions>>

(* The pointer on the device, to what would be at its base there.           *)
Base(t) == At(local[t].tgt, local[t].pbase[2] - Arg(t).begin)

BeginAttach(t) ==
  /\ Step(t, "attach")
  /\ Submit(local[t].ptgt, <<Base(t)>>)
  /\ Goto(t, [local[t] EXCEPT !.pc = "shadow", !.ok = @ /\ Submitted(local[t].ptgt, 1)])
  /\ UNCHANGED <<program, table, shadow, allocs, host, crashed, Regions>>

BeginShadow(t) ==
  /\ Step(t, "shadow")
  /\ LET new == [host |-> local[t].pbase, at |-> local[t].ptgt, target |-> Base(t)]
     IN  shadow' = (Arg(t).base :> new) @@ shadow
  /\ Goto(t, ToBegin(t, local[t], local[t].i))
  /\ UNCHANGED <<program, table, Device, host, crashed, Regions>>

-----------------------------------------------------------------------------
(* target: the parameters of the region, the region, and its private data.  *)

Push(t, addr, l) == ToParam([l EXCEPT !.params = Append(@, addr)], l.i)

Parameter(t) ==
  /\ Step(t, "param") /\ ~Has(Arg(t), "PRIVATE")
  /\ LET e == Arg(t)
         addr == IF Has(e, "LITERAL") THEN e.base
                 ELSE IF Has(e, "PTR") THEN Target(e.base, 1)
                 ELSE At(Target(e.begin, e.size), e.base - e.begin)
     IN  Goto(t, Push(t, addr, local[t]))
  /\ UNCHANGED <<program, table, shadow, Device, host, crashed, Regions>>

(* Private data, that are copied in if they are firstprivate.  Without      *)
(* memory for them there is no region.                                      *)
PrivateParameter(t) ==
  /\ Step(t, "param") /\ Has(Arg(t), "PRIVATE")
  /\ LET e    == Arg(t)
         addr == Allocated(e.size)
         l    == [local[t] EXCEPT !.private = @ \cup {addr}]
     IN  IF addr = NoAddress
         THEN /\ Goto(t, [local[t] EXCEPT !.pc = "run", !.ok = FALSE, !.refused = TRUE])
              /\ UNCHANGED Device
         ELSE /\ dev' = dev @@ (addr[1] :> IF Has(e, "TO") THEN HostData(e.begin, e.size)
                                           ELSE Fresh(e.begin, e.size))
              /\ allocs' = allocs + 1
              /\ Goto(t, Push(t, At(addr, e.base - e.begin), l))
  /\ UNCHANGED <<program, table, shadow, host, crashed, Regions>>

Run(t) ==
  /\ Step(t, "run")
  /\ LET l == local[t]
         c == Construct(t)
         runs == l.ok /\ Runs(l.params, c)
     IN  /\ IF runs THEN RunOnDevice(t, l.params, c) ELSE UNCHANGED <<dev, Regions>>
         /\ Goto(t, [l EXCEPT !.pc = "free", !.ok = runs])
  /\ UNCHANGED <<program, table, shadow, allocs, host, crashed>>

FreePrivate(t) ==
  /\ Step(t, "free")
  /\ Delete(local[t].private)
  /\ Goto(t, ToEnd([local[t] EXCEPT !.private = {}], Len(local[t].args) + 1))
  /\ UNCHANGED <<program, table, shadow, allocs, host, crashed, Regions>>

(* The compiler's code runs the region on the host if target has failed.    *)
FallBack(t) ==
  /\ Step(t, "fallback") /\ RunOnHost(t, Construct(t))
  /\ Goto(t, Finish(local[t]))
  /\ UNCHANGED <<program, table, shadow, Device, crashed>>

-----------------------------------------------------------------------------
(* target_data_end.                                                         *)

IsMember(e)    == e.parent # 0 /\ ~Has(e, "PTR")
Deletes(e, last) == ~IsMember(e) /\ (last \/ Has(e, "DELETE"))

(* getTgtPtrBegin: a count of 1 is left to deallocTgtPtr.  Members of a     *)
(* structure do not take part in its count.                                 *)
EndGet(t) ==
  /\ Step(t, "end")
  /\ LET e    == Arg(t)
         i    == Lookup(e.begin, e.size)
         last == i # 0 /\ ~(table[i].ref > 1)
         l    == [local[t] EXCEPT !.tgt = Target(e.begin, e.size), !.new = last]
     IN  /\ table' = IF i # 0 /\ table[i].ref > 1 /\ ~IsMember(e)
                     THEN [table EXCEPT ![i].ref = @ - 1] ELSE table
         /\ Goto(t, IF Has(e, "FROM")
                    THEN IF Deletes(e, last) \/ Has(e, "ALWAYS") THEN [l EXCEPT !.pc = "retrieve"]
                         ELSE [l EXCEPT !.pc = IF IsMember(e) THEN "end_parent" ELSE "restore"]
                    ELSE IF Deletes(e, last) THEN [l EXCEPT !.pc = "restore"]
                    ELSE ToEnd(l, l.i))
  /\ UNCHANGED <<program, shadow, Device, host, crashed, Regions>>

EndParent(t) ==
  /\ Step(t, "end_parent")
  /\ Goto(t, [local[t] EXCEPT
               !.pc = IF RefCount(local[t].args[Arg(t).parent].begin) = 1
                      THEN "retrieve" ELSE "restore"])
  /\ UNCHANGED <<program, table, shadow, Device, host, crashed, Regions>>

(* data_retrieve.                                                           *)
Retrieved(addr, h, n) ==
  [x \in DOMAIN host |-> IF x \in h..h+n-1 /\ IsLive(addr, n) THEN Get(At(addr, x - h)) ELSE host[x]]

EndRetrieve(t) ==
  /\ Step(t, "retrieve")
  /\ LET e == Arg(t)
     IN  /\ host' = Retrieved(local[t].tgt, e.begin, e.size)
         /\ Goto(t, [local[t] EXCEPT !.pc = "restore",
                                     !.ok = @ /\ Submitted(local[t].tgt, e.size)])
  /\ UNCHANGED <<program, table, shadow, Device, crashed, Regions>>

(* A slip: the search ends one cell too early.                              *)
ShadowsOffByOne(e) == {p \in DOMAIN shadow : p \in e.begin..e.begin+e.size-2}

Shadows(e) == {p \in DOMAIN shadow : p \in e.begin..e.begin+e.size-1}

Restored(e) == [x \in DOMAIN host |-> IF x \in Shadows(e) THEN shadow[x].host ELSE host[x]]

(* Pointers of the program that were copied back are set right.  The loop   *)
(* steps on from an iterator that it has erased: it finds the next one, as  *)
(* the memory is still as it was, or it does not.                           *)
EndRestore(t) ==
  /\ Step(t, "restore")
  /\ LET e == Arg(t)
         deletes == Deletes(e, local[t].new)
     IN  /\ host' = IF Has(e, "FROM") THEN Restored(e) ELSE host
         /\ shadow' = IF deletes THEN Restrict(shadow, DOMAIN shadow \ Shadows(e)) ELSE shadow
         /\ crashed' \in IF deletes /\ Shadows(e) # {} THEN BOOLEAN ELSE {FALSE}
         /\ Goto(t, IF deletes THEN [local[t] EXCEPT !.pc = "dealloc"]
                    ELSE ToEnd(local[t], local[t].i))
  /\ UNCHANGED <<program, table, Device, Regions>>

(* A slip: what getTgtPtrBegin has said is not looked at again.             *)
EndDeallocAtOnce(t) ==
  /\ Step(t, "dealloc")
  /\ LET e == Arg(t)
         i == Lookup(e.begin, e.size)
     IN  /\ IF i = 0 THEN UNCHANGED <<table, dev>>
            ELSE table' = RemoveAt(table, i) /\ Delete({table[i].tgt})
         /\ Goto(t, ToEnd([local[t] EXCEPT !.ok = @ /\ i # 0], local[t].i))
  /\ UNCHANGED <<program, shadow, allocs, host, crashed, Regions>>

(* deallocTgtPtr: by now another thread may have taken the entry.           *)
EndDealloc(t) ==
  /\ Step(t, "dealloc")
  /\ LET e == Arg(t)
         i == Lookup(e.begin, e.size)
         left == (IF Has(e, "DELETE") THEN 1 ELSE table[i].ref) - 1
     IN  /\ IF i = 0 THEN UNCHANGED <<table, dev>>
            ELSE IF left <= 0 THEN table' = RemoveAt(table, i) /\ Delete({table[i].tgt})
            ELSE table' = [table EXCEPT ![i].ref = left] /\ UNCHANGED dev
         /\ Goto(t, ToEnd([local[t] EXCEPT !.ok = @ /\ i # 0], local[t].i))
  /\ UNCHANGED <<program, shadow, allocs, host, crashed, Regions>>

-----------------------------------------------------------------------------
(* __tgt_target_data_update.                                                *)

UpdateGet(t) ==
  /\ Step(t, "update")
  /\ LET e == Arg(t)
         l == [local[t] EXCEPT !.tgt = Target(e.begin, e.size)]
     IN  Goto(t, [l EXCEPT !.pc = IF Has(e, "FROM") THEN "from" ELSE "to"])
  /\ UNCHANGED <<program, table, shadow, Device, host, crashed, Regions>>

UpdateFrom(t) ==
  /\ Step(t, "from")
  /\ LET e == Arg(t)
     IN  host' = Retrieved(local[t].tgt, e.begin, e.size)
  /\ Goto(t, [local[t] EXCEPT !.pc = "from_restore"])
  /\ UNCHANGED <<program, table, shadow, Device, crashed, Regions>>

UpdateFromRestore(t) ==
  /\ Step(t, "from_restore")
  /\ host' = Restored(Arg(t))
  /\ Goto(t, [local[t] EXCEPT !.pc = "to"])
  /\ UNCHANGED <<program, table, shadow, Device, crashed, Regions>>

UpdateTo(t) ==
  /\ Step(t, "to")
  /\ LET e == Arg(t)
     IN  IF Has(e, "TO")
         THEN /\ Submit(local[t].tgt, HostData(e.begin, e.size))
              /\ Goto(t, [local[t] EXCEPT !.pc = "to_restore"])
         ELSE Goto(t, ToUpdate(local[t], local[t].i)) /\ UNCHANGED dev
  /\ UNCHANGED <<program, table, shadow, allocs, host, crashed, Regions>>

UpdateToRestore(t) ==
  /\ Step(t, "to_restore")
  /\ dev' = [b \in DOMAIN dev |->
              [p \in DOMAIN dev[b] |->
                 IF \E x \in Shadows(Arg(t)) : shadow[x].at = <<b, p - 1>>
                 THEN (CHOOSE s \in {shadow[x] : x \in Shadows(Arg(t))} : s.at = <<b, p - 1>>).target
                 ELSE dev[b][p]]]
  /\ Goto(t, ToUpdate(local[t], local[t].i))
  /\ UNCHANGED <<program, table, shadow, allocs, host, crashed, Regions>>

-----------------------------------------------------------------------------
Init ==
  /\ program \in Programs
  /\ table = <<>> /\ shadow = <<>> /\ dev = <<>> /\ allocs = 0
  /\ host = [x \in Cells |-> IF IsPtr(x) THEN <<0, Points[x]>> ELSE 0]
  /\ local = [t \in Threads |-> Idle]
  /\ crashed = FALSE
  /\ ran = [t \in Threads |-> 0] /\ seen = [t \in Threads |-> <<>>]

Begin(t) == \/ BeginPointer(t) \/ BeginObject(t) \/ BeginParent(t)
            \/ BeginSubmit(t) \/ BeginAttach(t) \/ BeginShadow(t)
TargetRegion(t) == \/ Parameter(t) \/ PrivateParameter(t) \/ Run(t)
                   \/ FreePrivate(t) \/ FallBack(t)
End(t) == EndGet(t) \/ EndParent(t) \/ EndRetrieve(t) \/ EndRestore(t) \/ EndDealloc(t)
Update(t) == \/ UpdateGet(t) \/ UpdateFrom(t) \/ UpdateFromRestore(t)
             \/ UpdateTo(t) \/ UpdateToRestore(t)

Next ==
  \E t \in Threads :
    \/ HostRegion(t) \/ Enter(t) \/ EnterUpdate(t) \/ Associate(t) \/ Disassociate(t)
    \/ Begin(t) \/ TargetRegion(t) \/ End(t) \/ Update(t)

Spec == Init /\ [][Next]_vars

-----------------------------------------------------------------------------
(***************************************************************************)
(* Offloading is transparent: a program that maps what it uses finds in its *)
(* regions, on the device or on the host, what it would in one memory, with *)
(* structures, pointers, nested data regions, updates, and other threads'   *)
(* data in the same tables; and when the device has no room for a region,   *)
(* the host runs it as if nothing had happened.                             *)
(***************************************************************************)
Data == {x \in Cells : ~IsPtr(x)}

Copies(x) ==
  {Get(At(table[i].tgt, x - table[i].lo)) :
     i \in {j \in DOMAIN table : x \in table[j].lo..table[j].hi-1
                               /\ IsLive(At(table[j].tgt, x - table[j].lo), 1)}}

RegionsOf(t) ==
  LET mine == SelectSeq(program.threads[t], LAMBDA c : c.op \in {"target", "host"})
  IN  [k \in DOMAIN mine |-> [reads |-> Reads(mine[k]), writes |-> Writes(mine[k])]]

One == INSTANCE OneMemory WITH
         Cells   <- Data,
         regions <- [t \in Threads |-> RegionsOf(t)],
         value   <- [x \in Data |-> Max({host[x]} \cup Copies(x))]

ImplementsOneMemory == One!Spec

(***************************************************************************)
(* Unless the device has refused memory to the construct at hand, whatever  *)
(* it transfers or runs is in memory that is still the device's: counts are *)
(* never too low.                                                           *)
(***************************************************************************)
HeldWhileUsed ==
  \A t \in Threads :
    LET l == local[t] IN
    ~l.refused =>
      /\ l.pc \in {"submit", "attach", "retrieve", "from", "to", "dealloc"} =>
           Submitted(l.tgt, Arg(t).size)
      /\ l.pc = "attach" => Submitted(l.ptgt, 1)
      /\ l.pc = "run" /\ l.ok => Runs(l.params, Construct(t))

(***************************************************************************)
(* And never too high: after the last construct nothing is mapped, no       *)
(* memory of the device is in use and no shadow is left; pointers are the   *)
(* host's again.                                                            *)
(***************************************************************************)
Over == ~crashed /\ \A t \in Threads : local[t].k > Len(program.threads[t])

NothingIsLeft ==
  Over => /\ table = <<>> /\ DOMAIN dev = {} /\ DOMAIN shadow = {}
          /\ \A x \in DOMAIN Points : host[x] = <<0, Points[x]>>

MemoryIsAccounted == HeldWhileUsed /\ NothingIsLeft
=============================================================================
