------------------------------ MODULE LoopsInv ------------------------------
(***************************************************************************)
(* The invariants of the loops from which Loops_proofs proves what is true  *)
(* of them for every value of the constants: IInv of the dispatch buffers,  *)
(* SharesInv of static loops, DealInv and TurnInv of programs that are      *)
(* Plain; and the words in which the proofs speak of steps and of numbers.  *)
(***************************************************************************)
EXTENDS MCLoops, FiniteSets

(* Where a thread is: not in a loop, in one, or resetting its buffer.       *)
Outside == {"out", "wait"}
Inside  == {"flag", "next", "guided", "seek", "rob", "keep", "iteration", "section", "finish"}
Ending  == {"destroy", "reset", "release"}
Turns   == {"iteration", "section", "finish"}

(* The fields of a shared part.                                             *)
IsPart(s) ==
  s = [buffer_index |-> s.buffer_index, iteration |-> s.iteration, num_done |-> s.num_done,
       ordered_iteration |-> s.ordered_iteration]

(* What is known of the variables that say who is in which loop.            *)
Typed ==
  /\ program \in Programs
  /\ disp_index \in [Tids -> Nat]
  /\ pc \in [Tids -> Outside \cup Inside \cup Ending \cup {"end"}]
  /\ current \in [Tids -> Buffers \cup {Null}]
  /\ sh = [b \in Buffers |-> sh[b]]
  /\ \A b \in Buffers : IsPart(sh[b]) /\ sh[b].buffer_index \in Nat \ {0} /\ sh[b].num_done \in Nat

(* A buffer belongs to the loops of its number, and a thread in a loop has  *)
(* the buffer of that loop, which belongs to the loop.                      *)
Belongs == \A b \in Buffers : Buffer(sh[b].buffer_index) = b

Has(t) ==
  /\ pc[t] # "out" => disp_index[t] # 0
  /\ IF pc[t] \in Outside
       THEN current[t] = Null
       ELSE current[t] = Buffer(disp_index[t]) /\ Sh(t).buffer_index = disp_index[t]
  /\ pc[t] \in Turns => MyLoop(t).ordered

(* No thread has left a loop that is to use a buffer after the present one. *)
Behind == \A t \in Tids, b \in Buffers : Left(t) < sh[b].buffer_index + NumBuffers

(* Only the last thread in a loop resets the buffer.                        *)
Resets(t, l) == disp_index[t] = l /\ pc[t] \in Ending

LastResets ==
  \A t \in Tids : pc[t] \in Ending =>
    /\ \A u \in Tids : u # t => Left(u) >= disp_index[t]
    /\ pc[t] = "release" =>
         Sh(t).num_done = 0 /\ Sh(t).iteration = 0 /\ Sh(t).ordered_iteration = 0

(* Until then num_done counts the threads that have left.                   *)
LeftBy(l) == {t \in Tids : Left(t) >= l}

Counts(b) ==
  (\A t \in Tids : ~Resets(t, sh[b].buffer_index)) =>
    sh[b].num_done = Cardinality(LeftBy(sh[b].buffer_index))

(* A buffer whose loop nobody has entered yet is as new, and only ordered   *)
(* loops count their turns.                                                 *)
AsNew(b) ==
  (\A t \in Tids : /\ ~(disp_index[t] = sh[b].buffer_index /\ pc[t] \notin Outside)
                   /\ Left(t) < sh[b].buffer_index)
    => sh[b].iteration = 0 /\ sh[b].ordered_iteration = 0

Ordering(b) ==
  sh[b].ordered_iteration # 0 => Loop(sh[b].buffer_index).ordered

IInv ==
  /\ Typed /\ Belongs /\ Behind /\ LastResets
  /\ \A t \in Tids : Has(t)
  /\ \A b \in Buffers : Counts(b) /\ AsNew(b) /\ Ordering(b)

(* Equal remainders of numbers that are less than n apart.                  *)
Alike(x, y, n) == x % n = y % n /\ x <= y /\ y < x + n

(* The shared part of thread t changes in its iterations only.              *)
Serves(t, p) ==
  /\ sh' = [sh EXCEPT ![current[t]] = p]
  /\ IsPart(p)
  /\ p.buffer_index = Sh(t).buffer_index /\ p.num_done = Sh(t).num_done
  /\ p.ordered_iteration = Sh(t).ordered_iteration \/ pc[t] \in Turns

(* A step of t within its loop: it goes to where only threads of the loop   *)
(* are, to the turns if the loop is ordered.                                *)
Works(t) ==
  /\ pc[t] \in Inside
  /\ UNCHANGED <<program, disp_index, current>>
  /\ \/ pc' = pc
     \/ \E to \in Inside \cup {"end"} :
          pc' = [pc EXCEPT ![t] = to] /\ (to \in Turns => MyLoop(t).ordered)
  /\ sh' = sh \/ \E p : Serves(t, p)

(* A step within a loop that goes somewhere, with the shared part as it was *)
(* or with other iterations.                                                *)
Moves(t) ==
  /\ UNCHANGED <<program, disp_index, current>>
  /\ \/ pc' = pc
     \/ pc' = [pc EXCEPT ![t] = AfterChunk(t)]
     \/ \E to \in Inside \cup {"end"} :
          pc' = [pc EXCEPT ![t] = to] /\ (to \in Turns => pc[t] \in Turns)

-----------------------------------------------------------------------------
(* Iteration j of a loop, and those from a up to b.                         *)
It(l, d, j)       == l + j * d
Iters(l, d, a, b) == {i \in Static!Values : \E j \in a..b-1 : i = It(l, d, j)}

(* The upper bound of a part is at its last iteration or short of the next. *)
Ends(l, d, b, e) == Static!Distance(It(l, d, b-1), e, d) \in 0..Static!Size(d)-1

(* A loop of one thread and at least one iteration.                         *)
IsLoop(l, u, d, trip) ==
  /\ l \in Static!Values /\ u \in Static!Values /\ d \in Int /\ d # 0
  /\ trip \in Nat /\ trip > 0 /\ Ends(l, d, trip, u)

(* How many iterations there are.                                           *)
Count(l, u, d) == (Static!Distance(l, u, d) \div Static!Size(d)) + 1

(* Where the part of each of n threads begins.                              *)
Splits(S, n, trip) ==
  /\ S \in [0..n -> Nat]
  /\ \A j, k \in 0..n : j <= k => S[j] <= S[k]
  /\ S[0] = 0 /\ S[n] = trip

(* What the parts of the threads must be to make up the loop.               *)
IsShare(r, l, d, trip, a, b) ==
  /\ Static!From(r.lower, r.upper, d) = Iters(l, d, a, b)
  /\ r.last <=> a < b /\ b = trip

(* The last iteration of a loop.                                            *)
LastOf(l, u, d) == CHOOSE i \in Static!From(l, u, d) :
                    \A j \in Static!From(l, u, d) : ~Static!Before(i, j, d)

(* What the threads together must make of a loop.                           *)
Exact(l, u, d, n, parts, last) ==
  /\ UNION {parts[t] : t \in 0..n-1} = Static!From(l, u, d)
  /\ \A t, v \in 0..n-1 : t # v => parts[t] \cap parts[v] = {}
  /\ ~Static!Before(u, l, d) => \A t \in 0..n-1 : last[t] <=> LastOf(l, u, d) \in parts[t]

(* The extra iterations are one each for the first threads.                 *)
BalancedStart(q, extras, x) == x * q + Static!Lesser(x, extras)

BlockStart(z, trip, x) == Static!Lesser(x * z, trip)

(* There is room for n blocks, and for one if they are taken for a number.  *)
HasRoom(u, d, trip, n, z) ==
  /\ n \in Nat /\ n > 1 /\ z \in Nat /\ z > 0
  /\ \E k \in Nat : u + k * d \in Static!Values /\ n * z <= trip - 1 + k

(* The bounds of a block as they are computed.                              *)
IsBlock(l, d, z, id, a, b) ==
  /\ l \in Int /\ d \in Int /\ z \in Nat /\ id \in Nat /\ a \in Nat /\ b \in Nat
  /\ a = id * z /\ b = a + z /\ Static!T(z * d) = z * d
  /\ It(l, d, a) \in Static!Values /\ It(l, d, b - 1) \in Static!Values

(* Whose an iteration is.                                                   *)
Owner(j, chunk, n) == (j \div chunk) % n

OwnedBy(l, d, trip, chunk, n, id) ==
  {i \in Static!Values : \E j \in 0..trip-1 : i = It(l, d, j) /\ Owner(j, chunk, n) = id}

(* The chunks that the generated code goes through with the stride.         *)
Into(x, i, d, stride) == IF stride = 0 THEN Static!Distance(x, i, d)
                                       ELSE Static!Distance(x, i, d) % Static!Size(stride)

Strided(r, d) ==
  {i \in Static!From(r.lower, r.bound, d) :
     Into(r.lower, i, d, r.stride) <= Static!Distance(r.lower, r.upper, d)}

IsStrided(r, l, u, d, chunk, n, id, a, b) ==
  /\ chunk \in Nat \ {0} /\ n \in Nat \ {0} /\ id \in 0..n-1 /\ a \in Nat /\ b \in Nat
  /\ a = id * chunk /\ b = a + chunk
  /\ r.lower = It(l, d, a) /\ r.upper = It(l, d, b - 1) /\ r.bound = u
  /\ r.stride = (n * chunk) * d

(* A call for a loop of one team's threads.  Beyond is the number of        *)
(* increments by which the bounds that it computes may exceed the last      *)
(* bound of the loop: the type must have the values up to there and, as a   *)
(* stride, the distance that all threads' chunks cover.                     *)
Beyond(c) == CASE c.schedule = "static_balanced"         -> 1
               [] c.schedule = "static_greedy"           -> c.n
               [] c.schedule = "static_chunked"          -> c.n * Static!Pieces(c.chunk)
               [] c.schedule = "static_balanced_chunked" -> c.n * c.chunk

HasSpace(c) ==
  /\ c.upper + Beyond(c) * c.incr \in Static!Values
  /\ c.schedule = "static_chunked" => Beyond(c) * c.incr \in Static!Values

IsFor(c) ==
  /\ c.call = "for" /\ c.m = 1
  /\ c.schedule = "static_balanced_chunked" => c.chunk > 0
  /\ c.n > 1 /\ ~Static!ZeroTrip(c) => HasSpace(c)

ExactCall(c, r) ==
  Exact(c.lower, c.upper, c.incr, c.n,
        [t \in 0..c.n-1 |-> Static!Executed(c, r[t])], [t \in 0..c.n-1 |-> r[t].last])

(* The schedules of more than one thread.                                   *)
Answers(c) == [t \in 0..c.n-1 |-> Static!ForStaticInit(c, t)]

IsShared(c) ==
  /\ c \in StaticInputs /\ IsFor(c) /\ ~Static!ZeroTrip(c) /\ c.n > 1

(* A thread that has called has the result of its call.                     *)
SharesInv ==
  /\ input \in StaticInputs
  /\ result = [t \in Static!Callers(input) |-> result[t]]
  /\ IsFor(input) => \A t \in Static!Callers(input) :
                       result[t] \in {Static!NoResult, Static!ForStaticInit(input, t)}

-----------------------------------------------------------------------------
(***************************************************************************)
(* The loops keep the promise of WorkShare.  It is proved of programs whose *)
(* loops end up with a schedule other than static_steal and                 *)
(* guided_analytical, and whose induction variable has room for what the    *)
(* threads add to it behind the end of the loop (Plain).                    *)
(*                                                                          *)
(* Who has which iteration is said of a loop, not of its buffer: the loop   *)
(* has dealt an iteration when the shared counter (Progress) or, of static  *)
(* schedules, the count of the owner of the iteration is past it, or when   *)
(* a thread was told that there is no more (Dealt).  A counter is past the  *)
(* end from then on, and never so far that it overflows (Advanced).         *)
(*                                                                          *)
(* In an ordered loop, ordered_iteration has counted exactly the iterations *)
(* that are dealt and that nobody has yet to count (TurnsCount): whose turn *)
(* it is has the iteration of that number in its chunk, and what others     *)
(* hold lies behind it.                                                     *)
(***************************************************************************)
PlainSchedules == {"static_balanced", "static_greedy", "static_chunked", "dynamic",
                   "guided_iterative", "trapezoidal"}

(* The iterations of static chunks.                                         *)
ChunkOf(L) == IF Schedule(L) = "static_greedy" THEN Greedy(L) ELSE L.chunk

Reach(L) ==
  IF Schedule(L) = "trapezoidal" THEN Number(L) * First(L) + program.n + 1
  ELSE L.tc + ChunkOf(L) * (program.n + 1)

Plain ==
  \A l \in Loops : Schedule(Loop(l)) \in PlainSchedules /\ Reach(Loop(l)) <= 2^Width

(* The loops of which iterations are taken from a shared counter, and the   *)
(* first iteration that is left when the counter is at k.                   *)
FromCounter(L) == Schedule(L) \in {"dynamic", "guided_iterative", "trapezoidal"}

Raw(L, k) == (k * (2 * First(L) - (k - 1) * Decrement(L))) \div 2

Position(L, k) ==
  CASE Schedule(L) = "dynamic"     -> L.chunk * k
    [] Schedule(L) = "trapezoidal" -> IF k < Number(L) THEN Raw(L, k) ELSE L.tc
    [] OTHER                       -> k

(* How far a counter is, how far it goes by itself and with every thread    *)
(* that is told that there is no more.                                      *)
Amount(L, k) == IF Schedule(L) = "dynamic" THEN L.chunk * k ELSE k
Furthest(L)  == IF Schedule(L) = "trapezoidal" THEN Number(L) ELSE L.tc + L.chunk - 1
Pace(L)      == IF Schedule(L) = "trapezoidal" THEN 1 ELSE L.chunk

(* The iterations of a thread in the others, and those it is past.          *)
Mine(L, t, i) ==
  IF Schedule(L) = "static_balanced"
  THEN Share(L.tc, t) <= i /\ i < Share(L.tc, t + 1)
  ELSE (i \div ChunkOf(L)) % program.n = t

Passed(L, t, count, i) ==
  IF Schedule(L) = "static_balanced" THEN count # 0 ELSE i \div ChunkOf(L) < count + t

(* Who is in a loop, and who has left it or been told to.                   *)
Within(t, l) == disp_index[t] = l /\ pc[t] \in Inside \cup {"wait"}
Ended(t, l)  == Left(t) >= l \/ (disp_index[t] = l /\ pc[t] \in Ending \cup {"end"})
EndedBy(l)   == {t \in Tids : Ended(t, l)}

Progress(l) == IF sh[Buffer(l)].buffer_index = l THEN sh[Buffer(l)].iteration ELSE 0
Tally(t, l) == pr[t][Buffer(l)].count

Dealt(l, i) ==
  IF FromCounter(Loop(l))
  THEN EndedBy(l) # {} \/ i < Position(Loop(l), Progress(l))
  ELSE \E t \in Tids : /\ Mine(Loop(l), t, i)
                       /\ Ended(t, l) \/ (Within(t, l) /\ Passed(Loop(l), t, Tally(t, l), i))

Exactly ==
  ran = [l \in Loops |-> [i \in 0..Loop(l).tc-1 |-> IF Dealt(l, i) THEN 1 ELSE 0]]

Counting(t, l) ==
  Within(t, l) =>
    /\ Schedule(Loop(l)) = "static_balanced" /\ Tally(t, l) = 0 =>
         Share(Loop(l).tc, t) < Share(Loop(l).tc, t + 1)
    /\ Schedule(Loop(l)) \in {"static_greedy", "static_chunked"} =>
         /\ Tally(t, l) % program.n = 0
         /\ Tally(t, l) = 0 \/ ChunkOf(Loop(l)) * (Tally(t, l) - program.n + t) < Loop(l).tc

Advanced(l) ==
  FromCounter(Loop(l)) /\ EndedBy(l) # Tids =>
    /\ Progress(l) \in Nat
    /\ Amount(Loop(l), Progress(l)) <= Furthest(Loop(l)) + Pace(Loop(l)) * Cardinality(EndedBy(l))
    /\ EndedBy(l) # {} => Loop(l).tc <= Position(Loop(l), Progress(l))

Reading(t) ==
  pc[t] = "guided" =>
    /\ Schedule(MyLoop(t)) = "guided_iterative"
    /\ frame[t].init \in Nat /\ frame[t].init <= Progress(disp_index[t])

Waited(t) ==
  LET l == disp_index[t] IN
  pc[t] # "out" =>
    /\ l \in Loops
    /\ l > 1 /\ Loop(l - 1).barrier => \A u \in Tids : Left(u) >= l - 1

PrivateParts == [loop : Int, count : Nat, ub : Int, lower : Int, upper : Int, bumped : Nat,
                 parm4 : Int, static_steal_counter : Int]
Frames == [tries : Int, victim : Int, old : Int, theirs : Int, init : Int, limit : Int, i : Int]

PlainPlaces == {"out", "wait", "next", "guided", "end", "reset", "release"} \cup Turns

Shape ==
  /\ pc \in [Tids -> PlainPlaces]
  /\ pr \in [Tids -> [Buffers -> PrivateParts]]
  /\ frame \in [Tids -> Frames]

DealInv ==
  /\ Plain /\ Shape /\ Exactly
  /\ \A t \in Tids : Reading(t) /\ Waited(t)
  /\ \A l \in Loops : Advanced(l) /\ \A t \in Tids : Counting(t, l)

(* The next turn of an ordered loop.                                        *)
Turn(l) == IF sh[Buffer(l)].buffer_index = l THEN sh[Buffer(l)].ordered_iteration ELSE 0

(* The first iteration that a thread has still to count.                    *)
Chunk(t) == pr[t][Buffer(disp_index[t])]
Open(t)  == Chunk(t).bumped + IF MyLoop(t).gomp THEN Chunk(t).lower ELSE frame[t].i

Behindhand(t) == IF pc[t] = "finish" THEN 1 ELSE 0

InChunk(t) ==
  pc[t] \in Turns =>
    /\ {Chunk(t).lower, Chunk(t).upper, frame[t].i} \subseteq Nat
    /\ Chunk(t).lower <= frame[t].i /\ frame[t].i <= Chunk(t).upper
    /\ Chunk(t).upper < MyLoop(t).tc
    /\ Chunk(t).bumped <= (IF MyLoop(t).gomp THEN frame[t].i - Chunk(t).lower ELSE 0)
                          + Behindhand(t)
    /\ \A j \in Chunk(t).lower..Chunk(t).upper : ran[disp_index[t]][j] = 1

(* An ordered chunk begins with nothing counted.                            *)
NotBumped(t) ==
  pc[t] \in {"wait", "next", "guided"} /\ MyLoop(t).ordered => Chunk(t).bumped = 0

Holds(t, j) == Chunk(t).lower <= j /\ j <= Chunk(t).upper

Disjoint(t, u) ==
  t # u /\ pc[t] \in Turns /\ pc[u] \in Turns /\ disp_index[t] = disp_index[u] =>
    \A j \in Int : ~(Holds(t, j) /\ Holds(u, j))

Owes(t, l, j) == disp_index[t] = l /\ pc[t] \in Turns /\ Open(t) <= j /\ j <= Chunk(t).upper

TurnsCount(l) ==
  Loop(l).ordered /\ EndedBy(l) # Tids =>
    /\ Turn(l) \in 0..Loop(l).tc
    /\ \A j \in 0..Loop(l).tc-1 :
         j < Turn(l) <=> ran[l][j] = 1 /\ \A t \in Tids : ~Owes(t, l, j)

InSection(t) ==
  pc[t] = "section" => Chunk(t).lower <= Turn(disp_index[t]) /\ section[disp_index[t]].in = frame[t].i

(* The last section is behind what is counted later.                        *)
Behindhanded(t) ==
  pc[t] \in Turns /\ Open(t) <= Chunk(t).upper =>
    section[disp_index[t]].last < frame[t].i + Behindhand(t)

SectionsOf(l) ==
  /\ section[l] \in [last : Int, in : Int]
  /\ section[l].in # Null => \E t \in Tids : disp_index[t] = l /\ pc[t] = "section"
  /\ \A j \in 0..Loop(l).tc-1 : ran[l][j] = 0 => section[l].last < j

TurnInv ==
  /\ section = [l \in Loops |-> section[l]]
  /\ \A t \in Tids : InChunk(t) /\ NotBumped(t) /\ InSection(t) /\ Behindhanded(t)
  /\ \A t, u \in Tids : Disjoint(t, u)
  /\ \A l \in Loops : TurnsCount(l) /\ SectionsOf(l)

(* A first cycle of f, a last one of g, n cycles that each are d less.      *)
IsTrapezoid(f, g, n, d) ==
  /\ f \in Nat \ {0} /\ g \in Nat \ {0} /\ g <= f
  /\ n \in Nat /\ n >= 2
  /\ d \in Nat /\ d * (n - 1) <= f - g

(* Twice the iterations of the first k cycles.                              *)
Twice(f, d, k) == k * (2 * f - (k - 1) * d)

(* Where the threads are, of every loop.                                    *)
PlacesStay ==
  \A u \in Tids, l \in Loops :
    (Ended(u, l)' <=> Ended(u, l)) /\ (Within(u, l)' <=> Within(u, l))

Goers == Inside \cup {"wait"}
Leavers == Ending \cup {"end"}

(* A step of a thread from one place to another.                            *)
Leads(t, to) == UNCHANGED <<program, disp_index>> /\ pc' = [pc EXCEPT ![t] = to]

Had(u, l, i) ==
  /\ Mine(Loop(l), u, i)
  /\ Ended(u, l) \/ (Within(u, l) /\ Passed(Loop(l), u, Tally(u, l), i))

(* The loop is as it was for all threads.                                   *)
Untouched(l) ==
  /\ \A u \in Tids : /\ (Ended(u, l)' <=> Ended(u, l)) /\ (Within(u, l)' <=> Within(u, l))
                     /\ Within(u, l) => Tally(u, l)' = Tally(u, l)
  /\ EndedBy(l) # Tids => Progress(l)' = Progress(l)

(* A step deals a..b, or nothing.                                           *)
Deals(l, a, b) ==
  \A i \in 0..Loop(l).tc-1 : /\ Dealt(l, i)' <=> Dealt(l, i) \/ i \in a..b
                             /\ i \in a..b => ~Dealt(l, i)
DealsNone(l) == \A i \in 0..Loop(l).tc-1 : Dealt(l, i)' <=> Dealt(l, i)

Asks == {"next", "guided"}

(* Thread t in loop l is given a..b.                                        *)
Hands(t, l, a, b) ==
  /\ l = disp_index[t] /\ l \in Loops
  /\ pc[t] \in Asks /\ Leads(t, AfterChunk(t)) /\ Given(t, a, b)
  /\ \E p \in PrivateParts : SetPr(t, Bounded(t, p, a, b)) /\ p.bumped = Pr(t).bumped
  /\ \/ sh' = sh
     \/ \E k \in Nat : k >= Sh(t).iteration /\ SetSh(t, [Sh(t) EXCEPT !.iteration = k])
  /\ a \in Nat /\ b \in Nat /\ a <= b /\ b < Loop(l).tc
  /\ Deals(l, a, b) /\ Advanced(l)' /\ Counting(t, l)'

(* Thread t is told that loop l has no more for it.                         *)
Tells(t, l) ==
  /\ l = disp_index[t] /\ l \in Loops
  /\ pc[t] \in Asks /\ Leads(t, "end")
  /\ frame' = [frame EXCEPT ![t] = NoFrame]
  /\ UNCHANGED <<pr, current, ran, section>>
  /\ \/ sh' = sh
     \/ \E k \in Nat : k >= Sh(t).iteration /\ SetSh(t, [Sh(t) EXCEPT !.iteration = k])
  /\ DealsNone(l) /\ Advanced(l)'

(* The counter moves.                                                       *)
CountsTo(t, k, m) ==
  k <= m /\ ((sh' = sh /\ m = k) \/ SetSh(t, [Sh(t) EXCEPT !.iteration = m]))

Asking(t) ==
  \/ NextZeroTrip(t) \/ NextBalanced(t) \/ NextStatic(t) \/ NextDynamic(t) \/ NextTrapezoidal(t)

(* A step that deals nothing and moves no counter of a loop in use.         *)
Quiet(t) ==
  /\ \E to \in PlainPlaces : Leads(t, to)
  /\ ran' = ran
  /\ \A u \in Tids : Left(u) <= Left(u)' /\ Left(u)' \in Int
  /\ pc[t] # "out"
  /\ \A l \in Loops : Untouched(l)
  /\ pr' \in [Tids -> [Buffers -> PrivateParts]]
  /\ frame' \in [Tids -> Frames]
  /\ \A u \in Tids : u # t => frame'[u] = frame[u]
  /\ pc'[t] = "guided" => Reading(t)'

(* The counter of the loop goes on, and no other.                           *)
MovesOn(t) == sh' = sh \/ \E k \in Nat : k >= Sh(t).iteration /\ SetSh(t, [Sh(t) EXCEPT !.iteration = k])

(* Iterations a..b of loop l were given out, and they were not before.      *)
DealtOut(l, a, b) ==
  /\ \A m \in Loops : m # l => ran'[m] = ran[m]
  /\ \A i \in 0..Loop(l).tc-1 : ran'[l][i] = IF i \in a..b THEN 1 ELSE ran[l][i]
  /\ \A i \in 0..Loop(l).tc-1 : i \in a..b => ran[l][i] = 0

Same(t) ==
  /\ ran' = ran
  /\ \A u \in Tids, b \in Buffers : pr'[u][b].count = pr[u][b].count
  /\ pr' \in [Tids -> [Buffers -> PrivateParts]]
  /\ frame' \in [Tids -> Frames]
  /\ \A u \in Tids : u # t => frame'[u] = frame[u]
  /\ \A l \in Loops : EndedBy(l) # Tids => Progress(l)' = Progress(l)

(* A thread in its turns changes the count of them.                         *)
CountsTurn(t) ==
  \/ sh' = sh
  \/ \E k : SetSh(t, [Sh(t) EXCEPT !.ordered_iteration = k])

(* The private part of thread t changes in bumped only.                     *)
Bumps(t, x) == SetPr(t, [Pr(t) EXCEPT !.bumped = x])

Still(u) ==
  /\ pc'[u] = pc[u] /\ disp_index'[u] = disp_index[u]
  /\ pr'[u] = pr[u] /\ frame'[u] = frame[u]

(* Iterations are given out for good.                                       *)
Grows == \A l \in Loops : \A i \in 0..Loop(l).tc-1 : ran[l][i] = 1 => ran'[l][i] = 1

(* Thread t counts the next k iterations of loop l, all of its chunk.       *)
TurnsOn(t, l, k) ==
  /\ UNCHANGED <<program, disp_index, ran>>
  /\ \A u \in Tids : u # t => Still(u)
  /\ Turn(l)' = Turn(l) + k /\ \A m \in Loops : m # l => Turn(m)' = Turn(m)
  /\ k > 0 => Turn(l) = Open(t) /\ Open(t) + k <= Chunk(t).upper + 1
  /\ Chunk(t)'.lower = Chunk(t).lower /\ Chunk(t)'.upper = Chunk(t).upper
  /\ IF pc'[t] \in Turns THEN Open(t)' = Open(t) + k ELSE Chunk(t).upper < Open(t) + k
  /\ \A m \in Loops : EndedBy(m)' = EndedBy(m)

(* What a step does to an ordered chunk: it sets bumped and i and counts k  *)
(* iterations.                                                              *)
Changes(t, l, to, x, i, k) ==
  /\ Leads(t, to) /\ ran' = ran
  /\ (pr' = pr /\ x = Chunk(t).bumped) \/ Bumps(t, x)
  /\ (frame' = frame /\ i = frame[t].i) \/ frame' = [frame EXCEPT ![t].i = i]
  /\ \/ sh' = sh /\ k = 0
     \/ SetSh(t, [Sh(t) EXCEPT !.ordered_iteration = Turn(l) + k])

Fits(t, l, to, x, i, k) ==
  /\ k > 0 => Turn(l) = Open(t) /\ Open(t) + k <= Chunk(t).upper + 1
  /\ to \in Turns =>
       /\ x + (IF Loop(l).gomp THEN Chunk(t).lower ELSE i) = Open(t) + k
       /\ i \in Nat /\ Chunk(t).lower <= i /\ i <= Chunk(t).upper
       /\ x <= (IF Loop(l).gomp THEN i - Chunk(t).lower ELSE 0) + (IF to = "finish" THEN 1 ELSE 0)
  /\ to = "next" => Chunk(t).upper < Open(t) + k /\ x = 0

Turned(t, l, to, i, k) ==
  /\ TurnsOn(t, l, k) /\ InChunk(t)' /\ NotBumped(t)'
  /\ pc'[t] = to /\ frame'[t].i = i /\ disp_index'[t] = l
  /\ Chunk(t)'.lower = Chunk(t).lower /\ Chunk(t)'.upper = Chunk(t).upper
  /\ Behindhand(t)' = IF to = "finish" THEN 1 ELSE 0
  /\ to \in Turns => Open(t)' = Open(t) + k

(* The numbers of a thread with an ordered chunk.                           *)
HasNumbers(t, l) ==
  \E o, a, b, i, x, n, tc \in Nat : \E g \in BOOLEAN : \E h \in {0, 1} :
    /\ o = Open(t) /\ a = Chunk(t).lower /\ b = Chunk(t).upper /\ i = frame[t].i
    /\ x = Chunk(t).bumped /\ n = Turn(l) /\ tc = Loop(l).tc /\ g = Loop(l).gomp
    /\ h = IF pc[t] = "finish" THEN 1 ELSE 0
    /\ h = Behindhand(t)
    /\ a <= i /\ i <= b /\ b < tc /\ a <= o /\ o <= b + 1 /\ n <= tc
    /\ x <= (IF g THEN i - a ELSE 0) + h
    /\ o = x + IF g THEN a ELSE i

Unseen ==
  /\ program' = program /\ ran' = ran /\ section' = section
  /\ \A u \in Tids : Left(u)' = Left(u)
=============================================================================
