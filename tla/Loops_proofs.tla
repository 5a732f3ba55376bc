---------------------------- MODULE Loops_proofs ----------------------------
(***************************************************************************)
(* A buffer of the loop dispatch is used by one loop at a time, counts the  *)
(* threads that have left it exactly, and is as new for the first thread of *)
(* its next loop: for teams of every size, any number of buffers and any    *)
(* list of loops with the schedules that the model has.                     *)
(*                                                                          *)
(* Loops are numbered, and the loop of number l has the buffer (l - 1) %    *)
(* NumBuffers.  A buffer belongs to the loop in its buffer_index; a thread  *)
(* in a loop has waited for the buffer to belong to it (Has, Belongs).  No  *)
(* thread leaves a loop NumBuffers ahead of the loop of any buffer          *)
(* (Behind): for such a loop it would have had that buffer.  Hence loops    *)
(* that are in use at the same time have different remainders, and the      *)
(* threads that have left the buffer's loop or a later one are those that   *)
(* num_done counts (Counts).  The thread that counts itself last finds all  *)
(* the others ahead (LastResets), so that nobody looks at what it resets.   *)
(*                                                                          *)
(* The shares of static loops (StaticSched) are the subject of the second   *)
(* part; the third shows that every iteration of a loop is given out once   *)
(* and that ordered sections are executed in order, as WorkShare promises.  *)
(***************************************************************************)
EXTENDS LoopsInv, FiniteSetTheorems, WellFoundedInduction, TLAPS

-----------------------------------------------------------------------------
(* Numbers of buffers.                                                      *)

(* A multiple of n that is closer to 0 than n is 0.                         *)
LEMMA Multiple ==
  ASSUME NEW n \in Nat \ {0}, NEW d \in Int, -n < n * d, n * d < n
  PROVE  d = 0
<1>1. ASSUME NEW c \in Nat
      PROVE  n * (c + 1) = n * c + n /\ n * c >= 0 /\ n * (0 - (c + 1)) = 0 - (n * c + n)
  OBVIOUS
<1>2. ~(d > 0)
  <2> SUFFICES ASSUME d > 0 PROVE FALSE
    OBVIOUS
  <2>1. PICK c \in Nat : c = d - 1
    OBVIOUS
  <2>2. d = c + 1
    BY <2>1
  <2> QED
    BY <1>1, <2>2
<1>3. ~(d < 0)
  <2> SUFFICES ASSUME d < 0 PROVE FALSE
    OBVIOUS
  <2>1. PICK c \in Nat : c = 0 - d - 1
    OBVIOUS
  <2>2. d = 0 - (c + 1)
    BY <2>1
  <2> QED
    BY <1>1, <2>2
<1> QED
  BY <1>2, <1>3

(* A number is its quotient and its remainder.                              *)
LEMMA Divides ==
  ASSUME NEW x \in Nat, NEW n \in Nat \ {0}
  PROVE  /\ x = n * (x \div n) + (x % n)
         /\ x \div n \in Nat /\ x % n \in 0..n-1
OBVIOUS

LEMMA SameRemainder ==
  ASSUME NEW n \in Nat \ {0}, NEW x \in Nat, NEW y \in Nat, Alike(x, y, n)
  PROVE  x = y
<1>1. PICK p \in Nat, r \in 0..n-1 : x = n * p + r /\ r = x % n
  BY Divides
<1>2. PICK q \in Nat, s \in 0..n-1 : y = n * q + s /\ s = y % n
  BY Divides
<1>3. r = s /\ x <= y /\ y < x + n
  BY <1>1, <1>2 DEF Alike
<1>4. n * (q - p) = n * q - n * p
  OBVIOUS
<1>5. q - p = 0
  BY <1>1, <1>2, <1>3, <1>4, Multiple
<1> QED
  BY <1>1, <1>2, <1>3, <1>5

(* A remainder comes back after n numbers.                                  *)
LEMMA NextRemainder ==
  ASSUME NEW n \in Nat \ {0}, NEW x \in Nat
  PROVE  (x + n) % n = x % n
<1>1. PICK p \in Nat, r \in 0..n-1 : x = n * p + r /\ r = x % n
  BY Divides
<1>2. PICK y \in Nat : y = x + n
  OBVIOUS
<1>3. PICK q \in Nat, s \in 0..n-1 : y = n * q + s /\ s = y % n
  BY Divides
<1>4. n * (q - (p + 1)) = n * q - n * p - n
  OBVIOUS
<1>5. q - (p + 1) = 0
  BY <1>1, <1>2, <1>3, <1>4, Multiple
<1>6. n * (p + 1) = n * p + n /\ q = p + 1
  BY <1>5
<1>7. n * q = n * p + n
  BY <1>6
<1>8. s = r
  BY <1>1, <1>2, <1>3, <1>7
<1> QED
  BY <1>1, <1>2, <1>3, <1>8

(* Every loop has a buffer, and NumBuffers loops later it is the same one.  *)
LEMMA BufferIs ==
  ASSUME NEW l \in Nat \ {0}
  PROVE  /\ Buffer(l) \in Buffers
         /\ Buffer(l + NumBuffers) = Buffer(l)
<1>1. PICK n \in Nat \ {0}, x \in Nat : n = NumBuffers /\ x = l - 1
  BY BuffersAssumption
<1>2. (x + n) % n = x % n /\ x % n \in 0..n-1
  BY NextRemainder, Divides
<1>3. (l + NumBuffers) - 1 = x + n
  BY <1>1
<1> QED
  BY <1>1, <1>2, <1>3 DEF Buffer, Buffers

-----------------------------------------------------------------------------
(* What is known of a state.                                                *)

(* The team is finite, and a thread's loop is one of the program.           *)
LEMMA Known ==
  ASSUME Typed
  PROVE  /\ program.n \in Nat \ {0, 1} /\ IsFiniteSet(Tids)
         /\ \A t \in Tids : disp_index[t] \in Nat /\ Left(t) \in Int
<1>1. program.n \in Nat \ {0, 1}
  BY ProgramsAssumption DEF Typed
<1>2. IsFiniteSet(Tids)
  BY <1>1, FS_Interval DEF Tids
<1>3. \A t \in Tids : disp_index[t] \in Nat
  BY DEF Typed
<1> QED
  BY <1>1, <1>2, <1>3 DEF Left

(* As many threads as the program says.                                     *)
LEMMA TeamSize ==
  ASSUME Typed
  PROVE  Cardinality(Tids) = program.n
<1>1. program.n - 1 \in Int /\ 0 \in Int /\ 0 <= program.n - 1
  BY Known
<1>2. Cardinality(0..program.n-1) = program.n - 1 - 0 + 1
  BY <1>1, FS_Interval
<1> QED
  BY <1>2, Known DEF Tids

(* How many threads have left is a number.                                  *)
LEMMA LeftByIs ==
  ASSUME Typed, NEW l
  PROVE  /\ IsFiniteSet(LeftBy(l)) /\ LeftBy(l) \subseteq Tids
         /\ Cardinality(LeftBy(l)) \in Nat /\ Cardinality(LeftBy(l)) <= program.n
<1>1. IsFiniteSet(Tids) /\ LeftBy(l) \subseteq Tids
  BY Known DEF LeftBy
<1>2. /\ IsFiniteSet(LeftBy(l)) /\ Cardinality(LeftBy(l)) <= Cardinality(Tids)
  BY <1>1, FS_Subset
<1>3. Cardinality(Tids) = program.n
  BY TeamSize
<1>4. Cardinality(LeftBy(l)) \in Nat
  BY <1>2, FS_CardinalityType
<1> QED
  BY <1>1, <1>2, <1>3, <1>4

(* A thread that is in a loop with the buffer b is in the loop to which b   *)
(* belongs.                                                                 *)
LEMMA InItsLoop ==
  ASSUME IInv, NEW t \in Tids, pc[t] \notin Outside
  PROVE  /\ current[t] \in Buffers /\ current[t] = Buffer(disp_index[t])
         /\ sh[current[t]].buffer_index = disp_index[t]
         /\ disp_index[t] \in Nat \ {0} /\ Left(t) = disp_index[t] - 1
         /\ \A b \in Buffers : sh[b].buffer_index = disp_index[t] => b = current[t]
<1>1. disp_index[t] \in Nat
  BY DEF IInv, Typed
<1>2. /\ disp_index[t] # 0 /\ current[t] = Buffer(disp_index[t])
      /\ sh[current[t]].buffer_index = disp_index[t] /\ pc[t] # "out"
  BY DEF IInv, Has, Outside, Sh
<1>3. current[t] \in Buffers
  BY <1>1, <1>2, BufferIs
<1>4. \A b \in Buffers : sh[b].buffer_index = disp_index[t] => b = current[t]
  BY <1>2 DEF IInv, Belongs
<1> QED
  BY <1>1, <1>2, <1>3, <1>4 DEF Left

-----------------------------------------------------------------------------
(* Steps within a loop: of the shared part they change the iterations.      *)

(* Such a step leaves everything that the invariant speaks of as it is.     *)
LEMMA WorksKeeps ==
  ASSUME IInv, NEW t \in Tids, Works(t)
  PROVE  IInv'
<1>0. /\ Typed /\ Belongs /\ Behind /\ LastResets /\ program.n \in Nat
      /\ \A u \in Tids : Has(u)
      /\ \A b \in Buffers : Counts(b) /\ AsNew(b) /\ Ordering(b)
  BY Known DEF IInv
<1>1. /\ program' = program /\ disp_index' = disp_index /\ current' = current
      /\ Tids' = Tids /\ pc[t] \in Inside
  BY DEF Works, Tids
<1>2. /\ pc[t] \notin Outside /\ pc[t] \notin Ending /\ pc[t] # "out"
      /\ current[t] \in Buffers /\ sh[current[t]].buffer_index = disp_index[t]
      /\ disp_index[t] \in Nat
  BY <1>1, InItsLoop DEF Inside, Outside, Ending
<1> DEFINE Moved == /\ pc' \in [Tids -> Outside \cup Inside \cup Ending \cup {"end"}]
      /\ \A u \in Tids : /\ pc'[u] = "out" <=> pc[u] = "out"
                         /\ pc'[u] = "release" <=> pc[u] = "release"
                         /\ pc'[u] \in Outside <=> pc[u] \in Outside
                         /\ pc'[u] \in Ending <=> pc[u] \in Ending
                         /\ pc'[u] \in Turns => pc[u] \in Turns \/ MyLoop(u).ordered
<1>3. Moved
  <2>1. pc \in [Tids -> Outside \cup Inside \cup Ending \cup {"end"}]
    BY <1>0 DEF Typed
  <2>2. CASE pc' = pc
    BY <2>1, <2>2
  <2>3. ASSUME NEW to \in Inside \cup {"end"}, pc' = [pc EXCEPT ![t] = to],
               to \in Turns => MyLoop(t).ordered
        PROVE  Moved
    BY <1>1, <2>1, <2>3 DEF Inside, Outside, Ending, Turns
  <2> QED
    BY <2>2, <2>3 DEF Works
<1> DEFINE Served == /\ sh' = [b \in Buffers |-> sh'[b]]
      /\ \A b \in Buffers :
           /\ IsPart(sh'[b])
           /\ sh'[b].buffer_index = sh[b].buffer_index /\ sh'[b].num_done = sh[b].num_done
           /\ b # current[t] => sh'[b] = sh[b]
           /\ \/ sh'[b].ordered_iteration = sh[b].ordered_iteration
              \/ b = current[t] /\ pc[t] \in Turns
<1>4. Served
  <2>1. sh = [b \in Buffers |-> sh[b]] /\ \A b \in Buffers : IsPart(sh[b])
    BY <1>0 DEF Typed
  <2>2. CASE sh' = sh
    BY <2>1, <2>2
  <2>3. ASSUME NEW p, Serves(t, p) PROVE Served
    BY <1>2, <2>1, <2>3 DEF Serves, Sh
  <2> QED
    BY <2>2, <2>3 DEF Works
<1>5. \A u \in Tids : Left(u)' = Left(u)
  BY <1>1, <1>3 DEF Left
<1>6. Typed'
  BY <1>0, <1>1, <1>3, <1>4 DEF Typed, Buffers, IsPart
<1>7. Belongs'
  BY <1>0, <1>4 DEF Belongs, Buffer, Buffers
<1>8. Behind'
  BY <1>0, <1>1, <1>4, <1>5 DEF Behind, Buffers
<1>9. LastResets'
  <2> SUFFICES ASSUME NEW v \in Tids, pc'[v] \in Ending
               PROVE  /\ \A u \in Tids : u # v => Left(u)' >= disp_index'[v]
                      /\ pc'[v] = "release" => /\ sh'[current'[v]].num_done = 0
                                               /\ sh'[current'[v]].iteration = 0
                                               /\ sh'[current'[v]].ordered_iteration = 0
    BY <1>1 DEF LastResets, Sh
  <2>1. pc[v] \in Ending /\ v # t /\ pc[v] \notin Outside
    BY <1>2, <1>3 DEF Ending, Outside
  <2>2. \A u \in Tids : u # v => Left(u) >= disp_index[v]
    BY <1>0, <2>1 DEF LastResets
  <2>3. current[v] # current[t]
    <3>1. Left(t) >= disp_index[v] /\ Left(t) = disp_index[t] - 1
      BY <1>2, <2>1, <2>2, InItsLoop
    <3>2. sh[current[v]].buffer_index = disp_index[v] /\ disp_index[v] \in Nat
      BY <2>1, InItsLoop
    <3> QED
      BY <1>2, <3>1, <3>2
  <2>4. current[v] \in Buffers
    BY <2>1, InItsLoop
  <2>5. sh'[current'[v]] = sh[current[v]]
    BY <1>1, <1>4, <2>3, <2>4
  <2>6. pc[v] = "release" => /\ sh[current[v]].num_done = 0 /\ sh[current[v]].iteration = 0
                             /\ sh[current[v]].ordered_iteration = 0
    BY <1>0, <2>1 DEF LastResets, Sh
  <2> QED
    BY <1>1, <1>3, <1>5, <2>2, <2>5, <2>6
<1>10. ASSUME NEW u \in Tids PROVE Has(u)'
  <2>1. Has(u)
    BY <1>0
  <2>2. u \in Tids /\ current[u] \in Buffers \cup {Null}
    BY <1>0 DEF Typed
  <2>3. pc[u] \notin Outside => current[u] \in Buffers
    BY InItsLoop
  <2> QED
    BY <1>1, <1>3, <1>4, <2>1, <2>3 DEF Has, Sh, MyLoop, Loop, Buffer
<1>11. ASSUME NEW b \in Buffers PROVE Counts(b)' /\ AsNew(b)' /\ Ordering(b)'
  <2>1. Counts(b)'
    <3>1. LeftBy(sh[b].buffer_index)' = LeftBy(sh[b].buffer_index)
      BY <1>1, <1>4, <1>5 DEF LeftBy
    <3>2. \A u \in Tids : Resets(u, sh[b].buffer_index)' <=> Resets(u, sh[b].buffer_index)
      BY <1>1, <1>3, <1>4 DEF Resets
    <3> QED
      BY <1>0, <1>1, <1>4, <3>1, <3>2 DEF Counts
  <2>2. AsNew(b)'
    <3>1. CASE b = current[t]
      BY <1>1, <1>2, <1>3, <1>4, <3>1 DEF AsNew
    <3>2. CASE b # current[t]
      <4>1. sh'[b] = sh[b]
        BY <1>4, <3>2
      <4> QED
        BY <1>0, <1>1, <1>3, <1>5, <4>1 DEF AsNew
    <3> QED
      BY <3>1, <3>2
  <2>3. Ordering(b)'
    <3>1. Ordering(b) /\ Has(t)
      BY <1>0
    <3>2. b = current[t] /\ pc[t] \in Turns => Loop(sh[b].buffer_index).ordered
      BY <1>2, <3>1 DEF Has, MyLoop
    <3> QED
      BY <1>1, <1>4, <3>1, <3>2 DEF Ordering, Loop
  <2> QED
    BY <2>1, <2>2, <2>3
<1> QED
  BY <1>1, <1>6, <1>7, <1>8, <1>9, <1>10, <1>11 DEF IInv, Buffers

(* Steps that none of this depends on.                                      *)
LEMMA SameState ==
  ASSUME IInv, UNCHANGED <<program, disp_index, pc, current, sh>>
  PROVE  IInv'
<1>1. Tids' = Tids /\ Buffers' = Buffers /\ \A t \in Tids : Left(t)' = Left(t)
  BY DEF Tids, Buffers, Left
<1>2. Typed'
  BY <1>1 DEF IInv, Typed, IsPart
<1>3. Belongs' /\ Behind' /\ LastResets'
  BY <1>1 DEF IInv, Belongs, Behind, LastResets, Buffer, Sh
<1>4. \A t \in Tids : Has(t)'
  BY <1>1 DEF IInv, Has, Sh, MyLoop, Loop, Buffer
<1>5. ASSUME NEW b \in Buffers PROVE Counts(b)' /\ AsNew(b)' /\ Ordering(b)'
  <2>1. Counts(b)'
    <3>1. LeftBy(sh[b].buffer_index)' = LeftBy(sh[b].buffer_index)
      BY <1>1 DEF LeftBy
    <3>2. \A t \in Tids : Resets(t, sh[b].buffer_index)' <=> Resets(t, sh[b].buffer_index)
      BY DEF Resets
    <3> QED
      BY <1>1, <3>1, <3>2 DEF IInv, Counts
  <2> QED
    BY <1>1, <2>1 DEF IInv, AsNew, Ordering, Loop
<1> QED
  BY <1>1, <1>2, <1>3, <1>4, <1>5 DEF IInv

-----------------------------------------------------------------------------
(* A thread goes into a loop and waits for its buffer.                      *)

LEMMA EntersKeeps ==
  ASSUME IInv, NEW t \in Tids, DispatchInit(t)
  PROVE  IInv'
<1>0. /\ Typed /\ Belongs /\ Behind /\ LastResets
      /\ \A u \in Tids : Has(u)
      /\ \A b \in Buffers : Counts(b) /\ AsNew(b) /\ Ordering(b)
  BY DEF IInv
<1>1. /\ program' = program /\ current' = current /\ sh' = sh /\ Tids' = Tids
      /\ pc[t] = "out" /\ pc' = [pc EXCEPT ![t] = "wait"]
      /\ disp_index[t] + 1 \in Loops /\ disp_index' = [disp_index EXCEPT ![t] = disp_index[t] + 1]
  BY DEF DispatchInit, Goes, Tids
<1>2. /\ pc \in [Tids -> Outside \cup Inside \cup Ending \cup {"end"}]
      /\ disp_index \in [Tids -> Nat] /\ disp_index[t] \in Nat
  BY <1>0 DEF Typed
<1>3. disp_index[t] + 1 \in Nat
  BY <1>2
<1>4. /\ pc' \in [Tids -> Outside \cup Inside \cup Ending \cup {"end"}]
      /\ disp_index' \in [Tids -> Nat]
      /\ pc'[t] = "wait" /\ disp_index'[t] = disp_index[t] + 1
      /\ \A u \in Tids : u # t => pc'[u] = pc[u] /\ disp_index'[u] = disp_index[u]
  BY <1>1, <1>2, <1>3 DEF Outside
<1>5. \A u \in Tids : Left(u)' = Left(u)
  BY <1>1, <1>2, <1>4 DEF Left
<1>6. /\ "out" \in Outside /\ "wait" \in Outside
      /\ "out" \notin Ending /\ "wait" \notin Ending /\ "wait" \notin Turns
  BY DEF Outside, Ending, Turns
<1>7. Typed'
  BY <1>0, <1>1, <1>3, <1>4 DEF Typed, Buffers, IsPart
<1>8. Belongs' /\ Behind'
  BY <1>0, <1>1, <1>5 DEF Belongs, Behind, Buffer, Buffers
<1>9. LastResets'
  BY <1>0, <1>1, <1>4, <1>5, <1>6 DEF LastResets, Sh
<1>10. ASSUME NEW u \in Tids PROVE Has(u)'
  <2>1. Has(u)
    BY <1>0
  <2> QED
    BY <1>1, <1>2, <1>4, <1>6, <2>1 DEF Has, Sh, MyLoop, Loop, Buffer
<1>11. ASSUME NEW b \in Buffers PROVE Counts(b)' /\ AsNew(b)' /\ Ordering(b)'
  <2>1. LeftBy(sh[b].buffer_index)' = LeftBy(sh[b].buffer_index)
    BY <1>1, <1>5 DEF LeftBy
  <2>2. \A u \in Tids : Resets(u, sh[b].buffer_index)' <=> Resets(u, sh[b].buffer_index)
    BY <1>1, <1>4, <1>6 DEF Resets
  <2>3. Counts(b)'
    BY <1>0, <1>1, <2>1, <2>2 DEF Counts
  <2>4. AsNew(b)'
    BY <1>0, <1>1, <1>4, <1>5, <1>6 DEF AsNew
  <2>5. Ordering(b)'
    BY <1>0, <1>1 DEF Ordering, Loop
  <2> QED
    BY <2>3, <2>4, <2>5
<1> QED
  BY <1>1, <1>7, <1>8, <1>9, <1>10, <1>11 DEF IInv, Buffers

LEMMA WaitKeeps ==
  ASSUME IInv, NEW t \in Tids, WaitForBuffer(t)
  PROVE  IInv'
<1>0. /\ Typed /\ Belongs /\ Behind /\ LastResets
      /\ \A u \in Tids : Has(u)
      /\ \A b \in Buffers : Counts(b) /\ AsNew(b) /\ Ordering(b)
  BY DEF IInv
<1>1. /\ program' = program /\ disp_index' = disp_index /\ sh' = sh /\ Tids' = Tids
      /\ pc[t] = "wait" /\ sh[Buffer(disp_index[t])].buffer_index = disp_index[t]
      /\ current' = [current EXCEPT ![t] = Buffer(disp_index[t])]
  BY DEF WaitForBuffer, Goes, Owned, Tids
<1>2. PICK to \in {"flag", "next"} : pc' = [pc EXCEPT ![t] = to]
  BY DEF WaitForBuffer, Goes
<1>3. /\ pc \in [Tids -> Outside \cup Inside \cup Ending \cup {"end"}]
      /\ current \in [Tids -> Buffers \cup {Null}] /\ disp_index[t] \in Nat \ {0}
  <2>1. Has(t)
    BY <1>0
  <2> QED
    BY <1>0, <1>1, <2>1 DEF Typed, Has
<1>4. /\ to \in Inside /\ to \notin Outside /\ to \notin Ending /\ to \notin Turns /\ to # "out"
      /\ "wait" \in Outside /\ "wait" \notin Ending
  BY DEF Outside, Ending, Turns, Inside
<1>5. /\ pc' \in [Tids -> Outside \cup Inside \cup Ending \cup {"end"}]
      /\ current' \in [Tids -> Buffers \cup {Null}]
      /\ pc'[t] = to /\ current'[t] = Buffer(disp_index[t])
      /\ \A u \in Tids : u # t => pc'[u] = pc[u] /\ current'[u] = current[u]
  <2>1. Buffer(disp_index[t]) \in Buffers
    BY <1>3, BufferIs
  <2> QED
    BY <1>1, <1>2, <1>3, <1>4, <2>1
<1>6. \A u \in Tids : Left(u)' = Left(u)
  BY <1>1, <1>4, <1>5 DEF Left
<1>7. Typed'
  BY <1>0, <1>1, <1>5 DEF Typed, Buffers, IsPart
<1>8. Belongs' /\ Behind'
  BY <1>0, <1>1, <1>6 DEF Belongs, Behind, Buffer, Buffers
<1>9. LastResets'
  BY <1>0, <1>1, <1>4, <1>5, <1>6 DEF LastResets, Sh
<1>10. ASSUME NEW u \in Tids PROVE Has(u)'
  <2>1. Has(u)
    BY <1>0
  <2>2. CASE u = t
    BY <1>1, <1>3, <1>4, <1>5, <2>2 DEF Has, Sh, MyLoop, Loop, Buffer
  <2>3. CASE u # t
    BY <1>1, <1>5, <2>1, <2>3 DEF Has, Sh, MyLoop, Loop, Buffer
  <2> QED
    BY <2>2, <2>3
<1>11. ASSUME NEW b \in Buffers PROVE Counts(b)' /\ AsNew(b)' /\ Ordering(b)'
  <2>1. LeftBy(sh[b].buffer_index)' = LeftBy(sh[b].buffer_index)
    BY <1>1, <1>6 DEF LeftBy
  <2>2. \A u \in Tids : Resets(u, sh[b].buffer_index)' <=> Resets(u, sh[b].buffer_index)
    BY <1>1, <1>4, <1>5 DEF Resets
  <2>3. Counts(b)'
    BY <1>0, <1>1, <2>1, <2>2 DEF Counts
  <2>4. AsNew(b)'
    BY <1>0, <1>1, <1>4, <1>5, <1>6 DEF AsNew
  <2>5. Ordering(b)'
    BY <1>0, <1>1 DEF Ordering, Loop
  <2> QED
    BY <2>3, <2>4, <2>5
<1> QED
  BY <1>1, <1>7, <1>8, <1>9, <1>10, <1>11 DEF IInv, Buffers

-----------------------------------------------------------------------------
(* A thread leaves a loop: the buffer counts it, and the last resets it.    *)

(* A thread that leaves a loop has by then left those before it, and of its *)
(* own buffer all threads are at most one loop ahead.                       *)
LEMMA LeavesInTime ==
  ASSUME IInv, NEW t \in Tids, pc[t] \notin Outside, NEW b \in Buffers
  PROVE  disp_index[t] < sh[b].buffer_index + NumBuffers
<1>1. PICK d \in Nat \ {0} : d = disp_index[t] /\ Left(t) = d - 1
  BY InItsLoop
<1>2. PICK k \in Nat \ {0} : k = sh[b].buffer_index
  BY DEF IInv, Typed
<1>3. NumBuffers \in Nat \ {0} /\ d - 1 < k + NumBuffers
  BY <1>1, <1>2, BuffersAssumption DEF IInv, Behind
<1>4. d # k + NumBuffers
  <2> SUFFICES ASSUME d = k + NumBuffers PROVE FALSE
    OBVIOUS
  <2>1. Buffer(d) = Buffer(k)
    BY BufferIs
  <2>2. Buffer(k) = b
    BY <1>2 DEF IInv, Belongs
  <2>3. current[t] = b /\ sh[b].buffer_index = d
    BY <1>1, <2>1, <2>2, InItsLoop
  <2> QED
    BY <1>2, <1>3, <2>3
<1> QED
  BY <1>1, <1>2, <1>3, <1>4

(* One more thread has left: who it is and whom it was missing.             *)
LEMMA OneMore ==
  ASSUME IInv, NEW t \in Tids, Left(t) < disp_index[t]
  PROVE  /\ Cardinality(LeftBy(disp_index[t]) \cup {t}) = Cardinality(LeftBy(disp_index[t])) + 1
         /\ Cardinality(LeftBy(disp_index[t])) = program.n - 1
              => \A u \in Tids : u # t => Left(u) >= disp_index[t]
<1> DEFINE S == LeftBy(disp_index[t])
<1>1. /\ IsFiniteSet(S) /\ S \subseteq Tids /\ Cardinality(S) \in Nat /\ IsFiniteSet(Tids)
      /\ program.n \in Nat
  BY LeftByIs, Known DEF IInv
<1>2. disp_index[t] \in Nat /\ Left(t) \in Int
  BY Known DEF IInv
<1>3. t \notin S
  BY <1>2 DEF LeftBy
<1>4. Cardinality(S \cup {t}) = Cardinality(S) + 1
  BY <1>1, <1>3, FS_AddElement
<1>5. ASSUME Cardinality(S) = program.n - 1 PROVE \A u \in Tids : u # t => Left(u) >= disp_index[t]
  <2>1. Cardinality(S \cup {t}) = Cardinality(Tids)
    BY <1>1, <1>4, <1>5, TeamSize DEF IInv
  <2>2. S \cup {t} \subseteq Tids
    BY <1>1
  <2>3. S \cup {t} = Tids
    BY <1>1, <2>1, <2>2, FS_Subset
  <2> QED
    BY <2>3 DEF LeftBy
<1> QED
  BY <1>4, <1>5

(* Until the last thread has left, the buffer counts those that have.       *)
LEMMA CountsNow ==
  ASSUME IInv, NEW t \in Tids, pc[t] = "end"
  PROVE  /\ sh[current[t]].num_done = Cardinality(LeftBy(disp_index[t]))
         /\ \A v \in Tids : ~Resets(v, disp_index[t])
<1>1. /\ pc[t] \notin Outside /\ pc[t] \notin Ending
  BY DEF Outside, Ending
<1>2. /\ current[t] \in Buffers /\ sh[current[t]].buffer_index = disp_index[t]
      /\ disp_index[t] \in Nat /\ Left(t) = disp_index[t] - 1
  BY <1>1, InItsLoop
<1>3. ASSUME NEW v \in Tids PROVE ~Resets(v, disp_index[t])
  <2> SUFFICES ASSUME Resets(v, disp_index[t]) PROVE FALSE
    OBVIOUS
  <2>1. pc[v] \in Ending /\ disp_index[v] = disp_index[t] /\ v # t
    BY <1>1 DEF Resets
  <2>2. Left(t) >= disp_index[t]
    BY <2>1 DEF IInv, LastResets
  <2> QED
    BY <1>2, <2>2
<1>4. Counts(current[t])
  BY <1>2 DEF IInv
<1> QED
  BY <1>2, <1>3, <1>4 DEF Counts

(* A thread that is not the last leaves.                                    *)
LEMMA LeavesKeeps ==
  ASSUME IInv, NEW t \in Tids, CountDone(t), ~Last(t)
  PROVE  IInv'
<1>0. /\ Typed /\ Belongs /\ Behind /\ LastResets
      /\ \A u \in Tids : Has(u)
      /\ \A b \in Buffers : Counts(b) /\ AsNew(b) /\ Ordering(b)
  BY DEF IInv
<1>1. /\ program' = program /\ disp_index' = disp_index /\ Tids' = Tids
      /\ pc[t] = "end" /\ pc' = [pc EXCEPT ![t] = "out"]
      /\ current' = [current EXCEPT ![t] = Null]
      /\ sh' = [sh EXCEPT ![current[t]] = [sh[current[t]] EXCEPT !.num_done = @ + 1]]
  BY DEF CountDone, LeaveLoop, Goes, SetSh, Sh, Tids
<1>2. /\ pc[t] \notin Outside /\ pc[t] \notin Ending /\ "out" \in Outside
      /\ "out" \notin Ending /\ "out" \notin Turns
  BY <1>1 DEF Outside, Ending, Turns
<1>3. /\ current[t] \in Buffers /\ sh[current[t]].buffer_index = disp_index[t]
      /\ disp_index[t] \in Nat \ {0} /\ Left(t) = disp_index[t] - 1
      /\ \A b \in Buffers : sh[b].buffer_index = disp_index[t] => b = current[t]
  BY <1>2, InItsLoop
<1>4. /\ pc \in [Tids -> Outside \cup Inside \cup Ending \cup {"end"}]
      /\ current \in [Tids -> Buffers \cup {Null}]
      /\ sh = [b \in Buffers |-> sh[b]] /\ \A b \in Buffers : IsPart(sh[b])
      /\ \A b \in Buffers : sh[b].num_done \in Nat
  BY <1>0 DEF Typed
<1>5. /\ pc' \in [Tids -> Outside \cup Inside \cup Ending \cup {"end"}]
      /\ current' \in [Tids -> Buffers \cup {Null}]
      /\ pc'[t] = "out" /\ current'[t] = Null
      /\ \A u \in Tids : u # t => pc'[u] = pc[u] /\ current'[u] = current[u]
  BY <1>1, <1>2, <1>4
<1>6. /\ sh' = [b \in Buffers |-> sh'[b]]
      /\ \A b \in Buffers :
           /\ b # current[t] => sh'[b] = sh[b]
           /\ IsPart(sh'[b]) /\ sh'[b].buffer_index = sh[b].buffer_index
           /\ sh'[b].iteration = sh[b].iteration
           /\ sh'[b].ordered_iteration = sh[b].ordered_iteration
      /\ sh'[current[t]].num_done = sh[current[t]].num_done + 1
  BY <1>1, <1>3, <1>4 DEF IsPart
<1>7. /\ Left(t)' = disp_index[t]
      /\ \A u \in Tids : u # t => Left(u)' = Left(u)
  BY <1>1, <1>5 DEF Left
<1>8. Typed'
  <2>1. \A b \in Buffers : sh'[b].num_done \in Nat
    BY <1>4, <1>6
  <2>2. \A b \in Buffers : sh'[b].buffer_index \in Nat \ {0}
    BY <1>0, <1>6 DEF Typed
  <2>3. program' \in Programs /\ disp_index' \in [Tids -> Nat] /\ Buffers' = Buffers
    BY <1>0, <1>1 DEF Typed, Buffers
  <2> QED
    BY <1>1, <1>5, <1>6, <2>1, <2>2, <2>3 DEF Typed, IsPart
<1>9. Belongs'
  BY <1>0, <1>6 DEF Belongs, Buffer, Buffers
<1>10. Behind'
  <2>1. \A b \in Buffers : disp_index[t] < sh[b].buffer_index + NumBuffers
    BY <1>2, LeavesInTime
  <2> QED
    BY <1>0, <1>1, <1>6, <1>7, <2>1 DEF Behind, Buffers
<1>11. LastResets'
  <2> SUFFICES ASSUME NEW v \in Tids, pc'[v] \in Ending
               PROVE  /\ \A u \in Tids : u # v => Left(u)' >= disp_index'[v]
                      /\ pc'[v] = "release" => /\ sh'[current'[v]].num_done = 0
                                               /\ sh'[current'[v]].iteration = 0
                                               /\ sh'[current'[v]].ordered_iteration = 0
    BY <1>1 DEF LastResets, Sh
  <2>1. /\ v # t /\ pc[v] \in Ending /\ pc[v] \notin Outside
        /\ pc'[v] = pc[v] /\ current'[v] = current[v]
    BY <1>2, <1>5 DEF Ending, Outside
  <2>2. \A u \in Tids : u # v => Left(u) >= disp_index[v]
    BY <1>0, <2>1 DEF LastResets
  <2>3. Left(t) >= disp_index[v] /\ disp_index[v] \in Nat
    BY <2>1, <2>2, Known DEF IInv
  <2>4. \A u \in Tids : u # v => Left(u)' >= disp_index'[v]
    BY <1>1, <1>3, <1>7, <2>2, <2>3
  <2>5. current[v] # current[t] /\ current[v] \in Buffers
    BY <1>3, <2>1, <2>3, InItsLoop
  <2>6. pc[v] = "release" => /\ sh[current[v]].num_done = 0 /\ sh[current[v]].iteration = 0
                             /\ sh[current[v]].ordered_iteration = 0
    BY <1>0, <2>1 DEF LastResets, Sh
  <2> QED
    BY <1>6, <2>1, <2>4, <2>5, <2>6
<1>12. ASSUME NEW u \in Tids PROVE Has(u)'
  <2>1. Has(u)
    BY <1>0
  <2>2. CASE u = t
    BY <1>1, <1>2, <1>3, <1>5, <2>2 DEF Has, Sh, MyLoop, Loop, Buffer
  <2>3. CASE u # t
    <3>1. pc[u] \notin Outside => current[u] \in Buffers
      BY InItsLoop
    <3> QED
      BY <1>1, <1>5, <1>6, <2>1, <2>3, <3>1 DEF Has, Sh, MyLoop, Loop, Buffer
  <2> QED
    BY <2>2, <2>3
<1>13. ASSUME NEW b \in Buffers PROVE Counts(b)' /\ AsNew(b)' /\ Ordering(b)'
  <2>1. \A u \in Tids : Resets(u, sh[b].buffer_index)' <=> Resets(u, sh[b].buffer_index)
    BY <1>1, <1>2, <1>5, <1>6 DEF Resets
  <2>2. CASE b = current[t]
    <3>1. LeftBy(disp_index[t])' = LeftBy(disp_index[t]) \cup {t}
      BY <1>1, <1>3, <1>7 DEF LeftBy
    <3>2. sh'[b].num_done = Cardinality(LeftBy(disp_index[t]) \cup {t})
      <4>1. Left(t) < disp_index[t]
        BY <1>3
      <4> QED
        BY <1>1, <1>6, <2>2, <4>1, OneMore, CountsNow
    <3>3. Counts(b)'
      <4>1. sh'[b].buffer_index = disp_index[t] /\ disp_index'[t] = disp_index[t]
        BY <1>1, <1>3, <1>6, <2>2
      <4>2. LeftBy(sh[b].buffer_index)' = LeftBy(disp_index[t])'
        BY <4>1 DEF LeftBy
      <4> QED
        BY <3>1, <3>2, <4>2 DEF Counts
    <3>4. AsNew(b)'
      BY <1>1, <1>3, <1>6, <1>7, <2>2 DEF AsNew
    <3> QED
      BY <1>0, <1>1, <1>6, <3>3, <3>4 DEF Ordering, Loop
  <2>3. CASE b # current[t]
    <3>1. PICK k \in Nat : k = sh[b].buffer_index /\ k # disp_index[t]
      BY <1>0, <1>3, <2>3 DEF Typed
    <3>2. Left(t)' >= k <=> Left(t) >= k
      BY <1>3, <1>7, <3>1
    <3>3. LeftBy(k)' = LeftBy(k)
      BY <1>1, <1>7, <3>2 DEF LeftBy
    <3>4. sh'[b] = sh[b]
      BY <1>6, <2>3
    <3>5. Counts(b)'
      BY <1>0, <1>1, <2>1, <3>1, <3>3, <3>4 DEF Counts
    <3>6. AsNew(b)'
      <4>1. \A u \in Tids : /\ (disp_index'[u] = k /\ pc'[u] \notin Outside)
                                 <=> (disp_index[u] = k /\ pc[u] \notin Outside)
                            /\ Left(u)' < k <=> Left(u) < k
        BY <1>1, <1>2, <1>3, <1>5, <1>7, <3>1
      <4> QED
        BY <1>0, <1>1, <3>1, <3>4, <4>1 DEF AsNew
    <3> QED
      BY <1>0, <1>1, <3>4, <3>5, <3>6 DEF Ordering, Loop
  <2> QED
    BY <2>2, <2>3
<1> QED
  BY <1>1, <1>8, <1>9, <1>10, <1>11, <1>12, <1>13 DEF IInv, Buffers

(* The last thread goes on to reset the buffer.                             *)
LEMMA LastKeeps ==
  ASSUME IInv, NEW t \in Tids, CountDone(t), Last(t)
  PROVE  IInv'
<1>0. /\ Typed /\ Belongs /\ Behind /\ LastResets
      /\ \A u \in Tids : Has(u)
      /\ \A b \in Buffers : Counts(b) /\ AsNew(b) /\ Ordering(b)
  BY DEF IInv
<1>1. /\ program' = program /\ disp_index' = disp_index /\ current' = current /\ Tids' = Tids
      /\ pc[t] = "end" /\ sh[current[t]].num_done = program.n - 1
      /\ sh' = [sh EXCEPT ![current[t]] = [sh[current[t]] EXCEPT !.num_done = @ + 1]]
  BY DEF CountDone, SetSh, Sh, Tids, Last
<1>2. PICK to \in {"destroy", "reset"} : pc' = [pc EXCEPT ![t] = to]
  BY DEF CountDone, Goes
<1>3. /\ pc[t] \notin Outside /\ pc[t] \notin Ending /\ to \notin Outside
      /\ to \in Ending /\ to \notin Turns /\ to # "out" /\ to # "release"
  BY <1>1 DEF Outside, Ending, Turns
<1>4. /\ current[t] \in Buffers /\ sh[current[t]].buffer_index = disp_index[t]
      /\ disp_index[t] \in Nat \ {0} /\ Left(t) = disp_index[t] - 1
      /\ \A b \in Buffers : sh[b].buffer_index = disp_index[t] => b = current[t]
  BY <1>3, InItsLoop
<1>5. /\ pc \in [Tids -> Outside \cup Inside \cup Ending \cup {"end"}]
      /\ sh = [b \in Buffers |-> sh[b]] /\ \A b \in Buffers : IsPart(sh[b])
      /\ \A b \in Buffers : sh[b].num_done \in Nat
  BY <1>0 DEF Typed
<1>6. /\ pc' \in [Tids -> Outside \cup Inside \cup Ending \cup {"end"}]
      /\ pc'[t] = to /\ \A u \in Tids : u # t => pc'[u] = pc[u]
  BY <1>1, <1>2, <1>3, <1>5
<1>7. /\ sh' = [b \in Buffers |-> sh'[b]]
      /\ \A b \in Buffers :
           /\ b # current[t] => sh'[b] = sh[b]
           /\ IsPart(sh'[b]) /\ sh'[b].buffer_index = sh[b].buffer_index
           /\ sh'[b].iteration = sh[b].iteration
           /\ sh'[b].ordered_iteration = sh[b].ordered_iteration
      /\ sh'[current[t]].num_done = sh[current[t]].num_done + 1
  <2>1. PICK p : p = [sh[current[t]] EXCEPT !.num_done = @ + 1]
    OBVIOUS
  <2>2. /\ IsPart(p) /\ p.buffer_index = sh[current[t]].buffer_index
        /\ p.iteration = sh[current[t]].iteration
        /\ p.ordered_iteration = sh[current[t]].ordered_iteration
        /\ p.num_done = sh[current[t]].num_done + 1
    BY <1>4, <1>5, <2>1 DEF IsPart
  <2>3. sh' = [sh EXCEPT ![current[t]] = p]
    BY <1>1, <2>1
  <2>4. /\ sh' = [b \in Buffers |-> sh'[b]] /\ sh'[current[t]] = p
        /\ \A b \in Buffers : b # current[t] => sh'[b] = sh[b]
    BY <1>4, <1>5, <2>3
  <2> QED
    BY <1>5, <2>2, <2>4
<1>8. \A u \in Tids : Left(u)' = Left(u)
  BY <1>1, <1>3, <1>6 DEF Left
<1>9. Typed'
  <2>1. \A b \in Buffers : sh'[b].num_done \in Nat
    BY <1>5, <1>7
  <2>2. \A b \in Buffers : sh'[b].buffer_index \in Nat \ {0}
    BY <1>0, <1>7 DEF Typed
  <2>3. /\ program' \in Programs /\ disp_index' \in [Tids -> Nat] /\ Buffers' = Buffers
        /\ current' \in [Tids -> Buffers \cup {Null}]
    BY <1>0, <1>1 DEF Typed, Buffers
  <2> QED
    BY <1>1, <1>6, <1>7, <2>1, <2>2, <2>3 DEF Typed, IsPart
<1>10. Belongs' /\ Behind'
  BY <1>0, <1>1, <1>7, <1>8 DEF Belongs, Behind, Buffer, Buffers
<1>11. \A u \in Tids : u # t => Left(u) >= disp_index[t]
  <2>1. sh[current[t]].num_done = Cardinality(LeftBy(disp_index[t]))
    BY <1>1, CountsNow
  <2>2. Left(t) < disp_index[t]
    BY <1>4
  <2> QED
    BY <1>1, <2>1, <2>2, OneMore
<1>12. LastResets'
  <2> SUFFICES ASSUME NEW v \in Tids, pc'[v] \in Ending
               PROVE  /\ \A u \in Tids : u # v => Left(u)' >= disp_index'[v]
                      /\ pc'[v] = "release" => /\ sh'[current'[v]].num_done = 0
                                               /\ sh'[current'[v]].iteration = 0
                                               /\ sh'[current'[v]].ordered_iteration = 0
    BY <1>1 DEF LastResets, Sh
  <2>1. CASE v = t
    BY <1>1, <1>3, <1>6, <1>8, <1>11, <2>1
  <2>2. CASE v # t
    <3>1. pc[v] \in Ending /\ pc'[v] = pc[v] /\ pc[v] \notin Outside
      BY <1>6, <2>2 DEF Ending, Outside
    <3>2. \A u \in Tids : u # v => Left(u) >= disp_index[v]
      BY <1>0, <3>1 DEF LastResets
    <3>3. Left(t) >= disp_index[v] /\ disp_index[v] \in Nat
      BY <2>2, <3>2, Known DEF IInv
    <3>4. current[v] # current[t] /\ current[v] \in Buffers
      BY <1>4, <3>1, <3>3, InItsLoop
    <3>5. pc[v] = "release" => /\ sh[current[v]].num_done = 0 /\ sh[current[v]].iteration = 0
                               /\ sh[current[v]].ordered_iteration = 0
      BY <1>0, <3>1 DEF LastResets, Sh
    <3> QED
      BY <1>1, <1>7, <1>8, <3>1, <3>2, <3>4, <3>5
  <2> QED
    BY <2>1, <2>2
<1>13. ASSUME NEW u \in Tids PROVE Has(u)'
  <2>1. Has(u)
    BY <1>0
  <2>2. CASE u = t
    BY <1>1, <1>3, <1>4, <1>6, <1>7, <2>1, <2>2 DEF Has, Sh, MyLoop, Loop, Buffer
  <2>3. CASE u # t
    <3>1. pc[u] \notin Outside => current[u] \in Buffers
      BY InItsLoop
    <3> QED
      BY <1>1, <1>6, <1>7, <2>1, <2>3, <3>1 DEF Has, Sh, MyLoop, Loop, Buffer
  <2> QED
    BY <2>2, <2>3
<1>14. ASSUME NEW b \in Buffers PROVE Counts(b)' /\ AsNew(b)' /\ Ordering(b)'
  <2>1. CASE b = current[t]
    <3>1. Resets(t, sh[b].buffer_index)' /\ pc'[t] \notin Outside
          /\ disp_index'[t] = sh'[b].buffer_index
      BY <1>1, <1>3, <1>4, <1>6, <1>7, <2>1 DEF Resets
    <3>2. Counts(b)'
      BY <1>1, <1>7, <3>1 DEF Counts, Resets
    <3>3. AsNew(b)'
      BY <1>1, <3>1 DEF AsNew
    <3>4. Ordering(b)'
      BY <1>0, <1>1, <1>7 DEF Ordering, Loop
    <3> QED
      BY <3>2, <3>3, <3>4
  <2>2. CASE b # current[t]
    <3>1. sh'[b] = sh[b] /\ sh[b].buffer_index # disp_index[t]
      BY <1>4, <1>7, <2>2
    <3>2. \A u \in Tids :
            /\ Resets(u, sh[b].buffer_index)' <=> Resets(u, sh[b].buffer_index)
            /\ (disp_index'[u] = sh[b].buffer_index /\ pc'[u] \notin Outside)
                 <=> (disp_index[u] = sh[b].buffer_index /\ pc[u] \notin Outside)
      BY <1>1, <1>6, <3>1 DEF Resets
    <3>3. LeftBy(sh[b].buffer_index)' = LeftBy(sh[b].buffer_index)
      BY <1>1, <1>8, <3>1 DEF LeftBy
    <3>4. Counts(b)'
      BY <1>0, <1>1, <3>1, <3>2, <3>3 DEF Counts
    <3>5. AsNew(b)'
      BY <1>0, <1>1, <1>8, <3>1, <3>2 DEF AsNew
    <3> QED
      BY <1>0, <1>1, <3>1, <3>4, <3>5 DEF Ordering, Loop
  <2> QED
    BY <2>1, <2>2
<1> QED
  BY <1>1, <1>9, <1>10, <1>12, <1>13, <1>14 DEF IInv, Buffers

(* The locks of a stealing loop go, and the buffer is set back.             *)
LEMMA ResetsKeep ==
  ASSUME IInv, NEW t \in Tids, DestroyLocks(t) \/ ResetBuffer(t)
  PROVE  IInv'
<1>0. /\ Typed /\ Belongs /\ Behind /\ LastResets
      /\ \A u \in Tids : Has(u)
      /\ \A b \in Buffers : Counts(b) /\ AsNew(b) /\ Ordering(b)
  BY DEF IInv
<1>1. /\ program' = program /\ disp_index' = disp_index /\ current' = current /\ Tids' = Tids
      /\ pc[t] \in {"destroy", "reset"}
  BY DEF DestroyLocks, ResetBuffer, Goes, Tids
<1>2. PICK to \in {"reset", "release"} :
        /\ pc' = [pc EXCEPT ![t] = to]
        /\ to = "reset" => sh' = sh
        /\ to = "release" =>
             sh' = [sh EXCEPT ![current[t]] = Fresh(sh[current[t]], MyLoop(t).ordered)]
  BY DEF DestroyLocks, ResetBuffer, Goes, SetSh, Sh
<1>3. /\ pc[t] \notin Outside /\ pc[t] \in Ending /\ pc[t] # "out" /\ to \notin Outside
      /\ to \in Ending /\ to \notin Turns /\ to # "out"
  BY <1>1 DEF Outside, Ending, Turns
<1>4. /\ current[t] \in Buffers /\ sh[current[t]].buffer_index = disp_index[t]
      /\ disp_index[t] \in Nat \ {0} /\ Left(t) = disp_index[t] - 1
      /\ \A b \in Buffers : sh[b].buffer_index = disp_index[t] => b = current[t]
  BY <1>3, InItsLoop
<1>5. /\ pc \in [Tids -> Outside \cup Inside \cup Ending \cup {"end"}]
      /\ sh = [b \in Buffers |-> sh[b]] /\ \A b \in Buffers : IsPart(sh[b])
      /\ \A b \in Buffers : sh[b].num_done \in Nat
  BY <1>0 DEF Typed
<1>6. /\ pc' \in [Tids -> Outside \cup Inside \cup Ending \cup {"end"}]
      /\ pc'[t] = to /\ \A u \in Tids : u # t => pc'[u] = pc[u]
  BY <1>1, <1>2, <1>3, <1>5
<1>7. Ordering(current[t]) /\ (sh[current[t]].ordered_iteration # 0 => MyLoop(t).ordered)
  BY <1>0, <1>4 DEF Ordering, MyLoop
<1>8. /\ sh' = [b \in Buffers |-> sh'[b]]
      /\ \A b \in Buffers :
           /\ b # current[t] => sh'[b] = sh[b]
           /\ IsPart(sh'[b]) /\ sh'[b].buffer_index = sh[b].buffer_index
           /\ sh'[b].num_done \in Nat
           /\ sh'[b].ordered_iteration # 0 => sh'[b].ordered_iteration = sh[b].ordered_iteration
      /\ to = "release" => /\ sh'[current[t]].num_done = 0
                           /\ sh'[current[t]].iteration = 0
                           /\ sh'[current[t]].ordered_iteration = 0
  <2>1. CASE to = "reset"
    BY <1>2, <1>5, <2>1
  <2>2. CASE to = "release"
    <3>1. PICK s : s = sh[current[t]] /\ IsPart(s)
      BY <1>4, <1>5
    <3>2. PICK p : p = Fresh(s, MyLoop(t).ordered)
      OBVIOUS
    <3>3. /\ IsPart(p) /\ p.buffer_index = s.buffer_index
          /\ p.num_done = 0 /\ p.iteration = 0 /\ p.ordered_iteration = 0
      <4>1. CASE MyLoop(t).ordered
        BY <3>1, <3>2, <4>1 DEF Fresh, IsPart
      <4>2. CASE ~MyLoop(t).ordered
        <5>1. s.ordered_iteration = 0
          BY <1>7, <3>1, <4>2
        <5> QED
          BY <3>1, <3>2, <4>2, <5>1 DEF Fresh, IsPart
      <4> QED
        BY <4>1, <4>2
    <3>4. sh' = [sh EXCEPT ![current[t]] = p]
      BY <1>2, <2>2, <3>1, <3>2
    <3> QED
      BY <1>4, <1>5, <2>2, <3>1, <3>3, <3>4
  <2> QED
    BY <2>1, <2>2
<1>9. \A u \in Tids : Left(u)' = Left(u)
  BY <1>1, <1>3, <1>6 DEF Left
<1>10. Typed'
  <2>1. \A b \in Buffers : sh'[b].buffer_index \in Nat \ {0}
    BY <1>0, <1>8 DEF Typed
  <2>2. /\ program' \in Programs /\ disp_index' \in [Tids -> Nat] /\ Buffers' = Buffers
        /\ current' \in [Tids -> Buffers \cup {Null}]
    BY <1>0, <1>1 DEF Typed, Buffers
  <2> QED
    BY <1>1, <1>6, <1>8, <2>1, <2>2 DEF Typed, IsPart
<1>11. Belongs' /\ Behind'
  BY <1>0, <1>1, <1>8, <1>9 DEF Belongs, Behind, Buffer, Buffers
<1>12. LastResets'
  <2> SUFFICES ASSUME NEW v \in Tids, pc'[v] \in Ending
               PROVE  /\ \A u \in Tids : u # v => Left(u)' >= disp_index'[v]
                      /\ pc'[v] = "release" => /\ sh'[current'[v]].num_done = 0
                                               /\ sh'[current'[v]].iteration = 0
                                               /\ sh'[current'[v]].ordered_iteration = 0
    BY <1>1 DEF LastResets, Sh
  <2>1. pc[v] \in Ending /\ pc[v] \notin Outside
    BY <1>3, <1>6 DEF Ending, Outside
  <2>2. \A u \in Tids : u # v => Left(u) >= disp_index[v]
    BY <1>0, <2>1 DEF LastResets
  <2>3. CASE v = t
    BY <1>1, <1>6, <1>8, <1>9, <2>2, <2>3
  <2>4. CASE v # t
    <3>1. Left(t) >= disp_index[v] /\ disp_index[v] \in Nat
      BY <2>2, <2>4, Known DEF IInv
    <3>2. current[v] # current[t] /\ current[v] \in Buffers
      BY <1>4, <2>1, <3>1, InItsLoop
    <3>3. pc[v] = "release" => /\ sh[current[v]].num_done = 0 /\ sh[current[v]].iteration = 0
                               /\ sh[current[v]].ordered_iteration = 0
      BY <1>0, <2>1 DEF LastResets, Sh
    <3> QED
      BY <1>1, <1>6, <1>8, <1>9, <2>2, <2>4, <3>2, <3>3
  <2> QED
    BY <2>3, <2>4
<1>13. ASSUME NEW u \in Tids PROVE Has(u)'
  <2>1. Has(u)
    BY <1>0
  <2>2. CASE u = t
    BY <1>1, <1>3, <1>4, <1>6, <1>8, <2>1, <2>2 DEF Has, Sh, MyLoop, Loop, Buffer
  <2>3. CASE u # t
    <3>1. pc[u] \notin Outside => current[u] \in Buffers
      BY InItsLoop
    <3> QED
      BY <1>1, <1>6, <1>8, <2>1, <2>3, <3>1 DEF Has, Sh, MyLoop, Loop, Buffer
  <2> QED
    BY <2>2, <2>3
<1>14. ASSUME NEW b \in Buffers PROVE Counts(b)' /\ AsNew(b)' /\ Ordering(b)'
  <2>1. CASE b = current[t]
    <3>1. Resets(t, sh[b].buffer_index)' /\ pc'[t] \notin Outside
          /\ disp_index'[t] = sh'[b].buffer_index
      BY <1>1, <1>3, <1>4, <1>6, <1>8, <2>1 DEF Resets
    <3> QED
      BY <1>0, <1>1, <1>8, <3>1 DEF Counts, AsNew, Ordering, Loop
  <2>2. CASE b # current[t]
    <3>1. sh'[b] = sh[b] /\ sh[b].buffer_index # disp_index[t]
      BY <1>4, <1>8, <2>2
    <3>2. \A u \in Tids :
            /\ Resets(u, sh[b].buffer_index)' <=> Resets(u, sh[b].buffer_index)
            /\ (disp_index'[u] = sh[b].buffer_index /\ pc'[u] \notin Outside)
                 <=> (disp_index[u] = sh[b].buffer_index /\ pc[u] \notin Outside)
      BY <1>1, <1>6, <3>1 DEF Resets
    <3>3. LeftBy(sh[b].buffer_index)' = LeftBy(sh[b].buffer_index)
      BY <1>1, <1>9, <3>1 DEF LeftBy
    <3>4. Counts(b)'
      BY <1>0, <1>1, <3>1, <3>2, <3>3 DEF Counts
    <3>5. AsNew(b)'
      BY <1>0, <1>1, <1>9, <3>1, <3>2 DEF AsNew
    <3> QED
      BY <1>0, <1>1, <3>1, <3>4, <3>5 DEF Ordering, Loop
  <2> QED
    BY <2>1, <2>2
<1> QED
  BY <1>1, <1>10, <1>11, <1>12, <1>13, <1>14 DEF IInv, Buffers

(* The buffer goes to its next loop, which nobody has left.                 *)
LEMMA ReleaseKeeps ==
  ASSUME IInv, NEW t \in Tids, ReleaseBuffer(t)
  PROVE  IInv'
<1>0. /\ Typed /\ Belongs /\ Behind /\ LastResets
      /\ \A u \in Tids : Has(u)
      /\ \A b \in Buffers : Counts(b) /\ AsNew(b) /\ Ordering(b)
  BY DEF IInv
<1>1. /\ program' = program /\ disp_index' = disp_index /\ Tids' = Tids
      /\ pc[t] = "release" /\ pc' = [pc EXCEPT ![t] = "out"]
      /\ current' = [current EXCEPT ![t] = Null]
      /\ sh' = [sh EXCEPT ![current[t]].buffer_index = @ + NumBuffers]
  BY DEF ReleaseBuffer, LeaveLoop, Goes, Tids
<1>2. /\ pc[t] \notin Outside /\ pc[t] \in Ending /\ "out" \in Outside
      /\ "out" \notin Ending /\ "out" \notin Turns
  BY <1>1 DEF Outside, Ending, Turns
<1>3. /\ current[t] \in Buffers /\ sh[current[t]].buffer_index = disp_index[t]
      /\ disp_index[t] \in Nat \ {0} /\ Left(t) = disp_index[t] - 1
      /\ current[t] = Buffer(disp_index[t])
      /\ \A b \in Buffers : sh[b].buffer_index = disp_index[t] => b = current[t]
  BY <1>2, InItsLoop
<1>4. /\ pc \in [Tids -> Outside \cup Inside \cup Ending \cup {"end"}]
      /\ current \in [Tids -> Buffers \cup {Null}]
      /\ sh = [b \in Buffers |-> sh[b]]
      /\ \A b \in Buffers :
           IsPart(sh[b]) /\ sh[b].num_done \in Nat /\ sh[b].buffer_index \in Nat \ {0}
  BY <1>0 DEF Typed
<1>5. PICK n \in Nat \ {0}, d \in Nat \ {0} : n = NumBuffers /\ d = disp_index[t]
  BY <1>3, BuffersAssumption
<1>6. /\ pc' \in [Tids -> Outside \cup Inside \cup Ending \cup {"end"}]
      /\ current' \in [Tids -> Buffers \cup {Null}]
      /\ pc'[t] = "out" /\ current'[t] = Null
      /\ \A u \in Tids : u # t => pc'[u] = pc[u] /\ current'[u] = current[u]
  BY <1>1, <1>2, <1>4
<1>7. /\ sh' = [b \in Buffers |-> sh'[b]]
      /\ \A b \in Buffers :
           /\ b # current[t] => sh'[b] = sh[b]
           /\ IsPart(sh'[b]) /\ sh'[b].num_done = sh[b].num_done
      /\ sh'[current[t]].buffer_index = d + n
      /\ sh[current[t]].buffer_index = d
      /\ sh'[current[t]].num_done = 0
      /\ sh'[current[t]].iteration = 0
      /\ sh'[current[t]].ordered_iteration = 0
  <2>1. /\ sh[current[t]].num_done = 0 /\ sh[current[t]].iteration = 0
        /\ sh[current[t]].ordered_iteration = 0
    BY <1>0, <1>1, <1>2 DEF LastResets, Sh
  <2> QED
    BY <1>1, <1>3, <1>4, <1>5, <2>1 DEF IsPart
<1>8. /\ Left(t)' = d
      /\ \A u \in Tids : u # t => Left(u)' = Left(u) /\ Left(u) >= d
  <2>1. \A u \in Tids : u # t => Left(u) >= d
    BY <1>0, <1>2, <1>5 DEF LastResets
  <2> QED
    BY <1>1, <1>5, <1>6, <2>1 DEF Left
<1>9. \A u \in Tids : u # t /\ pc[u] \notin Outside => disp_index[u] # d
  <2> SUFFICES ASSUME NEW u \in Tids, u # t, pc[u] \notin Outside, disp_index[u] = d
               PROVE  FALSE
    OBVIOUS
  <2>1. Left(u) = d - 1 /\ Left(u) >= d
    BY <1>8, InItsLoop
  <2> QED
    BY <1>5, <2>1
<1>10. \A b \in Buffers : sh'[b].buffer_index \in Nat \ {0}
                          /\ sh'[b].buffer_index >= sh[b].buffer_index
  BY <1>4, <1>7
<1>11. Typed'
  <2>1. /\ program' \in Programs /\ disp_index' \in [Tids -> Nat] /\ Buffers' = Buffers
    BY <1>0, <1>1 DEF Typed, Buffers
  <2>2. \A b \in Buffers : sh'[b].num_done \in Nat
    BY <1>4, <1>7
  <2> QED
    BY <1>1, <1>6, <1>7, <1>10, <2>1, <2>2 DEF Typed, IsPart
<1>12. Belongs'
  <2>1. Buffer(d + n) = Buffer(d)
    BY <1>5, BufferIs
  <2> QED
    BY <1>0, <1>3, <1>5, <1>7, <2>1 DEF Belongs, Buffer, Buffers
<1>13. Behind'
  <2>1. \A b \in Buffers : d < sh[b].buffer_index + n
    BY <1>2, <1>5, LeavesInTime
  <2>2. \A u \in Tids, b \in Buffers : Left(u) < sh[b].buffer_index + n /\ Left(u) \in Int
    BY <1>0, <1>5, Known DEF Behind
  <2>3. \A u \in Tids, b \in Buffers : Left(u)' < sh'[b].buffer_index + n
    BY <1>4, <1>8, <1>10, <2>1, <2>2
  <2> QED
    BY <1>1, <1>5, <2>3 DEF Behind, Buffers
<1>14. LastResets'
  <2> SUFFICES ASSUME NEW v \in Tids, pc'[v] \in Ending
               PROVE  /\ \A u \in Tids : u # v => Left(u)' >= disp_index'[v]
                      /\ pc'[v] = "release" => /\ sh'[current'[v]].num_done = 0
                                               /\ sh'[current'[v]].iteration = 0
                                               /\ sh'[current'[v]].ordered_iteration = 0
    BY <1>1 DEF LastResets, Sh
  <2>1. /\ v # t /\ pc[v] \in Ending /\ pc[v] \notin Outside
        /\ pc'[v] = pc[v] /\ current'[v] = current[v]
    BY <1>2, <1>6 DEF Ending, Outside
  <2>2. \A u \in Tids : u # v => Left(u) >= disp_index[v]
    BY <1>0, <2>1 DEF LastResets
  <2>3. Left(t) >= disp_index[v] /\ disp_index[v] \in Nat
    BY <2>1, <2>2, Known DEF IInv
  <2>4. \A u \in Tids : u # v => Left(u)' >= disp_index'[v]
    BY <1>1, <1>3, <1>5, <1>8, <2>2, <2>3
  <2>5. current[v] # current[t] /\ current[v] \in Buffers
    BY <1>3, <2>1, <2>3, InItsLoop
  <2>6. pc[v] = "release" => /\ sh[current[v]].num_done = 0 /\ sh[current[v]].iteration = 0
                             /\ sh[current[v]].ordered_iteration = 0
    BY <1>0, <2>1 DEF LastResets, Sh
  <2> QED
    BY <1>7, <2>1, <2>4, <2>5, <2>6
<1>15. ASSUME NEW u \in Tids PROVE Has(u)'
  <2>1. Has(u)
    BY <1>0
  <2>2. CASE u = t
    BY <1>1, <1>2, <1>3, <1>6, <2>2 DEF Has, Sh, MyLoop, Loop, Buffer
  <2>3. CASE u # t /\ pc[u] \in Outside
    BY <1>1, <1>6, <2>1, <2>3 DEF Has, Sh, MyLoop, Loop, Buffer
  <2>4. CASE u # t /\ pc[u] \notin Outside
    <3>1. /\ current[u] \in Buffers /\ sh[current[u]].buffer_index = disp_index[u]
          /\ disp_index[u] # d
      BY <1>9, <2>4, InItsLoop
    <3>2. current[u] # current[t]
      BY <1>7, <3>1
    <3> QED
      BY <1>1, <1>6, <1>7, <2>1, <2>4, <3>1, <3>2 DEF Has, Sh, MyLoop, Loop, Buffer
  <2> QED
    BY <2>2, <2>3, <2>4
<1>16. ASSUME NEW b \in Buffers PROVE Counts(b)' /\ AsNew(b)' /\ Ordering(b)'
  <2>1. CASE b = current[t]
    <3>1. \A u \in Tids : ~(Left(u)' >= d + n)
      <4>1. \A u \in Tids : Left(u) < d + n /\ Left(u) \in Int
        BY <1>0, <1>3, <1>5, <1>7, Known DEF Behind
      <4> QED
        BY <1>5, <1>8, <4>1
    <3>2. LeftBy(d + n)' = {}
      BY <1>1, <3>1 DEF LeftBy
    <3>3. LeftBy(sh[b].buffer_index)' = {}
      BY <1>7, <2>1, <3>2 DEF LeftBy
    <3>4. Counts(b)'
      BY <1>7, <2>1, <3>3, FS_EmptySet DEF Counts
    <3> QED
      BY <1>7, <2>1, <3>4 DEF AsNew, Ordering
  <2>2. CASE b # current[t]
    <3>1. PICK k \in Nat : k = sh[b].buffer_index /\ k # d
      BY <1>3, <1>4, <1>5, <2>2
    <3>2. sh'[b] = sh[b]
      BY <1>7, <2>2
    <3>3. Left(t)' >= k <=> Left(t) >= k
      BY <1>3, <1>5, <1>8, <3>1
    <3>4. LeftBy(k)' = LeftBy(k)
      BY <1>1, <1>8, <3>3 DEF LeftBy
    <3>5. \A u \in Tids : Resets(u, sh[b].buffer_index)' <=> Resets(u, sh[b].buffer_index)
      BY <1>1, <1>5, <1>6, <3>1, <3>2 DEF Resets
    <3>6. Counts(b)'
      BY <1>0, <1>1, <3>1, <3>2, <3>4, <3>5 DEF Counts
    <3>7. AsNew(b)'
      <4>1. \A u \in Tids : /\ (disp_index'[u] = k /\ pc'[u] \notin Outside)
                                 <=> (disp_index[u] = k /\ pc[u] \notin Outside)
                            /\ Left(u)' < k <=> Left(u) < k
        BY <1>1, <1>2, <1>3, <1>5, <1>6, <1>8, <3>1
      <4> QED
        BY <1>0, <1>1, <3>1, <3>2, <4>1 DEF AsNew
    <3> QED
      BY <1>0, <1>1, <3>2, <3>6, <3>7 DEF Ordering, Loop
  <2> QED
    BY <2>1, <2>2
<1> QED
  BY <1>1, <1>11, <1>12, <1>13, <1>14, <1>15, <1>16 DEF IInv, Buffers

-----------------------------------------------------------------------------
(* The steps that are steps within a loop.                                  *)

(* What __kmp_dispatch_next changes of its part of the buffer.              *)
LEMMA IterationServes ==
  ASSUME IInv, NEW t \in Tids, pc[t] \in Inside, NEW i, SetSh(t, [Sh(t) EXCEPT !.iteration = i])
  PROVE  \E p : Serves(t, p)
<1>1. current[t] \in Buffers
  BY InItsLoop DEF Inside, Outside
<1>2. IsPart(Sh(t))
  BY <1>1 DEF IInv, Typed, Sh
<1>3. PICK p : p = [Sh(t) EXCEPT !.iteration = i]
  OBVIOUS
<1>4. /\ IsPart(p) /\ p.buffer_index = Sh(t).buffer_index /\ p.num_done = Sh(t).num_done
      /\ p.ordered_iteration = Sh(t).ordered_iteration
  BY <1>2, <1>3 DEF IsPart
<1> QED
  BY <1>3, <1>4 DEF Serves, SetSh

(* An atomic addition to the iterations.                                    *)
LEMMA AddServes ==
  ASSUME IInv, NEW t \in Tids, pc[t] \in Inside, NEW n, FetchAndAdd(t, n)
  PROVE  \E p : Serves(t, p)
<1>1. PICK i : i = U(Sh(t).iteration + n)
  OBVIOUS
<1>2. SetSh(t, [Sh(t) EXCEPT !.iteration = i])
  BY <1>1 DEF FetchAndAdd, SetSh
<1> QED
  BY <1>2, IterationServes

(* A turn of an ordered loop is passed on.                                  *)
LEMMA OrderedServes ==
  ASSUME IInv, NEW t \in Tids, pc[t] \in Turns, NEW i,
         SetSh(t, [Sh(t) EXCEPT !.ordered_iteration = i])
  PROVE  \E p : Serves(t, p)
<1>1. current[t] \in Buffers
  BY InItsLoop DEF Turns, Outside
<1>2. IsPart(Sh(t))
  BY <1>1 DEF IInv, Typed, Sh
<1>3. PICK p : p = [Sh(t) EXCEPT !.ordered_iteration = i]
  OBVIOUS
<1>4. /\ IsPart(p) /\ p.buffer_index = Sh(t).buffer_index /\ p.num_done = Sh(t).num_done
  BY <1>2, <1>3 DEF IsPart
<1> QED
  BY <1>3, <1>4 DEF Serves, SetSh

(* A chunk is given, or there is none.                                      *)
LEMMA GiveGoes ==
  ASSUME NEW t, NEW from, NEW p, NEW lower, NEW upper, Give(t, from, p, lower, upper)
  PROVE  /\ pc[t] = from
         /\ pc' = [pc EXCEPT ![t] = AfterChunk(t)]
         /\ UNCHANGED <<program, disp_index, current>>
BY DEF Give, Goes, Given

(* There is no chunk any more.                                              *)
LEMMA NoMoreGoes ==
  ASSUME NEW t, NEW from, NoMore(t, from)
  PROVE  /\ pc[t] = from /\ pc' = [pc EXCEPT ![t] = "end"]
         /\ UNCHANGED <<program, disp_index, current>>
BY DEF NoMore, Goes

(* A thread looks for whom to steal from, or gives up.                      *)
LEMMA AttemptGoes ==
  ASSUME NEW t, NEW from, NEW p, Attempt(t, from, p)
  PROVE  /\ pc[t] = from
         /\ \E to \in {"end", "seek"} : pc' = [pc EXCEPT ![t] = to]
         /\ UNCHANGED <<program, disp_index, current>>
BY DEF Attempt, Goes

(* It is a step within a loop.                                              *)
LEMMA MovesWorks ==
  ASSUME IInv, NEW t \in Tids, pc[t] \in Inside, Moves(t), sh' = sh \/ \E p : Serves(t, p)
  PROVE  Works(t)
<1>1. Has(t)
  BY DEF IInv
<1>2. \A to : to \in Turns => to \in Inside
  BY DEF Turns, Inside
<1>3. CASE pc' = [pc EXCEPT ![t] = AfterChunk(t)]
  <2>1. AfterChunk(t) \in Inside /\ (AfterChunk(t) \in Turns => MyLoop(t).ordered)
    BY DEF AfterChunk, Inside, Turns
  <2> QED
    BY <1>3, <2>1 DEF Works, Moves
<1>4. ASSUME NEW to \in Inside \cup {"end"}, pc' = [pc EXCEPT ![t] = to],
             to \in Turns => pc[t] \in Turns
      PROVE  Works(t)
  <2>1. to \in Turns => MyLoop(t).ordered
    BY <1>1, <1>4 DEF Has
  <2> QED
    BY <1>4, <2>1 DEF Works, Moves
<1>5. CASE pc' = pc
  BY <1>5 DEF Works, Moves
<1> QED
  BY <1>3, <1>4, <1>5 DEF Moves

(* Every step of __kmp_dispatch_next and of the ordered sections.           *)
LEMMA NextWorks ==
  ASSUME IInv, NEW t \in Tids,
         \/ NextZeroTrip(t) \/ NextBalanced(t) \/ NextStatic(t) \/ NextDynamic(t)
         \/ NextTrapezoidal(t) \/ NextAnalytical(t)
  PROVE  Works(t)
<1>1. pc[t] = "next"
  BY GiveGoes, NoMoreGoes DEF NextZeroTrip, NextBalanced, NextStatic, NextDynamic, NextTrapezoidal,
     NextAnalytical, Is
<1>2. pc[t] \in Inside /\ "end" \in Inside \cup {"end"} /\ "end" \notin Turns
  BY <1>1 DEF Inside, Turns
<1>3. ASSUME NoMore(t, "next") PROVE Moves(t)
  BY <1>2, <1>3, NoMoreGoes DEF Moves
<1>4. ASSUME NEW p, NEW lower, NEW upper, Give(t, "next", p, lower, upper) PROVE Moves(t)
  BY <1>4, GiveGoes DEF Moves
<1>5. CASE NextZeroTrip(t)
  BY <1>2, <1>3, <1>5, MovesWorks DEF NextZeroTrip
<1>6. CASE NextBalanced(t)
  <2>1. Moves(t) /\ sh' = sh
    BY <1>3, <1>4, <1>6 DEF NextBalanced
  <2> QED
    BY <1>2, <2>1, MovesWorks
<1>7. CASE NextStatic(t)
  <2>1. Moves(t) /\ sh' = sh
    BY <1>3, <1>4, <1>7 DEF NextStatic
  <2> QED
    BY <1>2, <2>1, MovesWorks
<1>8. CASE NextDynamic(t)
  <2>1. Moves(t) /\ FetchAndAdd(t, 1)
    BY <1>3, <1>4, <1>8 DEF NextDynamic
  <2> QED
    BY <1>2, <2>1, AddServes, MovesWorks
<1>9. CASE NextTrapezoidal(t)
  <2>1. Moves(t) /\ FetchAndAdd(t, 1)
    BY <1>3, <1>4, <1>9 DEF NextTrapezoidal
  <2> QED
    BY <1>2, <2>1, AddServes, MovesWorks
<1>10. CASE NextAnalytical(t)
  <2>1. FetchAndAdd(t, 1)
    BY <1>10 DEF NextAnalytical
  <2>2. Moves(t)
    <3>1. CASE UNCHANGED <<program, disp_index, pc, current>>
      BY <3>1 DEF Moves
    <3> QED
      BY <1>3, <1>4, <1>10, <3>1 DEF NextAnalytical
  <2> QED
    BY <1>2, <2>1, <2>2, AddServes, MovesWorks
<1> QED
  BY <1>5, <1>6, <1>7, <1>8, <1>9, <1>10

LEMMA GuidedWorks ==
  ASSUME IInv, NEW t \in Tids, GuidedRead(t) \/ Guided(t)
  PROVE  Works(t)
<1>1. pc[t] \in {"next", "guided"}
  BY DEF GuidedRead, Guided, Goes
<1>2. /\ pc[t] \in Inside /\ {"end", "guided", "next"} \subseteq Inside \cup {"end"}
      /\ {"end", "guided", "next"} \cap Turns = {}
  BY <1>1 DEF Inside, Turns
<1>3. ASSUME NEW from, NEW to \in {"end", "guided", "next"}, Goes(t, from, to),
             UNCHANGED <<program, disp_index, current>>
      PROVE  Moves(t)
  BY <1>2, <1>3 DEF Moves, Goes
<1>4. ASSUME NoMore(t, "guided") PROVE Moves(t)
  BY <1>2, <1>4, NoMoreGoes DEF Moves
<1>5. ASSUME NEW p, NEW lower, NEW upper, Give(t, "guided", p, lower, upper) PROVE Moves(t)
  BY <1>5, GiveGoes DEF Moves
<1>6. CASE GuidedRead(t)
  <2>1. Goes(t, "next", "guided") /\ UNCHANGED <<program, disp_index, current>> /\ sh' = sh
    BY <1>6 DEF GuidedRead
  <2>2. Moves(t)
    BY <1>3, <2>1
  <2> QED
    BY <1>2, <2>1, <2>2, MovesWorks
<1>7. CASE Guided(t)
  <2> DEFINE L    == MyLoop(t)
             read == frame[t].init
             size == (L.tc - read) \div (2 * program.n)
  <2>1. CASE NoMore(t, "guided") /\ UNCHANGED sh
    BY <1>2, <1>4, <2>1, MovesWorks
  <2>2. CASE FetchAndAdd(t, L.chunk) /\ Moves(t)
    BY <1>2, <2>2, AddServes, MovesWorks
  <2>3. CASE /\ SetSh(t, [Sh(t) EXCEPT !.iteration = read + size])
             /\ Give(t, "guided", Pr(t), read, read + size - 1)
    BY <1>2, <1>5, <2>3, IterationServes, MovesWorks
  <2>4. CASE Goes(t, "guided", "next") /\ UNCHANGED <<program, disp_index, current, sh>>
    <3>1. Moves(t) /\ sh' = sh
      BY <1>3, <2>4
    <3> QED
      BY <1>2, <3>1, MovesWorks
  <2> QED
    BY <1>4, <1>5, <1>7, <2>1, <2>2, <2>3, <2>4 DEF Guided
<1> QED
  BY <1>6, <1>7

LEMMA StealWorks ==
  ASSUME IInv, NEW t \in Tids,
         AllowStealing(t) \/ NextOwn(t) \/ Seek(t) \/ Rob(t) \/ Keep(t)
  PROVE  Works(t)
<1>1. pc[t] \in Inside
  <2>1. pc[t] \in {"flag", "next", "seek", "rob", "keep"}
    BY Zenon DEF AllowStealing, NextOwn, Is, Seek, Rob, Keep, Goes
  <2> QED
    BY <2>1 DEF Inside
<1>2. /\ {"end", "seek", "next", "rob", "keep"} \subseteq Inside \cup {"end"}
      /\ {"end", "seek", "next", "rob", "keep"} \cap Turns = {}
  BY DEF Inside, Turns
<1>3. ASSUME NEW from, NEW to \in {"next", "rob", "keep"}, Goes(t, from, to),
             UNCHANGED <<program, disp_index, current>>
      PROVE  Moves(t)
  BY <1>2, <1>3 DEF Moves, Goes
<1>4. ASSUME NEW from, NEW p, Attempt(t, from, p) PROVE Moves(t)
  BY <1>2, <1>4, AttemptGoes DEF Moves
<1>5. ASSUME NEW from, NEW p, NEW cycle, GiveCycle(t, from, p, cycle) PROVE Moves(t)
  BY <1>5, GiveGoes DEF Moves, GiveCycle
<1>6. Moves(t) /\ sh' = sh
  <2>1. CASE AllowStealing(t)
    BY <1>3, <2>1 DEF AllowStealing
  <2>2. CASE NextOwn(t)
    BY <1>4, <1>5, <2>2 DEF NextOwn
  <2>3. CASE Seek(t)
    <3>1. sh' = sh
      BY <2>3 DEF Seek
    <3>2. \/ Goes(t, "seek", "rob") /\ UNCHANGED <<program, disp_index, current>>
          \/ UNCHANGED <<program, disp_index, pc, current>>
          \/ Attempt(t, "seek", Pr(t))
      BY <2>3, Zenon DEF Seek
    <3>3. CASE Goes(t, "seek", "rob") /\ UNCHANGED <<program, disp_index, current>>
      BY <1>3, <3>1, <3>3
    <3>4. CASE UNCHANGED <<program, disp_index, pc, current>>
      BY <3>1, <3>4 DEF Moves
    <3>5. CASE Attempt(t, "seek", Pr(t))
      BY <1>4, <3>1, <3>5
    <3> QED
      BY <3>2, <3>3, <3>4, <3>5
  <2>4. CASE Rob(t)
    <3>1. sh' = sh
      BY <2>4, Zenon DEF Rob
    <3>2. \/ \E p : Attempt(t, "rob", p)
          \/ Goes(t, "rob", "keep") /\ UNCHANGED <<program, disp_index, current>>
      BY <2>4, Zenon DEF Rob
    <3>3. CASE \E p : Attempt(t, "rob", p)
      BY <1>4, <3>1, <3>3
    <3>4. CASE Goes(t, "rob", "keep") /\ UNCHANGED <<program, disp_index, current>>
      BY <1>3, <3>1, <3>4
    <3> QED
      BY <3>2, <3>3, <3>4
  <2>5. CASE Keep(t)
    BY <1>5, <2>5 DEF Keep
  <2> QED
    BY <2>1, <2>2, <2>3, <2>4, <2>5
<1> QED
  BY <1>1, <1>6, MovesWorks

LEMMA OrderedWorks ==
  ASSUME IInv, NEW t \in Tids,
         EnterOrdered(t) \/ ExitOrdered(t) \/ SkipOrdered(t) \/ DispatchFinish(t)
  PROVE  Works(t)
<1>1. pc[t] \in Turns /\ pc[t] \in Inside
  BY DEF EnterOrdered, ExitOrdered, SkipOrdered, DispatchFinish, Goes, Turns, Inside
<1>2. {"section", "finish", "iteration", "next"} \subseteq Inside
  BY DEF Inside
<1>3. ASSUME NEW from, NEW to \in {"section", "finish", "iteration", "next"}, Goes(t, from, to),
             UNCHANGED <<program, disp_index, current>>
      PROVE  Moves(t)
  BY <1>1, <1>2, <1>3 DEF Moves, Goes
<1>4. CASE EnterOrdered(t) \/ SkipOrdered(t)
  <2>1. Moves(t) /\ sh' = sh
    BY <1>3, <1>4 DEF EnterOrdered, SkipOrdered
  <2> QED
    BY <1>1, <2>1, MovesWorks
<1>5. CASE ExitOrdered(t)
  <2>1. Moves(t)
    BY <1>3, <1>5 DEF ExitOrdered
  <2>2. PICK i : SetSh(t, [Sh(t) EXCEPT !.ordered_iteration = i])
    <3>1. PICK i : i = U(Sh(t).ordered_iteration + 1)
      OBVIOUS
    <3> QED
      BY <1>5, <3>1 DEF ExitOrdered, SetSh
  <2> QED
    BY <1>1, <2>1, <2>2, OrderedServes, MovesWorks
<1>6. CASE DispatchFinish(t)
  <2>1. Moves(t)
    BY <1>3, <1>6 DEF DispatchFinish
  <2>2. ASSUME NEW all, CountOrdered(t, all) PROVE sh' = sh \/ \E p : Serves(t, p)
    <3>1. PICK i : i = U(Sh(t).ordered_iteration + all - Pr(t).bumped)
      OBVIOUS
    <3>2. sh' = sh \/ SetSh(t, [Sh(t) EXCEPT !.ordered_iteration = i])
      BY <2>2, <3>1 DEF CountOrdered, SetSh
    <3> QED
      BY <1>1, <3>2, OrderedServes
  <2>3. sh' = sh \/ \E all : CountOrdered(t, all)
    BY <1>6 DEF DispatchFinish
  <2> QED
    BY <1>1, <2>1, <2>2, <2>3, MovesWorks
<1> QED
  BY <1>4, <1>5, <1>6

-----------------------------------------------------------------------------
(* The invariant holds.                                                     *)

(* Initially.                                                               *)
LEMMA InitInv == Init => IInv
<1> SUFFICES ASSUME Init PROVE IInv
  OBVIOUS
<1>1. PICK n \in Nat \ {0} : n = NumBuffers /\ Buffers = 0..n-1
  BY BuffersAssumption DEF Buffers
<1>2. /\ disp_index = [t \in Tids |-> 0] /\ pc = [t \in Tids |-> "out"]
      /\ current = [t \in Tids |-> Null] /\ program \in Programs
      /\ sh = [b \in Buffers |-> [buffer_index |-> b + 1, iteration |-> 0, num_done |-> 0,
                                  ordered_iteration |-> 0]]
  BY DEF Init
<1>3. /\ sh = [b \in Buffers |-> sh[b]]
      /\ \A b \in Buffers : /\ IsPart(sh[b]) /\ sh[b].buffer_index = b + 1 /\ sh[b].iteration = 0
                            /\ sh[b].num_done = 0 /\ sh[b].ordered_iteration = 0
  BY <1>2 DEF IsPart
<1>4. \A b \in Buffers : b \in Nat /\ b + 1 \in Nat \ {0}
  BY <1>1
<1>5. \A t \in Tids : Left(t) = 0 /\ pc[t] = "out" /\ current[t] = Null /\ disp_index[t] = 0
  BY <1>2 DEF Left
<1>6. Typed
  BY <1>2, <1>3, <1>4 DEF Typed, Outside
<1>7. Belongs
  <2> SUFFICES ASSUME NEW b \in Buffers PROVE Buffer(b + 1) = b
    BY <1>3 DEF Belongs
  <2>1. PICK x \in Nat : x = b /\ x \in 0..n-1
    BY <1>1
  <2>2. x % n = x
    BY <2>1
  <2>3. (b + 1) - 1 = x
    BY <2>1
  <2> QED
    BY <1>1, <2>1, <2>2, <2>3 DEF Buffer
<1>8. Behind
  BY <1>1, <1>3, <1>4, <1>5 DEF Behind
<1>9. LastResets /\ \A t \in Tids : Has(t)
  BY <1>5 DEF LastResets, Has, Outside, Ending, Turns
<1>10. ASSUME NEW b \in Buffers PROVE Counts(b) /\ AsNew(b) /\ Ordering(b)
  <2>1. \A t \in Tids : ~(Left(t) >= sh[b].buffer_index)
    BY <1>3, <1>4, <1>5
  <2>2. LeftBy(sh[b].buffer_index) = {}
    BY <2>1 DEF LeftBy
  <2> QED
    BY <1>3, <2>2, FS_EmptySet DEF Counts, AsNew, Ordering
<1> QED
  BY <1>6, <1>7, <1>8, <1>9, <1>10 DEF IInv

(* By every step.                                                           *)
LEMMA NextInv == IInv /\ [Next]_vars => IInv'
<1> SUFFICES ASSUME IInv, [Next]_vars PROVE IInv'
  OBVIOUS
<1>1. ASSUME NEW t \in Tids, Step(t) PROVE IInv'
  <2>1. CASE DispatchInit(t)
    BY <2>1, EntersKeeps
  <2>2. CASE WaitForBuffer(t)
    BY <2>2, WaitKeeps
  <2>3. CASE \/ NextZeroTrip(t) \/ NextBalanced(t) \/ NextStatic(t) \/ NextDynamic(t)
             \/ NextTrapezoidal(t) \/ NextAnalytical(t)
    BY <2>3, NextWorks, WorksKeeps
  <2>4. CASE GuidedRead(t) \/ Guided(t)
    BY <2>4, GuidedWorks, WorksKeeps
  <2>5. CASE AllowStealing(t) \/ NextOwn(t) \/ Seek(t) \/ Rob(t) \/ Keep(t)
    BY <2>5, StealWorks, WorksKeeps
  <2>6. CASE EnterOrdered(t) \/ ExitOrdered(t) \/ SkipOrdered(t) \/ DispatchFinish(t)
    BY <2>6, OrderedWorks, WorksKeeps
  <2>7. CASE NoLock(t)
    <3>1. UNCHANGED <<program, disp_index, pc, current, sh>>
      BY <2>7 DEF NoLock, Fault
    <3> QED
      BY <3>1, SameState
  <2>8. CASE CountDone(t)
    BY <2>8, LeavesKeeps, LastKeeps
  <2>9. CASE DestroyLocks(t) \/ ResetBuffer(t)
    BY <2>9, ResetsKeep
  <2>10. CASE ReleaseBuffer(t)
    BY <2>10, ReleaseKeeps
  <2> QED
    BY <1>1, <2>1, <2>2, <2>3, <2>4, <2>5, <2>6, <2>7, <2>8, <2>9, <2>10 DEF Step
<1>2. CASE UNCHANGED vars
  <2>1. UNCHANGED <<program, disp_index, pc, current, sh>>
    BY <1>2 DEF vars
  <2> QED
    BY <2>1, SameState
<1> QED
  BY <1>1, <1>2 DEF Next

(* Always.                                                                  *)
LEMMA Always == Spec => []IInv
BY InitInv, NextInv, PTL DEF Spec

(* The parts of the invariant that the property is made of.                 *)
LEMMA Implied == IInv => BuffersAreOwned
<1> SUFFICES ASSUME IInv, NEW b \in Buffers
             PROVE  LET l == sh[b].buffer_index
                        left == {t \in Tids : Left(t) >= l}
                        resets == {t \in Tids : /\ disp_index[t] = l
                                                   /\ pc[t] \in {"destroy", "reset", "release"}}
                    IN  /\ \A t \in Tids : current[t] = b => disp_index[t] = l
                        /\ resets = {} => sh[b].num_done = Cardinality(left)
                        /\ InLoop(l) = {} /\ left = {} =>
                             sh[b].iteration = 0 /\ sh[b].ordered_iteration = 0
  BY DEF BuffersAreOwned
<1> DEFINE l == sh[b].buffer_index
<1>1. \A t \in Tids : current[t] = b => disp_index[t] = l
  <2>1. b # Null
    BY BuffersAssumption DEF Null, Buffers
  <2> QED
    BY <2>1 DEF IInv, Has, Sh
<1>2. ASSUME {t \in Tids : disp_index[t] = l /\ pc[t] \in {"destroy", "reset", "release"}} = {}
      PROVE  sh[b].num_done = Cardinality({t \in Tids : Left(t) >= l})
  <2>1. Counts(b)
    BY DEF IInv
  <2>2. \A t \in Tids : ~Resets(t, l)
    BY <1>2 DEF Resets, Ending
  <2> QED
    BY <2>1, <2>2 DEF Counts, LeftBy
<1>3. ASSUME InLoop(l) = {}, {t \in Tids : Left(t) >= l} = {}
      PROVE  sh[b].iteration = 0 /\ sh[b].ordered_iteration = 0
  <2>1. AsNew(b)
    BY DEF IInv
  <2>2. ASSUME NEW t \in Tids PROVE ~(disp_index[t] = l /\ pc[t] \notin Outside)
    BY <1>3 DEF InLoop, Outside
  <2>3. ASSUME NEW t \in Tids PROVE Left(t) < l
    <3>1. Left(t) \in Int /\ l \in Int
      BY Known DEF IInv, Typed
    <3>2. ~(Left(t) >= l)
      BY <1>3
    <3> QED
      BY <3>1, <3>2
  <2> QED
    BY <2>1, <2>2, <2>3 DEF AsNew
<1> QED
  BY <1>1, <1>2, <1>3

(***************************************************************************)
(* A shared buffer is used by the threads of one loop at a time, counts     *)
(* those that have left it and is as new for the first of the next: in      *)
(* teams of every size, with any number of buffers, for all loops.          *)
(***************************************************************************)
THEOREM BuffersStayOwned == Spec => []BuffersAreOwned
BY Always, Implied, PTL

(***************************************************************************)
(* The same of the loops that are run beside static ones, whose threads use *)
(* no buffer.                                                               *)
(***************************************************************************)
THEOREM LoopsOwnBuffers == LoopsSpec => []BuffersAreOwned
<1>1. LoopsInit => Init
  BY DEF LoopsInit
<1>2. [LoopsNext]_<<vars, input, result>> => [Next]_vars
  BY DEF LoopsNext
<1> QED
  BY <1>1, <1>2, BuffersStayOwned, PTL DEF LoopsSpec, Spec

(***************************************************************************)
(* The variables that say who is in which loop with which buffer keep their *)
(* types.                                                                   *)
(***************************************************************************)
THEOREM PlacesAreTyped == Spec => []Typed
<1>1. IInv => Typed
  BY DEF IInv
<1> QED
  BY <1>1, Always, PTL
-----------------------------------------------------------------------------
(***************************************************************************)
(* Static schedules.  A loop with trip iterations, the last of which is no  *)
(* more than an increment before its upper bound (IsLoop), has It(l, d, j)  *)
(* as iteration j.  The schedules but static_chunked give every thread the  *)
(* iterations between two of n + 1 numbers (Splits, IsShare), static_chunked *)
(* those that Owner says.  Either way they are all the iterations (Exact).  *)
(***************************************************************************)

(* The values of the induction variable.                                    *)
LEMMA ValuesAre ==
  /\ StaticHalf \in Nat \ {0}
  /\ Static!Values = -StaticHalf..StaticHalf-1
BY StaticAssumption DEF Static!Assumptions, Static!Values, Static!MinValue, Static!MaxValue

(* Products keep the order.                                                 *)
LEMMA Products ==
  ASSUME NEW x \in Int, NEW y \in Int, NEW s \in Nat \ {0}
  PROVE  /\ x < y <=> x * s < y * s
         /\ x <= y <=> x * s <= y * s
<1>1. ASSUME NEW a \in Int, NEW b \in Int, a < b PROVE a * s < b * s
  <2>1. PICK n \in Nat : b = a + n + 1
    <3>1. b - a - 1 \in Nat /\ b = a + (b - a - 1) + 1
      BY <1>1
    <3> QED
      BY <3>1
  <2>2. b * s = a * s + n * s + s /\ n * s >= 0
    BY <2>1
  <2> QED
    BY <2>2
<1>2. x < y => x * s < y * s
  BY <1>1
<1>3. y < x => y * s < x * s
  BY <1>1
<1> QED
  BY <1>2, <1>3

(* A number without remainder is a multiple.                                *)
LEMMA Multiples ==
  ASSUME NEW x \in Int, NEW n \in Nat \ {0}
  PROVE  /\ x = n * (x \div n) + (x % n)
         /\ x \div n \in Int /\ x % n \in 0..n-1
OBVIOUS

LEMMA NoRemainder ==
  ASSUME NEW x \in Int, NEW n \in Nat \ {0}
  PROVE  x % n = 0 <=> \E q \in Int : x = q * n
<1>1. PICK q \in Int, r \in 0..n-1 : x = n * q + r /\ r = x % n
  BY Multiples
<1>2. ASSUME x % n = 0 PROVE x = q * n
  BY <1>1, <1>2
<1>3. ASSUME NEW p \in Int, x = p * n PROVE x % n = 0
  <2>1. n * (p - q) = n * p - n * q /\ p * n = n * p
    OBVIOUS
  <2>2. n * (p - q) = r
    <3>1. PICK a \in Int, b \in Int : a = n * p /\ b = n * q
      OBVIOUS
    <3>2. n * (p - q) = a - b /\ x = a /\ x = b + r
      BY <1>1, <1>3, <2>1, <3>1
    <3> QED
      BY <3>1, <3>2
  <2>3. p - q = 0
    <3>1. -n < n * (p - q) /\ n * (p - q) < n
      BY <1>1, <2>2
    <3> QED
      BY <3>1, Multiple
  <2> QED
    BY <1>1, <1>3, <2>3
<1> QED
  BY <1>2, <1>3

(* A difference in the direction of the loop.                               *)
LEMMA SizeType ==
  ASSUME NEW d \in Int, d # 0
  PROVE  Static!Size(d) \in Nat \ {0}
BY DEF Static!Size

LEMMA DistanceType ==
  ASSUME NEW d \in Int, NEW x \in Int, NEW y \in Int, d # 0
  PROVE  Static!Distance(x, y, d) \in Int
BY DEF Static!Distance

LEMMA BeforeIs ==
  ASSUME NEW d \in Int, NEW x \in Int, NEW y \in Int, d # 0
  PROVE  Static!Before(x, y, d) <=> Static!Distance(x, y, d) > 0
BY DEF Static!Before, Static!Distance

LEMMA Opposite ==
  ASSUME NEW d \in Int, NEW x \in Int, NEW y \in Int, d # 0
  PROVE  Static!Distance(y, x, d) = -Static!Distance(x, y, d)
BY DEF Static!Distance

LEMMA Adds ==
  ASSUME NEW d \in Int, NEW x \in Int, NEW y \in Int, NEW z \in Int, d # 0
  PROVE  Static!Distance(x, z, d) = Static!Distance(x, y, d) + Static!Distance(y, z, d)
BY DEF Static!Distance

LEMMA ItType ==
  ASSUME NEW l \in Int, NEW d \in Int, NEW j \in Int
  PROVE  It(l, d, j) \in Int
BY DEF It

LEMMA Apart ==
  ASSUME NEW l \in Int, NEW d \in Int, NEW j \in Int, NEW k \in Int, d # 0
  PROVE  Static!Distance(It(l, d, j), It(l, d, k), d) = (k - j) * Static!Size(d)
<1>1. j * d \in Int /\ k * d \in Int
  OBVIOUS
<1>2. (k - j) * d = k * d - j * d /\ (k - j) * (-d) = j * d - k * d
  OBVIOUS
<1> QED
  BY <1>1, <1>2 DEF It, Static!Distance, Static!Size

LEMMA BetweenValues ==
  ASSUME NEW d \in Int, NEW x \in Static!Values, NEW z \in Static!Values, NEW y \in Int,
         Static!Distance(x, y, d) >= 0, Static!Distance(y, z, d) >= 0, d # 0
  PROVE  y \in Static!Values
BY ValuesAre DEF Static!Distance

(* A number that the type has is not changed.                               *)
LEMMA Small ==
  ASSUME NEW n \in Nat \ {0}, NEW x \in 0..n-1
  PROVE  x % n = x
OBVIOUS

LEMMA InType ==
  ASSUME NEW x \in Static!Values
  PROVE  Static!T(x) = x
<1>1. PICK h \in Nat \ {0} : h = StaticHalf
  BY ValuesAre
<1>2. Static!MinValue = -h
  BY <1>1 DEF Static!MinValue
<1>3. x \in -h..h-1
  BY <1>1, ValuesAre, Zenon
<1>4. PICK n \in Nat \ {0} : n = 2 * h
  OBVIOUS
<1>5. PICK y \in 0..n-1 : y = x + h
  BY <1>3, <1>4
<1>6. y % n = y
  BY Small
<1>7. x - Static!MinValue = y
  BY <1>2, <1>3, <1>5
<1> QED
  BY <1>1, <1>2, <1>3, <1>4, <1>5, <1>6, <1>7 DEF Static!T

(* Another number of steps away from an iteration is an iteration.          *)
LEMMA StepsAway ==
  ASSUME NEW l \in Int, NEW d \in Int, NEW a \in Int, NEW i \in Int, d # 0
  PROVE  (i - It(l, d, a)) % Static!Size(d) = 0 <=> \E j \in Int : i = It(l, d, j)
<1>1. PICK x \in Int : x = It(l, d, a) /\ x = l + a * d
  BY DEF It
<1>2. PICK s \in Nat \ {0} : s = Static!Size(d) /\ (d > 0 => s = d) /\ (d < 0 => s = -d)
  BY DEF Static!Size
<1>3. i - x \in Int
  OBVIOUS
<1>4. ASSUME (i - x) % s = 0 PROVE \E j \in Int : i = It(l, d, j)
  <2>1. PICK q \in Int : i - x = q * s
    BY <1>3, <1>4, NoRemainder
  <2>2. PICK j \in Int : j = IF d > 0 THEN a + q ELSE a - q
    OBVIOUS
  <2>3. (a + q) * d = a * d + q * d /\ (a - q) * d = a * d + q * (-d)
    OBVIOUS
  <2>4. i = l + j * d
    BY <1>1, <1>2, <2>1, <2>2, <2>3
  <2> QED
    BY <2>4 DEF It
<1>5. ASSUME NEW j \in Int, i = It(l, d, j) PROVE (i - x) % s = 0
  <2>1. PICK q \in Int : q = IF d > 0 THEN j - a ELSE a - j
    <3>1. j - a \in Int /\ a - j \in Int
      OBVIOUS
    <3> QED
      BY <3>1, Zenon
  <2>2. (j - a) * d = j * d - a * d /\ (a - j) * (-d) = j * d - a * d
    OBVIOUS
  <2>3. i = l + j * d
    BY <1>5 DEF It
  <2>4. CASE d > 0
    <3>1. q = j - a /\ s = d
      BY <1>2, <2>1, <2>4
    <3>2. i - x = q * s
      BY <1>1, <2>2, <2>3, <3>1
    <3> QED
      BY <1>3, <3>2, NoRemainder
  <2>5. CASE d < 0
    <3>1. q = a - j /\ s = -d
      BY <1>2, <2>1, <2>5
    <3>2. i - x = q * s
      BY <1>1, <2>2, <2>3, <3>1
    <3> QED
      BY <1>3, <3>2, NoRemainder
  <2> QED
    BY <2>4, <2>5
<1> QED
  BY <1>1, <1>2, <1>4, <1>5

(* Iterations come in the order of their numbers.                           *)
LEMMA InOrder ==
  ASSUME NEW l \in Int, NEW d \in Int, NEW j \in Int, NEW k \in Int, d # 0
  PROVE  Static!Before(It(l, d, j), It(l, d, k), d) <=> j < k
<1>1. Static!Distance(It(l, d, j), It(l, d, k), d) = (k - j) * Static!Size(d)
  BY Apart
<1>2. Static!Before(It(l, d, j), It(l, d, k), d) <=> (k - j) * Static!Size(d) > 0
  <2>1. PICK x \in Int, y \in Int : x = It(l, d, j) /\ y = It(l, d, k)
    BY ItType
  <2>2. Static!Before(x, y, d) <=> Static!Distance(x, y, d) > 0
    BY BeforeIs
  <2> QED
    BY <1>1, <2>1, <2>2
<1>3. ASSUME NEW s \in Nat \ {0}, NEW p \in Int PROVE p * s > 0 <=> p > 0
  <2>1. 0 < p <=> 0 * s < p * s
    BY Products
  <2>2. 0 * s = 0
    OBVIOUS
  <2> QED
    BY <2>1, <2>2
<1>4. (k - j) * Static!Size(d) > 0 <=> k - j > 0
  BY <1>3, SizeType
<1> QED
  BY <1>2, <1>4

LEMMA NotBeyond ==
  ASSUME NEW l \in Int, NEW d \in Int, NEW b \in Int, NEW e \in Int, NEW j \in Int,
         d # 0, Ends(l, d, b, e)
  PROVE  ~Static!Before(e, It(l, d, j), d) <=> j <= b - 1
<1>0. PICK c \in Int : c = b - 1
  OBVIOUS
<1>1. PICK f \in Int : f = It(l, d, c)
  BY ItType
<1>2. PICK i \in Int : i = It(l, d, j)
  BY ItType
<1>3. PICK s \in Nat \ {0} : s = Static!Size(d)
  BY SizeType
<1>4. PICK z \in 0..s-1 : z = Static!Distance(f, e, d)
  BY <1>0, <1>1, <1>3 DEF Ends
<1>5. PICK p \in Int : p = j - c
  OBVIOUS
<1>6. Static!Distance(f, i, d) = p * s
  BY <1>1, <1>2, <1>3, <1>5, Apart
<1>7. PICK w \in Int : w = Static!Distance(e, i, d)
  BY DistanceType
<1>8. p * s = z + w
  BY <1>4, <1>6, <1>7, Adds
<1>9. Static!Before(e, i, d) <=> w > 0
  BY <1>7, BeforeIs
<1>10. p * s <= z <=> p <= 0
  <2>1. p < 1 <=> p * s < 1 * s
    BY Products
  <2>2. p <= 0 <=> p * s <= 0 * s
    BY Products
  <2>3. 0 * s = 0 /\ 1 * s = s
    OBVIOUS
  <2> QED
    BY <1>4, <2>1, <2>2, <2>3
<1> QED
  BY <1>0, <1>2, <1>5, <1>8, <1>9, <1>10

LEMMA FromIs ==
  ASSUME NEW l \in Int, NEW d \in Int, NEW a \in Int, NEW b \in Int, NEW e \in Int,
         d # 0, Ends(l, d, b, e)
  PROVE  Static!From(It(l, d, a), e, d) = Iters(l, d, a, b)
<1>1. \A i \in Static!Values : i \in Int
  BY ValuesAre
<1>2. ASSUME NEW j \in Int
      PROVE  /\ ~Static!Before(It(l, d, j), It(l, d, a), d)
             /\ ~Static!Before(e, It(l, d, j), d)
             <=> j \in a..b-1
  BY InOrder, NotBeyond
<1>3. ASSUME NEW i \in Static!Values
      PROVE  i \in Static!From(It(l, d, a), e, d) <=> i \in Iters(l, d, a, b)
  <2>1. (i - It(l, d, a)) % Static!Size(d) = 0 <=> \E j \in Int : i = It(l, d, j)
    <3>1. PICK k \in Int : k = i
      BY <1>1
    <3>2. (k - It(l, d, a)) % Static!Size(d) = 0 <=> \E j \in Int : k = It(l, d, j)
      BY StepsAway
    <3> QED
      BY <3>1, <3>2
  <2>2. a..b-1 \subseteq Int
    OBVIOUS
  <2> QED
    BY <1>2, <2>1, <2>2 DEF Static!From, Iters
<1> QED
  BY <1>3 DEF Static!From, Iters

(* No iterations.                                                           *)
LEMMA NothingFrom ==
  ASSUME NEW d \in Int, NEW x \in Int, NEW e \in Int, Static!Before(e, x, d), d # 0
  PROVE  Static!From(x, e, d) = {}
BY ValuesAre DEF Static!From, Static!Before

LEMMA NoIters ==
  ASSUME NEW l, NEW d, NEW a \in Int
  PROVE  Iters(l, d, a, a) = {}
BY DEF Iters
LEMMA LoopFacts ==
  ASSUME NEW l, NEW u, NEW d, NEW trip, IsLoop(l, u, d, trip)
  PROVE  /\ l \in Int /\ u \in Int /\ d \in Int /\ d # 0 /\ trip \in Nat /\ trip > 0
         /\ Ends(l, d, trip, u) /\ l \in Static!Values /\ u \in Static!Values
         /\ It(l, d, 0) = l
<1>1. l \in Int /\ u \in Int /\ d \in Int
  BY ValuesAre DEF IsLoop
<1>2. It(l, d, 0) = l
  BY <1>1 DEF It
<1> QED
  BY <1>1, <1>2 DEF IsLoop

(* Its iterations, and that they are values, with m more if those are.      *)
LEMMA AllIterations ==
  ASSUME NEW l, NEW u, NEW d, NEW trip, IsLoop(l, u, d, trip)
  PROVE  Static!From(l, u, d) = Iters(l, d, 0, trip)
<1>1. PICK x \in Int, y \in Int, e \in Int, t \in Int :
        /\ x = l /\ y = u /\ e = d /\ t = trip /\ e # 0 /\ Ends(x, e, t, y) /\ It(x, e, 0) = x
  BY LoopFacts
<1>2. Static!From(It(x, e, 0), y, e) = Iters(x, e, 0, t)
  BY <1>1, FromIs
<1> QED
  BY <1>1, <1>2

LEMMA InLoopAre ==
  ASSUME NEW l, NEW u, NEW d, NEW trip, IsLoop(l, u, d, trip),
         NEW m \in Nat, u + m * d \in Static!Values, NEW j \in 0..trip-1+m
  PROVE  It(l, d, j) \in Static!Values
<1>1. PICK x \in Int, y \in Int, e \in Int, t \in Int :
        /\ x = l /\ y = u /\ e = d /\ t = trip /\ e # 0 /\ t > 0 /\ Ends(x, e, t, y)
        /\ It(x, e, 0) = x
  BY LoopFacts
<1>2. PICK k \in Int, n \in Int : k = j /\ n = m /\ 0 <= k /\ k <= t - 1 + n /\ n >= 0
  BY <1>1
<1>3. PICK s \in Nat : s = Static!Size(e) /\ s > 0
  BY <1>1, SizeType
<1>4. PICK c \in Int : c = t - 1
  OBVIOUS
<1>5. PICK i \in Int : i = It(x, e, k)
  BY ItType
<1>6. PICK f \in Int : f = It(x, e, c)
  BY ItType
<1>7. PICK z \in Int : z = y + n * e
  OBVIOUS
<1>8. Static!Distance(x, i, e) >= 0
  <2>1. Static!Distance(It(x, e, 0), It(x, e, k), e) = (k - 0) * s
    BY <1>1, <1>3, Apart
  <2>2. k * s >= 0 /\ (k - 0) * s = k * s
    BY <1>2
  <2> QED
    BY <1>1, <1>5, <2>1, <2>2
<1>9. Static!Distance(i, z, e) >= 0
  <2>1. Static!Distance(It(x, e, k), It(x, e, c), e) = (c - k) * s
    BY <1>1, <1>3, Apart
  <2>2. PICK r \in 0..s-1 : r = Static!Distance(f, y, e)
    BY <1>1, <1>3, <1>4, <1>6 DEF Ends
  <2>3. Static!Distance(y, z, e) = n * s
    <3>1. n * e \in Int /\ n * (-e) = -(n * e)
      OBVIOUS
    <3> QED
      BY <1>1, <1>3, <1>7, <3>1 DEF Static!Distance, Static!Size
  <2>4. Static!Distance(i, z, e) = Static!Distance(i, f, e) + Static!Distance(f, z, e)
    BY <1>1, Adds
  <2>5. Static!Distance(f, z, e) = Static!Distance(f, y, e) + Static!Distance(y, z, e)
    BY <1>1, Adds
  <2>6. (c - k) * s + n * s >= 0
    <3>1. PICK w \in Nat : w = c - k + n
      BY <1>2, <1>4
    <3>2. w * s = (c - k) * s + n * s /\ w * s >= 0
      BY <3>1
    <3> QED
      BY <3>2
  <2>7. PICK v \in Int, w \in Int : v = (c - k) * s /\ w = n * s
    OBVIOUS
  <2> QED
    BY <1>5, <1>6, <2>1, <2>2, <2>3, <2>4, <2>5, <2>6, <2>7
<1>10. x \in Static!Values /\ z \in Static!Values
  BY <1>1, <1>2, <1>7, LoopFacts
<1> QED
  BY <1>1, <1>2, <1>5, <1>8, <1>9, <1>10, BetweenValues

LEMMA Quotient ==
  ASSUME NEW x \in Nat, NEW n \in Nat, n > 0
  PROVE  x \div n \in Nat /\ x \div n <= x
<1>1. PICK q \in Int, r \in Int : q = x \div n /\ x = q * n + r /\ 0 <= r /\ r < n
  <2>1. n \in Nat \ {0}
    OBVIOUS
  <2>2. x = n * (x \div n) + (x % n) /\ x \div n \in Int /\ x % n \in 0..n-1
    BY <2>1, Multiples
  <2>3. n * (x \div n) = (x \div n) * n
    BY <2>2
  <2> QED
    BY <2>2, <2>3
<1>2. q >= 0
  <2>1. ASSUME q < 0 PROVE FALSE
    <3>1. PICK p \in Nat : q = -1 - p
      <4>1. -1 - q \in Nat /\ q = -1 - (-1 - q)
        BY <2>1
      <4> QED
        BY <4>1
    <3>2. q * n = -n - p * n /\ p * n >= 0
      BY <3>1
    <3> QED
      BY <1>1, <3>2
  <2> QED
    BY <2>1
<1>3. q * n >= q
  <2>1. PICK p \in Nat : n = p + 1
    <3>1. n - 1 \in Nat /\ n = (n - 1) + 1
      OBVIOUS
    <3> QED
      BY <3>1
  <2>2. q * n = q * p + q /\ q * p >= 0
    BY <1>2, <2>1
  <2> QED
    BY <1>2, <2>2
<1> QED
  BY <1>1, <1>2, <1>3

LEMMA CountIs ==
  ASSUME NEW d \in Int, NEW l \in Static!Values, NEW u \in Static!Values,
         ~Static!Before(u, l, d), d # 0
  PROVE  IsLoop(l, u, d, Count(l, u, d))
<1>1. PICK x \in Int, y \in Int : x = l /\ y = u
  BY ValuesAre
<1>2. PICK s \in Nat \ {0} : s = Static!Size(d)
  BY SizeType
<1>3. PICK w \in Nat : w = Static!Distance(x, y, d)
  <2>1. PICK z \in Int, v \in Int : z = Static!Distance(x, y, d) /\ v = Static!Distance(y, x, d)
    BY DistanceType
  <2>2. v = -z
    BY <2>1, Opposite
  <2>3. ~(v > 0)
    BY <1>1, <2>1, BeforeIs
  <2>4. z \in Nat
    BY <2>2, <2>3
  <2> QED
    BY <2>1, <2>4
<1>4. PICK q \in Nat : q = w \div s
  BY <1>2, <1>3, Quotient
<1>5. PICK t \in Nat : t = q + 1 /\ t > 0
  <2>1. q + 1 \in Nat /\ q + 1 > 0
    BY <1>4
  <2> QED
    BY <2>1
<1>6. w = s * q + (w % s) /\ w % s \in 0..s-1
  <2>1. w \in Int
    OBVIOUS
  <2>2. w = s * (w \div s) + (w % s) /\ w % s \in 0..s-1
    BY <2>1, Multiples
  <2> QED
    BY <1>4, <2>2
<1>7. PICK f \in Int : f = It(x, d, q)
  BY ItType
<1>8. Static!Distance(x, f, d) = q * s
  <2>1. It(x, d, 0) = x
    BY DEF It
  <2>2. Static!Distance(It(x, d, 0), It(x, d, q), d) = (q - 0) * s
    BY <1>2, Apart
  <2>3. (q - 0) * s = q * s
    OBVIOUS
  <2> QED
    BY <1>7, <2>1, <2>2, <2>3
<1>9. Static!Distance(f, y, d) \in 0..s-1
  <2>1. PICK z \in Int : z = Static!Distance(f, y, d)
    BY DistanceType
  <2>2. w = q * s + z
    BY <1>3, <1>8, <2>1, Adds
  <2>3. s * q = q * s
    OBVIOUS
  <2> QED
    BY <1>6, <2>1, <2>2, <2>3
<1>10. Ends(x, d, t, y)
  <2>1. t - 1 = q
    BY <1>5
  <2> QED
    BY <1>2, <1>7, <1>9, <2>1 DEF Ends
<1>11. Count(l, u, d) = t
  BY <1>1, <1>2, <1>3, <1>4, <1>5 DEF Count
<1> QED
  BY <1>1, <1>5, <1>10, <1>11 DEF IsLoop

(* With room for more increments there is room for fewer.                   *)
LEMMA RoomForLess ==
  ASSUME NEW d \in Int, NEW m \in Nat, NEW k \in Nat, NEW u \in Static!Values,
         u + m * d \in Static!Values, k <= m, d # 0
  PROVE  u + k * d \in Static!Values
<1>1. PICK x \in Int : x = u
  BY ValuesAre
<1>2. PICK y \in Int, z \in Int : y = x + k * d /\ z = x + m * d
  OBVIOUS
<1>3. Static!Distance(x, y, d) >= 0
  <2>1. (d > 0 => k * d >= 0) /\ (d < 0 => k * d <= 0)
    <3>1. d < 0 => k * (-d) >= 0 /\ k * d = -(k * (-d))
      OBVIOUS
    <3>2. d > 0 => k * d >= 0
      OBVIOUS
    <3> QED
      BY <3>1, <3>2
  <2> QED
    BY <1>2, <2>1 DEF Static!Distance
<1>4. Static!Distance(y, z, d) >= 0
  <2>1. PICK p \in Nat : p = m - k
    OBVIOUS
  <2>2. m * d = k * d + p * d
    <3>1. m = k + p
      BY <2>1
    <3> QED
      BY <3>1
  <2>3. (d > 0 => p * d >= 0) /\ (d < 0 => p * d <= 0)
    <3>1. d < 0 => p * (-d) >= 0 /\ p * d = -(p * (-d))
      OBVIOUS
    <3>2. d > 0 => p * d >= 0
      OBVIOUS
    <3> QED
      BY <3>1, <3>2
  <2> QED
    BY <1>2, <2>2, <2>3 DEF Static!Distance
<1>5. x \in Static!Values /\ z \in Static!Values
  BY <1>1, <1>2
<1>6. y \in Static!Values
  BY <1>3, <1>4, <1>5, BetweenValues
<1> QED
  BY <1>1, <1>2, <1>6

(* With room for an increment the count does not overflow.                  *)
LEMMA TripIs ==
  ASSUME NEW d \in Int, NEW l \in Static!Values, NEW u \in Static!Values,
         ~Static!Before(u, l, d), u + 1 * d \in Static!Values, d # 0
  PROVE  Static!TripCount(l, u, d) = Count(l, u, d)
<1>1. PICK x \in Int, y \in Int, h \in Nat \ {0} : x = l /\ y = u /\ h = StaticHalf
  BY ValuesAre
<1>2. /\ x \in -h..h-1 /\ y \in -h..h-1 /\ y + d \in -h..h-1
      /\ ~Static!Before(y, x, d)
  <2>1. 1 * d = d
    OBVIOUS
  <2>2. x \in Static!Values /\ y \in Static!Values /\ y + d \in Static!Values
    BY <1>1, <2>1
  <2> QED
    BY <1>1, <2>2, ValuesAre
<1>3. PICK n \in Nat \ {0} : n = 2 * h
  OBVIOUS
<1>4. PICK w \in 0..n-1 : w = Static!Distance(x, y, d) /\ w + 1 < n
  <2>1. Static!Distance(x, y, d) \in Int
    BY DistanceType
  <2>2. Static!Distance(x, y, d) >= 0 /\ Static!Distance(x, y, d) + 1 < n
    BY <1>2, <1>3 DEF Static!Distance, Static!Before
  <2> QED
    BY <2>1, <2>2
<1>5. PICK s \in Nat \ {0} : s = Static!Size(d)
  BY SizeType
<1>6. PICK q \in Nat : q = w \div s /\ q <= w
  BY <1>4, <1>5, Quotient
<1>7. w % n = w
  BY <1>4, Small
<1>8. (q + 1) % n = q + 1
  <2>1. PICK k \in 0..n-1 : k = q + 1
    BY <1>4, <1>6
  <2> QED
    BY <2>1, Small
<1>9. \A v \in Int : Static!U(v) = v % n
  BY <1>1, <1>3 DEF Static!U
<1>10. Static!TripCount(x, y, d) = Static!U((Static!U(w) \div s) + 1)
  BY <1>4, <1>5 DEF Static!TripCount
<1> QED
  BY <1>1, <1>4, <1>5, <1>6, <1>7, <1>8, <1>9, <1>10 DEF Count

LEMMA LeastNumber ==
  ASSUME NEW S \in SUBSET Nat, S # {}
  PROVE  \E x \in S : \A y \in S : x <= y
<1> DEFINE Less == {p \in Nat \X Nat : p[1] < p[2]}
<1>1. IsWellFoundedOn(Less, Nat)
  BY NatLessThanWellFounded DEF OpToRel
<1> HIDE DEF Less
<1>2. PICK x \in S : \A y \in S : ~(<<y, x>> \in Less)
  BY <1>1, WFMin
<1>3. \A y \in S : ~(y < x)
  BY <1>2 DEF Less
<1> QED
  BY <1>3

LEMMA SplitsCover ==
  ASSUME NEW n \in Nat, NEW trip \in Nat, NEW S, Splits(S, n, trip),
         NEW j \in 0..trip-1
  PROVE  \E t \in 0..n-1 : j \in S[t]..S[t+1]-1
<1> DEFINE Above == {k \in 0..n : j < S[k]}
<1>1. S \in [0..n -> Nat] /\ S[0] = 0 /\ S[n] = trip
  BY DEF Splits
<1>2. n \in Above /\ 0 \notin Above
  BY <1>1
<1>3. PICK k \in Above : \A i \in Above : k <= i
  <2>1. Above \in SUBSET Nat
    OBVIOUS
  <2> QED
    BY <1>2, <2>1, LeastNumber
<1>4. PICK t \in 0..n-1 : k = t + 1
  <2>1. k \in 0..n /\ k # 0
    BY <1>2
  <2>2. k - 1 \in 0..n-1 /\ k = (k - 1) + 1
    BY <2>1
  <2> QED
    BY <2>2
<1>5. t \notin Above
  BY <1>3, <1>4
<1>6. ~(j < S[t]) /\ j < S[t+1]
  BY <1>4, <1>5
<1>7. S[t] \in Nat /\ S[t+1] \in Nat /\ j \in Int
  BY <1>1, <1>4
<1> QED
  BY <1>6, <1>7

LEMMA SplitsApart ==
  ASSUME NEW n \in Nat, NEW trip \in Nat, NEW S, Splits(S, n, trip),
         NEW t \in 0..n-1, NEW v \in 0..n-1, NEW j \in Int,
         j \in S[t]..S[t+1]-1, j \in S[v]..S[v+1]-1
  PROVE  t = v
<1>1. \A i, k \in 0..n : i <= k => S[i] <= S[k]
  BY DEF Splits
<1>2. \A i \in 0..n : S[i] \in Nat
  BY DEF Splits
<1>3. ASSUME NEW i \in 0..n-1, NEW k \in 0..n-1, i < k PROVE S[i+1] <= S[k]
  <2>1. i + 1 \in 0..n /\ k \in 0..n /\ i + 1 <= k
    BY <1>3
  <2> QED
    BY <1>1, <2>1
<1>4. /\ S[t] \in Nat /\ S[t+1] \in Nat /\ S[v] \in Nat /\ S[v+1] \in Nat
  <2>1. t \in 0..n /\ t + 1 \in 0..n /\ v \in 0..n /\ v + 1 \in 0..n
    OBVIOUS
  <2> QED
    BY <1>2, <2>1
<1>5. ~(t < v)
  BY <1>3, <1>4
<1>6. ~(v < t)
  BY <1>3, <1>4
<1> QED
  BY <1>5, <1>6

LEMMA SplitsWithin ==
  ASSUME NEW n \in Nat, NEW trip \in Nat, NEW S, Splits(S, n, trip),
         NEW t \in 0..n-1
  PROVE  S[t] \in 0..trip /\ S[t+1] \in 0..trip /\ S[t] <= S[t+1]
<1>1. t \in 0..n /\ t + 1 \in 0..n /\ n \in 0..n /\ t <= t + 1 /\ t + 1 <= n /\ t <= n
  OBVIOUS
<1>2. /\ \A i, k \in 0..n : i <= k => S[i] <= S[k]
      /\ \A i \in 0..n : S[i] \in Nat
      /\ S[n] = trip
  BY DEF Splits
<1>3. S[t] <= S[t+1] /\ S[t+1] <= trip /\ S[t] <= trip /\ S[t] \in Nat /\ S[t+1] \in Nat
  BY <1>1, <1>2
<1> QED
  BY <1>3

(* Two iterations are two values.                                           *)
LEMMA ItOnce ==
  ASSUME NEW l \in Int, NEW d \in Int, NEW j \in Int, NEW k \in Int,
         It(l, d, j) = It(l, d, k), d # 0
  PROVE  j = k
<1>1. PICK x \in Int : x = It(l, d, j)
  BY ItType
<1>2. ~Static!Before(x, x, d)
  BY DEF Static!Before
<1>3. ~(j < k) /\ ~(k < j)
  BY <1>1, <1>2, InOrder
<1> QED
  BY <1>3

LEMMA InIters ==
  ASSUME NEW l \in Int, NEW d \in Int, NEW j \in Int, NEW a \in Int, NEW b \in Int,
         It(l, d, j) \in Static!Values, d # 0
  PROVE  It(l, d, j) \in Iters(l, d, a, b) <=> j \in a..b-1
<1>1. ASSUME It(l, d, j) \in Iters(l, d, a, b) PROVE j \in a..b-1
  <2>1. PICK k \in a..b-1 : It(l, d, j) = It(l, d, k)
    BY <1>1 DEF Iters
  <2>2. k \in Int
    OBVIOUS
  <2>3. j = k
    BY <2>1, <2>2, ItOnce
  <2> QED
    BY <2>3
<1>2. ASSUME j \in a..b-1 PROVE It(l, d, j) \in Iters(l, d, a, b)
  BY <1>2 DEF Iters
<1> QED
  BY <1>1, <1>2

LEMMA PartsMakeUp ==
  ASSUME NEW l, NEW u, NEW d, NEW trip, IsLoop(l, u, d, trip),
         NEW n \in Nat, NEW S, Splits(S, n, trip)
  PROVE  /\ UNION {Iters(l, d, S[t], S[t+1]) : t \in 0..n-1} = Static!From(l, u, d)
         /\ \A t, v \in 0..n-1 :
              t # v => Iters(l, d, S[t], S[t+1]) \cap Iters(l, d, S[v], S[v+1]) = {}
<1>1. /\ l \in Int /\ d \in Int /\ d # 0 /\ trip \in Nat
      /\ Static!From(l, u, d) = Iters(l, d, 0, trip)
  BY LoopFacts, AllIterations
<1>2. ASSUME NEW i, NEW t \in 0..n-1, i \in Iters(l, d, S[t], S[t+1])
      PROVE  i \in Iters(l, d, 0, trip)
  <2>1. PICK j \in S[t]..S[t+1]-1 : i = It(l, d, j) /\ i \in Static!Values
    BY <1>2 DEF Iters
  <2>2. S[t] \in 0..trip /\ S[t+1] \in 0..trip
    BY <1>1, SplitsWithin
  <2>3. j \in 0..trip-1
    BY <1>1, <2>2
  <2> QED
    BY <2>1, <2>3 DEF Iters
<1>3. ASSUME NEW i \in Iters(l, d, 0, trip)
      PROVE  \E t \in 0..n-1 : i \in Iters(l, d, S[t], S[t+1])
  <2>1. PICK j \in 0..trip-1 : i = It(l, d, j) /\ i \in Static!Values
    BY <1>3 DEF Iters
  <2>2. PICK t \in 0..n-1 : j \in S[t]..S[t+1]-1
    BY <1>1, SplitsCover
  <2> QED
    BY <2>1, <2>2 DEF Iters
<1>4. ASSUME NEW t \in 0..n-1, NEW v \in 0..n-1,
             NEW i \in Iters(l, d, S[t], S[t+1]), i \in Iters(l, d, S[v], S[v+1])
      PROVE  t = v
  <2>1. PICK j \in S[t]..S[t+1]-1 : i = It(l, d, j)
    BY DEF Iters
  <2>2. PICK k \in S[v]..S[v+1]-1 : i = It(l, d, k)
    BY <1>4 DEF Iters
  <2>3. j = k
    <3>1. j \in Int /\ k \in Int
      BY <1>1, SplitsWithin
    <3> QED
      BY <1>1, <2>1, <2>2, <3>1, ItOnce
  <2>4. j \in Int
    OBVIOUS
  <2> QED
    BY <1>1, <2>3, <2>4, SplitsApart
<1> QED
  BY <1>1, <1>2, <1>3, <1>4

LEMMA FinalIs ==
  ASSUME NEW l, NEW u, NEW d, NEW trip, IsLoop(l, u, d, trip)
  PROVE  /\ LastOf(l, u, d) = It(l, d, trip - 1)
         /\ It(l, d, trip - 1) \in Static!Values
<1>1. /\ l \in Int /\ u \in Int /\ d \in Int /\ d # 0 /\ trip \in Nat /\ trip > 0
      /\ u \in Static!Values
      /\ Static!From(l, u, d) = Iters(l, d, 0, trip)
  BY LoopFacts, AllIterations
<1>2. PICK c \in Int : c = trip - 1
  BY <1>1
<1>3. It(l, d, c) \in Static!Values
  <2>1. 0 * d = 0 /\ u + 0 = u
    BY <1>1
  <2>2. u + 0 * d \in Static!Values
    BY <1>1, <2>1
  <2>3. c \in 0..trip-1+0
    BY <1>1, <1>2
  <2> QED
    BY <2>2, <2>3, InLoopAre
<1>4. It(l, d, c) \in Iters(l, d, 0, trip)
  <2>1. c \in 0..trip-1 /\ 0 \in Int
    BY <1>1, <1>2
  <2> QED
    BY <1>3, <2>1 DEF Iters
<1>5. \A j \in Iters(l, d, 0, trip) : ~Static!Before(It(l, d, c), j, d)
  <2>1. ASSUME NEW k \in 0..trip-1 PROVE ~Static!Before(It(l, d, c), It(l, d, k), d)
    <3>1. k \in Int /\ ~(c < k)
      BY <1>1, <1>2
    <3> QED
      BY <1>1, <3>1, InOrder
  <2> QED
    BY <2>1 DEF Iters
<1>6. ASSUME NEW i \in Iters(l, d, 0, trip),
             \A j \in Iters(l, d, 0, trip) : ~Static!Before(i, j, d)
      PROVE  i = It(l, d, c)
  <2>1. PICK k \in 0..trip-1 : i = It(l, d, k)
    BY DEF Iters
  <2>2. ~Static!Before(It(l, d, k), It(l, d, c), d)
    BY <1>4, <1>6, <2>1
  <2>3. k \in Int /\ ~(k < c)
    <3>1. k \in Int
      BY <1>1
    <3> QED
      BY <1>1, <2>2, <3>1, InOrder
  <2>4. k = c
    BY <1>1, <1>2, <2>3
  <2> QED
    BY <2>1, <2>4
<1>7. LastOf(l, u, d) = It(l, d, c)
  BY <1>1, <1>4, <1>5, <1>6, Zenon DEF LastOf
<1> QED
  BY <1>2, <1>3, <1>7

LEMMA SplitIsExact ==
  ASSUME NEW l, NEW u, NEW d, NEW trip, IsLoop(l, u, d, trip),
         NEW n \in Nat, NEW S, Splits(S, n, trip), NEW parts, NEW last,
         \A t \in 0..n-1 : /\ parts[t] = Iters(l, d, S[t], S[t+1])
                           /\ last[t] <=> S[t] < S[t+1] /\ S[t+1] = trip
  PROVE  Exact(l, u, d, n, parts, last)
<1>0. /\ UNION {Iters(l, d, S[t], S[t+1]) : t \in 0..n-1} = Static!From(l, u, d)
      /\ \A t, v \in 0..n-1 :
           t # v => Iters(l, d, S[t], S[t+1]) \cap Iters(l, d, S[v], S[v+1]) = {}
  <2>1. trip \in Nat
    BY LoopFacts
  <2> QED
    BY <2>1, PartsMakeUp, Zenon
<1>1. UNION {parts[t] : t \in 0..n-1} = Static!From(l, u, d)
  <2>1. {parts[t] : t \in 0..n-1} = {Iters(l, d, S[t], S[t+1]) : t \in 0..n-1}
    BY Zenon
  <2> QED
    BY <1>0, <2>1, Zenon
<1>2. ASSUME NEW t \in 0..n-1, NEW v \in 0..n-1, t # v PROVE parts[t] \cap parts[v] = {}
  BY <1>0, <1>2, Zenon
<1>3. ASSUME NEW t \in 0..n-1 PROVE last[t] <=> LastOf(l, u, d) \in parts[t]
  <2>1. l \in Int /\ d \in Int /\ d # 0 /\ trip \in Nat
    BY LoopFacts
  <2>2. PICK a \in 0..trip, b \in 0..trip : a = S[t] /\ b = S[t+1] /\ a <= b
    BY <2>1, SplitsWithin
  <2>3. PICK c \in Int : c = trip - 1
    BY <2>1
  <2>4. LastOf(l, u, d) = It(l, d, c) /\ It(l, d, c) \in Static!Values
    BY <2>3, FinalIs
  <2>5. It(l, d, c) \in Iters(l, d, a, b) <=> c \in a..b-1
    <3>1. a \in Int /\ b \in Int
      OBVIOUS
    <3> QED
      BY <2>1, <2>4, <3>1, InIters
  <2>6. c \in a..b-1 <=> a < b /\ b = trip
    BY <2>1, <2>2, <2>3
  <2> QED
    BY <2>2, <2>4, <2>5, <2>6
<1> QED
  BY <1>1, <1>2, <1>3 DEF Exact

(* The parts of the schedules.                                              *)
LEMMA EndsAt ==
  ASSUME NEW l \in Int, NEW d \in Int, NEW b \in Int, d # 0
  PROVE  Ends(l, d, b, It(l, d, b - 1))
<1>1. PICK x \in Int : x = It(l, d, b - 1)
  <2>1. b - 1 \in Int
    OBVIOUS
  <2>2. It(l, d, b - 1) \in Int
    BY <2>1, ItType
  <2> QED
    BY <2>2
<1>2. Static!Distance(x, x, d) = 0
  BY DEF Static!Distance
<1>3. PICK s \in Nat \ {0} : s = Static!Size(d)
  BY SizeType
<1> QED
  BY <1>1, <1>2, <1>3 DEF Ends

LEMMA PartIs ==
  ASSUME NEW l \in Int, NEW d \in Int, NEW a \in Int, NEW b \in Int, NEW e \in Int,
         NEW trip, NEW r, r.lower = It(l, d, a), r.upper = e, d # 0, Ends(l, d, b, e),
         r.last <=> a < b /\ b = trip
  PROVE  IsShare(r, l, d, trip, a, b)
<1>1. Static!From(It(l, d, a), e, d) = Iters(l, d, a, b)
  BY FromIs
<1> QED
  BY <1>1 DEF IsShare

LEMMA NoPartIs ==
  ASSUME NEW l \in Int, NEW d \in Int, NEW x \in Int, NEW e \in Int, NEW a \in Int,
         NEW trip, NEW r, r.lower = x, r.upper = e, Static!Before(e, x, d), d # 0, ~r.last
  PROVE  IsShare(r, l, d, trip, a, a)
<1>1. Static!From(x, e, d) = {}
  BY NothingFrom
<1>2. Iters(l, d, a, a) = {}
  BY NoIters
<1>3. ~(a < a)
  OBVIOUS
<1> QED
  BY <1>1, <1>2, <1>3 DEF IsShare

LEMMA FewIs ==
  ASSUME NEW l, NEW u, NEW d, NEW trip, IsLoop(l, u, d, trip),
         u + 1 * d \in Static!Values, NEW id \in Nat
  PROVE  IsShare(Static!Few(l, u, d, trip, id), l, d, trip,
                Static!Lesser(id, trip), Static!Lesser(id + 1, trip))
<1>1. PICK x \in Int, y \in Int, e \in Int, t \in Int, k \in Int :
        /\ x = l /\ y = u /\ e = d /\ t = trip /\ k = id /\ e # 0 /\ t > 0
        /\ x \in Static!Values /\ y \in Static!Values /\ k >= 0
  BY LoopFacts
<1>2. PICK r : r = Static!Few(x, y, e, t, k)
  OBVIOUS
<1>3. CASE k < t
  <2>1. PICK i \in Int : i = It(x, e, k) /\ i = x + k * e
    BY DEF It
  <2>2. i \in Static!Values
    <3>1. 0 * e = 0 /\ y + 0 = y
      OBVIOUS
    <3>2. y + 0 * e \in Static!Values
      BY <1>1, <3>1
    <3>3. k \in 0..t-1+0
      BY <1>1, <1>3
    <3> QED
      BY <1>1, <2>1, <3>2, <3>3, InLoopAre
  <2>3. r = Static!Result(i, i, y, e, k = t - 1)
    BY <1>2, <1>3, <2>1 DEF Static!Few
  <2>4. r.lower = Static!T(i) /\ r.upper = Static!T(i) /\ (r.last <=> k = t - 1)
    BY <2>3, Zenon DEF Static!Result
  <2>5. Static!T(i) = i
    BY <2>2, InType
  <2>6. PICK b \in Int : b = k + 1 /\ b - 1 = k
    <3>1. k + 1 \in Int /\ (k + 1) - 1 = k
      OBVIOUS
    <3> QED
      BY <3>1
  <2>7. Ends(x, e, b, i)
    BY <1>1, <2>1, <2>6, EndsAt
  <2>8. r.last <=> k < b /\ b = t
    <3>1. k = t - 1 <=> k < b /\ b = t
      BY <2>6
    <3> QED
      BY <2>4, <3>1, Zenon
  <2>9. IsShare(r, x, e, t, k, b)
    <3>1. r.lower = It(x, e, k) /\ r.upper = i
      BY <2>1, <2>4, <2>5
    <3> QED
      BY <1>1, <2>7, <2>8, <3>1, PartIs, Zenon
  <2>10. Static!Lesser(k, t) = k /\ Static!Lesser(k + 1, t) = b
    BY <1>3, <2>6 DEF Static!Lesser
  <2> QED
    BY <1>1, <1>2, <2>9, <2>10
<1>4. CASE ~(k < t)
  <2>1. PICK i \in Int : i = y + e
    OBVIOUS
  <2>2. i \in Static!Values
    <3>1. i = y + 1 * e
      BY <2>1
    <3> QED
      BY <1>1, <3>1
  <2>3. r = Static!Result(i, y, y, e, FALSE)
    BY <1>2, <1>4, <2>1 DEF Static!Few
  <2>4. r.lower = Static!T(i) /\ r.upper = Static!T(y) /\ ~r.last
    BY <2>3, Zenon DEF Static!Result
  <2>5. Static!T(i) = i /\ Static!T(y) = y
    BY <1>1, <2>2, InType
  <2>6. Static!Before(y, i, e)
    BY <1>1, <2>1 DEF Static!Before
  <2>7. IsShare(r, x, e, t, t, t)
    BY <1>1, <2>4, <2>5, <2>6, NoPartIs
  <2>8. Static!Lesser(k, t) = t /\ Static!Lesser(k + 1, t) = t
    BY <1>4 DEF Static!Lesser
  <2> QED
    BY <1>1, <1>2, <2>7, <2>8
<1> QED
  BY <1>3, <1>4

LEMMA NextTimes ==
  ASSUME NEW x \in Int, NEW z \in Int
  PROVE  (x + 1) * z = x * z + z
OBVIOUS

LEMMA Distributes ==
  ASSUME NEW x \in Int, NEW y \in Int, NEW z \in Int
  PROVE  /\ (x + y) * z = x * z + y * z
         /\ (x + y - 1) * z = x * z + y * z - z
OBVIOUS

LEMMA BalancedGrows ==
  ASSUME NEW q \in Nat, NEW extras \in Nat, NEW j \in Nat, NEW k \in Nat, q > 0, j < k
  PROVE  /\ BalancedStart(q, extras, j) \in Nat
         /\ BalancedStart(q, extras, j) < BalancedStart(q, extras, k)
<1>1. PICK p \in Nat : k = j + 1 + p
  <2>1. k - j - 1 \in Nat /\ k = j + 1 + (k - j - 1)
    OBVIOUS
  <2> QED
    BY <2>1
<1>2. k * q = j * q + q + p * q /\ p * q >= 0 /\ j * q >= 0
  BY <1>1
<1>3. PICK a \in Int, b \in Int : a = j * q /\ b = k * q /\ a < b /\ a >= 0
  <2>1. j * q \in Int /\ k * q \in Int /\ p * q \in Int
    OBVIOUS
  <2> QED
    BY <1>2, <2>1
<1>4. /\ Static!Lesser(j, extras) \in Nat /\ Static!Lesser(k, extras) \in Nat
      /\ Static!Lesser(j, extras) <= Static!Lesser(k, extras)
  BY DEF Static!Lesser
<1> QED
  BY <1>3, <1>4 DEF BalancedStart

LEMMA BalancedSplits ==
  ASSUME NEW n \in Nat, NEW q \in Nat, NEW extras \in Nat, NEW trip \in Nat,
         q > 0, extras < n, trip = q * n + extras
  PROVE  Splits([x \in 0..n |-> BalancedStart(q, extras, x)], n, trip)
<1>1. ASSUME NEW j \in 0..n PROVE BalancedStart(q, extras, j) \in Nat
  <2>1. j \in Nat /\ j + 1 \in Nat /\ j < j + 1
    OBVIOUS
  <2> QED
    BY <2>1, BalancedGrows
<1>2. ASSUME NEW j \in 0..n, NEW k \in 0..n, j <= k
      PROVE  BalancedStart(q, extras, j) <= BalancedStart(q, extras, k)
  <2>1. CASE j = k
    BY <1>1, <2>1
  <2>2. CASE j # k
    <3>1. j \in Nat /\ k \in Nat /\ j < k
      BY <1>2, <2>2
    <3>2. BalancedStart(q, extras, j) < BalancedStart(q, extras, k)
      BY <3>1, BalancedGrows
    <3> QED
      BY <1>1, <3>2
  <2> QED
    BY <2>1, <2>2
<1>3. BalancedStart(q, extras, 0) = 0
  BY DEF BalancedStart, Static!Lesser
<1>4. BalancedStart(q, extras, n) = trip
  <2>1. n * q = q * n
    OBVIOUS
  <2>2. Static!Lesser(n, extras) = extras
    BY DEF Static!Lesser
  <2> QED
    BY <2>1, <2>2 DEF BalancedStart
<1> QED
  BY <1>1, <1>2, <1>3, <1>4 DEF Splits

LEMMA BalancedIs ==
  ASSUME NEW l, NEW u, NEW d, NEW trip, IsLoop(l, u, d, trip),
         NEW n \in Nat, NEW q \in Nat, NEW extras \in Nat, NEW id \in 0..n-1,
         q = trip \div n, extras = trip % n, q > 0, extras < n, trip = q * n + extras
  PROVE  IsShare(Static!Balanced(l, u, d, trip, n, id), l, d, trip,
                BalancedStart(q, extras, id), BalancedStart(q, extras, id + 1))
<1>1. PICK x \in Int, y \in Int, e \in Int, t \in Nat :
        /\ x = l /\ y = u /\ e = d /\ t = trip /\ e # 0 /\ t > 0
        /\ x \in Static!Values /\ y \in Static!Values
  BY LoopFacts
<1>2. PICK r : r = Static!Balanced(x, y, e, t, n, id)
  OBVIOUS
<1>3. PICK k \in Nat, m \in Nat : k = id /\ m = k + 1 /\ k < m /\ m <= n
  OBVIOUS
<1>4. PICK a \in Nat, b \in Nat :
        a = BalancedStart(q, extras, k) /\ b = BalancedStart(q, extras, m) /\ a < b
  <2>1. PICK p \in Nat : p = m + 1 /\ m < p
    <3>1. m + 1 \in Nat /\ m < m + 1
      OBVIOUS
    <3> QED
      BY <3>1
  <2>2. /\ BalancedStart(q, extras, k) \in Nat
        /\ BalancedStart(q, extras, k) < BalancedStart(q, extras, m)
    BY <1>3, BalancedGrows
  <2>3. BalancedStart(q, extras, m) \in Nat
    BY <2>1, BalancedGrows
  <2> QED
    BY <2>2, <2>3, Zenon
<1>5. b <= t /\ (b = t <=> k = n - 1)
  <2>1. BalancedStart(q, extras, n) = t
    <3>1. Splits([z \in 0..n |-> BalancedStart(q, extras, z)], n, trip)
      BY <1>1, BalancedSplits
    <3>2. [z \in 0..n |-> BalancedStart(q, extras, z)][n] = trip
      BY <3>1 DEF Splits
    <3>3. n \in 0..n
      OBVIOUS
    <3> QED
      BY <1>1, <3>2, <3>3
  <2>2. m < n => b < t
    BY <1>4, <2>1, BalancedGrows
  <2> QED
    BY <1>3, <1>4, <2>1, <2>2
<1>6. \A j \in 0..t-1 : It(x, e, j) \in Static!Values
  <2>1. 0 * e = 0 /\ y + 0 = y
    OBVIOUS
  <2>2. y + 0 * e \in Static!Values
    BY <1>1, <2>1
  <2>3. 0..t-1 = 0..t-1+0
    OBVIOUS
  <2> QED
    BY <1>1, <2>2, <2>3, InLoopAre
<1>7. PICK f \in Int, g \in Int : f = It(x, e, a) /\ g = It(x, e, b - 1)
  <2>1. a \in Int /\ b - 1 \in Int
    OBVIOUS
  <2>2. It(x, e, a) \in Int
    BY <2>1, ItType
  <2>3. It(x, e, b - 1) \in Int
    BY <2>1, ItType
  <2> QED
    BY <2>2, <2>3, Zenon
<1>8. f \in Static!Values /\ g \in Static!Values
  <2>1. a \in 0..t-1 /\ b - 1 \in 0..t-1
    BY <1>4, <1>5
  <2> QED
    BY <1>6, <1>7, <2>1
<1>9. Static!T(x + e * (k * q + Static!Lesser(k, extras))) = f
  <2>1. a = k * q + Static!Lesser(k, extras)
    BY <1>4 DEF BalancedStart
  <2>2. x + e * a = f
    BY <1>7 DEF It
  <2> QED
    BY <1>8, <2>1, <2>2, InType
<1>10. f + q * e - (IF k < extras THEN 0 ELSE e) = g
  <2>1. b = a + q + (IF k < extras THEN 1 ELSE 0)
    <3>1. m * q = k * q + q
      <4>1. k \in Int /\ q \in Int
        OBVIOUS
      <4>2. (k + 1) * q = k * q + q
        BY <4>1, NextTimes
      <4> QED
        BY <1>3, <4>2, Zenon
    <3>2. Static!Lesser(m, extras) = Static!Lesser(k, extras) + (IF k < extras THEN 1 ELSE 0)
      BY <1>3 DEF Static!Lesser
    <3>3. PICK v \in Int : v = k * q
      OBVIOUS
    <3>4. PICK w \in Int : w = Static!Lesser(k, extras)
      BY DEF Static!Lesser
    <3>5. a = v + w /\ b = v + q + (w + (IF k < extras THEN 1 ELSE 0))
      BY <1>4, <3>1, <3>2, <3>3, <3>4 DEF BalancedStart
    <3> QED
      BY <3>5
  <2>2. g = x + (b - 1) * e /\ f = x + a * e
    BY <1>7 DEF It
  <2>3. CASE k < extras
    <3>1. b = a + q + 1
      BY <2>1, <2>3, Zenon
    <3>2. b - 1 = a + q
      BY <3>1
    <3>3. (a + q) * e = a * e + q * e
      BY Distributes
    <3>4. f + q * e - 0 = g
      <4>1. PICK v \in Int, w \in Int : v = a * e /\ w = q * e
        OBVIOUS
      <4>2. g = x + (v + w) /\ f = x + v
        BY <2>2, <3>2, <3>3, <4>1, Zenon
      <4>3. f + w - 0 = g
        BY <4>2
      <4> QED
        BY <4>1, <4>3, Zenon
    <3> QED
      BY <2>3, <3>4, Zenon
  <2>4. CASE ~(k < extras)
    <3>1. b = a + q + 0
      BY <2>1, <2>4, Zenon
    <3>2. b - 1 = a + q - 1
      BY <3>1
    <3>3. (a + q - 1) * e = a * e + q * e - e
      BY Distributes
    <3>4. f + q * e - e = g
      <4>1. PICK v \in Int, w \in Int : v = a * e /\ w = q * e
        OBVIOUS
      <4>2. g = x + (v + w - e) /\ f = x + v
        BY <2>2, <3>2, <3>3, <4>1, Zenon
      <4>3. f + w - e = g
        BY <4>2
      <4> QED
        BY <4>1, <4>3, Zenon
    <3> QED
      BY <2>4, <3>4, Zenon
  <2> QED
    BY <2>3, <2>4
<1>11. r = Static!Result(f, g, y, e, k = n - 1)
  <2>1. t \div n = q /\ t % n = extras
    BY <1>1
  <2> QED
    BY <1>2, <1>3, <1>9, <1>10, <2>1 DEF Static!Balanced
<1>12. r.lower = Static!T(f) /\ r.upper = Static!T(g) /\ (r.last <=> k = n - 1)
  BY <1>11, Zenon DEF Static!Result
<1>13. r.lower = It(x, e, a) /\ r.upper = g
  BY <1>7, <1>8, <1>12, InType
<1>14. r.last <=> a < b /\ b = t
  BY <1>4, <1>5, <1>12, Zenon
<1>15. Ends(x, e, b, g)
  BY <1>1, <1>7, EndsAt
<1>16. a \in Int /\ b \in Int
  OBVIOUS
<1>17. IsShare(r, x, e, t, a, b)
  BY <1>1, <1>13, <1>14, <1>15, <1>16, PartIs, Zenon
<1> QED
  BY <1>1, <1>2, <1>3, <1>4, <1>17

(* Parts of equal sizes, of which the last may be cut short or empty.       *)
LEMMA CeilingIs ==
  ASSUME NEW a \in Nat, NEW b \in Nat, b > 0
  PROVE  /\ Static!Ceiling(a, b) \in Nat
         /\ Static!Ceiling(a, b) * b >= a
         /\ Static!Ceiling(a, b) * b <= a + b - 1
         /\ a > 0 => Static!Ceiling(a, b) > 0
<1>1. PICK x \in Nat : x = a + b - 1
  <2>1. a + b - 1 \in Nat
    OBVIOUS
  <2> QED
    BY <2>1
<1>2. PICK c \in Nat : c = x \div b
  BY Quotient
<1>3. x = b * c + (x % b) /\ x % b \in 0..b-1
  <2>1. x \in Int /\ b \in Nat \ {0}
    OBVIOUS
  <2> QED
    BY <1>2, <2>1, Multiples
<1>4. PICK p \in Int : p = b * c /\ p = c * b
  <2>1. b * c \in Int /\ b * c = c * b
    OBVIOUS
  <2> QED
    BY <2>1
<1>5. p >= a /\ p <= a + b - 1
  <2>1. PICK z \in 0..b-1 : x = p + z
    BY <1>3, <1>4
  <2> QED
    BY <1>1, <2>1
<1>6. a > 0 => c > 0
  <2>1. c = 0 => p = 0
    BY <1>4
  <2> QED
    BY <1>5, <2>1
<1>7. Static!Ceiling(a, b) = c
  BY <1>1, <1>2 DEF Static!Ceiling
<1> QED
  BY <1>4, <1>5, <1>6, <1>7

LEMMA BlockSplits ==
  ASSUME NEW n \in Nat, NEW z \in Nat, NEW trip \in Nat, z > 0, n * z >= trip
  PROVE  Splits([x \in 0..n |-> BlockStart(z, trip, x)], n, trip)
<1>1. ASSUME NEW j \in 0..n PROVE BlockStart(z, trip, j) \in Nat
  <2>1. j * z \in Nat
    OBVIOUS
  <2> QED
    BY <2>1 DEF BlockStart, Static!Lesser
<1>2. ASSUME NEW j \in 0..n, NEW k \in 0..n, j <= k
      PROVE  BlockStart(z, trip, j) <= BlockStart(z, trip, k)
  <2>1. PICK v \in Int, w \in Int : v = j * z /\ w = k * z /\ v <= w
    <3>1. j \in Int /\ k \in Int /\ z \in Nat \ {0}
      OBVIOUS
    <3>2. j * z <= k * z
      BY <1>2, <3>1, Products
    <3>3. j * z \in Int /\ k * z \in Int
      OBVIOUS
    <3> QED
      BY <3>2, <3>3, Zenon
  <2> QED
    BY <2>1 DEF BlockStart, Static!Lesser
<1>3. BlockStart(z, trip, 0) = 0
  <2>1. 0 * z = 0
    OBVIOUS
  <2> QED
    BY <2>1 DEF BlockStart, Static!Lesser
<1>4. BlockStart(z, trip, n) = trip
  <2>1. PICK w \in Int : w = n * z /\ w >= trip
    <3>1. n * z \in Int
      OBVIOUS
    <3> QED
      BY <3>1
  <2> QED
    BY <2>1 DEF BlockStart, Static!Lesser
<1> QED
  BY <1>1, <1>2, <1>3, <1>4 DEF Splits

LEMMA RoomForAll ==
  ASSUME NEW l, NEW u, NEW d, NEW trip, IsLoop(l, u, d, trip),
         NEW n, NEW z, HasRoom(u, d, trip, n, z), NEW j \in Nat, j <= n * z
  PROVE  It(l, d, j) \in Static!Values
<1>1. PICK k \in Nat : u + k * d \in Static!Values /\ n * z <= trip - 1 + k
  BY DEF HasRoom
<1>2. PICK p \in Nat : p = n * z
  <2>1. n \in Nat /\ z \in Nat
    BY DEF HasRoom
  <2>2. n * z \in Nat
    BY <2>1
  <2> QED
    BY <2>2
<1>3. trip \in Nat
  BY LoopFacts
<1>4. j \in 0..trip-1+k
  BY <1>1, <1>2, <1>3
<1> QED
  BY <1>1, <1>4, InLoopAre

LEMMA HalfFits ==
  ASSUME NEW w \in Int, NEW n \in Nat, NEW h \in Nat, n > 1,
         n * w < 2 * h, -(2 * h) < n * w
  PROVE  w \in -h..h-1
<1>1. PICK j \in Nat : n = j + 2
  <2>1. n - 2 \in Nat /\ n = (n - 2) + 2
    OBVIOUS
  <2> QED
    BY <2>1
<1>2. n * w = j * w + 2 * w
  BY <1>1
<1>3. (w >= 0 => j * w >= 0) /\ (w <= 0 => j * w <= 0)
  <2>1. w <= 0 => j * (-w) >= 0 /\ j * w = -(j * (-w))
    OBVIOUS
  <2>2. w >= 0 => j * w >= 0
    OBVIOUS
  <2> QED
    BY <2>1, <2>2
<1>4. PICK p \in Int : p = j * w
  OBVIOUS
<1>5. 2 * w + p < 2 * h /\ -(2 * h) < 2 * w + p /\ (w >= 0 => p >= 0) /\ (w <= 0 => p <= 0)
  <2>1. n * w = p + 2 * w
    BY <1>2, <1>4
  <2> QED
    BY <1>3, <1>4, <2>1
<1> QED
  BY <1>5

LEMMA SpanFits ==
  ASSUME NEW l, NEW u, NEW d, NEW trip, IsLoop(l, u, d, trip),
         NEW n, NEW z, HasRoom(u, d, trip, n, z)
  PROVE  Static!T(z * d) = z * d
<1>1. PICK x \in Int, e \in Int : x = l /\ e = d /\ x \in Static!Values
  BY LoopFacts
<1>2. PICK m \in Nat, y \in Nat : m = n /\ y = z /\ m > 1
  BY DEF HasRoom
<1>3. PICK p \in Nat : p = m * y
  <2>1. m * y \in Nat
    OBVIOUS
  <2> QED
    BY <2>1
<1>4. PICK w \in Int : w = y * e
  <2>1. y * e \in Int
    OBVIOUS
  <2> QED
    BY <2>1
<1>5. m * w = p * e
  <2>1. (m * y) * e = m * (y * e)
    OBVIOUS
  <2> QED
    BY <1>3, <1>4, <2>1, Zenon
<1>6. PICK v \in Int : v = m * w
  OBVIOUS
<1>7. x + v \in Static!Values
  <2>1. p <= n * z
    BY <1>2, <1>3
  <2>2. It(l, d, p) \in Static!Values
    BY <2>1, RoomForAll
  <2>3. It(x, e, p) = x + v
    BY <1>5, <1>6 DEF It
  <2> QED
    BY <1>1, <2>2, <2>3
<1>8. PICK h \in Nat : h = StaticHalf
  BY ValuesAre
<1>9. x \in -h..h-1 /\ x + v \in -h..h-1
  BY <1>1, <1>7, <1>8, ValuesAre, Zenon
<1>10. v < 2 * h /\ -(2 * h) < v
  BY <1>9
<1>11. w \in -h..h-1
  <2>1. m * w < 2 * h /\ -(2 * h) < m * w
    BY <1>6, <1>10, Zenon
  <2> QED
    BY <1>2, <2>1, HalfFits
<1>12. w \in Static!Values
  BY <1>8, <1>11, ValuesAre, Zenon
<1> QED
  BY <1>1, <1>2, <1>4, <1>12, InType

LEMMA BlockBounds ==
  ASSUME NEW l, NEW u, NEW d, NEW trip, IsLoop(l, u, d, trip),
         NEW n, NEW z, HasRoom(u, d, trip, n, z), NEW id \in 0..n-1
  PROVE  \E a \in Nat, b \in Nat :
           /\ a = id * z /\ b = (id + 1) * z /\ a < b /\ b <= n * z /\ b = a + z
           /\ It(l, d, a) \in Static!Values /\ It(l, d, b - 1) \in Static!Values
<1>1. PICK m \in Nat, y \in Nat, k \in Nat : m = n /\ y = z /\ k = id /\ k < m /\ y > 0
  <2>1. n \in Nat /\ z \in Nat /\ z > 0
    BY DEF HasRoom
  <2>2. id \in Nat /\ id < n
    BY <2>1
  <2> QED
    BY <2>1, <2>2, Zenon
<1>2. PICK a \in Nat, b \in Nat : a = k * y /\ b = (k + 1) * y
  <2>1. k * y \in Nat /\ (k + 1) * y \in Nat
    OBVIOUS
  <2> QED
    BY <2>1
<1>3. b = a + y
  <2>1. (k + 1) * y = k * y + y
    BY NextTimes
  <2> QED
    BY <1>2, <2>1
<1>4. b <= m * y
  <2>1. k + 1 \in Int /\ m \in Int /\ y \in Nat \ {0} /\ k + 1 <= m
    BY <1>1
  <2>2. (k + 1) * y <= m * y
    BY <2>1, Products
  <2> QED
    BY <1>2, <2>2
<1>5. PICK p \in Nat : p = m * y
  <2>1. m * y \in Nat
    OBVIOUS
  <2> QED
    BY <2>1
<1>6. ASSUME NEW j \in Nat, j <= p PROVE It(l, d, j) \in Static!Values
  <2>1. j <= n * z
    BY <1>1, <1>5, <1>6
  <2> QED
    BY <2>1, RoomForAll
<1>7. It(l, d, a) \in Static!Values
  <2>1. a <= p
    BY <1>1, <1>3, <1>4, <1>5
  <2> QED
    BY <1>6, <2>1
<1>8. It(l, d, b - 1) \in Static!Values
  <2>1. b - 1 \in Nat /\ b - 1 <= p
    BY <1>1, <1>3, <1>4, <1>5
  <2> QED
    BY <1>6, <2>1
<1>9. a < b
  BY <1>1, <1>3
<1> QED
  BY <1>1, <1>2, <1>3, <1>4, <1>7, <1>8, <1>9

LEMMA BlockIs ==
  ASSUME NEW l, NEW d, NEW z, NEW id, NEW a, NEW b, IsBlock(l, d, z, id, a, b)
  PROVE  /\ Static!T(l + id * Static!T(z * d)) = It(l, d, a)
         /\ Static!T(l + Static!T(z * d) * id) = It(l, d, a)
         /\ Static!T(It(l, d, a) + Static!T(z * d) - d) = It(l, d, b - 1)
<1> /\ l \in Int /\ d \in Int /\ z \in Nat /\ id \in Nat /\ a \in Nat /\ b \in Nat
    /\ a = id * z /\ b = a + z /\ Static!T(z * d) = z * d
    /\ It(l, d, a) \in Static!Values /\ It(l, d, b - 1) \in Static!Values
  BY DEF IsBlock
<1>1. PICK w \in Int, v \in Int : w = z * d /\ v = a * d
  OBVIOUS
<1>2. id * w = v /\ w * id = v
  <2>1. (id * z) * d = id * (z * d) /\ (z * d) * id = (id * z) * d
    OBVIOUS
  <2> QED
    BY <1>1, <2>1, Zenon
<1>3. (b - 1) * d = v + w - d
  <2>1. a \in Int /\ z \in Int
    OBVIOUS
  <2>2. (a + z - 1) * d = a * d + z * d - d
    BY <2>1, Distributes
  <2>3. (a + z - 1) * d = v + w - d
    BY <1>1, <2>2
  <2>4. b - 1 = a + z - 1
    OBVIOUS
  <2> QED
    BY <2>3, <2>4
<1>4. It(l, d, a) = l + v /\ It(l, d, b - 1) = l + (v + w - d)
  BY <1>1, <1>3, Zenon DEF It
<1>5. (l + v) + w - d = l + (v + w - d)
  OBVIOUS
<1>6. /\ Static!T(It(l, d, a)) = It(l, d, a)
      /\ Static!T(It(l, d, b - 1)) = It(l, d, b - 1)
  BY InType
<1> QED
  BY <1>1, <1>2, <1>4, <1>5, <1>6, Zenon

(* A block that is cut at the last bound of the loop.                       *)
LEMMA BlockPart ==
  ASSUME NEW l, NEW u, NEW d, NEW trip, IsLoop(l, u, d, trip),
         NEW z \in Nat, NEW id \in Nat, NEW a \in Nat, NEW b \in Nat, NEW r,
         a = id * z, b = (id + 1) * z, a < b,
         It(l, d, a) \in Static!Values, It(l, d, b - 1) \in Static!Values,
         r.lower = It(l, d, a),
         r.upper = IF Static!Before(u, It(l, d, b - 1), d) THEN u ELSE It(l, d, b - 1),
         r.last <=> a < trip /\ trip <= b
  PROVE  IsShare(r, l, d, trip, BlockStart(z, trip, id), BlockStart(z, trip, id + 1))
<1>1. PICK x \in Int, y \in Int, e \in Int, t \in Nat :
        /\ x = l /\ y = u /\ e = d /\ t = trip /\ e # 0 /\ t > 0 /\ Ends(x, e, t, y)
  BY LoopFacts
<1>2. PICK g \in Int : g = It(x, e, b - 1)
  <2>1. b - 1 \in Int
    OBVIOUS
  <2>2. It(x, e, b - 1) \in Int
    BY <2>1, ItType
  <2> QED
    BY <2>2
<1>3. Static!Before(y, g, e) <=> t < b
  <2>1. b - 1 \in Int /\ t \in Int
    OBVIOUS
  <2>2. ~Static!Before(y, It(x, e, b - 1), e) <=> b - 1 <= t - 1
    BY <1>1, <2>1, NotBeyond
  <2>3. b - 1 <= t - 1 <=> ~(t < b)
    OBVIOUS
  <2> QED
    BY <1>2, <2>2, <2>3, Zenon
<1>4. PICK f \in Int : f = It(x, e, a)
  <2>1. a \in Int
    OBVIOUS
  <2>2. It(x, e, a) \in Int
    BY <2>1, ItType
  <2> QED
    BY <2>2
<1>5. r.lower = f /\ (r.last <=> a < t /\ t <= b)
  BY <1>1, <1>4, Zenon
<1>6. r.upper = IF t < b THEN y ELSE g
  BY <1>1, <1>2, <1>3, Zenon
<1>7. /\ BlockStart(z, trip, id) = Static!Lesser(a, t)
      /\ BlockStart(z, trip, id + 1) = Static!Lesser(b, t)
  BY <1>1, Zenon DEF BlockStart
<1>8. CASE t <= a
  <2>1. Static!Lesser(a, t) = t /\ Static!Lesser(b, t) = t
    BY <1>8 DEF Static!Lesser
  <2>2. t < b
    BY <1>8
  <2>3. r.upper = y /\ ~r.last
    <3>1. ~(a < t)
      BY <1>8
    <3> QED
      BY <1>5, <1>6, <2>2, <3>1, Zenon
  <2>4. Static!Before(y, f, e)
    <3>1. a \in Int /\ t \in Int
      OBVIOUS
    <3>2. ~Static!Before(y, It(x, e, a), e) <=> a <= t - 1
      BY <1>1, <3>1, NotBeyond
    <3>3. ~(a <= t - 1)
      BY <1>8
    <3> QED
      BY <1>4, <3>2, <3>3, Zenon
  <2>5. t \in Int
    OBVIOUS
  <2>6. IsShare(r, x, e, t, t, t)
    BY <1>1, <1>5, <2>3, <2>4, <2>5, NoPartIs, Zenon
  <2> QED
    BY <1>1, <1>7, <2>1, <2>6, Zenon
<1>9. CASE a < t /\ t < b
  <2>1. Static!Lesser(a, t) = a /\ Static!Lesser(b, t) = t
    BY <1>9 DEF Static!Lesser
  <2>2. r.upper = y
    BY <1>6, <1>9, Zenon
  <2>3. r.last <=> a < t /\ t = t
    <3>1. t <= b
      BY <1>9
    <3> QED
      BY <1>5, <1>9, <3>1, Zenon
  <2>4. t \in Int /\ a \in Int
    OBVIOUS
  <2>5. r.lower = It(x, e, a)
    BY <1>4, <1>5
  <2>6. IsShare(r, x, e, t, a, t)
    BY <1>1, <2>2, <2>3, <2>4, <2>5, PartIs, Zenon
  <2> QED
    BY <1>1, <1>7, <2>1, <2>6, Zenon
<1>10. CASE a < t /\ b <= t
  <2>1. Static!Lesser(a, t) = a /\ Static!Lesser(b, t) = b
    BY <1>10 DEF Static!Lesser
  <2>2. r.upper = g
    <3>1. ~(t < b)
      BY <1>10
    <3> QED
      BY <1>6, <3>1, Zenon
  <2>3. r.last <=> a < b /\ b = t
    <3>1. (a < t /\ t <= b) <=> (a < b /\ b = t)
      BY <1>10
    <3> QED
      BY <1>5, <3>1, Zenon
  <2>4. b \in Int /\ a \in Int
    OBVIOUS
  <2>5. r.lower = It(x, e, a)
    BY <1>4, <1>5
  <2>6. Ends(x, e, b, g)
    BY <1>1, <1>2, <2>4, EndsAt
  <2>7. IsShare(r, x, e, t, a, b)
    BY <1>1, <2>2, <2>3, <2>4, <2>5, <2>6, PartIs, Zenon
  <2> QED
    BY <1>1, <1>7, <2>1, <2>7, Zenon
<1> QED
  BY <1>8, <1>9, <1>10

(* The loop without its last iteration.                                     *)
LEMMA OneLess ==
  ASSUME NEW l, NEW u, NEW d, NEW trip, IsLoop(l, u, d, trip), trip > 1
  PROVE  Static!T(u - d) = u - d /\ Ends(l, d, trip - 1, u - d)
<1>1. PICK x \in Int, y \in Int, e \in Int, t \in Int :
        /\ x = l /\ y = u /\ e = d /\ t = trip /\ e # 0 /\ t > 1 /\ Ends(x, e, t, y)
        /\ x \in Static!Values /\ y \in Static!Values /\ It(x, e, 0) = x
  BY LoopFacts
<1>2. PICK c \in Int, k \in Int : c = t - 1 /\ k = c - 1 /\ k >= 0
  BY <1>1
<1>3. PICK f \in Int, g \in Int : f = It(x, e, c) /\ g = It(x, e, k)
  <2>1. It(x, e, c) \in Int
    BY ItType
  <2>2. It(x, e, k) \in Int
    BY ItType
  <2> QED
    BY <2>1, <2>2, Zenon
<1>4. PICK s \in Nat \ {0} : s = Static!Size(e)
  BY <1>1, SizeType
<1>5. PICK w \in 0..s-1 : w = Static!Distance(f, y, e)
  BY <1>1, <1>2, <1>3, <1>4 DEF Ends
<1>6. g = f - e
  <2>1. f = x + c * e /\ g = x + k * e
    BY <1>3 DEF It
  <2>2. (k + 1) * e = k * e + e
    BY NextTimes
  <2>3. c = k + 1
    BY <1>2
  <2>4. PICK v \in Int : v = k * e
    OBVIOUS
  <2>5. f = x + (v + e) /\ g = x + v
    BY <2>1, <2>2, <2>3, <2>4, Zenon
  <2> QED
    BY <2>5
<1>7. PICK z \in Int : z = y - e
  OBVIOUS
<1>8. Static!Distance(g, z, e) = w
  BY <1>5, <1>6, <1>7 DEF Static!Distance
<1>9. Ends(x, e, c, z)
  BY <1>2, <1>3, <1>4, <1>5, <1>8 DEF Ends
<1>10. Static!Distance(x, z, e) >= 0
  <2>1. Static!Distance(It(x, e, 0), It(x, e, k), e) = (k - 0) * s
    BY <1>1, <1>4, Apart
  <2>2. PICK v \in Int : v = Static!Distance(x, g, e)
    BY <1>1, DistanceType
  <2>3. v = k * s
    <3>1. (k - 0) * s = k * s
      OBVIOUS
    <3> QED
      BY <1>1, <1>3, <2>1, <2>2, <3>1, Zenon
  <2>4. v >= 0
    BY <1>2, <2>3
  <2>5. Static!Distance(x, z, e) = v + w
    BY <1>1, <1>8, <2>2, Adds
  <2> QED
    BY <2>4, <2>5
<1>11. Static!Distance(z, y, e) >= 0
  BY <1>1, <1>7 DEF Static!Distance
<1>12. z \in Static!Values
  BY <1>1, <1>10, <1>11, BetweenValues
<1>13. Static!T(z) = z
  BY <1>12, InType
<1> QED
  BY <1>1, <1>2, <1>7, <1>9, <1>13, Zenon

LEMMA GreedyIs ==
  ASSUME NEW l, NEW u, NEW d, NEW trip, IsLoop(l, u, d, trip), trip > 1,
         NEW n, NEW z, z = Static!Ceiling(trip, n), HasRoom(u, d, trip, n, z),
         NEW id \in 0..n-1
  PROVE  IsShare(Static!Greedy(l, u, d, trip, n, id), l, d, trip,
                BlockStart(z, trip, id), BlockStart(z, trip, id + 1))
<1>1. PICK x \in Int, y \in Int, e \in Int, t \in Int :
        /\ x = l /\ y = u /\ e = d /\ t = trip /\ e # 0 /\ t > 1 /\ Ends(x, e, t, y)
        /\ x \in Static!Values /\ y \in Static!Values
  BY LoopFacts
<1>2. PICK a \in Nat, b \in Nat :
        /\ a = id * z /\ b = (id + 1) * z /\ a < b /\ b <= n * z /\ b = a + z
        /\ It(x, e, a) \in Static!Values /\ It(x, e, b - 1) \in Static!Values
  <2>1. \E a \in Nat, b \in Nat :
           /\ a = id * z /\ b = (id + 1) * z /\ a < b /\ b <= n * z /\ b = a + z
           /\ It(l, d, a) \in Static!Values /\ It(l, d, b - 1) \in Static!Values
    BY BlockBounds
  <2> QED
    BY <1>1, <2>1, Zenon
<1>3. PICK c \in Int : c = b - 1 /\ a <= c
  <2>1. b - 1 \in Int /\ a <= b - 1
    BY <1>2
  <2> QED
    BY <2>1
<1>4. PICK f \in Int, g \in Int : f = It(x, e, a) /\ g = It(x, e, c)
  <2>1. a \in Int
    OBVIOUS
  <2>2. It(x, e, a) \in Int
    BY <2>1, ItType
  <2>3. It(x, e, c) \in Int
    BY ItType
  <2> QED
    BY <2>2, <2>3, Zenon
<1>5. f \in Static!Values /\ g \in Static!Values
  BY <1>2, <1>3, <1>4, Zenon
<1>6. PICK k \in Nat, v \in Nat : k = id /\ v = z
  <2>1. n \in Nat /\ z \in Nat
    BY DEF HasRoom
  <2>2. id \in Nat
    BY <2>1
  <2> QED
    BY <2>1, <2>2, Zenon
<1>7. Static!T(v * e) = v * e
  <2>1. Static!T(z * d) = z * d
    BY SpanFits
  <2> QED
    BY <1>1, <1>6, <2>1, Zenon
<1>8. PICK w : w = Static!T(v * e)
  OBVIOUS
<1>9. Static!T(x + k * w) = f /\ Static!T(f + w - e) = g
  <2>1. a = k * v /\ b = a + v
    BY <1>2, <1>6, Zenon
  <2>2. /\ Static!T(x + k * Static!T(v * e)) = It(x, e, a)
        /\ Static!T(It(x, e, a) + Static!T(v * e) - e) = It(x, e, b - 1)
    <3>1. IsBlock(x, e, v, k, a, b)
      BY <1>2, <1>7, <2>1, Zenon DEF IsBlock
    <3> QED
      BY <3>1, BlockIs
  <2> QED
    BY <1>3, <1>4, <1>8, <2>2, Zenon
<1>10. ~Static!Before(g, f, e)
  <2>1. Static!Before(It(x, e, c), It(x, e, a), e) <=> c < a
    BY <1>1, InOrder
  <2>2. ~(c < a)
    BY <1>3
  <2> QED
    BY <1>4, <2>1, <2>2, Zenon
<1>11. Static!Capped(f, g, e) = g
  BY <1>10 DEF Static!Capped
<1>12. PICK m : m = IF Static!Before(y, g, e) THEN y ELSE g
  OBVIOUS
<1>13. Static!T(m) = m
  <2>1. m \in Static!Values
    BY <1>1, <1>5, <1>12, Zenon
  <2> QED
    BY <2>1, InType
<1>14. Static!Cut(f, g, y, e) = m
  BY <1>11, <1>12, Zenon DEF Static!Cut
<1>15. Static!LastGreedy(f, g, y, e) <=> a < t /\ t <= b
  <2>1. ~Static!Before(y, f, e) <=> a <= t - 1
    BY <1>1, <1>4, NotBeyond
  <2>2. PICK h \in Int, j \in Int : h = y - e /\ j = t - 1
    OBVIOUS
  <2>3. Static!T(h) = h /\ Ends(x, e, j, h)
    <3>1. Static!T(u - d) = u - d /\ Ends(l, d, trip - 1, u - d)
      BY OneLess
    <3> QED
      BY <1>1, <2>2, <3>1, Zenon
  <2>4. ~Static!Before(h, g, e) <=> c <= j - 1
    BY <1>1, <1>4, <2>3, NotBeyond
  <2>5. Static!LastGreedy(f, g, y, e) <=> ~Static!Before(y, f, e) /\ Static!Before(h, g, e)
    BY <1>11, <2>2, <2>3, Zenon DEF Static!LastGreedy
  <2>6. (a <= t - 1 <=> a < t) /\ (~(c <= j - 1) <=> t <= b)
    BY <1>3, <2>2
  <2> QED
    BY <2>1, <2>4, <2>5, <2>6, Zenon
<1>16. PICK r : r = Static!Greedy(l, u, d, trip, n, id)
  OBVIOUS
<1>17. r = Static!Result(f, m, y, e, Static!LastGreedy(f, g, y, e))
  <2>1. Static!Ceiling(t, n) = v
    BY <1>1, <1>6
  <2>2. r = Static!Greedy(x, y, e, t, n, k)
    BY <1>1, <1>6, <1>16
  <2> QED
    BY <1>8, <1>9, <1>14, <2>1, <2>2, Zenon DEF Static!Greedy
<1>18. r.lower = Static!T(f) /\ r.upper = Static!T(m) /\ (r.last <=> Static!LastGreedy(f, g, y, e))
  BY <1>17, Zenon DEF Static!Result
<1>19. r.lower = It(l, d, a)
  <2>1. Static!T(f) = f
    BY <1>5, InType
  <2> QED
    BY <1>1, <1>4, <1>18, <2>1, Zenon
<1>20. r.upper = IF Static!Before(u, It(l, d, b - 1), d) THEN u ELSE It(l, d, b - 1)
  BY <1>1, <1>3, <1>4, <1>12, <1>13, <1>18, Zenon
<1>21. r.last <=> a < trip /\ trip <= b
  BY <1>1, <1>15, <1>18, Zenon
<1>22. /\ z \in Nat /\ id \in Nat
       /\ It(l, d, a) \in Static!Values /\ It(l, d, b - 1) \in Static!Values
  BY <1>1, <1>2, <1>6, Zenon
<1>23. IsShare(r, l, d, trip, BlockStart(z, trip, id), BlockStart(z, trip, id + 1))
  BY <1>2, <1>19, <1>20, <1>21, <1>22, BlockPart, Zenon
<1> QED
  BY <1>16, <1>23, Zenon

LEMMA QuotientIs ==
  ASSUME NEW x \in Int, NEW k \in Int, NEW v \in Nat \ {0}
  PROVE  x \div v = k <=> k * v <= x /\ x < k * v + v
<1>1. PICK q \in Int, r \in 0..v-1 : q = x \div v /\ x = v * q + r
  BY Multiples
<1>2. PICK a \in Int, b \in Int : a = q * v /\ b = k * v
  OBVIOUS
<1>3. x = a + r
  <2>1. v * q = q * v
    OBVIOUS
  <2> QED
    BY <1>1, <1>2, <2>1
<1>4. ASSUME q = k PROVE b <= x /\ x < b + v
  <2>1. a = b
    BY <1>2, <1>4
  <2> QED
    BY <1>3, <2>1
<1>5. ASSUME b <= x, x < b + v PROVE q = k
  <2>1. v * (q - k) = a - b
    <3>1. v * (q - k) = q * v - k * v
      OBVIOUS
    <3> QED
      BY <1>2, <3>1
  <2>2. PICK c \in Int : c = q - k
    OBVIOUS
  <2>3. -v < v * c /\ v * c < v
    <3>1. v * c = a - b
      BY <2>1, <2>2
    <3>2. -v < a - b /\ a - b < v
      BY <1>3, <1>5
    <3> QED
      BY <3>1, <3>2, Zenon
  <2>4. c = 0
    BY <2>3, Multiple
  <2> QED
    BY <2>2, <2>4
<1> QED
  BY <1>1, <1>2, <1>4, <1>5

LEMMA BalancedChunkedIs ==
  ASSUME NEW l, NEW u, NEW d, NEW trip, IsLoop(l, u, d, trip), NEW chunk,
         NEW n, NEW z, z = Static!Ceiling(Static!Ceiling(trip, n), chunk) * chunk,
         HasRoom(u, d, trip, n, z), NEW id \in 0..n-1
  PROVE  IsShare(Static!BalancedChunked(l, u, d, trip, n, id, chunk), l, d, trip,
                BlockStart(z, trip, id), BlockStart(z, trip, id + 1))
<1>1. PICK x \in Int, y \in Int, e \in Int, t \in Int :
        /\ x = l /\ y = u /\ e = d /\ t = trip /\ e # 0 /\ t > 0 /\ Ends(x, e, t, y)
        /\ x \in Static!Values /\ y \in Static!Values
  BY LoopFacts
<1>2. PICK a \in Nat, b \in Nat :
        /\ a = id * z /\ b = (id + 1) * z /\ a < b /\ b <= n * z /\ b = a + z
        /\ It(x, e, a) \in Static!Values /\ It(x, e, b - 1) \in Static!Values
  <2>1. \E a \in Nat, b \in Nat :
           /\ a = id * z /\ b = (id + 1) * z /\ a < b /\ b <= n * z /\ b = a + z
           /\ It(l, d, a) \in Static!Values /\ It(l, d, b - 1) \in Static!Values
    BY BlockBounds
  <2> QED
    BY <1>1, <2>1, Zenon
<1>3. PICK k \in Nat, v \in Nat : k = id /\ v = z /\ v > 0
  <2>1. n \in Nat /\ z \in Nat /\ z > 0
    BY DEF HasRoom
  <2>2. id \in Nat
    BY <2>1
  <2> QED
    BY <2>1, <2>2, Zenon
<1>4. PICK f, g : /\ f = It(x, e, a) /\ g = It(x, e, b - 1)
                  /\ f \in Static!Values /\ g \in Static!Values
  BY <1>2, Zenon
<1>5. PICK w : w = Static!T(v * e)
  OBVIOUS
<1>6. Static!T(x + w * k) = f /\ Static!T(f + w - e) = g
  <2>1. a = k * v /\ b = a + v
    BY <1>2, <1>3, Zenon
  <2>2. Static!T(v * e) = v * e
    <3>1. Static!T(z * d) = z * d
      BY SpanFits
    <3> QED
      BY <1>1, <1>3, <3>1, Zenon
  <2>3. /\ Static!T(x + Static!T(v * e) * k) = It(x, e, a)
        /\ Static!T(It(x, e, a) + Static!T(v * e) - e) = It(x, e, b - 1)
    <3>1. IsBlock(x, e, v, k, a, b)
      BY <1>2, <2>1, <2>2, Zenon DEF IsBlock
    <3> QED
      BY <3>1, BlockIs
  <2> QED
    BY <1>4, <1>5, <2>3, Zenon
<1>7. PICK m : m = IF Static!Before(y, g, e) THEN y ELSE g
  OBVIOUS
<1>8. Static!T(m) = m
  <2>1. m \in Static!Values
    BY <1>1, <1>4, <1>7, Zenon
  <2> QED
    BY <2>1, InType
<1>9. k = (t - 1) \div v <=> a < t /\ t <= b
  <2>1. PICK j \in Int : j = t - 1
    OBVIOUS
  <2>2. j \div v = k <=> k * v <= j /\ j < k * v + v
    <3>1. k \in Int /\ v \in Nat \ {0}
      BY <1>3
    <3> QED
      BY <3>1, QuotientIs
  <2>3. k * v = a /\ b = a + v
    BY <1>2, <1>3, Zenon
  <2>4. a <= j /\ j < a + v <=> a < t /\ t <= b
    BY <2>1, <2>3
  <2> QED
    BY <2>1, <2>2, <2>3, <2>4, Zenon
<1>10. PICK r : r = Static!BalancedChunked(l, u, d, trip, n, id, chunk)
  OBVIOUS
<1>11. r = Static!Result(f, m, y, e, k = (t - 1) \div v)
  <2>1. Static!Ceiling(Static!Ceiling(t, n), chunk) * chunk = v
    BY <1>1, <1>3
  <2>2. r = Static!BalancedChunked(x, y, e, t, n, k, chunk)
    BY <1>1, <1>3, <1>10
  <2> QED
    BY <1>5, <1>6, <1>7, <2>1, <2>2, Zenon DEF Static!BalancedChunked
<1>12. r.lower = Static!T(f) /\ r.upper = Static!T(m) /\ (r.last <=> k = (t - 1) \div v)
  BY <1>11, Zenon DEF Static!Result
<1>13. r.lower = It(l, d, a)
  <2>1. Static!T(f) = f
    BY <1>4, InType
  <2> QED
    BY <1>1, <1>4, <1>12, <2>1, Zenon
<1>14. r.upper = IF Static!Before(u, It(l, d, b - 1), d) THEN u ELSE It(l, d, b - 1)
  BY <1>1, <1>4, <1>7, <1>8, <1>12, Zenon
<1>15. r.last <=> a < trip /\ trip <= b
  BY <1>1, <1>9, <1>12, Zenon
<1>16. /\ z \in Nat /\ id \in Nat
       /\ It(l, d, a) \in Static!Values /\ It(l, d, b - 1) \in Static!Values
  BY <1>1, <1>2, <1>3, Zenon
<1>17. IsShare(r, l, d, trip, BlockStart(z, trip, id), BlockStart(z, trip, id + 1))
  BY <1>2, <1>13, <1>14, <1>15, <1>16, BlockPart, Zenon
<1> QED
  BY <1>10, <1>17, Zenon

(* Chunks in turn.  What remains of a number, and of a multiple of it.      *)
LEMMA RemainderIs ==
  ASSUME NEW x \in Int, NEW k \in Int, NEW r \in Int, NEW v \in Nat \ {0},
         x = k * v + r, 0 <= r, r < v
  PROVE  x \div v = k /\ x % v = r
<1>1. PICK b \in Int : b = k * v
  OBVIOUS
<1>2. x = b + r /\ b <= x /\ x < b + v
  BY <1>1
<1>3. x \div v = k
  <2>1. x \div v = k <=> k * v <= x /\ x < k * v + v
    BY QuotientIs
  <2> QED
    BY <1>1, <1>2, <2>1, Zenon
<1>4. x % v = r
  <2>1. x = v * (x \div v) + (x % v) /\ x % v \in 0..v-1
    BY Multiples
  <2>2. x = v * k + (x % v)
    BY <1>3, <2>1, Zenon
  <2>3. v * k = k * v
    OBVIOUS
  <2>4. PICK c \in Int : c = x % v
    BY <2>1
  <2>5. x = b + c
    BY <1>1, <2>2, <2>3, <2>4, Zenon
  <2> QED
    BY <1>2, <2>4, <2>5
<1> QED
  BY <1>3, <1>4

LEMMA RemainderOf ==
  ASSUME NEW p \in Nat, NEW n \in Nat \ {0}, NEW t \in 0..n-1
  PROVE  (p * n + t) % n = t
<1>1. PICK b \in Nat : b = p * n
  OBVIOUS
<1>2. PICK y \in Int : y = b + t
  BY <1>1
<1>3. y = p * n + t /\ p \in Int /\ t \in Int /\ 0 <= t /\ t < n
  BY <1>1, <1>2
<1>4. y % n = t
  BY <1>3, RemainderIs, Zenon
<1> QED
  BY <1>3, <1>4

LEMMA Scaled ==
  ASSUME NEW x \in Int, NEW n \in Nat \ {0}, NEW s \in Nat \ {0}
  PROVE  (x * s) % (n * s) = (x % n) * s
<1>1. PICK q \in Int, r \in 0..n-1 : x = n * q + r /\ r = x % n
  BY Multiples
<1>2. PICK m \in Nat \ {0} : m = n * s
  OBVIOUS
<1>3. PICK y \in Int, z \in Int : y = x * s /\ z = r * s
  OBVIOUS
<1>4. y = q * m + z
  <2>1. (n * q + r) * s = q * (n * s) + r * s
    OBVIOUS
  <2> QED
    BY <1>1, <1>2, <1>3, <2>1, Zenon
<1>5. 0 <= z /\ z < m
  <2>1. 0 <= r /\ r < n /\ r \in Int /\ n \in Int
    OBVIOUS
  <2>2. r * s < n * s
    BY <2>1, Products
  <2>3. 0 <= r * s
    BY <2>1
  <2> QED
    BY <1>2, <1>3, <2>2, <2>3
<1>6. y % m = z
  BY <1>4, <1>5, RemainderIs
<1> QED
  BY <1>1, <1>2, <1>3, <1>6, Zenon

LEMMA OwnerIs ==
  ASSUME NEW chunk \in Nat \ {0}, NEW n \in Nat \ {0}, NEW id \in 0..n-1, NEW j \in Nat,
         NEW a \in Nat, a = id * chunk
  PROVE  Owner(j, chunk, n) = id <=> a <= j /\ (j - a) % (n * chunk) <= chunk - 1
<1>1. PICK m \in Nat \ {0} : m = n * chunk
  OBVIOUS
<1>2. chunk <= m
  <2>1. 1 <= n /\ 1 \in Int /\ n \in Int
    OBVIOUS
  <2>2. 1 * chunk <= n * chunk
    BY <2>1, Products
  <2>3. 1 * chunk = chunk
    OBVIOUS
  <2> QED
    BY <1>1, <2>2, <2>3
<1>3. ASSUME NEW w \in Int, NEW r \in Int, NEW p \in Int, p = n * w + id
      PROVE  j = chunk * p + r <=> j - a = w * m + r
  <2>1. chunk * (n * w + id) = w * (n * chunk) + id * chunk
    OBVIOUS
  <2>2. chunk * p = w * m + a
    BY <1>1, <1>3, <2>1, Zenon
  <2>3. PICK x \in Int, y \in Int : x = chunk * p /\ y = w * m
    OBVIOUS
  <2> QED
    BY <2>2, <2>3
<1>4. ASSUME Owner(j, chunk, n) = id
      PROVE  a <= j /\ (j - a) % m <= chunk - 1
  <2>1. PICK p \in Nat : p = j \div chunk
    BY Quotient
  <2>2. PICK r \in 0..chunk-1 : j = chunk * p + r
    <3>1. j \in Int
      OBVIOUS
    <3>2. j = chunk * (j \div chunk) + (j % chunk) /\ j % chunk \in 0..chunk-1
      BY <3>1, Multiples
    <3> QED
      BY <2>1, <3>2, Zenon
  <2>3. PICK w \in Nat : p = n * w + id
    <3>1. p % n = id
      BY <1>4, <2>1 DEF Owner
    <3>2. p \div n \in Nat
      BY Quotient
    <3>3. p = n * (p \div n) + (p % n)
      BY Multiples
    <3> QED
      BY <3>1, <3>2, <3>3, Zenon
  <2>4. r \in Int /\ w \in Int /\ p \in Int /\ id \in Int /\ 0 <= r /\ r < m /\ r <= chunk - 1
    BY <1>2
  <2>5. j - a = w * m + r
    BY <1>3, <2>2, <2>3, <2>4
  <2>6. PICK x \in Int : x = j - a
    OBVIOUS
  <2>7. x % m = r
    BY <2>4, <2>5, <2>6, RemainderIs
  <2>8. w * m >= 0
    OBVIOUS
  <2>9. a <= j
    <3>1. PICK y \in Nat : y = w * m
      BY <2>8
    <3> QED
      BY <2>4, <2>5, <3>1
  <2> QED
    BY <2>4, <2>6, <2>7, <2>9, Zenon
<1>5. ASSUME a <= j, (j - a) % m <= chunk - 1
      PROVE  Owner(j, chunk, n) = id
  <2>1. PICK x \in Nat : x = j - a
    <3>1. j - a \in Nat
      BY <1>5
    <3> QED
      BY <3>1
  <2>2. PICK w \in Nat : w = x \div m
    BY Quotient
  <2>3. PICK r \in 0..m-1 : x = m * w + r /\ r = x % m
    BY <2>2, Multiples
  <2>4. 0 <= r /\ r < chunk /\ r \in Int /\ w \in Int
    <3>1. r <= chunk - 1
      BY <1>5, <2>1, <2>3
    <3> QED
      BY <3>1
  <2>5. PICK p \in Int : p = n * w + id
    OBVIOUS
  <2>6. j = p * chunk + r
    <3>1. m * w = w * m
      OBVIOUS
    <3>2. j - a = w * m + r
      BY <2>1, <2>3, <3>1, Zenon
    <3>3. j = chunk * p + r
      BY <1>3, <2>4, <2>5, <3>2
    <3>4. chunk * p = p * chunk
      OBVIOUS
    <3> QED
      BY <3>3, <3>4, Zenon
  <2>7. j \div chunk = p
    <3>1. j \in Int
      OBVIOUS
    <3> QED
      BY <2>4, <2>6, <3>1, RemainderIs
  <2>8. p % n = id
    <3>1. p = w * n + id
      <4>1. n * w = w * n
        OBVIOUS
      <4> QED
        BY <2>5, <4>1, Zenon
    <3>2. id \in Int /\ 0 <= id /\ id < n
      OBVIOUS
    <3> QED
      BY <2>4, <3>1, <3>2, RemainderIs
  <2> QED
    BY <2>7, <2>8, Zenon DEF Owner
<1> QED
  BY <1>1, <1>4, <1>5, Zenon

LEMMA IntoIs ==
  ASSUME NEW l \in Int, NEW d \in Int, NEW a \in Nat, NEW j \in Nat,
         NEW m \in Nat, NEW k \in Nat, d # 0, m > 0
  PROVE  Into(It(l, d, a), It(l, d, j), d, m * d)
            <= Static!Distance(It(l, d, a), It(l, d, k), d)
         <=> (j - a) % m <= k - a
<1>1. PICK s \in Nat \ {0} : s = Static!Size(d) /\ (d > 0 => s = d) /\ (d < 0 => s = -d)
  BY DEF Static!Size
<1>2. PICK p \in Int, q \in Int : p = j - a /\ q = k - a
  <2>1. j - a \in Int /\ k - a \in Int
    OBVIOUS
  <2> QED
    BY <2>1, Zenon
<1>3. m * d # 0 /\ Static!Size(m * d) = m * s
  <2>1. PICK w \in Int : w = m * d
    OBVIOUS
  <2>2. CASE d > 0
    <3>1. w > 0 /\ s = d
      BY <1>1, <2>1, <2>2
    <3>2. w = m * s
      BY <2>1, <3>1
    <3> QED
      BY <2>1, <3>1, <3>2 DEF Static!Size
  <2>3. CASE d < 0
    <3>1. s = -d
      BY <1>1, <2>3
    <3>2. m * (-d) = -(m * d) /\ m * (-d) > 0
      BY <2>3
    <3>3. -w = m * s /\ w < 0
      BY <2>1, <3>1, <3>2
    <3> QED
      BY <2>1, <3>3 DEF Static!Size
  <2> QED
    BY <2>2, <2>3
<1>4. Static!Distance(It(l, d, a), It(l, d, j), d) = p * s
  <2>1. a \in Int /\ j \in Int
    OBVIOUS
  <2>2. Static!Distance(It(l, d, a), It(l, d, j), d) = (j - a) * Static!Size(d)
    BY <2>1, Apart
  <2> QED
    BY <1>1, <1>2, <2>2, Zenon
<1>5. Static!Distance(It(l, d, a), It(l, d, k), d) = q * s
  <2>1. a \in Int /\ k \in Int
    OBVIOUS
  <2>2. Static!Distance(It(l, d, a), It(l, d, k), d) = (k - a) * Static!Size(d)
    BY <2>1, Apart
  <2> QED
    BY <1>1, <1>2, <2>2, Zenon
<1>6. PICK c \in Int : c = p % m
  OBVIOUS
<1>7. (p * s) % (m * s) = c * s
  <2>1. m \in Nat \ {0}
    OBVIOUS
  <2> QED
    BY <1>6, <2>1, Scaled
<1>8. Into(It(l, d, a), It(l, d, j), d, m * d) = c * s
  BY <1>3, <1>4, <1>7, Zenon DEF Into
<1>9. c <= q <=> c * s <= q * s
  BY Products
<1> QED
  BY <1>2, <1>5, <1>6, <1>8, <1>9, Zenon

LEMMA StridedIs ==
  ASSUME NEW l, NEW u, NEW d, NEW trip,
         NEW chunk, NEW n, NEW id, NEW a, NEW b, NEW r,
         IsLoop(l, u, d, trip), IsStrided(r, l, u, d, chunk, n, id, a, b)
  PROVE  Strided(r, d) = OwnedBy(l, d, trip, chunk, n, id)
<1> /\ chunk \in Nat \ {0} /\ n \in Nat \ {0} /\ id \in 0..n-1 /\ a \in Nat /\ b \in Nat
    /\ a = id * chunk /\ b = a + chunk
    /\ r.lower = It(l, d, a) /\ r.upper = It(l, d, b - 1) /\ r.bound = u
    /\ r.stride = (n * chunk) * d
  BY DEF IsStrided
<1>1. PICK x \in Int, y \in Int, e \in Int, t \in Nat :
        /\ x = l /\ y = u /\ e = d /\ t = trip /\ e # 0 /\ t > 0 /\ Ends(x, e, t, y)
  BY LoopFacts
<1>2. Static!From(r.lower, r.bound, d) = Iters(x, e, a, t)
  <2>1. a \in Int /\ t \in Int
    OBVIOUS
  <2>2. Static!From(It(x, e, a), y, e) = Iters(x, e, a, t)
    BY <1>1, <2>1, FromIs
  <2> QED
    BY <1>1, <2>2, Zenon
<1>3. PICK m \in Nat : m = n * chunk /\ m > 0
  <2>1. n * chunk \in Nat /\ n * chunk > 0
    OBVIOUS
  <2> QED
    BY <2>1
<1>4. PICK k \in Nat : k = b - 1 /\ k - a = chunk - 1
  <2>1. b - 1 \in Nat /\ (b - 1) - a = chunk - 1
    OBVIOUS
  <2> QED
    BY <2>1
<1>5. ASSUME NEW j \in Nat, a <= j
      PROVE  Into(r.lower, It(x, e, j), d, r.stride) <= Static!Distance(r.lower, r.upper, d)
             <=> Owner(j, chunk, n) = id
  <2>1. Into(It(x, e, a), It(x, e, j), e, m * e)
            <= Static!Distance(It(x, e, a), It(x, e, k), e)
         <=> (j - a) % m <= k - a
    BY <1>1, <1>3, IntoIs
  <2>2. Owner(j, chunk, n) = id <=> a <= j /\ (j - a) % (n * chunk) <= chunk - 1
    BY OwnerIs
  <2>3. r.lower = It(x, e, a) /\ r.upper = It(x, e, k) /\ r.stride = m * e
    BY <1>1, <1>3, <1>4, Zenon
  <2> QED
    BY <1>1, <1>3, <1>4, <1>5, <2>1, <2>2, <2>3, Zenon
<1>6. ASSUME NEW j \in Nat, Owner(j, chunk, n) = id PROVE a <= j
  BY <1>6, OwnerIs
<1>7. ASSUME NEW i \in Strided(r, d)
      PROVE  i \in OwnedBy(l, d, trip, chunk, n, id)
  <2>1. /\ i \in Iters(x, e, a, t)
        /\ Into(r.lower, i, d, r.stride) <= Static!Distance(r.lower, r.upper, d)
    BY <1>2 DEF Strided
  <2>2. PICK j \in a..t-1 : i = It(x, e, j) /\ i \in Static!Values
    BY <2>1 DEF Iters
  <2>3. j \in Nat /\ a <= j /\ j \in 0..t-1
    OBVIOUS
  <2>4. Owner(j, chunk, n) = id
    BY <1>5, <2>1, <2>2, <2>3, Zenon
  <2> QED
    BY <1>1, <2>2, <2>3, <2>4, Zenon DEF OwnedBy
<1>8. ASSUME NEW i \in OwnedBy(l, d, trip, chunk, n, id)
      PROVE  i \in Strided(r, d)
  <2>1. PICK j \in 0..t-1 : i = It(x, e, j) /\ Owner(j, chunk, n) = id /\ i \in Static!Values
    BY <1>1 DEF OwnedBy
  <2>2. j \in Nat
    OBVIOUS
  <2>3. a <= j
    BY <1>6, <2>1, <2>2
  <2>4. j \in a..t-1
    BY <2>3
  <2>5. i \in Iters(x, e, a, t)
    BY <2>1, <2>4, Zenon DEF Iters
  <2>6. Into(r.lower, i, d, r.stride) <= Static!Distance(r.lower, r.upper, d)
    BY <1>5, <2>1, <2>2, <2>3, Zenon
  <2> QED
    BY <1>2, <2>5, <2>6, Zenon DEF Strided
<1> QED
  BY <1>7, <1>8

LEMMA ChunkedIs ==
  ASSUME NEW l, NEW u, NEW d, NEW trip, IsLoop(l, u, d, trip), NEW given, NEW chunk, NEW n,
         chunk = Static!Pieces(given), HasRoom(u, d, trip, n, chunk),
         (n * chunk) * d \in Static!Values,
         NEW id \in 0..n-1
  PROVE  \E r : /\ r = Static!Chunked(l, u, d, trip, n, id, given)
                /\ Strided(r, d) = OwnedBy(l, d, trip, chunk, n, id)
                /\ r.last <=> id = Owner(trip - 1, chunk, n)
<1>1. PICK x \in Int, y \in Int, e \in Int, t \in Int :
        /\ x = l /\ y = u /\ e = d /\ t = trip
  BY LoopFacts
<1>2. PICK a \in Nat, b \in Nat :
        /\ a = id * chunk /\ b = a + chunk
        /\ It(x, e, a) \in Static!Values /\ It(x, e, b - 1) \in Static!Values
  <2>1. \E a \in Nat, b \in Nat :
           /\ a = id * chunk /\ b = (id + 1) * chunk /\ a < b /\ b <= n * chunk /\ b = a + chunk
           /\ It(l, d, a) \in Static!Values /\ It(l, d, b - 1) \in Static!Values
    BY BlockBounds
  <2> QED
    BY <1>1, <2>1, Zenon
<1>3. PICK k \in Nat, v \in Nat, m \in Nat : k = id /\ v = chunk /\ m = n /\ v > 0 /\ m > 0
  <2>1. n \in Nat /\ chunk \in Nat /\ chunk > 0 /\ n > 0
    BY DEF HasRoom
  <2>2. id \in Nat
    BY <2>1
  <2> QED
    BY <2>1, <2>2, Zenon
<1>4. Static!T(v * e) = v * e
  <2>1. Static!T(chunk * d) = chunk * d
    BY SpanFits
  <2> QED
    BY <1>1, <1>3, <2>1, Zenon
<1>5. PICK w : w = Static!T(v * e)
  OBVIOUS
<1>6. Static!T(x + w * k) = It(x, e, a) /\ Static!T(It(x, e, a) + w - e) = It(x, e, b - 1)
  <2>1. a = k * v /\ b = a + v
    BY <1>2, <1>3, Zenon
  <2>2. IsBlock(x, e, v, k, a, b)
    BY <1>2, <1>4, <2>1, Zenon DEF IsBlock
  <2>3. /\ Static!T(x + Static!T(v * e) * k) = It(x, e, a)
        /\ Static!T(It(x, e, a) + Static!T(v * e) - e) = It(x, e, b - 1)
    BY <2>2, BlockIs
  <2> QED
    BY <1>5, <2>3, Zenon
<1>7. Static!T(w * m) = (m * v) * e
  <2>1. (v * e) * m = (m * v) * e
    OBVIOUS
  <2>2. (m * v) * e \in Static!Values
    BY <1>1, <1>3, Zenon
  <2>3. Static!T((m * v) * e) = (m * v) * e
    BY <2>2, InType
  <2> QED
    BY <1>4, <1>5, <2>1, <2>3, Zenon
<1>0. PICK r : r = Static!Chunked(l, u, d, trip, n, id, given)
  OBVIOUS
<1>8. r = Static!Result(It(x, e, a), It(x, e, a) + w - e, y, w * m,
                        k = ((t - 1) \div v) % m)
  <2>1. r = Static!Chunked(x, y, e, t, m, k, given) /\ Static!Pieces(given) = v
    BY <1>0, <1>1, <1>3
  <2> QED
    BY <1>5, <1>6, <2>1, Zenon DEF Static!Chunked
<1>9. /\ r.lower = Static!T(It(x, e, a)) /\ r.upper = It(x, e, b - 1)
      /\ r.bound = y /\ r.stride = (m * v) * e
      /\ r.last <=> k = ((t - 1) \div v) % m
  <2>1. r.lower = Static!T(It(x, e, a)) /\ r.upper = Static!T(It(x, e, a) + w - e)
    BY <1>8, Zenon DEF Static!Result
  <2>2. r.bound = y /\ r.stride = Static!T(w * m)
    BY <1>8, Zenon DEF Static!Result
  <2>3. r.last <=> k = ((t - 1) \div v) % m
    BY <1>8, Zenon DEF Static!Result
  <2> QED
    BY <1>6, <1>7, <2>1, <2>2, <2>3, Zenon
<1>10. r.lower = It(x, e, a)
  <2>1. Static!T(It(x, e, a)) = It(x, e, a)
    BY <1>2, InType
  <2> QED
    BY <1>9, <2>1, Zenon
<1>11. Strided(r, d) = OwnedBy(l, d, trip, chunk, n, id)
  <2>1. /\ chunk \in Nat \ {0} /\ n \in Nat \ {0}
    BY <1>3
  <2>2. /\ r.lower = It(l, d, a) /\ r.upper = It(l, d, b - 1) /\ r.bound = u
        /\ r.stride = (n * chunk) * d
    BY <1>1, <1>3, <1>9, <1>10, Zenon
  <2>3. IsStrided(r, l, u, d, chunk, n, id, a, b)
    BY <1>2, <2>1, <2>2, Zenon DEF IsStrided
  <2> QED
    BY <2>3, StridedIs
<1>12. r.last <=> id = Owner(trip - 1, chunk, n)
  BY <1>1, <1>3, <1>9, Zenon DEF Owner
<1> QED
  BY <1>0, <1>11, <1>12, Zenon

LEMMA OwnedIsExact ==
  ASSUME NEW l, NEW u, NEW d, NEW trip, IsLoop(l, u, d, trip),
         NEW n \in Nat \ {0}, NEW chunk \in Nat \ {0}, NEW parts, NEW last,
         \A t \in 0..n-1 : /\ parts[t] = OwnedBy(l, d, trip, chunk, n, t)
                           /\ last[t] <=> t = Owner(trip - 1, chunk, n)
  PROVE  Exact(l, u, d, n, parts, last)
<1>1. PICK x \in Int, e \in Int, k \in Nat :
        /\ x = l /\ e = d /\ k = trip /\ k > 0 /\ e # 0
        /\ Static!From(l, u, d) = Iters(x, e, 0, k)
  BY LoopFacts, AllIterations
<1>2. \A j \in Nat : Owner(j, chunk, n) \in 0..n-1
  BY Quotient DEF Owner
<1>3. UNION {parts[t] : t \in 0..n-1} = Static!From(l, u, d)
  <2>1. ASSUME NEW t \in 0..n-1, NEW i \in parts[t] PROVE i \in Iters(x, e, 0, k)
    <3>1. i \in OwnedBy(x, e, k, chunk, n, t)
      BY <1>1, <2>1
    <3> QED
      BY <3>1 DEF OwnedBy, Iters
  <2>2. ASSUME NEW i \in Iters(x, e, 0, k) PROVE \E t \in 0..n-1 : i \in parts[t]
    <3>1. PICK j \in 0..k-1 : i = It(x, e, j) /\ i \in Static!Values
      BY DEF Iters
    <3>2. PICK t \in 0..n-1 : t = Owner(j, chunk, n)
      BY <1>2
    <3>3. i \in OwnedBy(x, e, k, chunk, n, t)
      BY <3>1, <3>2 DEF OwnedBy
    <3> QED
      BY <1>1, <3>2, <3>3, Zenon
  <2> QED
    BY <1>1, <2>1, <2>2
<1>4. ASSUME NEW t \in 0..n-1, NEW v \in 0..n-1, t # v PROVE parts[t] \cap parts[v] = {}
  <2>1. ASSUME NEW i, i \in parts[t], i \in parts[v] PROVE FALSE
    <3>1. i \in OwnedBy(x, e, k, chunk, n, t) /\ i \in OwnedBy(x, e, k, chunk, n, v)
      BY <1>1, <2>1
    <3>2. PICK g \in 0..k-1 : i = It(x, e, g) /\ Owner(g, chunk, n) = t
      BY <3>1 DEF OwnedBy
    <3>3. PICK h \in 0..k-1 : i = It(x, e, h) /\ Owner(h, chunk, n) = v
      BY <3>1 DEF OwnedBy
    <3>4. g = h
      <4>1. g \in Int /\ h \in Int /\ It(x, e, g) = It(x, e, h)
        BY <3>2, <3>3
      <4> QED
        BY <1>1, <4>1, ItOnce
    <3> QED
      BY <1>4, <3>2, <3>3, <3>4
  <2> QED
    BY <2>1
<1>5. ASSUME NEW t \in 0..n-1 PROVE last[t] <=> LastOf(l, u, d) \in parts[t]
  <2>1. PICK c \in 0..k-1 : c = k - 1
    BY <1>1
  <2>2. LastOf(l, u, d) = It(x, e, c) /\ It(x, e, c) \in Static!Values
    BY <1>1, <2>1, FinalIs
  <2>3. ASSUME Owner(c, chunk, n) = t PROVE It(x, e, c) \in OwnedBy(x, e, k, chunk, n, t)
    BY <2>2, <2>3, Zenon DEF OwnedBy
  <2>4. ASSUME It(x, e, c) \in OwnedBy(x, e, k, chunk, n, t) PROVE Owner(c, chunk, n) = t
    <3>1. PICK j \in 0..k-1 : It(x, e, c) = It(x, e, j) /\ Owner(j, chunk, n) = t
      BY <2>4 DEF OwnedBy
    <3>2. c = j
      BY <1>1, <3>1, ItOnce
    <3> QED
      BY <3>1, <3>2
  <2> QED
    BY <1>1, <2>1, <2>2, <2>3, <2>4, Zenon
<1> QED
  BY <1>3, <1>4, <1>5 DEF Exact

-----------------------------------------------------------------------------
LEMMA InputFacts ==
  ASSUME NEW c \in StaticInputs
  PROVE  /\ c.lower \in Static!Values /\ c.upper \in Static!Values
         /\ c.lower \in Int /\ c.upper \in Int
         /\ c.incr \in Int /\ c.incr # 0 /\ c.chunk \in Nat /\ c.n \in Nat /\ c.n > 0
         /\ c.schedule \in {"static_greedy", "static_balanced", "static_chunked",
                            "static_balanced_chunked"}
<1>1. c \in [call : {"for", "dist_for", "team"}, schedule : Static!Kinds,
             lower : Static!Values, upper : Static!Values, incr : Static!Values \ {0},
             chunk : Nat, n : Nat \ {0}, m : Nat \ {0}]
  BY StaticAssumption DEF Static!Assumptions
<1>2. /\ c.lower \in Static!Values /\ c.upper \in Static!Values /\ c.incr \in Static!Values
      /\ c.incr # 0 /\ c.chunk \in Nat /\ c.n \in Nat \ {0} /\ c.schedule \in Static!Kinds
  BY <1>1
<1>3. \A i \in Static!Values : i \in Int
  BY ValuesAre
<1> QED
  BY <1>2, <1>3 DEF Static!Kinds

LEMMA ExecutedIs ==
  ASSUME NEW c, NEW r
  PROVE  /\ c.schedule # "static_chunked"
              => Static!Executed(c, r) = Static!From(r.lower, r.upper, c.incr)
         /\ c.schedule = "static_chunked"
              => Static!Executed(c, r) = Strided(r, c.incr)
BY Zenon DEF Static!Executed, Strided, Into

(* A call with parts that follow each other.                                *)
LEMMA SplitCall ==
  ASSUME NEW c \in StaticInputs, NEW r, NEW trip, NEW S,
         IsLoop(c.lower, c.upper, c.incr, trip), Splits(S, c.n, trip),
         c.schedule # "static_chunked",
         \A t \in 0..c.n-1 : IsShare(r[t], c.lower, c.incr, trip, S[t], S[t+1])
  PROVE  ExactCall(c, r)
<1>1. PICK n \in Nat, l \in Int, u \in Int, d \in Int :
        n = c.n /\ l = c.lower /\ u = c.upper /\ d = c.incr
  BY InputFacts
<1>2. PICK parts : parts = [t \in 0..n-1 |-> Static!Executed(c, r[t])]
  OBVIOUS
<1>3. PICK last : last = [t \in 0..n-1 |-> r[t].last]
  OBVIOUS
<1>4. ASSUME NEW t \in 0..n-1
      PROVE  parts[t] = Iters(l, d, S[t], S[t+1]) /\ (last[t] <=> S[t] < S[t+1] /\ S[t+1] = trip)
  <2>1. IsShare(r[t], l, d, trip, S[t], S[t+1])
    BY <1>1
  <2>2. Static!Executed(c, r[t]) = Static!From(r[t].lower, r[t].upper, d)
    BY <1>1, ExecutedIs, Zenon
  <2>3. parts[t] = Static!Executed(c, r[t])
    BY <1>2, Zenon
  <2>4. last[t] <=> r[t].last
    BY <1>3, Zenon
  <2> QED
    BY <2>1, <2>2, <2>3, <2>4, Zenon DEF IsShare
<1>5. IsLoop(l, u, d, trip) /\ Splits(S, n, trip)
  BY <1>1
<1>6. Exact(l, u, d, n, parts, last)
  BY <1>4, <1>5, SplitIsExact, Zenon
<1> QED
  BY <1>1, <1>2, <1>3, <1>6, Zenon DEF ExactCall

(* No iterations, or one thread.                                            *)
LEMMA NothingCall ==
  ASSUME NEW c \in StaticInputs, NEW r, Static!ZeroTrip(c),
         \A t \in 0..c.n-1 : r[t] = Static!Result(c.lower, c.upper, c.upper, c.incr, FALSE)
  PROVE  ExactCall(c, r)
<1>1. PICK n \in Nat, l \in Int, u \in Int, d \in Int :
        /\ n = c.n /\ l = c.lower /\ u = c.upper /\ d = c.incr /\ d # 0
        /\ l \in Static!Values /\ u \in Static!Values
  BY InputFacts
<1>2. Static!Before(u, l, d)
  BY <1>1 DEF Static!ZeroTrip
<1>3. Static!From(l, u, d) = {}
  BY <1>1, <1>2, NothingFrom
<1>4. ASSUME NEW t \in 0..n-1 PROVE Static!Executed(c, r[t]) = {}
  <2>1. PICK q : q = r[t]
    OBVIOUS
  <2>2. q = Static!Result(l, u, u, d, FALSE)
    BY <1>1, <2>1
  <2>3. q.lower = Static!T(l) /\ q.upper = Static!T(u) /\ q.bound = u
    BY <2>2, Zenon DEF Static!Result
  <2>4. q.lower = l /\ q.upper = u
    BY <1>1, <2>3, InType
  <2>5. Static!From(q.lower, q.upper, d) = {} /\ Static!From(q.lower, q.bound, d) = {}
    BY <1>3, <2>3, <2>4, Zenon
  <2>6. Strided(q, d) = {}
    BY <2>5 DEF Strided
  <2> QED
    BY <1>1, <2>1, <2>5, <2>6, ExecutedIs, Zenon
<1>5. PICK parts, last : /\ parts = [t \in 0..n-1 |-> Static!Executed(c, r[t])]
                         /\ last = [t \in 0..n-1 |-> r[t].last]
  OBVIOUS
<1>6. \A t \in 0..n-1 : parts[t] = {}
  BY <1>4, <1>5
<1>7. UNION {parts[t] : t \in 0..n-1} = {}
  BY <1>6
<1>8. Exact(l, u, d, n, parts, last)
  BY <1>2, <1>3, <1>6, <1>7 DEF Exact
<1> QED
  BY <1>1, <1>5, <1>8, Zenon DEF ExactCall

LEMMA TType ==
  ASSUME NEW x \in Int
  PROVE  Static!T(x) \in Int
<1>1. PICK h \in Nat \ {0} : h = StaticHalf
  BY ValuesAre
<1>2. PICK n \in Nat \ {0} : n = 2 * h
  OBVIOUS
<1>3. PICK y \in Int : y = x - (-h)
  OBVIOUS
<1>4. y % n \in Int
  BY Multiples
<1>5. Static!T(x) = (y % n) + (-h)
  BY <1>1, <1>2, <1>3, Zenon DEF Static!T, Static!MinValue
<1> QED
  BY <1>4, <1>5

LEMMA RemainderLess ==
  ASSUME NEW w \in Nat, NEW s \in Nat \ {0}
  PROVE  w % s \in Int /\ w % s <= w
<1>1. PICK q \in Nat : q = w \div s
  BY Quotient
<1>2. w \in Int
  OBVIOUS
<1>3. PICK r \in 0..s-1 : w = s * q + r /\ r = w % s
  BY <1>1, <1>2, Multiples
<1>4. s * q >= 0
  OBVIOUS
<1>5. PICK p \in Int : p = s * q
  OBVIOUS
<1> QED
  BY <1>3, <1>4, <1>5

(* A stride of any size does not matter to a chunk that is the whole loop.  *)
LEMMA IntoWhole ==
  ASSUME NEW l \in Int, NEW u \in Int, NEW d \in Int, NEW i \in Int, NEW stride \in Int,
         d # 0, ~Static!Before(i, l, d), ~Static!Before(u, i, d)
  PROVE  Into(l, i, d, stride) <= Static!Distance(l, u, d)
<1>1. PICK w \in Int, v \in Int : w = Static!Distance(l, i, d) /\ v = Static!Distance(i, u, d)
  BY DistanceType
<1>2. w >= 0 /\ v >= 0
  BY <1>1 DEF Static!Distance, Static!Before
<1>3. Static!Distance(l, u, d) = w + v
  BY <1>1, Adds
<1>4. ASSUME stride # 0 PROVE w % Static!Size(stride) \in Int /\ w % Static!Size(stride) <= w
  <2>1. PICK s \in Nat \ {0} : s = Static!Size(stride)
    BY <1>4, SizeType
  <2>2. w \in Nat
    BY <1>2
  <2> QED
    BY <2>1, <2>2, RemainderLess
<1>5. PICK x \in Int : x = Into(l, i, d, stride) /\ x <= w
  BY <1>1, <1>4 DEF Into
<1> QED
  BY <1>2, <1>3, <1>5

LEMMA OneCall ==
  ASSUME NEW c \in StaticInputs, NEW r, ~Static!ZeroTrip(c), c.n = 1,
         NEW stride \in Int,
         r[0] = Static!Result(c.lower, c.upper, c.upper, stride, TRUE)
  PROVE  ExactCall(c, r)
<1>1. PICK l \in Int, u \in Int, d \in Int :
        /\ l = c.lower /\ u = c.upper /\ d = c.incr /\ d # 0
        /\ l \in Static!Values /\ u \in Static!Values
  BY InputFacts
<1>2. ~Static!Before(u, l, d)
  BY <1>1 DEF Static!ZeroTrip
<1>3. PICK trip : trip = Count(l, u, d)
  OBVIOUS
<1>4. IsLoop(l, u, d, trip)
  BY <1>1, <1>2, <1>3, CountIs
<1>5. PICK q : q = r[0]
  OBVIOUS
<1>6. q = Static!Result(l, u, u, stride, TRUE)
  BY <1>1, <1>5
<1>7. /\ q.lower = Static!T(l) /\ q.upper = Static!T(u) /\ q.bound = u
  BY <1>6, Zenon DEF Static!Result
<1>8. q.stride = Static!T(stride) /\ q.last
  BY <1>6, Zenon DEF Static!Result
<1>9. q.lower = l /\ q.upper = u /\ q.bound = u
  BY <1>1, <1>7, InType
<1>10. PICK st \in Int : st = q.stride
  BY <1>8, TType
<1>11. Strided(q, d) = Static!From(l, u, d)
  <2>1. ASSUME NEW i \in Static!From(l, u, d) PROVE Into(l, i, d, st) <= Static!Distance(l, u, d)
    <3>1. i \in Static!Values /\ ~Static!Before(i, l, d) /\ ~Static!Before(u, i, d)
      BY DEF Static!From
    <3>2. PICK k \in Int : k = i
      BY <3>1, ValuesAre
    <3>3. Into(l, k, d, st) <= Static!Distance(l, u, d)
      BY <1>1, <3>1, <3>2, IntoWhole
    <3> QED
      BY <3>2, <3>3
  <2> QED
    BY <1>9, <1>10, <2>1, Zenon DEF Strided
<1>12. Static!Executed(c, q) = Static!From(l, u, d)
  BY <1>1, <1>9, <1>11, ExecutedIs, Zenon
<1>13. PICK parts : parts = [t \in 0..c.n-1 |-> Static!Executed(c, r[t])]
  OBVIOUS
<1>14. PICK last : last = [t \in 0..c.n-1 |-> r[t].last]
  OBVIOUS
<1>15. 0..c.n-1 = {0}
  OBVIOUS
<1>16. parts[0] = Static!From(l, u, d)
  BY <1>5, <1>12, <1>13, <1>15, Zenon
<1>17. last[0] <=> TRUE
  BY <1>5, <1>8, <1>14, <1>15, Zenon
<1>18. LastOf(l, u, d) \in Static!From(l, u, d)
  <2>1. PICK t \in Nat, x \in Int, e \in Int : t = trip /\ t > 0 /\ x = l /\ e = d
    BY <1>4, LoopFacts
  <2>2. LastOf(l, u, d) = It(x, e, t - 1) /\ It(x, e, t - 1) \in Static!Values
    BY <1>4, <2>1, FinalIs
  <2>3. t - 1 \in 0..t-1
    BY <2>1
  <2>4. It(x, e, t - 1) \in Iters(x, e, 0, t)
    BY <2>2, <2>3, Zenon DEF Iters
  <2> QED
    BY <1>4, <2>1, <2>2, <2>4, AllIterations
<1>19. Exact(l, u, d, c.n, parts, last)
  <2>1. UNION {parts[t] : t \in {0}} = parts[0]
    OBVIOUS
  <2>2. \A t, v \in {0} : t = v
    OBVIOUS
  <2>3. \A t \in {0} : last[t] <=> LastOf(l, u, d) \in parts[t]
    BY <1>16, <1>17, <1>18, Zenon
  <2> QED
    BY <1>15, <1>16, <2>1, <2>2, <2>3, Zenon DEF Exact
<1> QED
  BY <1>1, <1>13, <1>14, <1>19, Zenon DEF ExactCall

LEMMA SharedFacts ==
  ASSUME NEW c, IsShared(c)
  PROVE  /\ IsLoop(c.lower, c.upper, c.incr, Static!Trip(c))
         /\ Static!Trip(c) \in Nat /\ Static!Trip(c) > 0 /\ c.n \in Nat /\ c.n > 1
         /\ c.upper + 1 * c.incr \in Static!Values
         /\ Beyond(c) \in Nat /\ HasSpace(c)
<1>1. PICK l \in Int, u \in Int, d \in Int, n \in Nat, ch \in Nat :
        /\ l = c.lower /\ u = c.upper /\ d = c.incr /\ d # 0 /\ n = c.n /\ n > 1 /\ ch = c.chunk
        /\ l \in Static!Values /\ u \in Static!Values
  BY InputFacts DEF IsShared
<1>2. /\ c.schedule \in {"static_greedy", "static_balanced", "static_chunked",
                         "static_balanced_chunked"}
      /\ c.schedule = "static_balanced_chunked" => ch > 0
  BY <1>1, InputFacts DEF IsShared, IsFor
<1>3. HasSpace(c) /\ ~Static!Before(u, l, d)
  BY <1>1 DEF IsShared, IsFor, Static!ZeroTrip
<1>4. PICK p \in Nat : p = Static!Pieces(ch) /\ p > 0
  BY DEF Static!Pieces
<1>5. PICK m \in Nat : m = Beyond(c) /\ m >= 1
  <2>1. n * p \in Nat /\ n * p >= 1
    BY <1>1, <1>4
  <2>2. ch > 0 => n * ch \in Nat /\ n * ch >= 1
    BY <1>1
  <2>3. CASE c.schedule = "static_balanced"
    BY <2>3 DEF Beyond
  <2>4. CASE c.schedule = "static_greedy"
    BY <1>1, <2>4 DEF Beyond
  <2>5. CASE c.schedule = "static_chunked"
    BY <1>1, <1>4, <2>1, <2>5 DEF Beyond
  <2>6. CASE c.schedule = "static_balanced_chunked"
    BY <1>1, <1>2, <2>2, <2>6 DEF Beyond
  <2> QED
    BY <1>2, <2>3, <2>4, <2>5, <2>6
<1>6. u + 1 * d \in Static!Values
  <2>1. u + m * d \in Static!Values
    BY <1>1, <1>3, <1>5 DEF HasSpace
  <2>2. 1 \in Nat /\ 1 <= m
    BY <1>5
  <2> QED
    BY <1>1, <2>1, <2>2, RoomForLess
<1>7. PICK t : t = Static!Trip(c) /\ IsLoop(l, u, d, t)
  <2>1. Static!TripCount(l, u, d) = Count(l, u, d)
    BY <1>1, <1>3, <1>6, TripIs
  <2>2. IsLoop(l, u, d, Count(l, u, d))
    BY <1>1, <1>3, CountIs
  <2> QED
    BY <1>1, <2>1, <2>2 DEF Static!Trip
<1>8. t \in Nat /\ t > 0
  BY <1>7, LoopFacts
<1> QED
  BY <1>1, <1>3, <1>5, <1>6, <1>7, <1>8, Zenon

(* Which part a thread computes.                                            *)
LEMMA ChunkedAnswer ==
  ASSUME NEW c, NEW id, IsShared(c), c.schedule = "static_chunked"
  PROVE  Static!ForStaticInit(c, id)
           = Static!Chunked(c.lower, c.upper, c.incr, Static!Trip(c), c.n, id, c.chunk)
<1>1. ~Static!ZeroTrip(c) /\ c.n > 1 /\ c.n # 1
  BY SharedFacts DEF IsShared
<1>2. "static_chunked" # "static_balanced_chunked"
  OBVIOUS
<1> QED
  BY <1>1, <1>2 DEF Static!ForStaticInit

LEMMA BalancedChunkedAnswer ==
  ASSUME NEW c, NEW id, IsShared(c), c.schedule = "static_balanced_chunked"
  PROVE  Static!ForStaticInit(c, id)
           = Static!BalancedChunked(c.lower, c.upper, c.incr, Static!Trip(c), c.n, id, c.chunk)
<1>1. ~Static!ZeroTrip(c) /\ c.n > 1 /\ c.n # 1
  BY SharedFacts DEF IsShared
<1>2. "static_chunked" # "static_balanced_chunked"
  OBVIOUS
<1> QED
  BY <1>1, <1>2 DEF Static!ForStaticInit

LEMMA StaticAnswer ==
  ASSUME NEW c, NEW id, IsShared(c), c.schedule \in {"static_balanced", "static_greedy"}
  PROVE  Static!ForStaticInit(c, id)
           = Static!Static(c.schedule, c.lower, c.upper, c.upper, c.incr, Static!Trip(c), c.n, id)
<1>1. ~Static!ZeroTrip(c) /\ c.n # 1
  BY SharedFacts DEF IsShared
<1>2. c.schedule # "static_chunked" /\ c.schedule # "static_balanced_chunked"
  OBVIOUS
<1> QED
  BY <1>1, <1>2 DEF Static!ForStaticInit

LEMMA FewOfStatic ==
  ASSUME NEW s, NEW l, NEW u, NEW d, NEW id, NEW t \in Nat, NEW n \in Nat, t < n
  PROVE  Static!Static(s, l, u, u, d, t, n, id) = Static!Few(l, u, d, t, id)
BY DEF Static!Static

LEMMA BalancedOfStatic ==
  ASSUME NEW l, NEW u, NEW d, NEW id, NEW t \in Nat, NEW n \in Nat, t >= n
  PROVE  Static!Static("static_balanced", l, u, u, d, t, n, id)
           = Static!Balanced(l, u, d, t, n, id)
BY DEF Static!Static

LEMMA GreedyOfStatic ==
  ASSUME NEW l, NEW u, NEW d, NEW id, NEW t \in Nat, NEW n \in Nat, t >= n
  PROVE  Static!Static("static_greedy", l, u, u, d, t, n, id)
           = Static!Greedy(l, u, d, t, n, id)
BY DEF Static!Static

LEMMA FewSplits ==
  ASSUME NEW n \in Nat, NEW trip \in Nat, trip < n
  PROVE  Splits([x \in 0..n |-> Static!Lesser(x, trip)], n, trip)
<1>1. \A j \in 0..n : Static!Lesser(j, trip) \in Nat
  BY DEF Static!Lesser
<1>2. \A j, k \in 0..n : j <= k => Static!Lesser(j, trip) <= Static!Lesser(k, trip)
  BY DEF Static!Lesser
<1>3. Static!Lesser(0, trip) = 0 /\ Static!Lesser(n, trip) = trip
  BY DEF Static!Lesser
<1> QED
  BY <1>1, <1>2, <1>3 DEF Splits

LEMMA FewCall ==
  ASSUME NEW c, IsShared(c), c.schedule \in {"static_balanced", "static_greedy"},
         Static!Trip(c) < c.n
  PROVE  ExactCall(c, Answers(c))
<1>1. PICK n \in Nat, t \in Nat : n = c.n /\ t = Static!Trip(c) /\ t < n /\ n > 1
  BY SharedFacts
<1>2. PICK l, u, d : l = c.lower /\ u = c.upper /\ d = c.incr
  OBVIOUS
<1>3. IsLoop(l, u, d, t) /\ u + 1 * d \in Static!Values
  BY <1>1, <1>2, SharedFacts
<1>4. PICK S : S = [x \in 0..n |-> Static!Lesser(x, t)]
  OBVIOUS
<1>5. Splits(S, n, t)
  BY <1>1, <1>4, FewSplits
<1>6. ASSUME NEW id \in 0..n-1
      PROVE  IsShare(Answers(c)[id], l, d, t, S[id], S[id+1])
  <2>1. Static!ForStaticInit(c, id) = Static!Few(l, u, d, t, id)
    <3>1. Static!ForStaticInit(c, id) = Static!Static(c.schedule, l, u, u, d, t, n, id)
      BY <1>1, <1>2, StaticAnswer
    <3> QED
      BY <1>1, <3>1, FewOfStatic
  <2>2. Answers(c)[id] = Static!Few(l, u, d, t, id)
    BY <1>1, <2>1 DEF Answers
  <2>3. id \in Nat /\ id \in 0..n /\ id + 1 \in 0..n
    OBVIOUS
  <2>4. S[id] = Static!Lesser(id, t) /\ S[id+1] = Static!Lesser(id + 1, t)
    BY <1>4, <2>3
  <2>5. IsShare(Static!Few(l, u, d, t, id), l, d, t, Static!Lesser(id, t), Static!Lesser(id + 1, t))
    BY <1>3, <2>3, FewIs
  <2> QED
    BY <2>2, <2>4, <2>5, Zenon
<1>7. c \in StaticInputs /\ c.schedule # "static_chunked"
  BY DEF IsShared
<1>8. PICK r : r = Answers(c)
  OBVIOUS
<1>9. ExactCall(c, r)
  <2>1. \A id \in 0..c.n-1 : IsShare(r[id], c.lower, c.incr, t, S[id], S[id+1])
    BY <1>1, <1>2, <1>6, <1>8, Zenon
  <2>2. IsLoop(c.lower, c.upper, c.incr, t) /\ Splits(S, c.n, t)
    BY <1>1, <1>2, <1>3, <1>5, Zenon
  <2> QED
    BY <1>7, <2>1, <2>2, SplitCall, Zenon
<1> QED
  BY <1>8, <1>9

LEMMA BalancedCall ==
  ASSUME NEW c, IsShared(c), c.schedule = "static_balanced", Static!Trip(c) >= c.n
  PROVE  ExactCall(c, Answers(c))
<1>1. PICK n \in Nat, t \in Nat : n = c.n /\ t = Static!Trip(c) /\ t >= n /\ n > 1
  BY SharedFacts
<1>2. PICK l, u, d : l = c.lower /\ u = c.upper /\ d = c.incr
  OBVIOUS
<1>3. IsLoop(l, u, d, t)
  BY <1>1, <1>2, SharedFacts
<1>4. PICK q \in Nat, ex \in Nat :
        q = t \div n /\ ex = t % n /\ q > 0 /\ ex < n /\ t = q * n + ex
  <2>1. PICK q \in Nat : q = t \div n
    BY <1>1, Quotient
  <2>2. t \in Int /\ n \in Nat \ {0}
    BY <1>1
  <2>3. PICK ex \in 0..n-1 : t = n * q + ex /\ ex = t % n
    BY <2>1, <2>2, Multiples
  <2>4. n * q = q * n /\ (q = 0 => q * n = 0)
    OBVIOUS
  <2>5. q > 0
    BY <1>1, <2>3, <2>4
  <2>6. ex \in Nat /\ ex < n
    OBVIOUS
  <2> QED
    BY <2>1, <2>3, <2>4, <2>5, <2>6, Zenon
<1>5. PICK S : S = [x \in 0..n |-> BalancedStart(q, ex, x)]
  OBVIOUS
<1>6. Splits(S, n, t)
  BY <1>4, <1>5, BalancedSplits
<1>7. ASSUME NEW id \in 0..n-1
      PROVE  IsShare(Answers(c)[id], l, d, t, S[id], S[id+1])
  <2>1. Static!ForStaticInit(c, id) = Static!Balanced(l, u, d, t, n, id)
    <3>1. Static!ForStaticInit(c, id) = Static!Static("static_balanced", l, u, u, d, t, n, id)
      BY <1>1, <1>2, StaticAnswer
    <3> QED
      BY <1>1, <3>1, BalancedOfStatic
  <2>2. Answers(c)[id] = Static!Balanced(l, u, d, t, n, id)
    BY <1>1, <2>1 DEF Answers
  <2>3. id \in 0..n /\ id + 1 \in 0..n
    OBVIOUS
  <2>4. S[id] = BalancedStart(q, ex, id) /\ S[id+1] = BalancedStart(q, ex, id + 1)
    BY <1>5, <2>3
  <2>5. IsShare(Static!Balanced(l, u, d, t, n, id), l, d, t,
               BalancedStart(q, ex, id), BalancedStart(q, ex, id + 1))
    BY <1>3, <1>4, BalancedIs
  <2> QED
    BY <2>2, <2>4, <2>5, Zenon
<1>8. PICK r : r = Answers(c)
  OBVIOUS
<1>9. ExactCall(c, r)
  <2>1. \A id \in 0..c.n-1 : IsShare(r[id], c.lower, c.incr, t, S[id], S[id+1])
    BY <1>1, <1>2, <1>7, <1>8, Zenon
  <2>2. IsLoop(c.lower, c.upper, c.incr, t) /\ Splits(S, c.n, t)
    BY <1>1, <1>2, <1>3, <1>6, Zenon
  <2>3. c \in StaticInputs /\ c.schedule # "static_chunked"
    BY DEF IsShared
  <2> QED
    BY <2>1, <2>2, <2>3, SplitCall, Zenon
<1> QED
  BY <1>8, <1>9

(* Blocks, whoever computes them.                                           *)
LEMMA BlockCall ==
  ASSUME NEW c, IsShared(c), c.schedule # "static_chunked", NEW z \in Nat,
         z > 0, c.n * z >= Static!Trip(c), NEW r,
         \A id \in 0..c.n-1 :
           IsShare(r[id], c.lower, c.incr, Static!Trip(c),
                  BlockStart(z, Static!Trip(c), id), BlockStart(z, Static!Trip(c), id + 1))
  PROVE  ExactCall(c, r)
<1>1. PICK n \in Nat, t \in Nat : n = c.n /\ t = Static!Trip(c) /\ n > 1
  BY SharedFacts
<1>2. PICK S : S = [x \in 0..n |-> BlockStart(z, t, x)]
  OBVIOUS
<1>3. Splits(S, n, t)
  <2>1. n * z >= t
    BY <1>1
  <2> QED
    BY <1>2, <2>1, BlockSplits
<1>4. ASSUME NEW id \in 0..n-1 PROVE IsShare(r[id], c.lower, c.incr, t, S[id], S[id+1])
  <2>1. id \in 0..n /\ id + 1 \in 0..n
    OBVIOUS
  <2>2. S[id] = BlockStart(z, t, id) /\ S[id+1] = BlockStart(z, t, id + 1)
    BY <1>2, <2>1
  <2>3. IsShare(r[id], c.lower, c.incr, t, BlockStart(z, t, id), BlockStart(z, t, id + 1))
    BY <1>1, Zenon
  <2> QED
    BY <2>2, <2>3, Zenon
<1>5. IsLoop(c.lower, c.upper, c.incr, t) /\ Splits(S, c.n, t) /\ c \in StaticInputs
  BY <1>1, <1>3, SharedFacts DEF IsShared
<1>6. \A id \in 0..c.n-1 : IsShare(r[id], c.lower, c.incr, t, S[id], S[id+1])
  BY <1>1, <1>4, Zenon
<1> QED
  BY <1>5, <1>6, SplitCall, Zenon

LEMMA GreedyCall ==
  ASSUME NEW c, IsShared(c), c.schedule = "static_greedy", Static!Trip(c) >= c.n
  PROVE  ExactCall(c, Answers(c))
<1>1. PICK n \in Nat, t \in Nat :
        n = c.n /\ t = Static!Trip(c) /\ t >= n /\ n > 1 /\ n > 0 /\ t > 1 /\ t > 0
  BY SharedFacts
<1>2. PICK l, u, d : l = c.lower /\ u = c.upper /\ d = c.incr
  OBVIOUS
<1>3. IsLoop(l, u, d, t) /\ u + n * d \in Static!Values
  <2>1. Beyond(c) = n
    BY <1>1 DEF Beyond
  <2> QED
    BY <1>1, <1>2, <2>1, SharedFacts DEF HasSpace
<1>4. PICK z \in Nat : z = Static!Ceiling(t, n) /\ z * n >= t /\ z * n <= t + n - 1 /\ z > 0
  BY <1>1, CeilingIs
<1>5. n * z >= t /\ n * z <= t - 1 + n
  <2>1. n * z = z * n
    OBVIOUS
  <2>2. PICK p \in Int : p = z * n
    OBVIOUS
  <2> QED
    BY <1>4, <2>1, <2>2
<1>6. HasRoom(u, d, t, n, z)
  BY <1>1, <1>3, <1>4, <1>5 DEF HasRoom
<1>7. PICK r : r = Answers(c)
  OBVIOUS
<1>8. ASSUME NEW id \in 0..n-1
      PROVE  IsShare(r[id], l, d, t, BlockStart(z, t, id), BlockStart(z, t, id + 1))
  <2>1. Static!ForStaticInit(c, id) = Static!Greedy(l, u, d, t, n, id)
    <3>1. Static!ForStaticInit(c, id) = Static!Static("static_greedy", l, u, u, d, t, n, id)
      BY <1>1, <1>2, StaticAnswer
    <3> QED
      BY <1>1, <3>1, GreedyOfStatic
  <2>2. r[id] = Static!Greedy(l, u, d, t, n, id)
    BY <1>1, <1>7, <2>1 DEF Answers
  <2>3. IsShare(Static!Greedy(l, u, d, t, n, id), l, d, t,
               BlockStart(z, t, id), BlockStart(z, t, id + 1))
    BY <1>1, <1>3, <1>4, <1>6, GreedyIs
  <2> QED
    BY <2>2, <2>3
<1>9. ExactCall(c, r)
  <2>1. \A id \in 0..c.n-1 :
           IsShare(r[id], c.lower, c.incr, Static!Trip(c),
                  BlockStart(z, Static!Trip(c), id), BlockStart(z, Static!Trip(c), id + 1))
    BY <1>1, <1>2, <1>8, Zenon
  <2>2. c.n * z >= Static!Trip(c) /\ z > 0 /\ c.schedule # "static_chunked"
    BY <1>1, <1>4, <1>5
  <2> QED
    BY <2>1, <2>2, BlockCall, Zenon
<1> QED
  BY <1>7, <1>9

(* The rounded size of a chunk covers the loop and exceeds it by little.    *)
LEMMA RoundedIs ==
  ASSUME NEW t \in Nat, NEW n \in Nat, NEW ch \in Nat, NEW z, t > 0, n > 0, ch > 0,
         z = Static!Ceiling(Static!Ceiling(t, n), ch) * ch
  PROVE  z \in Nat /\ z > 0 /\ n * z >= t /\ n * z <= t - 1 + n * ch
<1>1. PICK q \in Nat : q = Static!Ceiling(t, n) /\ q * n >= t /\ q * n <= t + n - 1 /\ q > 0
  BY CeilingIs
<1>2. PICK w \in Nat : w = Static!Ceiling(q, ch) /\ w * ch >= q /\ w * ch <= q + ch - 1 /\ w > 0
  BY <1>1, CeilingIs
<1>3. PICK y \in Nat : y = z /\ y >= q /\ y <= q + ch - 1
  <2>1. w * ch \in Nat
    OBVIOUS
  <2> QED
    BY <1>1, <1>2, <2>1
<1>4. y > 0
  BY <1>1, <1>3
<1>5. q * n <= y * n /\ y * n <= (q + ch - 1) * n
  <2>1. PICK k \in Int : k = q + ch - 1
    OBVIOUS
  <2>2. q \in Int /\ y \in Int /\ n \in Nat \ {0}
    OBVIOUS
  <2>3. q * n <= y * n
    BY <1>3, <2>2, Products
  <2>4. y * n <= k * n
    BY <1>3, <2>1, <2>2, Products
  <2> QED
    BY <2>1, <2>3, <2>4
<1>6. (q + ch - 1) * n = q * n + ch * n - n
  BY Distributes
<1>7. n * y = y * n /\ n * ch = ch * n
  OBVIOUS
<1>8. PICK a \in Int, b \in Int, e \in Int : a = q * n /\ b = y * n /\ e = ch * n
  OBVIOUS
<1>9. a >= t /\ a <= t + n - 1 /\ a <= b /\ b <= a + e - n
  BY <1>1, <1>5, <1>6, <1>8
<1>10. b >= t /\ b <= t - 1 + e
  BY <1>9
<1> QED
  BY <1>3, <1>4, <1>7, <1>8, <1>10

LEMMA BalancedChunkedCall ==
  ASSUME NEW c, IsShared(c), c.schedule = "static_balanced_chunked"
  PROVE  ExactCall(c, Answers(c))
<1>1. PICK n \in Nat, t \in Nat, ch \in Nat :
        n = c.n /\ t = Static!Trip(c) /\ n > 1 /\ n > 0 /\ t > 0 /\ ch = c.chunk /\ ch > 0
  <2>1. c.chunk \in Nat
    BY InputFacts DEF IsShared
  <2>2. c.chunk > 0
    BY DEF IsShared, IsFor
  <2>3. c.n \in Nat /\ c.n > 1 /\ c.n > 0 /\ Static!Trip(c) \in Nat /\ Static!Trip(c) > 0
    BY SharedFacts
  <2> QED
    BY <2>1, <2>2, <2>3, Zenon
<1>2. PICK l, u, d : l = c.lower /\ u = c.upper /\ d = c.incr
  OBVIOUS
<1>3. IsLoop(l, u, d, t) /\ u + (n * ch) * d \in Static!Values
  <2>1. Beyond(c) = n * ch
    BY <1>1 DEF Beyond
  <2> QED
    BY <1>1, <1>2, <2>1, SharedFacts DEF HasSpace
<1>4. PICK z \in Nat : /\ z = Static!Ceiling(Static!Ceiling(t, n), ch) * ch
                       /\ z > 0 /\ n * z >= t /\ n * z <= t - 1 + n * ch
  BY <1>1, RoundedIs
<1>5. HasRoom(u, d, t, n, z)
  <2>1. n * ch \in Nat
    OBVIOUS
  <2> QED
    BY <1>1, <1>3, <1>4, <2>1, Zenon DEF HasRoom
<1>6. PICK r : r = Answers(c)
  OBVIOUS
<1>7. ASSUME NEW id \in 0..n-1
      PROVE  IsShare(r[id], l, d, t, BlockStart(z, t, id), BlockStart(z, t, id + 1))
  <2>1. Static!ForStaticInit(c, id) = Static!BalancedChunked(l, u, d, t, n, id, ch)
    BY <1>1, <1>2, BalancedChunkedAnswer
  <2>2. r[id] = Static!BalancedChunked(l, u, d, t, n, id, ch)
    BY <1>1, <1>6, <2>1 DEF Answers
  <2>3. IsShare(Static!BalancedChunked(l, u, d, t, n, id, ch), l, d, t,
               BlockStart(z, t, id), BlockStart(z, t, id + 1))
    BY <1>3, <1>4, <1>5, BalancedChunkedIs
  <2> QED
    BY <2>2, <2>3
<1>8. ExactCall(c, r)
  <2>1. \A id \in 0..c.n-1 :
           IsShare(r[id], c.lower, c.incr, Static!Trip(c),
                  BlockStart(z, Static!Trip(c), id), BlockStart(z, Static!Trip(c), id + 1))
    BY <1>1, <1>2, <1>7, Zenon
  <2>2. c.n * z >= Static!Trip(c) /\ z > 0 /\ c.schedule # "static_chunked"
    BY <1>1, <1>4
  <2> QED
    BY <2>1, <2>2, BlockCall, Zenon
<1> QED
  BY <1>6, <1>8

LEMMA ChunkedCall ==
  ASSUME NEW c, IsShared(c), c.schedule = "static_chunked"
  PROVE  ExactCall(c, Answers(c))
<1>1. PICK n \in Nat, t \in Nat, given \in Nat, ch \in Nat :
        /\ n = c.n /\ t = Static!Trip(c) /\ n > 1 /\ n > 0 /\ t > 0
        /\ given = c.chunk /\ ch = Static!Pieces(given) /\ ch > 0
  <2>1. PICK given \in Nat : given = c.chunk
    BY InputFacts DEF IsShared
  <2>2. Static!Pieces(given) \in Nat /\ Static!Pieces(given) > 0
    BY DEF Static!Pieces
  <2>3. c.n \in Nat /\ c.n > 1 /\ c.n > 0 /\ Static!Trip(c) \in Nat /\ Static!Trip(c) > 0
    BY SharedFacts
  <2> QED
    BY <2>1, <2>2, <2>3, Zenon
<1>2. PICK l, u, d : l = c.lower /\ u = c.upper /\ d = c.incr
  OBVIOUS
<1>3. /\ IsLoop(l, u, d, t) /\ u + (n * ch) * d \in Static!Values
      /\ (n * ch) * d \in Static!Values
  <2>1. Beyond(c) = n * ch
    BY <1>1 DEF Beyond
  <2> QED
    BY <1>1, <1>2, <2>1, SharedFacts DEF HasSpace
<1>4. PICK k \in Nat : k = n * ch
  <2>1. n * ch \in Nat
    OBVIOUS
  <2> QED
    BY <2>1
<1>5. HasRoom(u, d, t, n, ch)
  <2>1. k <= t - 1 + k
    BY <1>1
  <2>2. u + k * d \in Static!Values /\ n * ch <= t - 1 + k
    BY <1>3, <1>4, <2>1
  <2> QED
    BY <1>1, <2>2, Zenon DEF HasRoom
<1>6. PICK parts : parts = [id \in 0..n-1 |-> Static!Executed(c, Answers(c)[id])]
  OBVIOUS
<1>7. PICK last : last = [id \in 0..n-1 |-> Answers(c)[id].last]
  OBVIOUS
<1>8. ASSUME NEW id \in 0..n-1
      PROVE  /\ parts[id] = OwnedBy(l, d, t, ch, n, id)
             /\ last[id] <=> id = Owner(t - 1, ch, n)
  <2>1. PICK r : /\ r = Static!Chunked(l, u, d, t, n, id, given)
                 /\ Strided(r, d) = OwnedBy(l, d, t, ch, n, id)
                 /\ r.last <=> id = Owner(t - 1, ch, n)
    BY <1>1, <1>3, <1>5, ChunkedIs
  <2>2. Static!ForStaticInit(c, id) = Static!Chunked(l, u, d, t, n, id, given)
    BY <1>1, <1>2, ChunkedAnswer
  <2>3. Answers(c)[id] = r
    BY <1>1, <2>1, <2>2 DEF Answers
  <2>4. Static!Executed(c, r) = Strided(r, d)
    BY <1>2, ExecutedIs
  <2>5. parts[id] = Static!Executed(c, r)
    BY <1>6, <2>3
  <2>6. last[id] <=> r.last
    BY <1>7, <2>3, Zenon
  <2> QED
    BY <2>1, <2>4, <2>5, <2>6, Zenon
<1>9. n \in Nat \ {0} /\ ch \in Nat \ {0}
  BY <1>1
<1>10. Exact(l, u, d, n, parts, last)
  BY <1>3, <1>8, <1>9, OwnedIsExact, Zenon
<1> QED
  BY <1>1, <1>2, <1>6, <1>7, <1>10, Zenon DEF ExactCall

(* The parts of every call of one team are the loop.                        *)
LEMMA ForIsExact ==
  ASSUME NEW c \in StaticInputs, IsFor(c)
  PROVE  ExactCall(c, Answers(c))
<1>1. /\ c.n \in Nat /\ c.n > 0 /\ c.lower \in Int /\ c.upper \in Int
      /\ c.schedule \in {"static_greedy", "static_balanced", "static_chunked",
                         "static_balanced_chunked"}
  BY InputFacts
<1>2. PICK r : r = Answers(c)
  OBVIOUS
<1>3. CASE Static!ZeroTrip(c)
  <2>1. ASSUME NEW t \in 0..c.n-1
        PROVE  r[t] = Static!Result(c.lower, c.upper, c.upper, c.incr, FALSE)
    <3>1. Static!ForStaticInit(c, t) = Static!Result(c.lower, c.upper, c.upper, c.incr, FALSE)
      BY <1>3 DEF Static!ForStaticInit
    <3> QED
      BY <1>2, <3>1 DEF Answers
  <2>2. ExactCall(c, r)
    BY <1>3, <2>1, NothingCall, Zenon
  <2> QED
    BY <1>2, <2>2
<1>4. CASE ~Static!ZeroTrip(c) /\ c.n = 1
  <2>1. PICK stride \in Int :
          stride = c.upper - c.lower + (IF c.incr > 0 THEN 1 ELSE -1)
    BY <1>1
  <2>2. Static!ForStaticInit(c, 0) = Static!Result(c.lower, c.upper, c.upper, stride, TRUE)
    BY <1>4, <2>1 DEF Static!ForStaticInit
  <2>3. r[0] = Static!Result(c.lower, c.upper, c.upper, stride, TRUE)
    <3>1. 0 \in 0..c.n-1
      BY <1>4
    <3> QED
      BY <1>2, <2>2, <3>1 DEF Answers
  <2>4. ExactCall(c, r)
    BY <1>4, <2>3, OneCall, Zenon
  <2> QED
    BY <1>2, <2>4
<1>5. CASE ~Static!ZeroTrip(c) /\ c.n # 1
  <2>1. IsShared(c)
    BY <1>1, <1>5 DEF IsShared
  <2>2. Static!Trip(c) \in Nat
    BY <2>1, SharedFacts
  <2>3. CASE c.schedule = "static_chunked"
    BY <2>1, <2>3, ChunkedCall
  <2>4. CASE c.schedule = "static_balanced_chunked"
    BY <2>1, <2>4, BalancedChunkedCall
  <2>5. CASE c.schedule \in {"static_balanced", "static_greedy"} /\ Static!Trip(c) < c.n
    BY <2>1, <2>5, FewCall
  <2>6. CASE c.schedule = "static_balanced" /\ Static!Trip(c) >= c.n
    BY <2>1, <2>6, BalancedCall
  <2>7. CASE c.schedule = "static_greedy" /\ Static!Trip(c) >= c.n
    BY <2>1, <2>7, GreedyCall
  <2>8. Static!Trip(c) < c.n \/ Static!Trip(c) >= c.n
    BY <1>1, <2>2
  <2> QED
    BY <1>1, <2>3, <2>4, <2>5, <2>6, <2>7, <2>8, Zenon
<1> QED
  BY <1>3, <1>4, <1>5

LEMMA SharesInit == Static!Init => SharesInv
<1> SUFFICES ASSUME Static!Init PROVE SharesInv
  OBVIOUS
<1>1. input \in StaticInputs /\ result = [t \in Static!Callers(input) |-> Static!NoResult]
  BY DEF Static!Init
<1>2. \A t \in Static!Callers(input) : result[t] = Static!NoResult
  BY <1>1
<1> QED
  BY <1>1, <1>2 DEF SharesInv

LEMMA SharesNext == SharesInv /\ [Static!Next]_<<input, result>> => SharesInv'
<1> SUFFICES ASSUME SharesInv, [Static!Next]_<<input, result>> PROVE SharesInv'
  OBVIOUS
<1>1. CASE UNCHANGED <<input, result>>
  BY <1>1 DEF SharesInv
<1>2. ASSUME NEW t \in Static!Callers(input), NEW call, NEW r, Static!Call(t, call, r),
             call = "for" => r = Static!ForStaticInit(input, t)
      PROVE  SharesInv'
  <2>1. input' = input /\ input.call = call /\ result' = [result EXCEPT ![t] = r]
    BY <1>2 DEF Static!Call
  <2>2. PICK c : c = input
    OBVIOUS
  <2>3. PICK f : f = result
    OBVIOUS
  <2>4. PICK g : g = result' /\ g = [f EXCEPT ![t] = r]
    BY <2>1, <2>3
  <2>5. c \in StaticInputs /\ f = [v \in Static!Callers(c) |-> f[v]] /\ t \in Static!Callers(c)
    BY <2>2, <2>3, Zenon DEF SharesInv
  <2>6. g = [v \in Static!Callers(c) |-> g[v]]
    BY <2>4, <2>5
  <2>7. ASSUME IsFor(c), NEW v \in Static!Callers(c)
        PROVE  g[v] \in {Static!NoResult, Static!ForStaticInit(c, v)}
    <3>1. r = Static!ForStaticInit(c, t)
      BY <1>2, <2>1, <2>2, <2>7 DEF IsFor
    <3>2. f[v] \in {Static!NoResult, Static!ForStaticInit(c, v)}
      BY <2>2, <2>3, <2>7, Zenon DEF SharesInv
    <3>3. g[v] = IF v = t THEN r ELSE f[v]
      BY <2>4, <2>5
    <3> QED
      BY <3>1, <3>2, <3>3
  <2>8. input' = c /\ result' = g
    BY <2>1, <2>2, <2>4
  <2> QED
    BY <2>5, <2>6, <2>7, <2>8, Zenon DEF SharesInv
<1>3. CASE Static!Next
  <2>1. PICK t \in Static!Callers(input) :
          \/ Static!Call(t, "for", Static!ForStaticInit(input, t))
          \/ Static!Call(t, "dist_for",
                         Static!DistForStaticInit(input, t \div input.m, t % input.m))
          \/ Static!Call(t, "team", Static!TeamStaticInit(input, t))
    BY <1>3 DEF Static!Next
  <2>2. CASE Static!Call(t, "for", Static!ForStaticInit(input, t))
    BY <1>2, <2>2
  <2>3. ASSUME NEW r, Static!Call(t, "dist_for", r) PROVE SharesInv'
    <3>1. "dist_for" # "for"
      OBVIOUS
    <3> QED
      BY <1>2, <2>3, <3>1
  <2>4. ASSUME NEW r, Static!Call(t, "team", r) PROVE SharesInv'
    <3>1. "team" # "for"
      OBVIOUS
    <3> QED
      BY <1>2, <2>4, <3>1
  <2> QED
    BY <2>1, <2>2, <2>3, <2>4
<1> QED
  BY <1>1, <1>3

LEMMA SharesInvIsExact ==
  ASSUME SharesInv, IsFor(input)
  PROVE  SharesAreExact
<1>1. PICK c \in StaticInputs : c = input
  BY DEF SharesInv
<1>2. ExactCall(c, Answers(c))
  BY <1>1, ForIsExact
<1>3. PICK n \in Nat : n = c.n /\ Static!Callers(c) = 0..n-1
  <2>1. c.n \in Nat /\ c.m = 1
    BY <1>1, InputFacts DEF IsFor
  <2>2. c.n * c.m - 1 = c.n - 1
    BY <2>1
  <2> QED
    BY <2>1, <2>2 DEF Static!Callers
<1>4. ASSUME Static!Called PROVE \A t \in 0..n-1 : result[t] = Answers(c)[t]
  <2>1. ASSUME NEW t \in 0..n-1 PROVE result[t] = Answers(c)[t]
    <3>1. result[t].done
      BY <1>1, <1>3, <1>4 DEF Static!Called
    <3>2. ~Static!NoResult.done
      BY DEF Static!NoResult
    <3>3. result[t] \in {Static!NoResult, Static!ForStaticInit(c, t)}
      BY <1>1, <1>3, Zenon DEF SharesInv
    <3>4. result[t] # Static!NoResult
      BY <3>1, <3>2
    <3>5. result[t] = Static!ForStaticInit(c, t)
      BY <3>3, <3>4, Zenon
    <3> QED
      BY <1>3, <3>5 DEF Answers
  <2> QED
    BY <2>1
<1>5. PICK l, u, d : l = c.lower /\ u = c.upper /\ d = c.incr
  OBVIOUS
<1>6. PICK parts : parts = [t \in 0..n-1 |-> Static!Executed(c, Answers(c)[t])]
  OBVIOUS
<1>7. PICK last : last = [t \in 0..n-1 |-> Answers(c)[t].last]
  OBVIOUS
<1>8. Exact(l, u, d, n, parts, last)
  BY <1>2, <1>3, <1>5, <1>6, <1>7, Zenon DEF ExactCall
<1>9. ASSUME Static!Called
      PROVE  [t \in Static!Callers(input) |-> Static!Executed(input, result[t])] = parts
  BY <1>1, <1>3, <1>4, <1>6, <1>9
<1>10. Static!EveryIterationOnce
  <2>1. SUFFICES ASSUME Static!Called PROVE Static!EveryIterationOnce
    BY DEF Static!EveryIterationOnce
  <2>2. PICK f : f = [t \in Static!Callers(input) |-> Static!Executed(input, result[t])]
    OBVIOUS
  <2>3. f = parts
    BY <1>9, <2>1, <2>2
  <2>4. UNION {f[t] : t \in 0..n-1} = Static!From(l, u, d)
    BY <1>8, <2>3, Zenon DEF Exact
  <2>5. \A t, v \in 0..n-1 : t # v => f[t] \cap f[v] = {}
    BY <1>8, <2>3, Zenon DEF Exact
  <2>6. /\ UNION {f[t] : t \in Static!Callers(input)}
              = Static!From(input.lower, input.upper, input.incr)
        /\ \A t, v \in Static!Callers(input) : t # v => f[t] \cap f[v] = {}
    BY <1>1, <1>3, <1>5, <2>4, <2>5
  <2> QED
    BY <2>2, <2>6 DEF Static!EveryIterationOnce
<1>11. Static!LastIsRight
  <2> SUFFICES ASSUME Static!Called, ~Static!ZeroTrip(c), NEW t \in 0..n-1
               PROVE  result[t].last <=> LastOf(l, u, d) \in Static!Executed(c, result[t])
    BY <1>1, <1>3, <1>5, Zenon DEF Static!LastIsRight, Static!FinalIteration, LastOf
  <2>1. result[t] = Answers(c)[t]
    BY <1>4
  <2>2. parts[t] = Static!Executed(c, result[t])
    BY <1>6, <2>1
  <2>3. last[t] <=> result[t].last
    BY <1>7, <2>1, Zenon
  <2>4. ~Static!Before(u, l, d)
    BY <1>5 DEF Static!ZeroTrip
  <2>5. last[t] <=> LastOf(l, u, d) \in parts[t]
    BY <1>8, <2>4, Zenon DEF Exact
  <2> QED
    BY <2>2, <2>3, <2>5, Zenon
<1> QED
  BY <1>10, <1>11 DEF SharesAreExact

(***************************************************************************)
(* The threads of a team together execute every iteration of a static loop  *)
(* once, and the one that is told so the last: for bounds of any width, of  *)
(* loops in both directions with any increment, any number of threads and   *)
(* any chunk.  IsFor are the calls of __kmpc_for_static_init for which the  *)
(* type has the values that the threads compute, with chunks of at least 1  *)
(* if they are balanced; without the values, the code does wrap (MCLoops    *)
(* with TopInputs).                                                         *)
(***************************************************************************)
THEOREM SharesOfTeams == Static!Spec => [](IsFor(input) => SharesAreExact)
<1>1. SharesInv => (IsFor(input) => SharesAreExact)
  BY SharesInvIsExact
<1> QED
  BY SharesInit, SharesNext, <1>1, PTL DEF Static!Spec, Static!vars

-----------------------------------------------------------------------------
(* Numbers of the schedules.                                                *)

(* There are values of the induction variable.                              *)
LEMMA PowerIs == 2^Width \in Nat \ {0}
<1>1. PICK w \in Nat : w = Width /\ w >= 1
  BY BuffersAssumption
<1>2. IsFiniteSet(1..w) /\ Cardinality(1..w) = w
  BY <1>1, FS_Interval
<1>3. IsFiniteSet(SUBSET (1..w)) /\ Cardinality(SUBSET (1..w)) = 2^w
  BY <1>2, FS_SUBSET
<1>4. Cardinality(SUBSET (1..w)) \in Nat /\ Cardinality(SUBSET (1..w)) # 0
  BY <1>3, FS_CardinalityType, FS_EmptySet
<1> QED
  BY <1>1, <1>3, <1>4

(* Conversion leaves small numbers alone.                                   *)
LEMMA UnsignedIs ==
  ASSUME NEW x \in Nat, x < 2^Width
  PROVE  U(x) = x
<1>1. PICK w \in Nat \ {0} : w = 2^Width
  BY PowerIs
<1>2. x % w = x
  BY <1>1
<1> QED
  BY <1>1, <1>2 DEF U

(* The loops of a program.                                                  *)
LEMMA LoopIs ==
  ASSUME Typed, NEW l \in Loops
  PROVE  /\ l \in Nat \ {0}
         /\ Loop(l).tc \in Nat /\ Loop(l).tc < 2^Width
         /\ Loop(l).chunk \in Nat \ {0} /\ Loop(l).chunk < 2^Width
         /\ Loop(l).ordered \in BOOLEAN /\ Loop(l).gomp \in BOOLEAN
<1>1. PICK w \in Nat \ {0} : w = 2^Width
  BY PowerIs
<1>2. /\ program \in Programs /\ Loops \subseteq Nat \ {0}
      /\ Loop(l).tc \in 0..w-1 /\ Loop(l).chunk \in 1..w-1
      /\ {Loop(l).ordered, Loop(l).gomp} \subseteq BOOLEAN
  BY <1>1, ProgramsAssumption DEF Typed, Loops, Loop
<1> QED
  BY <1>1, <1>2

LEMMA RoundedUp ==
  ASSUME NEW a \in Nat, NEW b \in Nat \ {0}
  PROVE  /\ Ceiling(a, b) \in Nat
         /\ Ceiling(a, b) * b >= a
         /\ a > 0 => Ceiling(a, b) > 0
<1>1. Ceiling(a, b) = Static!Ceiling(a, b)
  BY DEF Ceiling, Static!Ceiling
<1> QED
  BY <1>1, CeilingIs

-----------------------------------------------------------------------------
(* Trapezoidal loops.                                                       *)

LEMMA TrapezoidIs ==
  ASSUME Typed, NEW l \in Loops
  PROVE  /\ IsTrapezoid(First(Loop(l)), Final(Loop(l)), Number(Loop(l)), Decrement(Loop(l)))
         /\ Number(Loop(l)) * (First(Loop(l)) + Final(Loop(l))) >= 2 * Loop(l).tc
<1>1. PICK tc \in Nat, c \in Nat \ {0}, m \in Nat \ {0} :
        tc = Loop(l).tc /\ c = Loop(l).chunk /\ m = 2 * program.n
  <2>1. 2 * program.n \in Nat \ {0}
    BY Known
  <2> QED
    BY <2>1, LoopIs
<1>2. PICK f \in Nat \ {0} : f = First(Loop(l))
  <2>1. tc \div m \in Nat
    BY Quotient
  <2> QED
    BY <1>1, <2>1 DEF First, Greater
<1>3. PICK g \in Nat \ {0} : g = Final(Loop(l)) /\ g <= f
  BY <1>1, <1>2 DEF Final, Lesser
<1>4. PICK k \in Nat, s \in Nat \ {0} : s = f + g /\ k = Ceiling(2 * tc, s) /\ k * s >= 2 * tc
  <2>1. f + g \in Nat \ {0} /\ 2 * tc \in Nat
    OBVIOUS
  <2> QED
    BY <2>1, RoundedUp
<1>5. PICK n \in Nat : n = Number(Loop(l)) /\ n >= 2 /\ n >= k
  BY <1>1, <1>2, <1>3, <1>4 DEF Number, Greater
<1>6. n * s >= 2 * tc
  <2>1. PICK e \in Nat : n = k + e
    <3>1. n - k \in Nat /\ n = k + (n - k)
      BY <1>5
    <3> QED
      BY <3>1
  <2>2. n * s = k * s + e * s /\ e * s \in Nat /\ k * s \in Nat
    BY <2>1
  <2> QED
    BY <1>4, <2>2
<1>7. PICK p \in Nat \ {0}, x \in Nat, d \in Nat :
        p = n - 1 /\ x = f - g /\ d = x \div p /\ d = Decrement(Loop(l))
  <2>1. PICK p \in Nat \ {0}, x \in Nat : p = n - 1 /\ x = f - g
    BY <1>3, <1>5
  <2>2. x \div p \in Nat
    BY <2>1, Quotient
  <2> QED
    BY <1>2, <1>3, <1>5, <2>1, <2>2 DEF Decrement
<1>8. d * p <= x
  <2>1. x = p * (x \div p) + (x % p) /\ x % p \in 0..p-1
    BY Divides
  <2>2. p * d = d * p /\ p * d \in Nat
    OBVIOUS
  <2> QED
    BY <1>7, <2>1, <2>2
<1>9. IsTrapezoid(f, g, n, d)
  BY <1>3, <1>5, <1>7, <1>8 DEF IsTrapezoid
<1> QED
  BY <1>1, <1>2, <1>3, <1>4, <1>5, <1>6, <1>7, <1>9

LEMMA TrapezoidGrows ==
  ASSUME NEW f, NEW g, NEW n, NEW d, IsTrapezoid(f, g, n, d), NEW k \in 0..n-1
  PROVE  /\ Twice(f, d, k) \in Nat /\ Twice(f, d, k + 1) \in Nat
         /\ Twice(f, d, k) + 2 <= Twice(f, d, k + 1)
         /\ 2 <= Twice(f, d, k + 1)
         /\ Twice(f, d, k) <= 2 * (n * f) /\ Twice(f, d, k + 1) <= 2 * (n * f)
         /\ n * f \in Nat
<1>1. /\ f \in Nat \ {0} /\ g \in Nat \ {0} /\ g <= f /\ n \in Nat /\ n >= 2 /\ k \in Nat
      /\ d \in Nat /\ d * (n - 1) <= f - g
  BY DEF IsTrapezoid
<1>2. PICK y \in Nat : y = k * d /\ y <= f - g
  <2>1. PICK e \in Nat : n - 1 = k + e
    <3>1. n - 1 - k \in Nat /\ n - 1 = k + (n - 1 - k)
      BY <1>1
    <3> QED
      BY <3>1
  <2>2. d * (k + e) = k * d + d * e /\ d * e \in Nat /\ k * d \in Nat
    BY <1>1, <2>1
  <2>3. d * (n - 1) = d * (k + e)
    BY <2>1
  <2>4. k * d <= f - g
    BY <1>1, <2>2, <2>3
  <2> QED
    BY <2>2, <2>4
<1>3. PICK a \in Int, b \in Int : a = Twice(f, d, k) /\ b = Twice(f, d, k + 1)
  BY <1>1 DEF Twice
<1>4. b = k * (2 * f - y) + (2 * f - y) /\ a = k * (2 * f - y) + y
  <2>1. (k + 1) * (2 * f - k * d) = k * (2 * f - k * d) + (2 * f - k * d)
    BY <1>1
  <2>2. k * (2 * f - (k - 1) * d) = k * (2 * f - k * d) + k * d
    BY <1>1
  <2>3. (k + 1) - 1 = k
    BY <1>1
  <2> QED
    BY <1>2, <1>3, <2>1, <2>2, <2>3 DEF Twice
<1>5. PICK z \in Nat, x \in Nat : z = 2 * f - y /\ x = k * z /\ z >= 2 /\ z >= y + 2
  <2>1. 2 * f - y \in Nat /\ 2 * f - y >= 2 /\ 2 * f - y >= y + 2
    BY <1>1, <1>2
  <2>2. k * (2 * f - y) \in Nat
    BY <1>1, <2>1
  <2> QED
    BY <2>1, <2>2
<1>6. a = x + y /\ b = x + z
  BY <1>4, <1>5
<1>7. b <= 2 * (n * f) /\ n * f \in Nat
  <2>1. PICK e \in Nat : n = k + 1 + e
    <3>1. n - 1 - k \in Nat /\ n = k + 1 + (n - 1 - k)
      BY <1>1
    <3> QED
      BY <3>1
  <2>2. n * f = k * f + f + e * f /\ e * f \in Nat /\ k * f \in Nat /\ k * y \in Nat
    BY <1>1, <2>1
  <2>3. k * z = 2 * (k * f) - k * y
    BY <1>1, <1>5
  <2> QED
    BY <1>1, <1>5, <1>6, <2>2, <2>3
<1> QED
  BY <1>3, <1>5, <1>6, <1>7

(* All n cycles are enough.                                                 *)
LEMMA TrapezoidEnds ==
  ASSUME NEW f, NEW g, NEW n, NEW d, IsTrapezoid(f, g, n, d)
  PROVE  Twice(f, d, n) >= n * (f + g) /\ Twice(f, d, n) \in Nat
<1>1. /\ f \in Nat \ {0} /\ g \in Nat \ {0} /\ n \in Nat
      /\ d \in Nat /\ d * (n - 1) <= f - g
  BY DEF IsTrapezoid
<1>2. PICK e \in Nat : e = (f - g) - d * (n - 1)
  <2>1. d * (n - 1) \in Int
    BY <1>1
  <2>2. (f - g) - d * (n - 1) \in Nat
    BY <1>1, <2>1
  <2> QED
    BY <2>2
<1>3. 2 * f - (n - 1) * d = f + g + e
  <2>1. (n - 1) * d = d * (n - 1) /\ d * (n - 1) \in Int
    BY <1>1
  <2> QED
    BY <1>1, <1>2, <2>1
<1>4. n * (f + g + e) = n * (f + g) + n * e /\ n * e \in Nat /\ n * (f + g) \in Nat
  BY <1>1
<1> QED
  BY <1>3, <1>4 DEF Twice

-----------------------------------------------------------------------------
(* The loops that take their iterations from a counter.                     *)

(* Twice as many are enough for half the number.                            *)
LEMMA Halved ==
  ASSUME NEW a \in Nat, NEW b \in Nat
  PROVE  /\ a \div 2 \in Nat
         /\ a <= b => a \div 2 <= b \div 2
         /\ a + 2 <= b => a \div 2 < b \div 2
         /\ 2 <= a => 1 <= a \div 2
         /\ a <= 2 * b => a \div 2 <= b
         /\ 2 * b <= a => b <= a \div 2
OBVIOUS

(* While the counter is not past the end by more than all the threads add   *)
(* to it, nothing overflows.                                                *)
LEMMA DynamicRoom ==
  ASSUME Typed, Plain, NEW l \in Loops, Schedule(Loop(l)) = "dynamic",
         NEW k \in Nat, NEW e \in 0..program.n-1,
         Amount(Loop(l), k) <= Furthest(Loop(l)) + Pace(Loop(l)) * e
  PROVE  /\ Loop(l).chunk * k \in Nat /\ U(Loop(l).chunk * k) = Loop(l).chunk * k
         /\ U(Loop(l).chunk + Loop(l).chunk * k - 1) = Loop(l).chunk * (k + 1) - 1
         /\ Loop(l).chunk * (k + 1) = Loop(l).chunk * k + Loop(l).chunk
         /\ U(k + 1) = k + 1
<1>1. PICK tc \in Nat, c \in Nat \ {0}, n \in Nat, w \in Nat :
        tc = Loop(l).tc /\ c = Loop(l).chunk /\ n = program.n /\ w = 2^Width
  BY LoopIs, Known, PowerIs
<1>2. c * k <= tc + c - 1 + c * e /\ tc + c * (n + 1) <= w
  BY <1>1 DEF Plain, Reach, ChunkOf, Amount, Furthest, Pace
<1>3. PICK x \in Nat, y \in Nat, z \in Nat, v \in Nat :
        /\ x = c * k /\ y = c * e /\ z = c * n /\ v = c * (k + 1)
        /\ v = x + c /\ c * (n + 1) = z + c /\ y + c <= z /\ k <= x
  <2>1. /\ c * k \in Nat /\ c * e \in Nat /\ c * n \in Nat /\ c * (k + 1) \in Nat
        /\ c * (k + 1) = c * k + c /\ c * (n + 1) = c * n + c
    OBVIOUS
  <2>2. PICK p \in Nat : n = e + 1 + p
    <3>1. n - 1 - e \in Nat /\ n = e + 1 + (n - 1 - e)
      BY <1>1
    <3> QED
      BY <3>1
  <2>3. c * n = c * e + c + c * p /\ c * p \in Nat
    BY <2>2
  <2>4. PICK q \in Nat : c = q + 1
    <3>1. c - 1 \in Nat /\ c = (c - 1) + 1
      OBVIOUS
    <3> QED
      BY <3>1
  <2>5. c * k = q * k + k /\ q * k \in Nat
    BY <2>4
  <2> QED
    BY <2>1, <2>3, <2>5
<1>4. x < w /\ c + x - 1 < w /\ c + x - 1 \in Nat /\ k + 1 < w /\ c + x - 1 = v - 1
  BY <1>2, <1>3
<1>5. U(x) = x /\ U(c + x - 1) = c + x - 1 /\ U(k + 1) = k + 1
  BY <1>1, <1>4, UnsignedIs
<1> QED
  BY <1>1, <1>3, <1>4, <1>5

LEMMA GuidedRoom ==
  ASSUME Typed, Plain, NEW l \in Loops, Schedule(Loop(l)) = "guided_iterative",
         NEW k \in Nat, NEW e \in 0..program.n-1,
         Amount(Loop(l), k) <= Furthest(Loop(l)) + Pace(Loop(l)) * e
  PROVE  U(k + Loop(l).chunk) = k + Loop(l).chunk
<1>1. PICK tc \in Nat, c \in Nat \ {0}, n \in Nat, w \in Nat :
        tc = Loop(l).tc /\ c = Loop(l).chunk /\ n = program.n /\ w = 2^Width
  BY LoopIs, Known, PowerIs
<1>2. k <= tc + c - 1 + c * e /\ tc + c * (n + 1) <= w
  BY <1>1 DEF Plain, Reach, ChunkOf, Amount, Furthest, Pace
<1>3. PICK p \in Nat : n = e + 1 + p
  <2>1. n - 1 - e \in Nat /\ n = e + 1 + (n - 1 - e)
    BY <1>1
  <2> QED
    BY <2>1
<1>4. c * (n + 1) = c * e + c + c + c * p /\ c * p \in Nat /\ c * e \in Nat
  BY <1>3
<1>5. k + c < w /\ k + c \in Nat
  BY <1>2, <1>4
<1> QED
  BY <1>1, <1>5, UnsignedIs

LEMMA TrapezoidRoom ==
  ASSUME Typed, Plain, NEW l \in Loops, Schedule(Loop(l)) = "trapezoidal",
         NEW k \in Nat, NEW e \in 0..program.n-1,
         Amount(Loop(l), k) <= Furthest(Loop(l)) + Pace(Loop(l)) * e
  PROVE  /\ U(k + 1) = k + 1 /\ Number(Loop(l)) \in Nat
         /\ k < Number(Loop(l)) =>
              /\ Raw(Loop(l), k) \in Nat /\ Raw(Loop(l), k + 1) \in Nat
              /\ Raw(Loop(l), k) < Raw(Loop(l), k + 1)
              /\ U(Raw(Loop(l), k)) = Raw(Loop(l), k)
              /\ U(Raw(Loop(l), k + 1) - 1) = Raw(Loop(l), k + 1) - 1
         /\ k + 1 = Number(Loop(l)) => Loop(l).tc <= Raw(Loop(l), k + 1)
<1>1. PICK tc \in Nat, n \in Nat, w \in Nat :
        tc = Loop(l).tc /\ n = program.n /\ w = 2^Width
  BY LoopIs, Known, PowerIs
<1>2. PICK f, g, m, d :
        /\ f = First(Loop(l)) /\ g = Final(Loop(l)) /\ m = Number(Loop(l))
        /\ d = Decrement(Loop(l)) /\ IsTrapezoid(f, g, m, d) /\ m * (f + g) >= 2 * tc
  BY <1>1, TrapezoidIs
<1>3. f \in Nat \ {0} /\ g \in Nat \ {0} /\ m \in Nat /\ m >= 2 /\ d \in Nat
  BY <1>2 DEF IsTrapezoid
<1>4. k <= m + 1 * e /\ m * f + n + 1 <= w
  BY <1>1, <1>2 DEF Plain, Reach, Amount, Furthest, Pace
<1>5. PICK y \in Nat : y = m * f /\ m <= y
  <2>1. PICK q \in Nat : f = q + 1
    <3>1. f - 1 \in Nat /\ f = (f - 1) + 1
      BY <1>3
    <3> QED
      BY <3>1
  <2>2. m * f = m * q + m /\ m * q \in Nat
    BY <1>3, <2>1
  <2> QED
    BY <1>3, <2>2
<1>6. k + 1 < w /\ k + 1 \in Nat
  BY <1>1, <1>3, <1>4, <1>5
<1>7. \A j \in Nat : Raw(Loop(l), j) = Twice(f, d, j) \div 2
  BY <1>2 DEF Raw, Twice
<1>8. ASSUME k < m
      PROVE  /\ Raw(Loop(l), k) \in Nat /\ Raw(Loop(l), k + 1) \in Nat
             /\ Raw(Loop(l), k) < Raw(Loop(l), k + 1)
             /\ U(Raw(Loop(l), k)) = Raw(Loop(l), k)
             /\ U(Raw(Loop(l), k + 1) - 1) = Raw(Loop(l), k + 1) - 1
  <2>1. k \in 0..m-1
    BY <1>3, <1>8
  <2>2. PICK a \in Nat, b \in Nat : /\ a = Twice(f, d, k) /\ b = Twice(f, d, k + 1)
                                    /\ a + 2 <= b /\ 2 <= b /\ a <= 2 * y /\ b <= 2 * y
    BY <1>2, <1>5, <2>1, TrapezoidGrows
  <2>3. PICK r \in Nat, s \in Nat : /\ r = a \div 2 /\ s = b \div 2
                                    /\ r < s /\ 1 <= s /\ r <= y /\ s <= y
    BY <2>2, Halved
  <2>4. r = Raw(Loop(l), k) /\ s = Raw(Loop(l), k + 1)
    BY <1>7, <2>2, <2>3
  <2>5. r < w /\ s - 1 < w /\ s - 1 \in Nat
    BY <1>1, <1>4, <1>5, <2>3
  <2>6. U(r) = r /\ U(s - 1) = s - 1
    BY <1>1, <2>5, UnsignedIs
  <2> QED
    BY <2>3, <2>4, <2>6
<1>9. ASSUME k + 1 = m PROVE tc <= Raw(Loop(l), k + 1)
  <2>1. PICK a \in Nat, z \in Nat : a = Twice(f, d, m) /\ z = m * (f + g) /\ a >= z
    BY <1>2, <1>3, TrapezoidEnds
  <2>2. tc <= a \div 2
    BY <1>2, <2>1, Halved
  <2> QED
    BY <1>3, <1>7, <1>9, <2>1, <2>2
<1>10. U(k + 1) = k + 1
  BY <1>1, <1>6, UnsignedIs
<1> QED
  BY <1>1, <1>2, <1>3, <1>8, <1>9, <1>10

(* At first nothing is dealt.                                               *)
LEMMA PositionStarts ==
  ASSUME Typed, NEW l \in Loops
  PROVE  Position(Loop(l), 0) = 0
<1>1. PICK tc \in Nat, c \in Nat \ {0} : tc = Loop(l).tc /\ c = Loop(l).chunk
  BY LoopIs
<1>2. CASE Schedule(Loop(l)) = "trapezoidal"
  <2>1. PICK f, g, m, d :
          /\ f = First(Loop(l)) /\ m = Number(Loop(l))
          /\ d = Decrement(Loop(l)) /\ IsTrapezoid(f, g, m, d)
    BY TrapezoidIs
  <2>2. f \in Nat /\ d \in Nat /\ m \in Nat /\ 0 < m
    BY <2>1 DEF IsTrapezoid
  <2>3. 0 * (2 * f - (0 - 1) * d) = 0
    BY <2>2
  <2>4. Raw(Loop(l), 0) = 0
    BY <2>1, <2>3 DEF Raw
  <2> QED
    BY <1>2, <2>1, <2>2, <2>4 DEF Position
<1>3. CASE Schedule(Loop(l)) = "dynamic"
  BY <1>1, <1>3 DEF Position
<1>4. CASE Schedule(Loop(l)) \notin {"dynamic", "trapezoidal"}
  BY <1>4 DEF Position
<1> QED
  BY <1>2, <1>3, <1>4

-----------------------------------------------------------------------------
(* The loops in which every thread has its own iterations.                  *)

(* The shares of the threads make up the loop.                              *)
LEMMA SharesSplit ==
  ASSUME NEW n \in Nat \ {0}, n = program.n, NEW tc \in Nat
  PROVE  Splits([x \in 0..n |-> Share(tc, x)], n, tc)
<1>1. PICK q \in Nat, r \in 0..n-1 : q = tc \div n /\ r = tc % n /\ tc = n * q + r
  <2>1. tc \div n \in Nat /\ tc % n \in 0..n-1 /\ tc = n * (tc \div n) + (tc % n)
    BY Divides
  <2>2. PICK q, r : q = tc \div n /\ r = tc % n
    OBVIOUS
  <2> QED
    BY <2>1, <2>2
<1>2. \A x \in Nat : Share(tc, x) = x * q + Lesser(x, r)
  BY <1>1 DEF Share
<1>3. ASSUME NEW x \in Nat, NEW y \in Nat, x <= y
      PROVE  Share(tc, x) \in Nat /\ Share(tc, x) <= Share(tc, y)
  <2>1. PICK e \in Nat : y = x + e
    <3>1. y - x \in Nat /\ y = x + (y - x)
      BY <1>3
    <3> QED
      BY <3>1
  <2>2. (x + e) * q = x * q + e * q /\ x * q \in Nat /\ e * q \in Nat
    OBVIOUS
  <2>3. PICK a \in Nat, b \in Nat : a = x * q /\ b = y * q /\ a <= b
    BY <2>1, <2>2
  <2>4. /\ Lesser(x, r) \in Nat /\ Lesser(y, r) \in Nat /\ Lesser(x, r) <= Lesser(y, r)
    BY <1>3 DEF Lesser
  <2> QED
    BY <1>2, <2>3, <2>4
<1>4. Share(tc, 0) = 0
  <2>1. 0 * q = 0 /\ Lesser(0, r) = 0
    BY DEF Lesser
  <2> QED
    BY <1>2, <2>1
<1>5. Share(tc, n) = tc
  <2>1. Lesser(n, r) = r
    BY DEF Lesser
  <2> QED
    BY <1>1, <1>2, <2>1
<1>6. \A x \in 0..n : x \in Nat
  OBVIOUS
<1> QED
  BY <1>3, <1>4, <1>5, <1>6 DEF Splits

(* Chunks have iterations.                                                  *)
LEMMA ChunkOfIs ==
  ASSUME Typed, NEW l \in Loops, Loop(l).tc > 0
  PROVE  ChunkOf(Loop(l)) \in Nat \ {0}
<1>1. PICK tc \in Nat, c \in Nat \ {0}, n \in Nat \ {0} :
        tc = Loop(l).tc /\ c = Loop(l).chunk /\ n = program.n /\ tc > 0
  BY LoopIs, Known
<1>2. Ceiling(tc, n) \in Nat /\ (tc > 0 => Ceiling(tc, n) > 0)
  BY RoundedUp
<1> QED
  BY <1>1, <1>2 DEF ChunkOf, Greedy

(* Every iteration has an owner, and only one.                              *)
LEMMA OneOwner ==
  ASSUME Typed, NEW l \in Loops, NEW i \in 0..Loop(l).tc-1
  PROVE  /\ \E t \in Tids : Mine(Loop(l), t, i)
         /\ \A t, u \in Tids : Mine(Loop(l), t, i) /\ Mine(Loop(l), u, i) => t = u
<1>1. PICK tc \in Nat, n \in Nat \ {0} :
        tc = Loop(l).tc /\ n = program.n /\ Tids = 0..n-1 /\ i \in 0..tc-1 /\ tc > 0
  BY LoopIs, Known DEF Tids
<1>2. CASE Schedule(Loop(l)) = "static_balanced"
  <2>1. PICK S : S = [x \in 0..n |-> Share(tc, x)] /\ Splits(S, n, tc)
    BY <1>1, SharesSplit
  <2>2. ASSUME NEW t \in Tids
        PROVE  Mine(Loop(l), t, i) <=> i \in S[t]..S[t+1]-1
    <3>1. t \in 0..n /\ t + 1 \in 0..n /\ i \in Int
      BY <1>1
    <3>2. S[t] \in Nat /\ S[t+1] \in Nat /\ S[t] = Share(tc, t) /\ S[t+1] = Share(tc, t + 1)
      BY <2>1, <3>1 DEF Splits
    <3> QED
      BY <1>1, <1>2, <3>1, <3>2 DEF Mine
  <2>3. n \in Nat /\ i \in 0..tc-1 /\ i \in Int
    BY <1>1
  <2>4. \E t \in 0..n-1 : i \in S[t]..S[t+1]-1
    BY <2>1, <2>3, SplitsCover
  <2>5. ASSUME NEW t \in 0..n-1, NEW u \in 0..n-1,
               i \in S[t]..S[t+1]-1, i \in S[u]..S[u+1]-1
        PROVE  t = u
    BY <2>1, <2>3, <2>5, SplitsApart
  <2> QED
    BY <1>1, <2>2, <2>4, <2>5
<1>3. CASE Schedule(Loop(l)) # "static_balanced"
  <2>1. PICK c \in Nat \ {0} : c = ChunkOf(Loop(l))
    BY <1>1, ChunkOfIs
  <2>2. PICK q \in Nat : q = i \div c
    <3>1. i \in Nat
      BY <1>1
    <3> QED
      BY <3>1, Divides
  <2>3. q % n \in Tids
    BY <1>1, Divides
  <2> QED
    BY <1>1, <1>3, <2>1, <2>2, <2>3 DEF Mine
<1> QED
  BY <1>2, <1>3

(* The chunks of a thread while it has not gone past the end.               *)
LEMMA StridedRoom ==
  ASSUME Typed, Plain, NEW l \in Loops, Schedule(Loop(l)) \in {"static_greedy", "static_chunked"},
         NEW t \in Tids, NEW k \in Nat, NEW c \in Nat \ {0}, c = ChunkOf(Loop(l)),
         k = 0 \/ c * (k - program.n + t) < Loop(l).tc
  PROVE  /\ c * (k + t) \in Nat /\ U(c * (k + t)) = c * (k + t)
         /\ c * (k + t) < Loop(l).tc => U(c + c * (k + t) - 1) = c * (k + t) + c - 1
<1>1. PICK tc \in Nat, n \in Nat, w \in Nat :
        tc = Loop(l).tc /\ n = program.n /\ w = 2^Width /\ t \in 0..n-1
  BY LoopIs, Known, PowerIs DEF Tids
<1>2. tc + c * (n + 1) <= w
  BY <1>1 DEF Plain, Reach
<1>3. PICK z \in Nat : z = c * n /\ c * (n + 1) = z + c
  <2>1. c * n \in Nat /\ c * (n + 1) = c * n + c
    BY <1>1
  <2> QED
    BY <2>1
<1>4. PICK x \in Nat : x = c * (k + t) /\ (k = 0 => x <= z) /\ (k # 0 => x < tc + z)
  <2>1. c * (k + t) \in Nat
    BY <1>1
  <2>2. ASSUME k = 0 PROVE c * (k + t) <= z
    <3>1. PICK p \in Nat : n = t + 1 + p
      <4>1. n - 1 - t \in Nat /\ n = t + 1 + (n - 1 - t)
        BY <1>1
      <4> QED
        BY <4>1
    <3>2. c * n = c * t + c + c * p /\ c * p \in Nat /\ c * t \in Nat
      BY <1>1, <3>1
    <3>3. c * (k + t) = c * t
      BY <1>1, <2>2
    <3> QED
      BY <1>3, <3>2, <3>3
  <2>3. ASSUME k # 0 PROVE c * (k + t) < tc + z
    <3>1. PICK y \in Int : y = c * (k - n + t)
      BY <1>1
    <3>2. c * (k + t) = c * (k - n + t) + c * n
      BY <1>1
    <3>3. y < tc
      BY <1>1, <2>3, <3>1
    <3> QED
      BY <1>3, <3>1, <3>2, <3>3
  <2> QED
    BY <2>1, <2>2, <2>3
<1>5. x < w
  BY <1>1, <1>2, <1>3, <1>4
<1>6. x < tc => c + x - 1 < w /\ c + x - 1 \in Nat
  BY <1>1, <1>2, <1>3
<1>7. U(x) = x /\ (x < tc => U(c + x - 1) = c + x - 1)
  BY <1>1, <1>5, <1>6, UnsignedIs
<1> QED
  BY <1>1, <1>4, <1>7

(* What a thread is past before and after its next chunk.                   *)
LEMMA StridedNext ==
  ASSUME Typed, NEW l \in Loops, Schedule(Loop(l)) \in {"static_greedy", "static_chunked"},
         NEW t \in Tids, NEW k \in Nat, k % program.n = 0,
         NEW c \in Nat \ {0}, c = ChunkOf(Loop(l)),
         NEW i \in 0..Loop(l).tc-1, NEW a \in Nat, a = c * (k + t)
  PROVE  /\ a <= i /\ i <= a + c - 1 => Mine(Loop(l), t, i) /\ ~Passed(Loop(l), t, k, i)
         /\ Mine(Loop(l), t, i) =>
              /\ Passed(Loop(l), t, k + program.n, i)
                   <=> Passed(Loop(l), t, k, i) \/ (a <= i /\ i <= a + c - 1)
              /\ Loop(l).tc <= a => Passed(Loop(l), t, k, i)
              /\ k = 0 => ~Passed(Loop(l), t, k, i)
         /\ (k + program.n) % program.n = 0
<1>1. PICK tc \in Nat, n \in Nat \ {0} :
        tc = Loop(l).tc /\ n = program.n /\ t \in 0..n-1 /\ i \in 0..tc-1
  BY LoopIs, Known DEF Tids
<1>2. PICK y \in Nat, j \in Nat : y = k + t /\ j = i /\ a = y * c
  BY <1>1
<1>3. PICK q \in Nat, r \in 0..c-1 : q = j \div c /\ j = c * q + r /\ r = j % c
  BY Divides
<1>4. PICK x \in Nat : x = q * c /\ j = x + r
  BY <1>3
<1>5. q < y <=> x + c <= a
  <2>1. q + 1 \in Int /\ y \in Int /\ (q + 1) * c = q * c + c
    OBVIOUS
  <2>2. q + 1 <= y <=> (q + 1) * c <= y * c
    BY <2>1, Products
  <2> QED
    BY <1>2, <1>4, <2>1, <2>2
<1>6. y < q <=> a + c <= x
  <2>1. y + 1 \in Int /\ q \in Int /\ (y + 1) * c = y * c + c
    OBVIOUS
  <2>2. y + 1 <= q <=> (y + 1) * c <= q * c
    BY <2>1, Products
  <2> QED
    BY <1>2, <1>4, <2>1, <2>2
<1>7. q = y <=> a <= i /\ i <= a + c - 1
  BY <1>2, <1>4, <1>5, <1>6
<1>8. y % n = t
  <2>1. PICK p \in Nat : k = n * p
    <3>1. k = n * (k \div n) + (k % n) /\ k \div n \in Nat
      BY Divides
    <3> QED
      BY <1>1, <3>1
  <2>2. y = p * n + t /\ t \in 0..n-1
    BY <1>1, <1>2, <2>1
  <2>3. (p * n + t) % n = t
    BY <2>2, RemainderOf
  <2> QED
    BY <2>2, <2>3
<1>9. (k + n) % n = 0
  BY <1>1, NextRemainder
<1>10. /\ Mine(Loop(l), t, i) <=> q % n = t
       /\ Passed(Loop(l), t, k, i) <=> q < y
       /\ Passed(Loop(l), t, k + n, i) <=> q < y + n
  <2>1. Schedule(Loop(l)) # "static_balanced"
    OBVIOUS
  <2>2. i \div ChunkOf(Loop(l)) = q
    BY <1>2, <1>3
  <2>3. k + t = y /\ (k + n) + t = y + n
    BY <1>1, <1>2
  <2>4. /\ Mine(Loop(l), t, i) <=> q % program.n = t
        /\ \A z : Passed(Loop(l), t, z, i) <=> q < z + t
    BY <2>1, <2>2 DEF Mine, Passed
  <2> QED
    BY <1>1, <2>3, <2>4
<1>11. ASSUME q % n = t, q < y + n, ~(q < y) PROVE q = y
  <2>1. Alike(y, q, n)
    BY <1>8, <1>11 DEF Alike
  <2> QED
    BY <2>1, SameRemainder
<1>12. q % n = t => (q < y + n <=> q < y \/ q = y)
  BY <1>1, <1>11
<1>13. tc <= a => q < y
  BY <1>1, <1>2, <1>4, <1>5, <1>6
<1>14. ASSUME q % n = t, k = 0 PROVE ~(q < y)
  <2>1. q % n <= q
    BY RemainderLess
  <2> QED
    BY <1>1, <1>2, <1>14, <2>1
<1> QED
  BY <1>1, <1>7, <1>8, <1>9, <1>10, <1>12, <1>13, <1>14

-----------------------------------------------------------------------------
(* What the variables say of loops, before and after a step.                *)

(* The program stays what it is.                                            *)
LEMMA SameProgram ==
  ASSUME program' = program
  PROVE  /\ Loops' = Loops /\ Tids' = Tids
         /\ \A l : Loop(l)' = Loop(l) /\ Buffer(l)' = Buffer(l)
         /\ \A L : /\ Schedule(L)' = Schedule(L) /\ FromCounter(L)' = FromCounter(L)
                   /\ ChunkOf(L)' = ChunkOf(L)
                   /\ Furthest(L)' = Furthest(L) /\ Pace(L)' = Pace(L)
         /\ \A L, k : Position(L, k)' = Position(L, k) /\ Amount(L, k)' = Amount(L, k)
         /\ \A L, t, i : Mine(L, t, i)' = Mine(L, t, i)
         /\ \A L, t, c, i : Passed(L, t, c, i)' = Passed(L, t, c, i)
         /\ Plain' = Plain
<1>1. Loops' = Loops /\ Tids' = Tids /\ \A l : Loop(l)' = Loop(l) /\ Buffer(l)' = Buffer(l)
  BY DEF Loops, Tids, Loop, Buffer
<1>2. \A L : Schedule(L)' = Schedule(L)
  BY DEF Schedule, Cycles, Ceiling
<1>3. \A L : FromCounter(L)' = FromCounter(L)
  BY <1>2 DEF FromCounter
<1>4. \A L : Greedy(L)' = Greedy(L)
  BY DEF Greedy, Ceiling
<1>5. \A L : ChunkOf(L)' = ChunkOf(L)
  BY <1>2, <1>4 DEF ChunkOf
<1>6. \A L : First(L)' = First(L)
  BY DEF First, Greater
<1>7. \A L : Final(L)' = Final(L)
  BY <1>6 DEF Final, Lesser
<1>8. \A L : Number(L)' = Number(L)
  BY <1>6, <1>7 DEF Number, Greater, Ceiling
<1>9. \A L : Decrement(L)' = Decrement(L)
  BY <1>6, <1>7, <1>8 DEF Decrement
<1>10. \A L : Furthest(L)' = Furthest(L) /\ Pace(L)' = Pace(L)
  BY <1>2, <1>8 DEF Furthest, Pace
<1>11. \A L, k : Raw(L, k)' = Raw(L, k)
  BY <1>6, <1>9 DEF Raw
<1>12. ASSUME NEW L, NEW k PROVE Position(L, k)' = Position(L, k)
  <2>1. PICK s, n, r : s = Schedule(L) /\ n = Number(L) /\ r = Raw(L, k)
    OBVIOUS
  <2>2. Schedule(L)' = s /\ Number(L)' = n /\ Raw(L, k)' = r
    BY <1>2, <1>8, <1>11, <2>1
  <2> QED
    BY <2>1, <2>2 DEF Position
<1>13. \A L, k : Amount(L, k)' = Amount(L, k)
  BY <1>2 DEF Amount
<1>14. \A c, t : Share(c, t)' = Share(c, t)
  BY DEF Share, Lesser
<1>15. \A L, t, i : Mine(L, t, i)' = Mine(L, t, i)
  BY <1>2, <1>5, <1>14 DEF Mine
<1>16. \A L, t, c, i : Passed(L, t, c, i)' = Passed(L, t, c, i)
  BY <1>2, <1>5 DEF Passed
<1>17. \A L : Reach(L)' = Reach(L)
  BY <1>2, <1>5, <1>6, <1>8 DEF Reach
<1>18. Plain' = Plain
  BY <1>1, <1>2, <1>17 DEF Plain
<1> QED
  BY <1>1, <1>2, <1>3, <1>5, <1>10, <1>12, <1>13, <1>15, <1>16, <1>18, Zenon

LEMMA GoersStay ==
  ASSUME Typed, NEW t \in Tids, NEW to, Leads(t, to), pc[t] \in Goers, to \in Goers
  PROVE  PlacesStay /\ \A u \in Tids : Left(u)' = Left(u)
<1>1. /\ pc'[t] = to /\ \A u \in Tids : u # t => pc'[u] = pc[u]
      /\ disp_index' = disp_index /\ Tids' = Tids
  BY DEF Typed, Leads, Tids
<1>2. \A u \in Tids : /\ pc'[u] = "out" <=> pc[u] = "out"
                      /\ pc'[u] \in Goers <=> pc[u] \in Goers
                      /\ pc'[u] \in Leavers <=> pc[u] \in Leavers
  BY <1>1 DEF Goers, Leavers, Inside, Ending
<1>3. \A u \in Tids : Left(u)' = Left(u)
  BY <1>1, <1>2 DEF Left
<1> QED
  BY <1>1, <1>2, <1>3 DEF PlacesStay, Ended, Within, Goers, Leavers

LEMMA LeaversStay ==
  ASSUME Typed, NEW t \in Tids, NEW to, Leads(t, to), pc[t] \in Leavers,
         to \in Leavers \cup {"out"}
  PROVE  /\ PlacesStay
         /\ \A u \in Tids : u # t => Left(u)' = Left(u)
         /\ Left(t)' = IF to = "out" THEN disp_index[t] ELSE Left(t)
<1>1. /\ pc'[t] = to /\ \A u \in Tids : u # t => pc'[u] = pc[u]
      /\ disp_index' = disp_index /\ Tids' = Tids
  BY DEF Typed, Leads, Tids
<1>2. \A u \in Tids : u # t => Left(u)' = Left(u)
  BY <1>1 DEF Left
<1>3. PICK d \in Nat : d = disp_index[t]
  BY DEF Typed
<1>4. pc[t] # "out" /\ pc[t] \notin Goers /\ to \notin Goers /\ Left(t) = d - 1
  BY <1>3 DEF Goers, Leavers, Inside, Ending, Left
<1>5. Left(t)' = IF to = "out" THEN d ELSE d - 1
  BY <1>1, <1>3 DEF Left
<1>6. ASSUME NEW u \in Tids, NEW l \in Loops, u # t
      PROVE  (Ended(u, l)' <=> Ended(u, l)) /\ (Within(u, l)' <=> Within(u, l))
  BY <1>1, <1>2, <1>6 DEF Ended, Within
<1>7. ASSUME NEW l \in Loops
      PROVE  (Ended(t, l)' <=> Ended(t, l)) /\ (Within(t, l)' <=> Within(t, l))
  <2>1. l \in Nat
    BY LoopIs
  <2>2. Ended(t, l) <=> d >= l
    BY <1>3, <1>4, <2>1 DEF Ended, Leavers
  <2>3. Ended(t, l)' <=> d >= l
    <3>1. CASE to = "out"
      <4>1. to \notin Ending \cup {"end"}
        BY <3>1 DEF Ending
      <4> QED
        BY <1>1, <1>5, <3>1, <4>1 DEF Ended
    <3>2. CASE to # "out"
      <4>1. to \in Ending \cup {"end"}
        BY <3>2 DEF Leavers
      <4> QED
        BY <1>1, <1>3, <1>5, <2>1, <3>2, <4>1 DEF Ended
    <3> QED
      BY <3>1, <3>2
  <2> QED
    BY <1>1, <1>4, <2>2, <2>3 DEF Within, Goers
<1> QED
  BY <1>2, <1>3, <1>4, <1>5, <1>6, <1>7 DEF PlacesStay

(* A thread is told that there is no more.                                  *)
LEMMA GoerEnds ==
  ASSUME Typed, NEW t \in Tids, Leads(t, "end"), pc[t] \in Goers
  PROVE  /\ \A u \in Tids : Left(u)' = Left(u)
         /\ \A u \in Tids, l \in Loops : u # t \/ l # disp_index[t] =>
              (Ended(u, l)' <=> Ended(u, l)) /\ (Within(u, l)' <=> Within(u, l))
         /\ \A l \in Loops : l = disp_index[t] => ~Ended(t, l) /\ Ended(t, l)' /\ ~Within(t, l)'
<1>1. /\ pc'[t] = "end" /\ \A u \in Tids : u # t => pc'[u] = pc[u]
      /\ disp_index' = disp_index /\ Tids' = Tids
  BY DEF Typed, Leads, Tids
<1>2. /\ pc[t] # "out" /\ pc[t] \notin Ending \cup {"end"}
      /\ "end" \notin Inside \cup {"wait"}
  BY DEF Goers, Inside, Ending
<1>3. \A u \in Tids : Left(u)' = Left(u)
  BY <1>1, <1>2 DEF Left
<1>4. PICK d \in Nat : d = disp_index[t] /\ Left(t) = d - 1
  BY <1>2 DEF Typed, Left
<1>5. \A l \in Loops : l \in Nat
  BY LoopIs
<1>6. \A l \in Loops : l = d => ~Ended(t, l) /\ Ended(t, l)' /\ ~Within(t, l)'
  BY <1>1, <1>2, <1>4, <1>5 DEF Ended, Within
<1> QED
  BY <1>1, <1>2, <1>3, <1>4, <1>6 DEF Ended, Within

(* What becomes of the counters if a thread changes the shared part of its  *)
(* buffer.                                                                  *)
LEMMA SharedMoves ==
  ASSUME IInv, NEW t \in Tids, pc[t] \notin Outside, program' = program,
         NEW l \in Loops, l = disp_index[t],
         NEW p, sh' = [sh EXCEPT ![current[t]] = p], p.buffer_index = Sh(t).buffer_index
  PROVE  /\ Progress(l) = Sh(t).iteration /\ Progress(l)' = p.iteration
         /\ Turn(l) = Sh(t).ordered_iteration /\ Turn(l)' = p.ordered_iteration
         /\ \A m \in Loops : m # l => Progress(m)' = Progress(m) /\ Turn(m)' = Turn(m)
<1>1. PICK b \in Buffers : b = current[t] /\ b = Buffer(l) /\ sh[b].buffer_index = l
  BY InItsLoop
<1>2. sh = [c \in Buffers |-> sh[c]]
  BY DEF IInv, Typed
<1>3. sh'[b] = p /\ (\A c \in Buffers : c # b => sh'[c] = sh[c]) /\ p.buffer_index = l
  BY <1>1, <1>2 DEF Sh
<1>4. \A m : Buffer(m)' = Buffer(m)
  BY DEF Buffer
<1>5. \A m \in Loops : Buffer(m) \in Buffers
  BY LoopIs, BufferIs DEF IInv
<1>6. /\ Progress(l) = sh[b].iteration /\ Progress(l)' = p.iteration
      /\ Turn(l) = sh[b].ordered_iteration /\ Turn(l)' = p.ordered_iteration
  BY <1>1, <1>3, <1>4 DEF Progress, Turn
<1>7. ASSUME NEW m \in Loops, m # l PROVE Progress(m)' = Progress(m) /\ Turn(m)' = Turn(m)
  <2>1. PICK c \in Buffers : c = Buffer(m) /\ c = Buffer(m)'
    BY <1>4, <1>5
  <2>2. CASE c # b
    <3>1. sh'[c] = sh[c]
      BY <1>3, <2>2
    <3> QED
      BY <2>1, <3>1 DEF Progress, Turn
  <2>3. CASE c = b
    <3>1. sh[c].buffer_index # m /\ sh'[c].buffer_index # m
      BY <1>1, <1>3, <1>7, <2>3
    <3> QED
      BY <2>1, <3>1 DEF Progress, Turn
  <2> QED
    BY <2>2, <2>3
<1> QED
  BY <1>1, <1>6, <1>7 DEF Sh

LEMMA SharedStays ==
  ASSUME sh' = sh
  PROVE  \A l : Progress(l)' = Progress(l) /\ Turn(l)' = Turn(l)
BY DEF Progress, Turn, Buffer

(* And if it passes the buffer on.                                          *)
LEMMA ReleaseMoves ==
  ASSUME IInv, NEW t \in Tids, ReleaseBuffer(t), NEW l \in Loops, EndedBy(l) # Tids
  PROVE  Progress(l)' = Progress(l) /\ Turn(l)' = Turn(l)
<1>1. pc[t] = "release" /\ pc[t] \notin Outside /\ pc[t] \in Ending
  BY DEF ReleaseBuffer, LeaveLoop, Goes, Outside, Ending
<1>2. PICK b \in Buffers, k \in Nat \ {0} :
        b = current[t] /\ sh[b].buffer_index = k /\ k = disp_index[t]
  BY <1>1, InItsLoop
<1>3. PICK c \in Buffers : c = Buffer(l)
  BY LoopIs, BufferIs DEF IInv
<1>4. sh' = [sh EXCEPT ![b].buffer_index = @ + NumBuffers] /\ sh = [d \in Buffers |-> sh[d]]
  BY <1>2 DEF ReleaseBuffer, IInv, Typed
<1>5. Buffer(l)' = c
  BY <1>3 DEF Buffer
<1>6. CASE c # b
  <2>1. sh'[c] = sh[c]
    BY <1>4, <1>6
  <2> QED
    BY <1>3, <1>5, <2>1 DEF Progress, Turn
<1>7. CASE c = b
  <2>1. k # l
    <3> SUFFICES ASSUME k = l PROVE FALSE
      OBVIOUS
    <3>1. ASSUME NEW u \in Tids PROVE Ended(u, l)
      <4>1. CASE u = t
        BY <1>1, <1>2, <4>1 DEF Ended
      <4>2. CASE u # t
        BY <1>1, <1>2, <4>2 DEF IInv, LastResets, Ended
      <4> QED
        BY <4>1, <4>2
    <3> QED
      BY <3>1 DEF EndedBy
  <2>2. Progress(l) = 0 /\ Turn(l) = 0
    BY <1>2, <1>3, <1>7, <2>1 DEF Progress, Turn
  <2>3. sh[b].iteration = 0 /\ sh[b].ordered_iteration = 0
    BY <1>1, <1>2 DEF IInv, LastResets, Sh
  <2>4. IsPart(sh[b])
    BY DEF IInv, Typed
  <2>5. sh'[b].iteration = 0 /\ sh'[b].ordered_iteration = 0
    BY <1>4, <2>3, <2>4 DEF IsPart
  <2> QED
    BY <1>5, <1>7, <2>2, <2>5 DEF Progress, Turn
<1> QED
  BY <1>6, <1>7

(* What becomes of the private parts.                                       *)
LEMMA PrivateMoves ==
  ASSUME Shape, NEW t \in Tids, current[t] \in Buffers, NEW p, SetPr(t, p)
  PROVE  /\ \A u \in Tids : u # t => pr'[u] = pr[u]
         /\ pr'[t][current[t]] = p
         /\ \A b \in Buffers : b # current[t] => pr'[t][b] = pr[t][b]
         /\ p \in PrivateParts => pr' \in [Tids -> [Buffers -> PrivateParts]]
<1>1. pr \in [Tids -> [Buffers -> PrivateParts]]
  BY DEF Shape
<1>2. pr' = [pr EXCEPT ![t][current[t]] = p]
  BY DEF SetPr
<1> QED
  BY <1>1, <1>2

-----------------------------------------------------------------------------
(* What a step changes of the iterations that are dealt.                    *)

(* Where a counter has moved to.                                            *)
LEMMA CounterMoved ==
  ASSUME program' = program, NEW l \in Loops, NEW k, Progress(l)' = k
  PROVE  /\ Position(Loop(l), Progress(l))' = Position(Loop(l), k)
         /\ Amount(Loop(l), Progress(l))' = Amount(Loop(l), k)
<1>1. PICK L : L = Loop(l) /\ L = Loop(l)'
  BY SameProgram
<1>2. Position(L, k)' = Position(L, k) /\ Amount(L, k)' = Amount(L, k)
  BY SameProgram
<1>3. Position(Loop(l), Progress(l))' = Position(L, k)'
  BY <1>1, SameProgram DEF Position, Raw, Number, First, Final, Decrement, Greater,
     Lesser, Ceiling
<1>4. Amount(Loop(l), Progress(l))' = Amount(L, k)'
  BY <1>1, SameProgram DEF Amount
<1> QED
  BY <1>1, <1>2, <1>3, <1>4

(* What has been dealt after a step.                                        *)
LEMMA CounterDealt ==
  ASSUME program' = program, NEW l \in Loops, FromCounter(Loop(l)), NEW k, Progress(l)' = k, NEW i
  PROVE  /\ Dealt(l, i) <=> EndedBy(l) # {} \/ i < Position(Loop(l), Progress(l))
         /\ Dealt(l, i)' <=> EndedBy(l)' # {} \/ i < Position(Loop(l), k)
<1>1. FromCounter(Loop(l))' <=> FromCounter(Loop(l))
  <2>1. PICK L : L = Loop(l) /\ L = Loop(l)'
    BY SameProgram
  <2>2. FromCounter(L)' = FromCounter(L)
    BY SameProgram
  <2> QED
    BY <2>1, <2>2, SameProgram DEF FromCounter
<1>2. Dealt(l, i) <=> EndedBy(l) # {} \/ i < Position(Loop(l), Progress(l))
  BY DEF Dealt
<1>3. Dealt(l, i)' <=> EndedBy(l)' # {} \/ i < Position(Loop(l), Progress(l))'
  BY <1>1 DEF Dealt
<1> QED
  BY <1>2, <1>3, CounterMoved

LEMMA StaticDealt ==
  ASSUME program' = program, NEW l \in Loops, ~FromCounter(Loop(l)), NEW i
  PROVE  /\ Dealt(l, i) <=> \E u \in Tids : Had(u, l, i)
         /\ Dealt(l, i)' <=> \E u \in Tids : Had(u, l, i)'
         /\ \A u \in Tids : \A c : Tally(u, l)' = c =>
              (Had(u, l, i)' <=> /\ Mine(Loop(l), u, i)
                                 /\ Ended(u, l)' \/ (Within(u, l)' /\ Passed(Loop(l), u, c, i)))
<1>1. PICK L : L = Loop(l) /\ L = Loop(l)'
  BY SameProgram
<1>2. FromCounter(L)' = FromCounter(L)
  BY SameProgram
<1>3. FromCounter(Loop(l))' <=> FromCounter(Loop(l))
  BY <1>1, <1>2, SameProgram DEF FromCounter
<1>4. Dealt(l, i) <=> \E u \in Tids : Had(u, l, i)
  BY DEF Dealt, Had
<1>5. Dealt(l, i)' <=> \E u \in Tids : Had(u, l, i)'
  BY <1>3, SameProgram DEF Dealt, Had
<1>6. ASSUME NEW u \in Tids, NEW c, Tally(u, l)' = c
      PROVE  Had(u, l, i)' <=> /\ Mine(L, u, i)
                               /\ Ended(u, l)' \/ (Within(u, l)' /\ Passed(L, u, c, i))
  <2>1. Mine(L, u, i)' = Mine(L, u, i) /\ Passed(L, u, c, i)' = Passed(L, u, c, i)
    BY SameProgram
  <2>2. Mine(Loop(l), u, i)' <=> Mine(L, u, i)'
    BY <1>1, SameProgram DEF Mine, Share, ChunkOf, Greedy, Ceiling, Lesser
  <2>3. Passed(Loop(l), u, Tally(u, l), i)' <=> Passed(L, u, c, i)'
    BY <1>1, <1>6, SameProgram DEF Passed, ChunkOf, Greedy, Ceiling
  <2> QED
    BY <2>1, <2>2, <2>3, Zenon DEF Had
<1> QED
  BY <1>1, <1>4, <1>5, <1>6

(* The end of a loop is as far as it was.                                   *)
LEMMA AdvancedStays ==
  ASSUME program' = program, NEW l \in Loops, EndedBy(l)' = EndedBy(l),
         EndedBy(l) # Tids => Progress(l)' = Progress(l), Advanced(l)
  PROVE  Advanced(l)'
<1>1. PICK L : L = Loop(l) /\ L = Loop(l)'
  BY SameProgram
<1>2. /\ Tids' = Tids /\ FromCounter(L)' = FromCounter(L)
      /\ Furthest(L)' = Furthest(L) /\ Pace(L)' = Pace(L)
  BY SameProgram
<1>3. PICK k : k = Progress(l)'
  OBVIOUS
<1> SUFFICES ASSUME FromCounter(Loop(l))', EndedBy(l)' # Tids'
             PROVE  /\ Progress(l)' \in Nat
                    /\ Amount(Loop(l), Progress(l))'
                         <= Furthest(Loop(l))' + Pace(Loop(l))' * Cardinality(EndedBy(l))'
                    /\ EndedBy(l)' # {} =>
                         Loop(l)'.tc <= Position(Loop(l), Progress(l))'
  BY DEF Advanced
<1>4. FromCounter(Loop(l)) /\ EndedBy(l) # Tids /\ k = Progress(l)
  BY <1>1, <1>2, <1>3 DEF FromCounter
<1>5. Furthest(Loop(l))' = Furthest(L) /\ Pace(Loop(l))' = Pace(L)
  BY <1>1, <1>2 DEF Furthest, Pace
<1>6. /\ Position(Loop(l), Progress(l))' = Position(L, k)
      /\ Amount(Loop(l), Progress(l))' = Amount(L, k)
  BY <1>1, <1>3, CounterMoved
<1> QED
  BY <1>1, <1>3, <1>4, <1>5, <1>6 DEF Advanced

LEMMA CountingStays ==
  ASSUME program' = program, NEW l \in Loops, NEW t \in Tids,
         Within(t, l)' => Within(t, l) /\ Tally(t, l)' = Tally(t, l), Counting(t, l)
  PROVE  Counting(t, l)'
<1>1. PICK L : L = Loop(l) /\ L = Loop(l)'
  BY SameProgram
<1>2. ChunkOf(L)' = ChunkOf(L) /\ Schedule(L)' = Schedule(L)
  BY SameProgram
<1>3. Schedule(Loop(l))' = Schedule(L) /\ ChunkOf(Loop(l))' = ChunkOf(L)
  BY <1>1, <1>2 DEF Schedule, ChunkOf
<1>4. Share(Loop(l).tc, t)' = Share(L.tc, t) /\ Share(Loop(l).tc, t + 1)' = Share(L.tc, t + 1)
  BY <1>1 DEF Share, Lesser
<1> QED
  BY <1>1, <1>3, <1>4 DEF Counting

LEMMA UntouchedKeeps ==
  ASSUME Typed, program' = program, NEW l \in Loops, Untouched(l)
  PROVE  /\ \A i : Dealt(l, i)' <=> Dealt(l, i)
         /\ Advanced(l) => Advanced(l)'
         /\ \A t \in Tids : Counting(t, l) => Counting(t, l)'
         /\ EndedBy(l)' = EndedBy(l)
<1>1. PICK L : L = Loop(l) /\ L = Loop(l)'
  BY SameProgram
<1>2. Tids' = Tids
  BY SameProgram
<1>3. EndedBy(l)' = EndedBy(l)
  BY <1>2 DEF Untouched, EndedBy
<1>4. Tids # {}
  BY Known DEF Tids
<1>5. PICK k : k = Progress(l)'
  OBVIOUS
<1>6. EndedBy(l) # Tids => k = Progress(l)
  BY <1>5 DEF Untouched
<1>7. ASSUME NEW i PROVE Dealt(l, i)' <=> Dealt(l, i)
  <2>1. CASE FromCounter(L)
    BY <1>1, <1>3, <1>4, <1>5, <1>6, <2>1, CounterDealt
  <2>2. CASE ~FromCounter(L)
    <3>1. ASSUME NEW u \in Tids PROVE Had(u, l, i)' <=> Had(u, l, i)
      <4>1. PICK c : c = Tally(u, l)'
        OBVIOUS
      <4>2. Had(u, l, i)' <=> /\ Mine(Loop(l), u, i)
                              /\ Ended(u, l)' \/ (Within(u, l)' /\ Passed(Loop(l), u, c, i))
        BY <1>1, <2>2, <4>1, StaticDealt
      <4>3. Within(u, l) => c = Tally(u, l)
        BY <4>1 DEF Untouched
      <4> QED
        BY <4>2, <4>3 DEF Untouched, Had
    <3> QED
      BY <1>1, <2>2, <3>1, StaticDealt
  <2> QED
    BY <2>1, <2>2
<1>8. Advanced(l) => Advanced(l)'
  BY <1>3, AdvancedStays DEF Untouched
<1>9. ASSUME NEW t \in Tids, Counting(t, l) PROVE Counting(t, l)'
  BY <1>9, CountingStays DEF Untouched
<1> QED
  BY <1>3, <1>7, <1>8, <1>9

LEMMA ExactlyIs ==
  ASSUME Exactly, NEW l \in Loops
  PROVE  /\ DOMAIN ran[l] = 0..Loop(l).tc-1
         /\ \A i \in 0..Loop(l).tc-1 : ran[l][i] = IF Dealt(l, i) THEN 1 ELSE 0
BY DEF Exactly

LEMMA ExactlyStays ==
  ASSUME Exactly, program' = program, ran' = ran, \A l \in Loops : DealsNone(l)
  PROVE  Exactly'
<1>1. Loops' = Loops /\ \A l : Loop(l)' = Loop(l)
  BY SameProgram
<1>2. \A l \in Loops : \A i \in 0..Loop(l).tc-1 : Dealt(l, i)' <=> Dealt(l, i)
  BY DEF DealsNone
<1>3. ran = [l \in Loops |-> [i \in 0..Loop(l).tc-1 |-> IF Dealt(l, i)' THEN 1 ELSE 0]]
  BY <1>2 DEF Exactly
<1> QED
  BY <1>1, <1>3 DEF Exactly

LEMMA ExactlyGiven ==
  ASSUME Exactly, program' = program, NEW l \in Loops, NEW a, NEW b, Deals(l, a, b),
         \A m \in Loops : m # l => DealsNone(m),
         ran' = [ran EXCEPT ![l] = [i \in DOMAIN @ |-> IF i \in a..b THEN @[i] + 1 ELSE @[i]]]
  PROVE  /\ Exactly'
         /\ \A m \in Loops : m # l => ran'[m] = ran[m]
         /\ \A i \in 0..Loop(l).tc-1 : ran'[l][i] = IF i \in a..b THEN 1 ELSE ran[l][i]
         /\ \A i \in 0..Loop(l).tc-1 : i \in a..b => ran[l][i] = 0
<1>1. Loops' = Loops /\ \A m : Loop(m)' = Loop(m)
  BY SameProgram
<1>2. ran = [m \in Loops |-> ran[m]]
  BY DEF Exactly
<1>3. /\ ran' = [m \in Loops |-> ran'[m]]
      /\ \A m \in Loops : m # l => ran'[m] = ran[m]
      /\ ran'[l] = [i \in DOMAIN ran[l] |-> IF i \in a..b THEN ran[l][i] + 1 ELSE ran[l][i]]
  BY <1>2
<1>4. /\ DOMAIN ran[l] = 0..Loop(l).tc-1
      /\ \A i \in 0..Loop(l).tc-1 : ran[l][i] = IF Dealt(l, i) THEN 1 ELSE 0
  BY ExactlyIs
<1>5. ASSUME NEW i \in 0..Loop(l).tc-1, i \in a..b PROVE ran[l][i] = 0 /\ ran'[l][i] = 1
  <2>1. ran[l][i] = 0
    BY <1>4, <1>5 DEF Deals
  <2>2. ran'[l][i] = ran[l][i] + 1
    BY <1>3, <1>4, <1>5
  <2> QED
    BY <2>1, <2>2
<1>6. \A i \in 0..Loop(l).tc-1 : i \notin a..b => ran'[l][i] = ran[l][i]
  BY <1>3, <1>4
<1>7. \A i \in 0..Loop(l).tc-1 : ran'[l][i] = IF Dealt(l, i)' THEN 1 ELSE 0
  BY <1>4, <1>5, <1>6 DEF Deals
<1>8. ran'[l] = [i \in 0..Loop(l).tc-1 |-> IF Dealt(l, i)' THEN 1 ELSE 0]
  BY <1>3, <1>4, <1>7
<1>9. \A m \in Loops : m # l =>
        ran'[m] = [i \in 0..Loop(m).tc-1 |-> IF Dealt(m, i)' THEN 1 ELSE 0]
  <2> SUFFICES ASSUME NEW m \in Loops, m # l
               PROVE  ran'[m] = [i \in 0..Loop(m).tc-1 |-> IF Dealt(m, i)' THEN 1 ELSE 0]
    OBVIOUS
  <2>1. ran[m] = [i \in 0..Loop(m).tc-1 |-> IF Dealt(m, i) THEN 1 ELSE 0]
    BY DEF Exactly
  <2>2. \A i \in 0..Loop(m).tc-1 : Dealt(m, i)' <=> Dealt(m, i)
    BY DEF DealsNone
  <2> QED
    BY <1>3, <2>1, <2>2
<1>10. ran' = [m \in Loops |-> [i \in 0..Loop(m).tc-1 |-> IF Dealt(m, i)' THEN 1 ELSE 0]]
  <2> DEFINE After(m) == [i \in 0..Loop(m).tc-1 |-> IF Dealt(m, i)' THEN 1 ELSE 0]
  <2>1. \A m \in Loops : ran'[m] = After(m)
    BY <1>8, <1>9
  <2> HIDE DEF After
  <2>2. ran' = [m \in Loops |-> After(m)]
    BY <1>3, <2>1
  <2> QED
    BY <2>2 DEF After
<1> QED
  BY <1>1, <1>3, <1>5, <1>6, <1>10 DEF Exactly

(* The threads that ended a loop are finitely many, one more with t.        *)
LEMMA EndedByIs ==
  ASSUME Typed, NEW l
  PROVE  /\ IsFiniteSet(EndedBy(l)) /\ Cardinality(EndedBy(l)) \in 0..program.n
         /\ \A t \in Tids \ EndedBy(l) :
              /\ Cardinality(EndedBy(l)) \in 0..program.n-1
              /\ Cardinality(EndedBy(l) \cup {t}) = Cardinality(EndedBy(l)) + 1
<1>1. IsFiniteSet(Tids) /\ EndedBy(l) \subseteq Tids /\ Cardinality(Tids) = program.n
      /\ program.n \in Nat
  BY Known, TeamSize DEF EndedBy
<1>2. IsFiniteSet(EndedBy(l)) /\ Cardinality(EndedBy(l)) <= program.n
  BY <1>1, FS_Subset
<1>3. Cardinality(EndedBy(l)) \in Nat
  BY <1>2, FS_CardinalityType
<1>4. ASSUME NEW t \in Tids \ EndedBy(l)
      PROVE  /\ Cardinality(EndedBy(l)) \in 0..program.n-1
             /\ Cardinality(EndedBy(l) \cup {t}) = Cardinality(EndedBy(l)) + 1
  <2>1. Cardinality(EndedBy(l) \cup {t}) = Cardinality(EndedBy(l)) + 1
    BY <1>2, FS_AddElement
  <2>2. EndedBy(l) \cup {t} \subseteq Tids
    BY <1>1
  <2>3. Cardinality(EndedBy(l) \cup {t}) <= program.n
    BY <1>1, <2>2, FS_Subset
  <2> QED
    BY <1>1, <1>3, <2>1, <2>3
<1> QED
  BY <1>1, <1>2, <1>3, <1>4

LEMMA PaceIs ==
  ASSUME Typed, NEW l \in Loops
  PROVE  Pace(Loop(l)) \in Nat /\ Furthest(Loop(l)) \in Int
<1>1. Loop(l).tc \in Nat /\ Loop(l).chunk \in Nat /\ Loop(l).tc + Loop(l).chunk - 1 \in Int
  BY LoopIs
<1>2. Number(Loop(l)) \in Nat
  BY TrapezoidIs DEF IsTrapezoid
<1> QED
  BY <1>1, <1>2 DEF Pace, Furthest

(* The counter of the loop goes on and gives its iterations to a thread.    *)
LEMMA CounterGives ==
  ASSUME Typed, program' = program, NEW l \in Loops, FromCounter(Loop(l)), Advanced(l),
         NEW t \in Tids, ~Ended(t, l), PlacesStay,
         NEW k \in Nat, NEW m \in Nat, Progress(l) = k, Progress(l)' = m,
         NEW a \in Nat, NEW z \in Nat, a = Position(Loop(l), k), z = Position(Loop(l), m),
         a < Loop(l).tc, a <= z, Amount(Loop(l), m) <= Furthest(Loop(l))
  PROVE  Deals(l, a, Lesser(z - 1, Loop(l).tc - 1)) /\ Advanced(l)'
<1>1. PICK tc \in Nat, c \in Nat : tc = Loop(l).tc /\ c = Loop(l).chunk
  BY LoopIs
<1>2. EndedBy(l) # Tids /\ EndedBy(l) = {} /\ EndedBy(l)' = {}
  <2>1. EndedBy(l) # Tids
    BY DEF EndedBy
  <2>2. EndedBy(l) = {}
    BY <1>1, <2>1 DEF Advanced
  <2>3. EndedBy(l)' = EndedBy(l)
    BY SameProgram DEF EndedBy, PlacesStay
  <2> QED
    BY <2>1, <2>2, <2>3
<1>3. \A i : (Dealt(l, i) <=> i < a) /\ (Dealt(l, i)' <=> i < z)
  BY <1>2, CounterDealt
<1>4. Deals(l, a, Lesser(z - 1, tc - 1))
  BY <1>1, <1>3 DEF Deals, Lesser
<1>5. Advanced(l)'
  <2>1. PICK L : L = Loop(l) /\ L = Loop(l)'
    BY SameProgram
  <2>2. Furthest(Loop(l))' = Furthest(L) /\ Pace(Loop(l))' = Pace(L)
    <3>1. Furthest(L)' = Furthest(L) /\ Pace(L)' = Pace(L)
      BY SameProgram
    <3> QED
      BY <2>1, <3>1 DEF Furthest, Pace
  <2>3. Amount(Loop(l), Progress(l))' = Amount(L, m)
    BY <2>1, CounterMoved
  <2>4. Cardinality(EndedBy(l)') = 0
    BY <1>2, FS_EmptySet
  <2>5. Pace(L) \in Nat /\ Furthest(L) \in Int
    BY <2>1, PaceIs
  <2>6. Furthest(L) + Pace(L) * 0 = Furthest(L)
    BY <2>5
  <2> QED
    BY <1>2, <2>1, <2>2, <2>3, <2>4, <2>6 DEF Advanced
<1> QED
  BY <1>1, <1>4, <1>5

(* A thread is told that the counter is past the end.                       *)
LEMMA CounterEnds ==
  ASSUME Typed, program' = program, NEW l \in Loops, FromCounter(Loop(l)), Advanced(l),
         NEW t \in Tids, ~Ended(t, l), Ended(t, l)',
         \A u \in Tids : u # t => (Ended(u, l)' <=> Ended(u, l)),
         NEW k \in Nat, NEW m \in Nat, Progress(l) = k, Progress(l)' = m,
         Loop(l).tc <= Position(Loop(l), k), Loop(l).tc <= Position(Loop(l), m),
         NEW x \in Int, x = Amount(Loop(l), k), NEW y \in Int, y = Amount(Loop(l), m),
         y <= x + Pace(Loop(l)),
         Position(Loop(l), k) \in Int, Position(Loop(l), m) \in Int
  PROVE  DealsNone(l) /\ Advanced(l)'
<1>1. PICK tc \in Nat, c \in Nat : tc = Loop(l).tc /\ c = Loop(l).chunk
  BY LoopIs
<1>2. EndedBy(l) # Tids /\ EndedBy(l)' = EndedBy(l) \cup {t} /\ t \notin EndedBy(l)
  BY SameProgram DEF EndedBy
<1>3. \A i \in 0..tc-1 : Dealt(l, i) /\ Dealt(l, i)'
  BY <1>1, <1>2, CounterDealt
<1>4. Advanced(l)'
  <2>1. PICK L : L = Loop(l) /\ L = Loop(l)'
    BY SameProgram
  <2>2. Furthest(Loop(l))' = Furthest(L) /\ Pace(Loop(l))' = Pace(L)
    <3>1. Furthest(L)' = Furthest(L) /\ Pace(L)' = Pace(L)
      BY SameProgram
    <3> QED
      BY <2>1, <3>1 DEF Furthest, Pace
  <2>3. Amount(Loop(l), Progress(l))' = y /\ Position(Loop(l), Progress(l))' = Position(L, m)
    BY <2>1, CounterMoved
  <2>4. PICK e \in Nat : e = Cardinality(EndedBy(l)) /\ Cardinality(EndedBy(l)') = e + 1
    BY <1>2, EndedByIs
  <2>5. PICK p \in Nat, f \in Int : p = Pace(L) /\ f = Furthest(L)
    BY <2>1, PaceIs
  <2>6. x <= f + p * e
    BY <1>2, <2>1, <2>4, <2>5 DEF Advanced
  <2>7. p * (e + 1) = p * e + p /\ p * e \in Nat
    OBVIOUS
  <2>8. y <= f + p * (e + 1)
    BY <2>1, <2>5, <2>6, <2>7
  <2> QED
    BY <2>1, <2>2, <2>3, <2>4, <2>5, <2>8 DEF Advanced
<1> QED
  BY <1>1, <1>3, <1>4 DEF DealsNone

(* A thread gets the next of its own iterations.                            *)
LEMMA StaticGives ==
  ASSUME Typed, program' = program, NEW l \in Loops, ~FromCounter(Loop(l)),
         NEW t \in Tids, Within(t, l), ~Ended(t, l), PlacesStay,
         NEW c, NEW d, Tally(t, l) = c, Tally(t, l)' = d,
         \A u \in Tids : u # t => Tally(u, l)' = Tally(u, l),
         NEW a, NEW b,
         \A i \in 0..Loop(l).tc-1 :
           /\ i \in a..b => Mine(Loop(l), t, i) /\ ~Passed(Loop(l), t, c, i)
           /\ Mine(Loop(l), t, i) =>
                (Passed(Loop(l), t, d, i) <=> Passed(Loop(l), t, c, i) \/ i \in a..b)
  PROVE  Deals(l, a, b)
<1> SUFFICES ASSUME NEW i \in 0..Loop(l).tc-1
             PROVE  /\ Dealt(l, i)' <=> Dealt(l, i) \/ i \in a..b
                    /\ i \in a..b => ~Dealt(l, i)
  BY DEF Deals
<1>1. ASSUME NEW u \in Tids, u # t PROVE Had(u, l, i)' <=> Had(u, l, i)
  <2>1. PICK x : x = Tally(u, l) /\ x = Tally(u, l)'
    BY <1>1
  <2>2. Had(u, l, i)' <=> /\ Mine(Loop(l), u, i)
                          /\ Ended(u, l)' \/ (Within(u, l)' /\ Passed(Loop(l), u, x, i))
    BY <2>1, StaticDealt
  <2> QED
    BY <2>1, <2>2 DEF PlacesStay, Had
<1>2. /\ Had(t, l, i) <=> Mine(Loop(l), t, i) /\ Passed(Loop(l), t, c, i)
      /\ Had(t, l, i)' <=> Mine(Loop(l), t, i) /\ Passed(Loop(l), t, d, i)
  <2>1. Had(t, l, i)' <=> /\ Mine(Loop(l), t, i)
                          /\ Ended(t, l)' \/ (Within(t, l)' /\ Passed(Loop(l), t, d, i))
    BY StaticDealt
  <2> QED
    BY <2>1 DEF PlacesStay, Had
<1>3. Had(t, l, i)' <=> Had(t, l, i) \/ i \in a..b
  BY <1>2
<1>4. \A u \in Tids : i \in a..b => ~Had(u, l, i)
  <2> SUFFICES ASSUME NEW u \in Tids, i \in a..b, Had(u, l, i) PROVE FALSE
    OBVIOUS
  <2>1. Mine(Loop(l), u, i) /\ Mine(Loop(l), t, i)
    BY DEF Had
  <2>2. u = t
    BY <2>1, OneOwner
  <2> QED
    BY <1>2, <2>2
<1>5. /\ Dealt(l, i) <=> \E u \in Tids : Had(u, l, i)
      /\ Dealt(l, i)' <=> \E u \in Tids : Had(u, l, i)'
  BY StaticDealt
<1> QED
  BY <1>1, <1>3, <1>4, <1>5

(* A thread is told that it had all its iterations.                         *)
LEMMA StaticEnds ==
  ASSUME Typed, program' = program, NEW l \in Loops, ~FromCounter(Loop(l)),
         NEW t \in Tids, Within(t, l), ~Ended(t, l), Ended(t, l)',
         \A u \in Tids : u # t => (Ended(u, l)' <=> Ended(u, l)) /\ (Within(u, l)' <=> Within(u, l)),
         \A u \in Tids : Tally(u, l)' = Tally(u, l),
         \A i \in 0..Loop(l).tc-1 :
           Mine(Loop(l), t, i) => Passed(Loop(l), t, Tally(t, l), i)
  PROVE  DealsNone(l)
<1> SUFFICES ASSUME NEW i \in 0..Loop(l).tc-1 PROVE Dealt(l, i)' <=> Dealt(l, i)
  BY DEF DealsNone
<1>1. ASSUME NEW u \in Tids PROVE Had(u, l, i)' <=> Had(u, l, i)
  <2>1. PICK x : x = Tally(u, l) /\ x = Tally(u, l)'
    OBVIOUS
  <2>2. Had(u, l, i)' <=> /\ Mine(Loop(l), u, i)
                          /\ Ended(u, l)' \/ (Within(u, l)' /\ Passed(Loop(l), u, x, i))
    BY <2>1, StaticDealt
  <2>3. CASE u = t
    BY <2>1, <2>2, <2>3 DEF Had
  <2>4. CASE u # t
    BY <2>1, <2>2, <2>4 DEF Had
  <2> QED
    BY <2>3, <2>4
<1> QED
  BY <1>1, StaticDealt

-----------------------------------------------------------------------------
(* A thread is given iterations, or told that there are no more.            *)

(* What is known of a thread in a loop.                                     *)
LEMMA AtWork ==
  ASSUME IInv, DealInv, NEW t \in Tids, pc[t] \in Inside
  PROVE  LET l == disp_index[t] IN
         /\ l \in Loops /\ MyLoop(t) = Loop(l) /\ Within(t, l) /\ ~Ended(t, l)
         /\ EndedBy(l) # Tids
         /\ current[t] \in Buffers /\ current[t] = Buffer(l)
         /\ Pr(t) \in PrivateParts /\ Tally(t, l) = Pr(t).count /\ Chunk(t) = Pr(t)
         /\ Progress(l) = Sh(t).iteration /\ Turn(l) = Sh(t).ordered_iteration
         /\ Advanced(l) /\ Counting(t, l) /\ Reading(t)
         /\ Schedule(Loop(l)) \in PlainSchedules
         /\ pc[t] \notin Outside
<1>1. PICK l : l = disp_index[t]
  OBVIOUS
<1>2. /\ pc[t] \notin Outside /\ pc[t] # "out" /\ pc[t] \notin Ending \cup {"end"}
      /\ pc[t] \in Inside \cup {"wait"}
  BY DEF Inside, Outside, Ending
<1>3. l \in Loops
  BY <1>1, <1>2 DEF DealInv, Waited
<1>4. /\ current[t] \in Buffers /\ current[t] = Buffer(l) /\ sh[current[t]].buffer_index = l
      /\ l \in Nat /\ Left(t) = l - 1
  BY <1>1, <1>2, InItsLoop
<1>5. ~Ended(t, l) /\ Within(t, l)
  BY <1>1, <1>2, <1>4 DEF Ended, Within
<1>6. EndedBy(l) # Tids
  BY <1>5 DEF EndedBy
<1>7. pr[t][current[t]] \in PrivateParts
  BY <1>4 DEF DealInv, Shape
<1>8. /\ Progress(l) = Sh(t).iteration /\ Turn(l) = Sh(t).ordered_iteration
  BY <1>4 DEF Progress, Turn, Sh
<1>9. Advanced(l) /\ Counting(t, l) /\ Reading(t) /\ Schedule(Loop(l)) \in PlainSchedules
  BY <1>3 DEF DealInv, Plain
<1> QED
  BY <1>1, <1>2, <1>3, <1>4, <1>5, <1>6, <1>7, <1>8, <1>9 DEF Pr, Tally, Chunk, MyLoop

(* The parts of giving a chunk.                                             *)
LEMMA GiveIs ==
  ASSUME NEW t, NEW from \in Asks, NEW p, NEW lower, NEW upper, Give(t, from, p, lower, upper),
         NEW b, b = Lesser(upper, MyLoop(t).tc - 1)
  PROVE  /\ pc[t] \in Asks /\ pc[t] \in Goers /\ pc[t] \in Inside
         /\ Leads(t, AfterChunk(t)) /\ AfterChunk(t) \in Goers
         /\ Given(t, lower, b) /\ SetPr(t, Bounded(t, p, lower, b))
BY DEF Give, Goes, Given, Trip, Leads, AfterChunk, Goers, Inside, Asks

LEMMA NoMoreIs ==
  ASSUME NEW t, NEW from \in Asks, NoMore(t, from)
  PROVE  /\ pc[t] \in Asks /\ pc[t] \in Goers /\ pc[t] \in Inside /\ Leads(t, "end")
         /\ frame' = [frame EXCEPT ![t] = NoFrame]
         /\ UNCHANGED <<pr, current, ran, section>>
BY DEF NoMore, Goes, Leads, Goers, Inside, Asks, history

LEMMA CountsOn ==
  ASSUME IInv, DealInv, NEW t \in Tids, pc[t] \in Inside, program' = program,
         NEW l, l = disp_index[t],
         NEW k, k = Sh(t).iteration, NEW m \in Nat, CountsTo(t, k, m)
  PROVE  Progress(l) = k /\ Progress(l)' = m
<1>1. pc[t] \notin Outside /\ l \in Loops /\ Progress(l) = k
  BY AtWork
<1>2. CASE sh' = sh /\ m = k
  BY <1>1, <1>2, SharedStays
<1>3. CASE SetSh(t, [Sh(t) EXCEPT !.iteration = m])
  <2>1. PICK p : p = [Sh(t) EXCEPT !.iteration = m]
    OBVIOUS
  <2>2. IsPart(Sh(t))
    BY AtWork DEF IInv, Typed, Sh
  <2>3. p.buffer_index = Sh(t).buffer_index /\ p.iteration = m
    BY <2>1, <2>2 DEF IsPart
  <2>4. sh' = [sh EXCEPT ![current[t]] = p]
    BY <1>3, <2>1 DEF SetSh
  <2> QED
    BY <1>1, <2>3, <2>4, SharedMoves
<1> QED
  BY <1>1, <1>2, <1>3 DEF CountsTo

(* The counter of the loop moves, and thread t is given what lies between.  *)
LEMMA CounterHands ==
  ASSUME IInv, DealInv, NEW t \in Tids, NEW from \in Asks,
         NEW l, l = disp_index[t], FromCounter(Loop(l)),
         NEW k \in Nat, k = Sh(t).iteration, NEW m \in Nat, CountsTo(t, k, m),
         NEW a \in Nat, NEW z \in Nat, a = Position(Loop(l), k), z = Position(Loop(l), m),
         a < Loop(l).tc, a < z, Amount(Loop(l), m) <= Furthest(Loop(l)),
         NEW u, Lesser(u, Loop(l).tc - 1) = Lesser(z - 1, Loop(l).tc - 1),
         Give(t, from, Pr(t), a, u)
  PROVE  \E b : Hands(t, l, a, b)
<1>1. PICK b : b = Lesser(u, Loop(l).tc - 1) /\ b = Lesser(z - 1, Loop(l).tc - 1)
  OBVIOUS
<1>2. /\ pc[t] \in Asks /\ pc[t] \in Goers /\ pc[t] \in Inside
      /\ Leads(t, AfterChunk(t)) /\ AfterChunk(t) \in Goers
      /\ Given(t, a, b) /\ SetPr(t, Bounded(t, Pr(t), a, b))
  <2>1. b = Lesser(u, MyLoop(t).tc - 1)
    BY <1>1 DEF MyLoop
  <2> QED
    BY <2>1, GiveIs
<1>3. /\ l \in Loops /\ ~Ended(t, l) /\ Pr(t) \in PrivateParts /\ Advanced(l)
  BY <1>2, AtWork
<1>4. program' = program
  BY <1>2 DEF Leads
<1>5. Progress(l) = k /\ Progress(l)' = m
  BY <1>2, <1>4, CountsOn
<1>6. Typed /\ PlacesStay
  BY <1>2, GoersStay DEF IInv
<1>7. Deals(l, a, b) /\ Advanced(l)'
  <2>1. a <= z
    OBVIOUS
  <2>2. Deals(l, a, Lesser(z - 1, Loop(l).tc - 1)) /\ Advanced(l)'
    BY <1>3, <1>4, <1>5, <1>6, <2>1, CounterGives
  <2> QED
    BY <1>1, <2>2
<1>8. PICK tc \in Nat : tc = Loop(l).tc
  BY <1>3, <1>6, LoopIs
<1>9. b \in Nat /\ a <= b /\ b < tc
  BY <1>1, <1>8 DEF Lesser
<1>10. Counting(t, l)'
  <2>1. PICK L : L = Loop(l) /\ L = Loop(l)'
    BY <1>4, SameProgram
  <2>2. Schedule(L)' = Schedule(L)
    BY <1>4, SameProgram
  <2>3. Schedule(Loop(l))' = Schedule(L)
    BY <2>1, <2>2 DEF Schedule
  <2> QED
    BY <2>1, <2>3 DEF Counting, FromCounter
<1>11. sh' = sh \/ \E j \in Nat : j >= Sh(t).iteration /\ SetSh(t, [Sh(t) EXCEPT !.iteration = j])
  BY DEF CountsTo
<1>12. \E p \in PrivateParts : SetPr(t, Bounded(t, p, a, b)) /\ p.bumped = Pr(t).bumped
  BY <1>2, <1>3
<1> QED
  BY <1>2, <1>3, <1>7, <1>8, <1>9, <1>10, <1>11, <1>12 DEF Hands

(* The counter is past the end, and thread t is told so.                    *)
LEMMA CounterTells ==
  ASSUME IInv, DealInv, NEW t \in Tids, NEW from \in Asks,
         NEW l, l = disp_index[t], FromCounter(Loop(l)),
         NEW k \in Nat, k = Sh(t).iteration, NEW m \in Nat, CountsTo(t, k, m),
         NEW a \in Int, NEW z \in Int, a = Position(Loop(l), k), z = Position(Loop(l), m),
         Loop(l).tc <= a, Loop(l).tc <= z,
         NEW x \in Int, x = Amount(Loop(l), k), NEW y \in Int, y = Amount(Loop(l), m),
         y <= x + Pace(Loop(l)),
         NoMore(t, from)
  PROVE  Tells(t, l)
<1>1. /\ pc[t] \in Asks /\ pc[t] \in Goers /\ pc[t] \in Inside /\ Leads(t, "end")
      /\ frame' = [frame EXCEPT ![t] = NoFrame] /\ UNCHANGED <<pr, current, ran, section>>
  BY NoMoreIs
<1>2. /\ l \in Loops /\ ~Ended(t, l) /\ Advanced(l)
  BY <1>1, AtWork
<1>3. program' = program /\ Typed
  BY <1>1 DEF Leads, IInv
<1>4. Progress(l) = k /\ Progress(l)' = m
  BY <1>1, <1>3, CountsOn
<1>5. Ended(t, l)' /\ \A u \in Tids : u # t => (Ended(u, l)' <=> Ended(u, l))
  BY <1>1, <1>2, <1>3, GoerEnds
<1>6. DealsNone(l) /\ Advanced(l)'
  BY <1>2, <1>3, <1>4, <1>5, CounterEnds
<1>7. sh' = sh \/ \E j \in Nat : j >= Sh(t).iteration /\ SetSh(t, [Sh(t) EXCEPT !.iteration = j])
  BY DEF CountsTo
<1> QED
  BY <1>1, <1>2, <1>6, <1>7 DEF Tells

(* What is known of the counter of a loop that a thread is in.              *)
LEMMA CounterIs ==
  ASSUME IInv, DealInv, NEW t \in Tids, pc[t] \in Inside,
         NEW l, l = disp_index[t], FromCounter(Loop(l))
  PROVE  /\ Sh(t).iteration \in Nat
         /\ \E e \in 0..program.n-1 :
              Amount(Loop(l), Sh(t).iteration) <= Furthest(Loop(l)) + Pace(Loop(l)) * e
<1>1. /\ l \in Loops /\ ~Ended(t, l) /\ Advanced(l) /\ EndedBy(l) # Tids
      /\ Progress(l) = Sh(t).iteration
  BY AtWork
<1>2. t \in Tids \ EndedBy(l)
  BY <1>1 DEF EndedBy
<1>3. Cardinality(EndedBy(l)) \in 0..program.n-1
  BY <1>2, EndedByIs DEF IInv
<1> QED
  BY <1>1, <1>3 DEF Advanced

LEMMA DynamicDeals ==
  ASSUME IInv, DealInv, NEW t \in Tids, NextDynamic(t), NEW l, l = disp_index[t]
  PROVE  (\E a, b : Hands(t, l, a, b)) \/ Tells(t, l)
<1>1. pc[t] \in Inside /\ "next" \in Asks
  BY DEF NextDynamic, Is, Inside, Asks
<1>2. /\ l \in Loops /\ MyLoop(t) = Loop(l)
  BY <1>1, AtWork
<1>3. Schedule(Loop(l)) = "dynamic" /\ FromCounter(Loop(l))
  BY <1>2 DEF NextDynamic, Is, FromCounter
<1>4. PICK k \in Nat, e \in 0..program.n-1 :
        /\ k = Sh(t).iteration
        /\ Amount(Loop(l), k) <= Furthest(Loop(l)) + Pace(Loop(l)) * e
  BY <1>1, <1>3, CounterIs
<1>5. PICK tc \in Nat, c \in Nat \ {0}, m \in Nat : tc = Loop(l).tc /\ c = Loop(l).chunk /\ m = k + 1
  BY <1>2, LoopIs DEF IInv
<1>6. PICK a \in Nat, z \in Nat :
        /\ a = c * k /\ U(c * k) = a /\ z = c * (k + 1) /\ z = a + c
        /\ U(c + a - 1) = z - 1 /\ U(k + 1) = m
  <2>1. /\ c * k \in Nat /\ U(c * k) = c * k
        /\ U(c + c * k - 1) = c * (k + 1) - 1
        /\ c * (k + 1) = c * k + c
        /\ U(k + 1) = k + 1
    BY <1>2, <1>3, <1>4, <1>5, DynamicRoom DEF IInv, DealInv
  <2> QED
    BY <1>5, <2>1
<1>7. a = Position(Loop(l), k) /\ z = Position(Loop(l), m)
  BY <1>3, <1>5, <1>6 DEF Position
<1>8. a = Amount(Loop(l), k) /\ z = Amount(Loop(l), m) /\ Pace(Loop(l)) = c
      /\ Furthest(Loop(l)) = tc + c - 1
  BY <1>3, <1>5, <1>6 DEF Amount, Pace, Furthest
<1>9. CountsTo(t, k, m)
  <2>1. SetSh(t, [Sh(t) EXCEPT !.iteration = m])
    BY <1>4, <1>6 DEF NextDynamic, FetchAndAdd, SetSh
  <2>2. k <= m
    BY <1>5
  <2> QED
    BY <2>1, <2>2 DEF CountsTo
<1>10. CASE a <= tc - 1
  <2>1. Give(t, "next", Pr(t), a, z - 1)
    BY <1>2, <1>4, <1>5, <1>6, <1>10 DEF NextDynamic, Trip
  <2>2. /\ a < Loop(l).tc /\ a < z /\ Amount(Loop(l), m) <= Furthest(Loop(l))
    BY <1>5, <1>6, <1>8, <1>10
  <2>3. \E b : Hands(t, l, a, b)
    BY <1>1, <1>3, <1>4, <1>7, <1>9, <2>1, <2>2, CounterHands
  <2> QED
    BY <2>3
<1>11. CASE ~(a <= tc - 1)
  <2>1. NoMore(t, "next")
    BY <1>2, <1>4, <1>5, <1>6, <1>11 DEF NextDynamic, Trip
  <2>2. /\ Loop(l).tc <= a /\ Loop(l).tc <= z /\ z <= a + Pace(Loop(l)) /\ a \in Int /\ z \in Int
    BY <1>5, <1>6, <1>8, <1>11
  <2>3. Tells(t, l)
    BY <1>1, <1>3, <1>4, <1>7, <1>8, <1>9, <2>1, <2>2, CounterTells
  <2> QED
    BY <2>3
<1> QED
  BY <1>10, <1>11

LEMMA TrapezoidDeals ==
  ASSUME IInv, DealInv, NEW t \in Tids, NextTrapezoidal(t), NEW l, l = disp_index[t]
  PROVE  (\E a, b : Hands(t, l, a, b)) \/ Tells(t, l)
<1>1. pc[t] \in Inside /\ "next" \in Asks
  BY DEF NextTrapezoidal, Is, Inside, Asks
<1>2. /\ l \in Loops /\ MyLoop(t) = Loop(l)
  BY <1>1, AtWork
<1>3. Schedule(Loop(l)) = "trapezoidal" /\ FromCounter(Loop(l))
  BY <1>2 DEF NextTrapezoidal, Is, FromCounter
<1>4. PICK k \in Nat, e \in 0..program.n-1 :
        /\ k = Sh(t).iteration
        /\ Amount(Loop(l), k) <= Furthest(Loop(l)) + Pace(Loop(l)) * e
  BY <1>1, <1>3, CounterIs
<1>5. PICK tc \in Nat, m \in Nat, n \in Nat :
        tc = Loop(l).tc /\ m = k + 1 /\ n = Number(Loop(l))
  <2>1. Number(Loop(l)) \in Nat
    BY <1>2, <1>3, <1>4, TrapezoidRoom DEF IInv, DealInv
  <2> QED
    BY <1>2, <2>1, LoopIs DEF IInv
<1>6. /\ U(k + 1) = m
      /\ k < n =>
           /\ Raw(Loop(l), k) \in Nat /\ Raw(Loop(l), m) \in Nat
           /\ Raw(Loop(l), k) < Raw(Loop(l), m)
           /\ U(Raw(Loop(l), k)) = Raw(Loop(l), k)
           /\ U(Raw(Loop(l), m) - 1) = Raw(Loop(l), m) - 1
      /\ m = n => tc <= Raw(Loop(l), m)
  BY <1>2, <1>3, <1>4, <1>5, TrapezoidRoom DEF IInv, DealInv
<1>7. PICK a \in Nat, z \in Nat : a = Position(Loop(l), k) /\ z = Position(Loop(l), m)
  <2>1. /\ Position(Loop(l), k) = IF k < n THEN Raw(Loop(l), k) ELSE tc
        /\ Position(Loop(l), m) = IF m < n THEN Raw(Loop(l), m) ELSE tc
    BY <1>3, <1>5 DEF Position
  <2> QED
    BY <1>5, <1>6, <2>1
<1>8. /\ a = IF k < n THEN Raw(Loop(l), k) ELSE tc
      /\ z = IF m < n THEN Raw(Loop(l), m) ELSE tc
  BY <1>3, <1>5, <1>7 DEF Position
<1>9. k = Amount(Loop(l), k) /\ m = Amount(Loop(l), m) /\ Pace(Loop(l)) = 1
      /\ Furthest(Loop(l)) = n
  BY <1>3, <1>5 DEF Amount, Pace, Furthest
<1>10. CountsTo(t, k, m)
  <2>1. SetSh(t, [Sh(t) EXCEPT !.iteration = m])
    BY <1>4, <1>6 DEF NextTrapezoidal, FetchAndAdd, SetSh
  <2>2. k <= m
    BY <1>5
  <2> QED
    BY <2>1, <2>2 DEF CountsTo
<1>11. PICK init, limit :
         /\ init = U(Raw(Loop(l), k)) /\ limit = U(Raw(Loop(l), m) - 1)
         /\ IF k < n /\ init <= tc - 1
              THEN Give(t, "next", Pr(t), init, limit)
              ELSE NoMore(t, "next")
  <2>1. Raw(Loop(l), k) = (k * (2 * First(Loop(l)) - (k - 1) * Decrement(Loop(l)))) \div 2
    BY DEF Raw
  <2>2. Raw(Loop(l), m) = ((k + 1) * (2 * First(Loop(l)) - k * Decrement(Loop(l)))) \div 2
    <3>1. m - 1 = k
      BY <1>5
    <3> QED
      BY <1>5, <3>1 DEF Raw
  <2> QED
    BY <1>2, <1>4, <1>5, <2>1, <2>2 DEF NextTrapezoidal, Trip
<1>12. CASE k < n /\ Raw(Loop(l), k) <= tc - 1
  <2>1. Give(t, "next", Pr(t), a, limit)
    BY <1>6, <1>8, <1>11, <1>12
  <2>2. a < tc /\ a < z /\ m <= n
    BY <1>5, <1>6, <1>8, <1>12
  <2>3. Lesser(limit, tc - 1) = Lesser(z - 1, tc - 1)
    <3>1. limit = Raw(Loop(l), m) - 1 /\ Raw(Loop(l), m) \in Nat
      BY <1>6, <1>11, <1>12
    <3>2. CASE m < n
      BY <1>8, <3>1, <3>2
    <3>3. CASE m = n
      <4>1. tc <= Raw(Loop(l), m) /\ z = tc
        BY <1>5, <1>6, <1>8, <3>3
      <4> QED
        BY <1>5, <3>1, <4>1 DEF Lesser
    <3> QED
      BY <1>5, <2>2, <3>2, <3>3
  <2>4. \E b : Hands(t, l, a, b)
    BY <1>1, <1>3, <1>4, <1>5, <1>7, <1>9, <1>10, <2>1, <2>2, <2>3, CounterHands
  <2> QED
    BY <2>4
<1>13. CASE ~(k < n /\ Raw(Loop(l), k) <= tc - 1)
  <2>1. NoMore(t, "next")
    BY <1>6, <1>11, <1>13
  <2>2. /\ Loop(l).tc <= a /\ Loop(l).tc <= z /\ m <= k + Pace(Loop(l)) /\ a \in Int /\ z \in Int
        /\ k \in Int /\ m \in Int
    BY <1>5, <1>6, <1>8, <1>9, <1>13
  <2>3. Tells(t, l)
    BY <1>1, <1>3, <1>4, <1>7, <1>9, <1>10, <2>1, <2>2, CounterTells
  <2> QED
    BY <2>3
<1> QED
  BY <1>12, <1>13

(* Half of a share of the rest is at least one iteration.                   *)
LEMMA RestIs ==
  ASSUME NEW n \in Nat \ {0}, NEW c \in Nat, NEW rest \in Nat, rest >= 2 * n * (c + 1)
  PROVE  rest \div (2 * n) \in Nat /\ 1 <= rest \div (2 * n) /\ rest \div (2 * n) <= rest
<1>1. PICK v \in Nat \ {0} : v = 2 * n
  OBVIOUS
<1>2. 2 * n * (c + 1) = v * c + v /\ v * c \in Nat
  BY <1>1
<1>3. PICK q \in Nat, r \in 0..v-1 : q = rest \div v /\ rest = v * q + r /\ r = rest % v
  BY Divides
<1>4. q <= rest
  BY <1>3, Quotient
<1>5. q # 0
  BY <1>2, <1>3
<1> QED
  BY <1>1, <1>3, <1>4, <1>5

LEMMA GuidedDeals ==
  ASSUME IInv, DealInv, NEW t \in Tids, Guided(t), NEW l, l = disp_index[t]
  PROVE  \/ \E a, b : Hands(t, l, a, b)
         \/ Tells(t, l)
         \/ /\ Goes(t, "guided", "next")
            /\ UNCHANGED <<program, disp_index, pr, current, sh, frame, ran, section>>
<1>1. pc[t] \in Inside /\ pc[t] = "guided" /\ "guided" \in Asks
  BY DEF Guided, Inside, Asks
<1>2. /\ l \in Loops /\ MyLoop(t) = Loop(l) /\ Reading(t) /\ Progress(l) = Sh(t).iteration
  BY <1>1, AtWork
<1>3. /\ Schedule(Loop(l)) = "guided_iterative" /\ FromCounter(Loop(l))
  BY <1>1, <1>2 DEF Reading, FromCounter
<1>4. PICK k \in Nat, e \in 0..program.n-1 :
        /\ k = Sh(t).iteration
        /\ Amount(Loop(l), k) <= Furthest(Loop(l)) + Pace(Loop(l)) * e
  BY <1>1, <1>3, CounterIs
<1>5. PICK tc \in Nat, c \in Nat \ {0}, n \in Nat \ {0} :
        tc = Loop(l).tc /\ c = Loop(l).chunk /\ n = program.n
  BY <1>2, LoopIs, Known DEF IInv
<1>6. PICK read \in Nat : read = frame[t].init /\ read <= k
  BY <1>1, <1>2, <1>4 DEF Reading
<1>7. \A j : Position(Loop(l), j) = j /\ Amount(Loop(l), j) = j
  BY <1>3 DEF Position, Amount
<1>8. Pace(Loop(l)) = c /\ Furthest(Loop(l)) = tc + c - 1
  BY <1>3, <1>5 DEF Pace, Furthest
<1>9. U(k + c) = k + c
  BY <1>2, <1>3, <1>4, <1>5, GuidedRoom DEF IInv, DealInv
<1>10. PICK rest \in Int : rest = tc - read
  OBVIOUS
<1>11. \/ rest <= 0 /\ NoMore(t, "guided") /\ UNCHANGED sh
       \/ /\ rest > 0 /\ rest < SwitchAt(Loop(l))
          /\ FetchAndAdd(t, c)
          /\ IF tc - k <= 0
               THEN NoMore(t, "guided")
               ELSE Give(t, "guided", Pr(t), k, k + c - 1)
       \/ /\ rest >= SwitchAt(Loop(l)) /\ k = read
          /\ SetSh(t, [Sh(t) EXCEPT !.iteration = read + (rest \div (2 * n))])
          /\ Give(t, "guided", Pr(t), read, read + (rest \div (2 * n)) - 1)
       \/ /\ Goes(t, "guided", "next")
          /\ UNCHANGED <<program, disp_index, pr, current, sh, frame, ran, section>>
  BY <1>2, <1>4, <1>5, <1>6, <1>10 DEF Guided, Unchanged, history
<1>12. ASSUME rest <= 0, NoMore(t, "guided"), sh' = sh PROVE Tells(t, l)
  <2>1. CountsTo(t, k, k) /\ tc <= k /\ k <= k + Pace(Loop(l)) /\ k \in Int
    BY <1>5, <1>6, <1>8, <1>10, <1>12 DEF CountsTo
  <2> QED
    BY <1>1, <1>3, <1>4, <1>5, <1>7, <1>12, <2>1, CounterTells
<1>13. ASSUME FetchAndAdd(t, c), IF tc - k <= 0
                                   THEN NoMore(t, "guided")
                                   ELSE Give(t, "guided", Pr(t), k, k + c - 1)
       PROVE  (\E a, b : Hands(t, l, a, b)) \/ Tells(t, l)
  <2>1. PICK m \in Nat : m = k + c
    OBVIOUS
  <2>2. CountsTo(t, k, m)
    <3>1. SetSh(t, [Sh(t) EXCEPT !.iteration = m])
      BY <1>4, <1>9, <1>13, <2>1 DEF FetchAndAdd, SetSh
    <3>2. k <= m
      BY <2>1
    <3> QED
      BY <3>1, <3>2 DEF CountsTo
  <2>3. CASE tc - k <= 0
    <3>1. /\ Loop(l).tc <= k /\ Loop(l).tc <= m /\ m <= k + Pace(Loop(l)) /\ k \in Int /\ m \in Int
      BY <1>5, <1>8, <2>1, <2>3
    <3>2. NoMore(t, "guided")
      BY <1>13, <2>3
    <3>3. Tells(t, l)
      BY <1>1, <1>3, <1>4, <1>7, <2>2, <3>1, <3>2, CounterTells
    <3> QED
      BY <3>3
  <2>4. CASE ~(tc - k <= 0)
    <3>1. Give(t, "guided", Pr(t), k, m - 1)
      BY <1>13, <2>1, <2>4
    <3>2. k < Loop(l).tc /\ k < m /\ Amount(Loop(l), m) <= Furthest(Loop(l))
      BY <1>5, <1>7, <1>8, <2>1, <2>4
    <3>3. \E b : Hands(t, l, k, b)
      BY <1>1, <1>3, <1>4, <1>7, <2>2, <3>1, <3>2, CounterHands
    <3> QED
      BY <3>3
  <2> QED
    BY <2>3, <2>4
<1>14. ASSUME rest >= SwitchAt(Loop(l)), k = read,
              SetSh(t, [Sh(t) EXCEPT !.iteration = read + (rest \div (2 * n))]),
              Give(t, "guided", Pr(t), read, read + (rest \div (2 * n)) - 1)
       PROVE  \E a, b : Hands(t, l, a, b)
  <2>1. PICK s \in Nat : s = rest \div (2 * n) /\ 1 <= s /\ s <= rest
    <3>1. SwitchAt(Loop(l)) = 2 * n * (c + 1)
      BY <1>5 DEF SwitchAt
    <3>2. 2 * n * (c + 1) \in Nat
      OBVIOUS
    <3>3. rest \in Nat
      BY <1>14, <3>1, <3>2
    <3> QED
      BY <1>14, <3>1, <3>3, RestIs
  <2>2. PICK m \in Nat : m = k + s
    OBVIOUS
  <2>3. CountsTo(t, k, m)
    BY <1>14, <2>1, <2>2 DEF CountsTo
  <2>4. Give(t, "guided", Pr(t), k, m - 1)
    BY <1>14, <2>1, <2>2
  <2>5. k < Loop(l).tc /\ k < m /\ Amount(Loop(l), m) <= Furthest(Loop(l))
    BY <1>5, <1>7, <1>8, <1>10, <1>14, <2>1, <2>2
  <2>6. \E b : Hands(t, l, k, b)
    BY <1>1, <1>3, <1>4, <1>7, <2>3, <2>4, <2>5, CounterHands
  <2> QED
    BY <2>6
<1> QED
  BY <1>11, <1>12, <1>13, <1>14

(* A thread takes the next of its own iterations.                           *)
LEMMA StaticHands ==
  ASSUME IInv, DealInv, NEW t \in Tids, NEW l, l = disp_index[t], ~FromCounter(Loop(l)),
         NEW p \in PrivateParts, p.bumped = Pr(t).bumped,
         NEW a \in Nat, NEW v \in Int, a < Loop(l).tc, a <= v,
         NEW b, b = Lesser(v, Loop(l).tc - 1),
         Give(t, "next", p, a, v), sh' = sh,
         \A i \in 0..Loop(l).tc-1 :
           /\ i \in a..b => Mine(Loop(l), t, i) /\ ~Passed(Loop(l), t, Pr(t).count, i)
           /\ Mine(Loop(l), t, i) =>
                (Passed(Loop(l), t, p.count, i) <=> Passed(Loop(l), t, Pr(t).count, i) \/ i \in a..b),
         Schedule(Loop(l)) = "static_balanced" => p.count # 0,
         Schedule(Loop(l)) \in {"static_greedy", "static_chunked"} =>
           /\ p.count % program.n = 0
           /\ ChunkOf(Loop(l)) * (p.count - program.n + t) < Loop(l).tc
  PROVE  Hands(t, l, a, b)
<1>1. /\ pc[t] \in Asks /\ pc[t] \in Goers /\ pc[t] \in Inside
      /\ Leads(t, AfterChunk(t)) /\ AfterChunk(t) \in Goers
      /\ Given(t, a, b) /\ SetPr(t, Bounded(t, p, a, b))
  <2>1. b = Lesser(v, MyLoop(t).tc - 1) /\ "next" \in Asks
    BY DEF MyLoop, Asks
  <2> QED
    BY <2>1, GiveIs
<1>2. /\ l \in Loops /\ ~Ended(t, l) /\ Within(t, l) /\ EndedBy(l) # Tids
      /\ current[t] \in Buffers /\ current[t] = Buffer(l)
      /\ Tally(t, l) = Pr(t).count
  BY <1>1, AtWork
<1>3. program' = program /\ Typed /\ Shape
  BY <1>1 DEF Leads, IInv, DealInv
<1>4. PlacesStay
  BY <1>1, <1>3, GoersStay
<1>5. PICK L : L = Loop(l) /\ L = Loop(l)'
  BY <1>3, SameProgram
<1>6. /\ FromCounter(L)' = FromCounter(L) /\ ChunkOf(L)' = ChunkOf(L)
      /\ Schedule(L)' = Schedule(L) /\ Buffer(l)' = Buffer(l)
  BY <1>3, SameProgram
<1>7. PICK q : q = Bounded(t, p, a, b) /\ q.count = p.count
  <2>1. [p EXCEPT !.lower = a, !.upper = b].count = p.count
    BY DEF PrivateParts
  <2> QED
    BY <2>1 DEF Bounded
<1>8. /\ \A u \in Tids : u # t => pr'[u] = pr[u]
      /\ pr'[t][current[t]] = q
  BY <1>1, <1>2, <1>3, <1>7, PrivateMoves
<1>9. Tally(t, l)' = p.count /\ \A u \in Tids : u # t => Tally(u, l)' = Tally(u, l)
  BY <1>2, <1>6, <1>7, <1>8 DEF Tally
<1>10. Deals(l, a, b)
  BY <1>2, <1>3, <1>4, <1>9, StaticGives
<1>11. Advanced(l)'
  <2>1. ~FromCounter(Loop(l))'
    BY <1>5, <1>6 DEF FromCounter
  <2> QED
    BY <2>1 DEF Advanced
<1>12. Counting(t, l)'
  <2>1. Schedule(Loop(l))' = Schedule(L) /\ ChunkOf(Loop(l))' = ChunkOf(L)
    BY <1>5, <1>6 DEF Schedule, ChunkOf
  <2>2. Schedule(L) # "static_balanced" \/ Tally(t, l)' # 0
    BY <1>5, <1>9
  <2>3. Schedule(L) \in {"static_greedy", "static_chunked"} =>
           /\ Tally(t, l)' % program.n = 0
           /\ ChunkOf(L) * (Tally(t, l)' - program.n + t) < L.tc
    BY <1>5, <1>9
  <2> QED
    BY <1>3, <1>5, <2>1, <2>2, <2>3 DEF Counting
<1>13. PICK tc \in Nat : tc = Loop(l).tc
  BY <1>2, <1>3, LoopIs
<1>14. b \in Nat /\ a <= b /\ b < tc
  BY <1>13 DEF Lesser
<1> QED
  BY <1>1, <1>2, <1>10, <1>11, <1>12, <1>13, <1>14 DEF Hands

(* A thread has had all its iterations.                                     *)
LEMMA StaticTells ==
  ASSUME IInv, DealInv, NEW t \in Tids, NEW l, l = disp_index[t], ~FromCounter(Loop(l)),
         NoMore(t, "next"), sh' = sh,
         \A i \in 0..Loop(l).tc-1 :
           Mine(Loop(l), t, i) => Passed(Loop(l), t, Pr(t).count, i)
  PROVE  Tells(t, l)
<1>1. /\ pc[t] \in Asks /\ pc[t] \in Goers /\ pc[t] \in Inside /\ Leads(t, "end")
      /\ frame' = [frame EXCEPT ![t] = NoFrame] /\ UNCHANGED <<pr, current, ran, section>>
  BY NoMoreIs DEF Asks
<1>2. /\ l \in Loops /\ ~Ended(t, l) /\ Within(t, l) /\ Tally(t, l) = Pr(t).count
  BY <1>1, AtWork
<1>3. program' = program /\ Typed
  BY <1>1 DEF Leads, IInv
<1>4. /\ Ended(t, l)'
      /\ \A u \in Tids : u # t =>
           (Ended(u, l)' <=> Ended(u, l)) /\ (Within(u, l)' <=> Within(u, l))
  BY <1>1, <1>2, <1>3, GoerEnds
<1>5. PICK L : L = Loop(l) /\ L = Loop(l)'
  BY <1>3, SameProgram
<1>6. FromCounter(L)' = FromCounter(L) /\ Buffer(l)' = Buffer(l)
  BY <1>3, SameProgram
<1>7. \A u \in Tids : Tally(u, l)' = Tally(u, l)
  BY <1>1, <1>6 DEF Tally
<1>8. DealsNone(l)
  BY <1>2, <1>3, <1>4, <1>7, StaticEnds
<1>9. Advanced(l)'
  <2>1. ~FromCounter(Loop(l))'
    BY <1>5, <1>6 DEF FromCounter
  <2> QED
    BY <2>1 DEF Advanced
<1> QED
  BY <1>1, <1>2, <1>8, <1>9 DEF Tells

LEMMA BalancedDeals ==
  ASSUME IInv, DealInv, NEW t \in Tids, NextBalanced(t), NEW l, l = disp_index[t]
  PROVE  (\E a, b : Hands(t, l, a, b)) \/ Tells(t, l)
<1>1. pc[t] \in Inside /\ "next" \in Asks
  BY DEF NextBalanced, Is, Inside, Asks
<1>2. /\ l \in Loops /\ MyLoop(t) = Loop(l) /\ Pr(t) \in PrivateParts /\ Tally(t, l) = Pr(t).count
      /\ Counting(t, l) /\ Within(t, l)
  BY <1>1, AtWork
<1>3. Schedule(Loop(l)) = "static_balanced" /\ ~FromCounter(Loop(l)) /\ sh' = sh
  BY <1>2 DEF NextBalanced, Is, FromCounter
<1>4. PICK tc \in Nat, n \in Nat \ {0} : tc = Loop(l).tc /\ n = program.n /\ t \in 0..n-1
  BY <1>2, LoopIs, Known DEF IInv, Tids
<1>5. CASE Pr(t).count = 0
  <2>1. PICK p \in PrivateParts : p = [Pr(t) EXCEPT !.count = 1]
    BY <1>2 DEF PrivateParts
  <2>2. p.bumped = Pr(t).bumped /\ p.count = 1
    BY <1>2, <2>1 DEF PrivateParts
  <2>3. PICK S : S = [x \in 0..n |-> Share(tc, x)] /\ Splits(S, n, tc)
    BY <1>4, SharesSplit
  <2>4. t \in 0..n /\ t + 1 \in 0..n /\ n \in 0..n /\ t + 1 <= n
    BY <1>4
  <2>5. PICK a \in Nat, z \in Nat : a = Share(tc, t) /\ z = Share(tc, t + 1) /\ z <= tc
    BY <2>3, <2>4 DEF Splits
  <2>6. a < z
    BY <1>2, <1>3, <1>4, <1>5, <2>5 DEF Counting
  <2>7. PICK v \in Int, b \in Nat : v = z - 1 /\ b = Lesser(v, tc - 1) /\ b = v /\ a <= v /\ a < tc
    BY <2>5, <2>6 DEF Lesser
  <2>8. Give(t, "next", p, a, v)
    BY <1>2, <1>4, <1>5, <2>1, <2>5, <2>7 DEF NextBalanced
  <2>9. ASSUME NEW i \in 0..tc-1
        PROVE  /\ i \in a..b => Mine(Loop(l), t, i) /\ ~Passed(Loop(l), t, Pr(t).count, i)
               /\ Mine(Loop(l), t, i) =>
                    (Passed(Loop(l), t, p.count, i)
                       <=> Passed(Loop(l), t, Pr(t).count, i) \/ i \in a..b)
    <3>1. Mine(Loop(l), t, i) <=> a <= i /\ i < z
      BY <1>3, <1>4, <2>5 DEF Mine
    <3>2. ~Passed(Loop(l), t, Pr(t).count, i) /\ Passed(Loop(l), t, p.count, i)
      BY <1>3, <1>5, <2>2 DEF Passed
    <3> QED
      BY <2>7, <3>1, <3>2
  <2>10. /\ Schedule(Loop(l)) = "static_balanced" => p.count # 0
         /\ Schedule(Loop(l)) \notin {"static_greedy", "static_chunked"}
    BY <1>3, <2>2
  <2>11. Hands(t, l, a, b)
    BY <1>3, <1>4, <2>2, <2>7, <2>8, <2>9, <2>10, StaticHands
  <2> QED
    BY <2>11
<1>6. CASE Pr(t).count # 0
  <2>1. NoMore(t, "next")
    BY <1>6 DEF NextBalanced
  <2>2. \A i : Passed(Loop(l), t, Pr(t).count, i)
    BY <1>3, <1>6 DEF Passed
  <2>3. Tells(t, l)
    BY <1>3, <2>1, <2>2, StaticTells
  <2> QED
    BY <2>3
<1> QED
  BY <1>5, <1>6

LEMMA StaticDeals ==
  ASSUME IInv, DealInv, NEW t \in Tids, NextStatic(t), NEW l, l = disp_index[t]
  PROVE  (\E a, b : Hands(t, l, a, b)) \/ Tells(t, l)
<1>1. pc[t] \in Inside /\ "next" \in Asks
  BY DEF NextStatic, Is, Inside, Asks
<1>2. /\ l \in Loops /\ MyLoop(t) = Loop(l) /\ Pr(t) \in PrivateParts /\ Tally(t, l) = Pr(t).count
      /\ Counting(t, l) /\ Within(t, l)
  BY <1>1, AtWork
<1>3. /\ Schedule(Loop(l)) \in {"static_greedy", "static_chunked"} /\ ~FromCounter(Loop(l))
      /\ sh' = sh /\ Loop(l).tc > 0
      /\ Is(t, "static_greedy") <=> Schedule(Loop(l)) = "static_greedy"
  BY <1>2 DEF NextStatic, Is, FromCounter
<1>4. PICK tc \in Nat, n \in Nat \ {0}, c \in Nat \ {0}, k \in Nat :
        /\ tc = Loop(l).tc /\ n = program.n /\ t \in 0..n-1 /\ c = ChunkOf(Loop(l))
        /\ k = Pr(t).count
  <2>1. Pr(t).count \in Nat
    BY <1>2 DEF PrivateParts
  <2> QED
    BY <1>2, <1>3, <2>1, LoopIs, ChunkOfIs, Known DEF IInv, Tids
<1>5. k % n = 0 /\ (k = 0 \/ c * (k - n + t) < tc)
  BY <1>2, <1>3, <1>4 DEF Counting
<1>6. PICK a \in Nat : a = c * (k + t) /\ U(a) = a /\ (a < tc => U(c + a - 1) = a + c - 1)
  <2>1. /\ c * (k + t) \in Nat /\ U(c * (k + t)) = c * (k + t)
        /\ c * (k + t) < tc => U(c + c * (k + t) - 1) = c * (k + t) + c - 1
    BY <1>2, <1>3, <1>4, <1>5, StridedRoom DEF IInv, DealInv
  <2> QED
    BY <2>1
<1>7. IF a <= tc - 1
        THEN Give(t, "next", [Pr(t) EXCEPT !.count = k + n], a, U(c + a - 1))
        ELSE NoMore(t, "next")
  <2>1. c = IF Is(t, "static_greedy") THEN Greedy(MyLoop(t)) ELSE MyLoop(t).chunk
    BY <1>2, <1>3, <1>4 DEF ChunkOf
  <2> QED
    BY <1>2, <1>4, <1>6, <2>1 DEF NextStatic, Trip
<1>8. /\ (k + n) % n = 0
      /\ \A i \in 0..tc-1 :
           /\ a <= i /\ i <= a + c - 1 => Mine(Loop(l), t, i) /\ ~Passed(Loop(l), t, k, i)
           /\ Mine(Loop(l), t, i) =>
                /\ Passed(Loop(l), t, k + n, i)
                     <=> Passed(Loop(l), t, k, i) \/ (a <= i /\ i <= a + c - 1)
                /\ tc <= a => Passed(Loop(l), t, k, i)
  <2>1. (k + n) % n = 0
    BY <1>4, <1>5, NextRemainder
  <2>2. ASSUME NEW i \in 0..tc-1
        PROVE  /\ a <= i /\ i <= a + c - 1 => Mine(Loop(l), t, i) /\ ~Passed(Loop(l), t, k, i)
               /\ Mine(Loop(l), t, i) =>
                    /\ Passed(Loop(l), t, k + n, i)
                         <=> Passed(Loop(l), t, k, i) \/ (a <= i /\ i <= a + c - 1)
                    /\ tc <= a => Passed(Loop(l), t, k, i)
    <3>1. Typed /\ k % program.n = 0 /\ i \in 0..Loop(l).tc-1
      BY <1>4, <1>5 DEF IInv
    <3> QED
      BY <1>2, <1>3, <1>4, <1>6, <3>1, StridedNext
  <2> QED
    BY <2>1, <2>2
<1>9. CASE a <= tc - 1
  <2>1. PICK v \in Int, b \in Nat : v = a + c - 1 /\ b = Lesser(v, tc - 1) /\ a <= v /\ a < tc
    BY <1>9 DEF Lesser
  <2>2. PICK p \in PrivateParts : p = [Pr(t) EXCEPT !.count = k + n]
    <3>1. PICK j \in Nat : j = k + n
      BY <1>4
    <3> QED
      BY <1>2, <3>1 DEF PrivateParts
  <2>3. p.bumped = Pr(t).bumped /\ p.count = k + n
    BY <1>2, <2>2 DEF PrivateParts
  <2>4. Give(t, "next", p, a, v)
    BY <1>6, <1>7, <1>9, <2>1, <2>2
  <2>5. \A i \in 0..tc-1 : i \in a..b <=> a <= i /\ i <= a + c - 1
    BY <2>1 DEF Lesser
  <2>6. p.count % program.n = 0 /\ c * (p.count - program.n + t) < tc
    <3>1. k + n - n + t = k + t
      BY <1>4
    <3> QED
      BY <1>4, <1>6, <1>8, <2>1, <2>3, <3>1
  <2>7. Hands(t, l, a, b)
    BY <1>3, <1>4, <1>8, <2>1, <2>3, <2>4, <2>5, <2>6, StaticHands
  <2> QED
    BY <2>7
<1>10. CASE ~(a <= tc - 1)
  <2>1. NoMore(t, "next") /\ tc <= a
    BY <1>7, <1>10
  <2>2. Tells(t, l)
    BY <1>3, <1>4, <1>8, <2>1, StaticTells
  <2> QED
    BY <2>2
<1> QED
  BY <1>9, <1>10

(* Of an empty loop there is nothing.                                       *)
LEMMA ZeroTripDeals ==
  ASSUME IInv, DealInv, NEW t \in Tids, NextZeroTrip(t), NEW l, l = disp_index[t]
  PROVE  Tells(t, l)
<1>1. pc[t] \in Inside /\ "next" \in Asks /\ NoMore(t, "next") /\ sh' = sh
  BY DEF NextZeroTrip, Inside, Asks
<1>2. l \in Loops /\ MyLoop(t) = Loop(l) /\ Typed
  BY <1>1, AtWork DEF IInv
<1>3. Loop(l).tc = 0
  BY <1>2 DEF NextZeroTrip
<1>4. CASE ~FromCounter(Loop(l))
  <2>1. \A i \in 0..Loop(l).tc-1 : FALSE
    BY <1>3
  <2>2. \A i \in 0..Loop(l).tc-1 :
          Mine(Loop(l), t, i) => Passed(Loop(l), t, Pr(t).count, i)
    BY <2>1
  <2> QED
    BY <1>1, <1>4, <2>2, StaticTells
<1>5. CASE FromCounter(Loop(l))
  <2>1. PICK k \in Nat, e \in 0..program.n-1 :
          /\ k = Sh(t).iteration
          /\ Amount(Loop(l), k) <= Furthest(Loop(l)) + Pace(Loop(l)) * e
    BY <1>1, <1>5, CounterIs
  <2>2. PICK c \in Nat : c = Loop(l).chunk /\ c * k \in Nat
    BY <1>2, LoopIs
  <2>3. PICK a \in Nat : a = Position(Loop(l), k)
    <3>1. CASE Schedule(Loop(l)) = "trapezoidal"
      <4>1. k < Number(Loop(l)) => Raw(Loop(l), k) \in Nat
        BY <1>2, <2>1, <3>1, TrapezoidRoom DEF DealInv
      <4> QED
        BY <1>3, <3>1, <4>1 DEF Position
    <3>2. CASE Schedule(Loop(l)) = "dynamic"
      BY <2>2, <3>2 DEF Position
    <3>3. CASE Schedule(Loop(l)) \notin {"trapezoidal", "dynamic"}
      BY <3>3 DEF Position
    <3> QED
      BY <3>1, <3>2, <3>3
  <2>4. PICK x \in Int : x = Amount(Loop(l), k)
    BY <2>1, <2>2 DEF Amount
  <2>5. Pace(Loop(l)) \in Nat
    BY <1>2, PaceIs
  <2>6. x <= x + Pace(Loop(l)) /\ Loop(l).tc <= a /\ a \in Int
    BY <1>3, <2>5
  <2>7. CountsTo(t, k, k)
    BY <1>1, <2>1 DEF CountsTo
  <2> QED
    BY <1>1, <1>5, <2>1, <2>3, <2>4, <2>6, <2>7, CounterTells
<1> QED
  BY <1>4, <1>5

LEMMA AskingDeals ==
  ASSUME IInv, DealInv, NEW t \in Tids, Asking(t), NEW l, l = disp_index[t]
  PROVE  (\E a, b : Hands(t, l, a, b)) \/ Tells(t, l)
BY ZeroTripDeals, BalancedDeals, StaticDeals, DynamicDeals, TrapezoidDeals, Zenon DEF Asking

-----------------------------------------------------------------------------
(* Steps keep DealInv.                                                      *)

(* A thread that has read the counter still finds it as far.                *)
LEMMA ReadingStays ==
  ASSUME Typed, DealInv, NEW u \in Tids, program' = program, disp_index' = disp_index,
         pc'[u] = "guided" =>
           /\ pc[u] = "guided" /\ frame'[u] = frame[u]
           /\ Progress(disp_index[u]) <= Progress(disp_index[u])',
         pc'[u] = "guided" => Progress(disp_index[u]) \in Int /\ Progress(disp_index[u])' \in Int
  PROVE  Reading(u)'
<1> SUFFICES ASSUME pc'[u] = "guided"
             PROVE  /\ Schedule(MyLoop(u))' = "guided_iterative"
                    /\ frame'[u].init \in Nat /\ frame'[u].init <= Progress(disp_index[u])'
  BY DEF Reading
<1>1. /\ pc[u] = "guided" /\ frame'[u] = frame[u] /\ Reading(u)
  BY DEF DealInv
<1>2. PICK i \in Nat : i = frame[u].init /\ i <= Progress(disp_index[u])
  BY <1>1 DEF Reading
<1>3. i <= Progress(disp_index[u])'
  BY <1>2
<1>4. PICK L : L = MyLoop(u) /\ L = MyLoop(u)'
  BY SameProgram DEF MyLoop
<1>5. Schedule(MyLoop(u))' = Schedule(L)'
  BY <1>4 DEF Schedule
<1>6. Schedule(L)' = Schedule(L)
  BY SameProgram
<1> QED
  BY <1>1, <1>2, <1>3, <1>4, <1>5, <1>6 DEF Reading

(* Threads do not go back behind a barrier.                                 *)
LEMMA WaitedStays ==
  ASSUME Typed, NEW u \in Tids, Waited(u), program' = program, disp_index'[u] = disp_index[u],
         pc'[u] # "out" => pc[u] # "out",
         \A v \in Tids : Left(v) \in Int /\ Left(v)' \in Int /\ Left(v) <= Left(v)'
  PROVE  Waited(u)'
<1> SUFFICES ASSUME pc'[u] # "out", NEW l, l = disp_index[u]
             PROVE  /\ l \in Loops'
                    /\ l > 1 /\ Loop(l - 1)'.barrier => \A v \in Tids' : Left(v)' >= l - 1
  BY DEF Waited
<1>1. /\ l \in Loops
      /\ l > 1 /\ Loop(l - 1).barrier => \A v \in Tids : Left(v) >= l - 1
  BY DEF Waited
<1>2. Loops' = Loops /\ Tids' = Tids /\ Loop(l - 1)' = Loop(l - 1)
  BY SameProgram
<1>3. l \in Nat
  BY <1>1, LoopIs
<1>4. \A v \in Tids : Left(v) >= l - 1 => Left(v)' >= l - 1
  BY <1>3
<1> QED
  BY <1>1, <1>2, <1>4

LEMMA LeftIsInt ==
  ASSUME Typed
  PROVE  \A v \in Tids : Left(v) \in Int
BY DEF Typed, Left

LEMMA QuietKeeps ==
  ASSUME IInv, DealInv, NEW t \in Tids, Quiet(t)
  PROVE  DealInv'
<1>1. /\ program' = program /\ disp_index' = disp_index
      /\ Tids' = Tids /\ Loops' = Loops /\ Buffers' = Buffers /\ Plain' = Plain
  BY SameProgram DEF Quiet, Leads, Buffers
<1>2. Typed /\ Shape /\ Exactly /\ Plain
  BY DEF IInv, DealInv
<1>3. PICK to \in PlainPlaces : pc' = [pc EXCEPT ![t] = to]
  BY DEF Quiet, Leads
<1>4. pc' \in [Tids -> PlainPlaces] /\ \A u \in Tids : u # t => pc'[u] = pc[u]
  BY <1>2, <1>3 DEF Shape
<1>5. Shape'
  BY <1>1, <1>4 DEF Shape, Quiet, PlainPlaces, PrivateParts, Frames
<1>6. \A l \in Loops : /\ DealsNone(l) /\ (Advanced(l) => Advanced(l)')
                       /\ \A u \in Tids : Counting(u, l) => Counting(u, l)'
  BY <1>1, <1>2, UntouchedKeeps DEF Quiet, DealsNone
<1>7. Exactly'
  BY <1>1, <1>2, <1>6, ExactlyStays DEF Quiet
<1>8. ASSUME NEW u \in Tids PROVE Reading(u)'
  <2>1. CASE u = t
    BY <1>1, <2>1 DEF Quiet, Reading
  <2>2. CASE u # t
    <3>1. ASSUME pc'[u] = "guided"
          PROVE  /\ pc[u] = "guided" /\ frame'[u] = frame[u]
                 /\ Progress(disp_index[u]) \in Int
                 /\ Progress(disp_index[u])' = Progress(disp_index[u])
      <4>1. pc[u] = "guided" /\ frame'[u] = frame[u] /\ pc[u] \in Inside
        BY <1>4, <2>2, <3>1 DEF Quiet, Inside
      <4>2. PICK l : l = disp_index[u]
        OBVIOUS
      <4>3. l \in Loops /\ EndedBy(l) # Tids /\ Reading(u) /\ Advanced(l) /\ MyLoop(u) = Loop(l)
        BY <4>1, <4>2, AtWork
      <4>4. Progress(l) \in Nat /\ Progress(l)' = Progress(l)
        BY <4>1, <4>3 DEF Reading, FromCounter, Advanced, Quiet, Untouched
      <4>5. Progress(disp_index[u])' = Progress(l)'
        BY <1>1, <4>2 DEF Progress, Buffer
      <4> QED
        BY <4>1, <4>2, <4>4, <4>5
    <3> QED
      BY <1>1, <1>2, <3>1, ReadingStays
  <2> QED
    BY <2>1, <2>2
<1>9. ASSUME NEW u \in Tids PROVE Waited(u)'
  <2>1. Waited(u)
    BY DEF DealInv
  <2>2. pc'[u] # "out" => pc[u] # "out"
    BY <1>4 DEF Quiet
  <2>3. \A v \in Tids : Left(v) \in Int /\ Left(v)' \in Int /\ Left(v) <= Left(v)'
    BY <1>2, LeftIsInt DEF Quiet
  <2> QED
    BY <1>1, <1>2, <2>1, <2>2, <2>3, WaitedStays
<1> QED
  BY <1>1, <1>2, <1>5, <1>6, <1>7, <1>8, <1>9 DEF DealInv

LEMMA CounterMoves ==
  ASSUME IInv, NEW t \in Tids, pc[t] \notin Outside, program' = program,
         NEW l \in Loops, l = disp_index[t], MovesOn(t)
  PROVE  /\ \A m \in Loops : Turn(m)' = Turn(m)
         /\ \A m \in Loops : m # l => Progress(m)' = Progress(m)
         /\ Progress(l)' = Progress(l) \/ (Progress(l)' \in Nat /\ Progress(l) <= Progress(l)')
<1>1. CASE sh' = sh
  BY <1>1, SharedStays
<1>2. CASE sh' # sh
  <2>1. PICK k \in Nat : k >= Sh(t).iteration /\ SetSh(t, [Sh(t) EXCEPT !.iteration = k])
    BY <1>2 DEF MovesOn
  <2>2. PICK p : p = [Sh(t) EXCEPT !.iteration = k]
    OBVIOUS
  <2>3. IsPart(Sh(t))
    BY InItsLoop DEF IInv, Typed, Sh
  <2>4. /\ p.buffer_index = Sh(t).buffer_index /\ p.iteration = k
        /\ p.ordered_iteration = Sh(t).ordered_iteration
    BY <2>2, <2>3 DEF IsPart
  <2>5. sh' = [sh EXCEPT ![current[t]] = p]
    BY <2>1, <2>2 DEF SetSh
  <2>6. /\ Progress(l) = Sh(t).iteration /\ Progress(l)' = k
        /\ Turn(l) = Sh(t).ordered_iteration /\ Turn(l)' = Sh(t).ordered_iteration
        /\ \A m \in Loops : m # l => Progress(m)' = Progress(m) /\ Turn(m)' = Turn(m)
    BY <2>4, <2>5, SharedMoves
  <2> QED
    BY <2>1, <2>6
<1> QED
  BY <1>1, <1>2

(* What a thread does in its loop does not touch the others.                *)
LEMMA OthersUntouched ==
  ASSUME program' = program, disp_index' = disp_index, NEW t \in Tids, NEW l, l = disp_index[t],
         \A u \in Tids : u # t => pr'[u] = pr[u],
         NEW m \in Loops, m # l, Progress(m)' = Progress(m),
         \A u \in Tids : (Ended(u, m)' <=> Ended(u, m)) /\ (Within(u, m)' <=> Within(u, m))
  PROVE  Untouched(m)
<1>1. Buffer(m)' = Buffer(m)
  BY SameProgram
<1>2. \A u \in Tids : u # t => Tally(u, m)' = Tally(u, m)
  BY <1>1 DEF Tally
<1>3. ~Within(t, m)
  BY DEF Within
<1> QED
  BY <1>2, <1>3 DEF Untouched

(* A step that changes what is dealt of its own loop only.                  *)
LEMMA DealKeeps ==
  ASSUME IInv, DealInv, NEW t \in Tids, NEW l \in Loops, l = disp_index[t], pc[t] \in Inside,
         NEW to \in PlainPlaces, to # "guided", to # "out", Leads(t, to), MovesOn(t),
         \A u \in Tids : u # t => pr'[u] = pr[u] /\ frame'[u] = frame[u],
         pr' \in [Tids -> [Buffers -> PrivateParts]], frame' \in [Tids -> Frames],
         \A u \in Tids : Left(u)' = Left(u),
         \A u \in Tids, m \in Loops : u # t \/ m # l =>
           (Ended(u, m)' <=> Ended(u, m)) /\ (Within(u, m)' <=> Within(u, m)),
         Advanced(l)', Counting(t, l)',
         (\A m \in Loops : m # l => DealsNone(m)) => Exactly'
  PROVE  DealInv'
<1>1. /\ program' = program /\ disp_index' = disp_index /\ pc' = [pc EXCEPT ![t] = to]
      /\ Tids' = Tids /\ Loops' = Loops /\ Buffers' = Buffers /\ Plain' = Plain
  BY SameProgram DEF Leads, Buffers
<1>2. /\ Typed /\ Shape /\ Exactly /\ Plain /\ pc[t] \notin Outside /\ pc[t] # "out"
  BY DEF IInv, DealInv, Inside, Outside
<1>3. pc' \in [Tids -> PlainPlaces] /\ pc'[t] = to /\ \A u \in Tids : u # t => pc'[u] = pc[u]
  BY <1>1, <1>2 DEF Shape
<1>4. Shape'
  BY <1>1, <1>3 DEF Shape, PlainPlaces, PrivateParts, Frames
<1>5. /\ \A m \in Loops : m # l => Progress(m)' = Progress(m)
      /\ Progress(l)' = Progress(l) \/ (Progress(l)' \in Nat /\ Progress(l) <= Progress(l)')
  BY <1>1, <1>2, CounterMoves
<1>6. ASSUME NEW m \in Loops, m # l
      PROVE  DealsNone(m) /\ Advanced(m)' /\ \A u \in Tids : Counting(u, m)'
  <2>1. \A u \in Tids : (Ended(u, m)' <=> Ended(u, m)) /\ (Within(u, m)' <=> Within(u, m))
    BY <1>6
  <2>2. Untouched(m)
    BY <1>1, <1>5, <1>6, <2>1, OthersUntouched
  <2> QED
    BY <1>1, <1>2, <2>2, UntouchedKeeps DEF DealsNone, DealInv
<1>7. Exactly'
  BY <1>6
<1>8. ASSUME NEW u \in Tids, u # t PROVE Counting(u, l)'
  <2>1. Buffer(l)' = Buffer(l)
    BY <1>1, SameProgram
  <2>2. Tally(u, l)' = Tally(u, l)
    BY <1>8, <2>1 DEF Tally
  <2>3. Counting(u, l)
    BY DEF DealInv
  <2>4. Within(u, l)' => Within(u, l) /\ Tally(u, l)' = Tally(u, l)
    BY <1>8, <2>2
  <2> QED
    BY <1>1, <2>3, <2>4, CountingStays
<1>9. ASSUME NEW u \in Tids PROVE Reading(u)'
  <2>1. CASE u = t
    BY <1>3, <2>1 DEF Reading
  <2>2. CASE u # t
    <3>1. ASSUME pc'[u] = "guided"
          PROVE  /\ pc[u] = "guided" /\ frame'[u] = frame[u]
                 /\ Progress(disp_index[u]) \in Int /\ Progress(disp_index[u])' \in Int
                 /\ Progress(disp_index[u]) <= Progress(disp_index[u])'
      <4>1. pc[u] = "guided" /\ frame'[u] = frame[u] /\ pc[u] \in Inside
        BY <1>3, <2>2, <3>1 DEF Inside
      <4>2. PICK m : m = disp_index[u]
        OBVIOUS
      <4>3. m \in Loops /\ EndedBy(m) # Tids /\ Reading(u) /\ Advanced(m) /\ MyLoop(u) = Loop(m)
        BY <4>1, <4>2, AtWork
      <4>4. PICK k \in Nat : k = Progress(m)
        BY <4>1, <4>3 DEF Reading, FromCounter, Advanced
      <4>5. Progress(m)' \in Int /\ Progress(m) <= Progress(m)'
        BY <1>5, <4>3, <4>4
      <4>6. Progress(disp_index[u])' = Progress(m)'
        BY <1>1, <4>2 DEF Progress, Buffer
      <4> QED
        BY <4>1, <4>2, <4>4, <4>5, <4>6
    <3> QED
      BY <1>1, <1>2, <3>1, ReadingStays
  <2> QED
    BY <2>1, <2>2
<1>10. ASSUME NEW u \in Tids PROVE Waited(u)'
  <2>1. Waited(u)
    BY DEF DealInv
  <2>2. pc'[u] # "out" => pc[u] # "out"
    BY <1>2, <1>3
  <2>3. \A v \in Tids : Left(v) \in Int /\ Left(v)' \in Int /\ Left(v) <= Left(v)'
    BY <1>2, LeftIsInt
  <2> QED
    BY <1>1, <1>2, <2>1, <2>2, <2>3, WaitedStays
<1> QED
  BY <1>1, <1>2, <1>4, <1>6, <1>7, <1>8, <1>9, <1>10 DEF DealInv

LEMMA HandsKeeps ==
  ASSUME IInv, DealInv, NEW t \in Tids, NEW l, NEW a, NEW b, Hands(t, l, a, b)
  PROVE  DealInv' /\ DealtOut(l, a, b)
<1>1. /\ l = disp_index[t] /\ l \in Loops /\ pc[t] \in Asks /\ pc[t] \in Inside /\ pc[t] \in Goers
      /\ AfterChunk(t) \in Goers /\ AfterChunk(t) \in PlainPlaces
      /\ AfterChunk(t) # "guided" /\ AfterChunk(t) # "out"
      /\ Leads(t, AfterChunk(t)) /\ Given(t, a, b)
  BY DEF Hands, Asks, Inside, Goers, AfterChunk, PlainPlaces, Turns
<1>2. Typed /\ Shape /\ Exactly /\ program' = program /\ current[t] \in Buffers
  BY <1>1, AtWork DEF IInv, DealInv, Leads
<1>3. PlacesStay /\ \A u \in Tids : Left(u)' = Left(u)
  BY <1>1, <1>2, GoersStay
<1>4. PICK p \in PrivateParts : SetPr(t, Bounded(t, p, a, b))
  BY DEF Hands
<1>5. Bounded(t, p, a, b) \in PrivateParts
  <2>1. a \in Int /\ b \in Int
    BY DEF Hands
  <2>2. [p EXCEPT !.lower = a, !.upper = b] \in PrivateParts
    BY <2>1 DEF PrivateParts
  <2> QED
    BY <2>2 DEF Bounded
<1>6. /\ \A u \in Tids : u # t => pr'[u] = pr[u]
      /\ pr' \in [Tids -> [Buffers -> PrivateParts]]
  BY <1>2, <1>4, <1>5, PrivateMoves
<1>7. /\ frame' \in [Tids -> Frames] /\ \A u \in Tids : u # t => frame'[u] = frame[u]
  <2>1. PICK i \in Int : frame' = [frame EXCEPT ![t] = [NoFrame EXCEPT !.i = i]]
    <3>1. (IF MyLoop(t).ordered THEN a ELSE 0) \in Int
      BY DEF Hands
    <3> QED
      BY <1>1, <3>1 DEF Given
  <2>2. [NoFrame EXCEPT !.i = i] \in Frames
    BY DEF NoFrame, Frames
  <2> QED
    BY <1>2, <2>1, <2>2 DEF Shape
<1>8. MovesOn(t)
  BY DEF Hands, MovesOn
<1>9. ran' = [ran EXCEPT ![l] = [i \in DOMAIN @ |-> IF i \in a..b THEN @[i] + 1 ELSE @[i]]]
  BY <1>1 DEF Given
<1>10. Deals(l, a, b) /\ Advanced(l)' /\ Counting(t, l)'
  BY DEF Hands
<1>11. ASSUME \A m \in Loops : m # l => DealsNone(m)
       PROVE  Exactly' /\ DealtOut(l, a, b)
  BY <1>1, <1>2, <1>9, <1>10, <1>11, ExactlyGiven DEF DealtOut
<1>12. DealInv'
  BY <1>1, <1>3, <1>6, <1>7, <1>8, <1>10, <1>11, DealKeeps DEF PlacesStay
<1>13. \A m \in Loops : m # l => DealsNone(m)
  <2> SUFFICES ASSUME NEW m \in Loops, m # l PROVE DealsNone(m)
    OBVIOUS
  <2>1. pc[t] \notin Outside /\ disp_index' = disp_index
    BY <1>1 DEF Inside, Outside, Leads
  <2>2. Progress(m)' = Progress(m)
    BY <1>1, <1>2, <1>8, <2>1, CounterMoves
  <2>3. Untouched(m)
    BY <1>1, <1>2, <1>3, <1>6, <2>1, <2>2, OthersUntouched DEF PlacesStay
  <2> QED
    BY <1>2, <2>3, UntouchedKeeps DEF DealsNone
<1> QED
  BY <1>11, <1>12, <1>13

LEMMA TellsKeeps ==
  ASSUME IInv, DealInv, NEW t \in Tids, NEW l, Tells(t, l)
  PROVE  DealInv'
<1>1. /\ l = disp_index[t] /\ l \in Loops /\ pc[t] \in Asks /\ pc[t] \in Inside /\ pc[t] \in Goers
      /\ "end" \in PlainPlaces /\ Leads(t, "end")
  BY DEF Tells, Asks, Inside, Goers, PlainPlaces
<1>2. Typed /\ Shape /\ Exactly /\ program' = program /\ ran' = ran
  BY <1>1 DEF IInv, DealInv, Leads, Tells
<1>3. /\ \A u \in Tids : Left(u)' = Left(u)
      /\ \A u \in Tids, m \in Loops : u # t \/ m # l =>
           (Ended(u, m)' <=> Ended(u, m)) /\ (Within(u, m)' <=> Within(u, m))
      /\ ~Within(t, l)'
  BY <1>1, <1>2, GoerEnds
<1>4. pr' \in [Tids -> [Buffers -> PrivateParts]] /\ \A u \in Tids : u # t => pr'[u] = pr[u]
  BY <1>2 DEF Tells, Shape
<1>5. /\ frame' \in [Tids -> Frames] /\ \A u \in Tids : u # t => frame'[u] = frame[u]
  <2>1. NoFrame \in Frames /\ frame' = [frame EXCEPT ![t] = NoFrame]
    BY DEF NoFrame, Frames, Tells
  <2> QED
    BY <1>2, <2>1 DEF Shape
<1>6. MovesOn(t)
  BY DEF Tells, MovesOn
<1>7. Advanced(l)' /\ DealsNone(l)
  BY DEF Tells
<1>8. Counting(t, l)'
  BY <1>3 DEF Counting
<1>9. (\A m \in Loops : m # l => DealsNone(m)) => Exactly'
  BY <1>2, <1>7, ExactlyStays
<1> QED
  BY <1>1, <1>3, <1>4, <1>5, <1>6, <1>7, <1>8, <1>9, DealKeeps

-----------------------------------------------------------------------------
(* The steps that deal nothing.                                             *)

LEMMA SameIsQuiet ==
  ASSUME Typed, NEW t \in Tids, NEW to \in PlainPlaces, Leads(t, to), Same(t), PlacesStay,
         \A u \in Tids : Left(u)' \in Int /\ Left(u) <= Left(u)',
         pc[t] # "out", pc'[t] = "guided" => Reading(t)'
  PROVE  Quiet(t)
<1>1. ASSUME NEW l \in Loops, NEW u \in Tids PROVE Tally(u, l)' = Tally(u, l)
  <2>1. Buffer(l) \in Buffers /\ Buffer(l)' = Buffer(l)
    BY LoopIs, BufferIs DEF Buffer
  <2> QED
    BY <2>1 DEF Tally, Same
<1> QED
  BY <1>1 DEF Quiet, Same, PlacesStay, Untouched

LEMMA GoerIsQuiet ==
  ASSUME Typed, NEW t \in Tids, NEW to \in PlainPlaces, Leads(t, to), Same(t),
         pc[t] \in Goers, to \in Goers, to = "guided" => Reading(t)'
  PROVE  Quiet(t)
<1>1. PlacesStay /\ \A u \in Tids : Left(u)' = Left(u)
  BY GoersStay
<1>2. \A u \in Tids : Left(u)' \in Int /\ Left(u) <= Left(u)'
  BY <1>1, LeftIsInt
<1>3. pc[t] # "out" /\ (pc'[t] = "guided" => Reading(t)')
  BY DEF Goers, Inside, Leads, Typed
<1> QED
  BY <1>1, <1>2, <1>3, SameIsQuiet

LEMMA LeaverIsQuiet ==
  ASSUME Typed, NEW t \in Tids, NEW to \in PlainPlaces, Leads(t, to), Same(t),
         pc[t] \in Leavers, to \in Leavers \cup {"out"}
  PROVE  Quiet(t)
<1>1. /\ PlacesStay
      /\ \A u \in Tids : u # t => Left(u)' = Left(u)
      /\ Left(t)' = IF to = "out" THEN disp_index[t] ELSE Left(t)
  BY LeaversStay
<1>2. pc[t] # "out" /\ disp_index[t] \in Nat
  BY DEF Leavers, Ending, Typed
<1>3. Left(t)' \in Int /\ Left(t) <= Left(t)'
  BY <1>1, <1>2 DEF Left
<1>4. \A u \in Tids : Left(u)' \in Int /\ Left(u) <= Left(u)'
  BY <1>1, <1>3, LeftIsInt
<1>5. pc'[t] # "guided"
  BY DEF Leavers, Ending, Leads, Typed
<1> QED
  BY <1>1, <1>2, <1>4, <1>5, SameIsQuiet

(* A step that leaves the private parts and the frames alone.               *)
LEMMA SameParts ==
  ASSUME Shape, NEW t, ran' = ran, pr' = pr, frame' = frame,
         \A l \in Loops : EndedBy(l) # Tids => Progress(l)' = Progress(l)
  PROVE  Same(t)
BY DEF Same, Shape

LEMMA WaitIsQuiet ==
  ASSUME IInv, DealInv, NEW t \in Tids, WaitForBuffer(t)
  PROVE  Quiet(t) /\ pc'[t] = "next"
<1>1. pc[t] = "wait" /\ Typed /\ Shape
  BY DEF WaitForBuffer, Goes, IInv, DealInv
<1>2. disp_index[t] \in Loops /\ Schedule(MyLoop(t)) # "static_steal"
  BY <1>1 DEF DealInv, Waited, Plain, PlainSchedules, MyLoop
<1>3. Leads(t, "next") /\ ran' = ran /\ pr' = pr /\ frame' = frame /\ sh' = sh
  BY <1>2 DEF WaitForBuffer, Goes, Leads, history
<1>4. Same(t)
  BY <1>1, <1>3, SameParts, SharedStays
<1>5. "next" \in PlainPlaces /\ "next" \in Goers /\ "wait" \in Goers
  BY DEF PlainPlaces, Goers, Inside
<1>6. pc'[t] = "next"
  BY <1>1, <1>3 DEF Leads, Typed
<1> QED
  BY <1>1, <1>3, <1>4, <1>5, <1>6, GoerIsQuiet

LEMMA GuidedReadIsQuiet ==
  ASSUME IInv, DealInv, NEW t \in Tids, GuidedRead(t)
  PROVE  Quiet(t)
<1>1. /\ pc[t] = "next" /\ pc[t] \in Inside /\ Typed /\ Shape
      /\ Schedule(MyLoop(t)) = "guided_iterative"
      /\ Leads(t, "guided") /\ ran' = ran /\ pr' = pr /\ sh' = sh
      /\ frame' = [frame EXCEPT ![t].init = Sh(t).iteration]
  BY DEF GuidedRead, Is, Goes, Leads, IInv, DealInv, Inside, history
<1>2. PICK l : l = disp_index[t]
  OBVIOUS
<1>3. /\ l \in Loops /\ MyLoop(t) = Loop(l) /\ EndedBy(l) # Tids
      /\ Progress(l) = Sh(t).iteration /\ Advanced(l)
  BY <1>1, <1>2, AtWork
<1>4. PICK k \in Nat : k = Sh(t).iteration /\ k = Progress(l)
  BY <1>1, <1>3 DEF Advanced, FromCounter
<1>5. frame' \in [Tids -> Frames] /\ frame'[t].init = k /\ \A u \in Tids : u # t => frame'[u] = frame[u]
  BY <1>1, <1>4 DEF Shape, Frames
<1>6. Same(t)
  BY <1>1, <1>5, SharedStays DEF Same, Shape
<1>7. Reading(t)'
  <2>1. PICK L : L = MyLoop(t) /\ L = MyLoop(t)' /\ Schedule(L)' = Schedule(L)
    BY <1>1, SameProgram DEF MyLoop, Leads
  <2>2. Schedule(MyLoop(t))' = "guided_iterative"
    BY <1>1, <2>1 DEF Schedule
  <2>3. Progress(disp_index[t])' = k
    BY <1>1, <1>2, <1>4 DEF Progress, Buffer, Leads
  <2> QED
    BY <1>5, <2>2, <2>3 DEF Reading
<1>8. "guided" \in PlainPlaces /\ "next" \in Goers /\ "guided" \in Goers
  BY DEF PlainPlaces, Goers, Inside
<1> QED
  BY <1>1, <1>6, <1>7, <1>8, GoerIsQuiet

LEMMA RetryIsQuiet ==
  ASSUME IInv, DealInv, NEW t \in Tids, Goes(t, "guided", "next"),
         UNCHANGED <<program, disp_index, pr, current, sh, frame, ran, section>>
  PROVE  Quiet(t)
<1>1. Typed /\ Shape /\ Leads(t, "next") /\ pc[t] = "guided"
  BY DEF IInv, DealInv, Leads, Goes
<1>2. Same(t)
  BY <1>1, SameParts, SharedStays
<1>3. "next" \in PlainPlaces /\ "next" \in Goers /\ "guided" \in Goers
  BY DEF PlainPlaces, Goers, Inside
<1> QED
  BY <1>1, <1>2, <1>3, GoerIsQuiet

(* The turns of ordered loops.                                              *)
LEMMA EnterOrderedIsQuiet ==
  ASSUME IInv, DealInv, NEW t \in Tids, EnterOrdered(t) \/ SkipOrdered(t)
  PROVE  Quiet(t)
<1>1. PICK to \in {"section", "finish"} : Leads(t, to)
  BY DEF EnterOrdered, SkipOrdered, Goes, Leads
<1>2. /\ Typed /\ Shape /\ pc[t] = "iteration"
      /\ ran' = ran /\ pr' = pr /\ frame' = frame /\ sh' = sh
  BY DEF EnterOrdered, SkipOrdered, Goes, IInv, DealInv, history
<1>3. Same(t)
  BY <1>2, SameParts, SharedStays
<1>4. to \in PlainPlaces /\ to \in Goers /\ "iteration" \in Goers /\ to # "guided"
  BY DEF PlainPlaces, Goers, Inside, Turns
<1> QED
  BY <1>1, <1>2, <1>3, <1>4, GoerIsQuiet

LEMMA TurnMoves ==
  ASSUME IInv, NEW t \in Tids, pc[t] \notin Outside, program' = program,
         NEW l \in Loops, l = disp_index[t]
  PROVE  /\ CountsTurn(t) => \A m \in Loops : Progress(m)' = Progress(m)
         /\ \A k : SetSh(t, [Sh(t) EXCEPT !.ordered_iteration = k]) =>
              Turn(l)' = k /\ \A m \in Loops : m # l => Turn(m)' = Turn(m)
<1>1. ASSUME NEW k, SetSh(t, [Sh(t) EXCEPT !.ordered_iteration = k])
      PROVE  /\ Turn(l)' = k /\ \A m \in Loops : m # l => Turn(m)' = Turn(m)
             /\ \A m \in Loops : Progress(m)' = Progress(m)
  <2>1. PICK p : p = [Sh(t) EXCEPT !.ordered_iteration = k]
    OBVIOUS
  <2>2. IsPart(Sh(t))
    BY InItsLoop DEF IInv, Typed, Sh
  <2>3. /\ p.buffer_index = Sh(t).buffer_index /\ p.iteration = Sh(t).iteration
        /\ p.ordered_iteration = k
    BY <2>1, <2>2 DEF IsPart
  <2>4. sh' = [sh EXCEPT ![current[t]] = p]
    BY <1>1, <2>1 DEF SetSh
  <2>5. /\ Progress(l) = Sh(t).iteration /\ Progress(l)' = Sh(t).iteration /\ Turn(l)' = k
        /\ \A m \in Loops : m # l => Progress(m)' = Progress(m) /\ Turn(m)' = Turn(m)
    BY <2>3, <2>4, SharedMoves
  <2> QED
    BY <2>5
<1>2. sh' = sh => \A m \in Loops : Progress(m)' = Progress(m)
  BY SharedStays
<1> QED
  BY <1>1, <1>2 DEF CountsTurn

LEMMA BumpsKeep ==
  ASSUME Shape, NEW t \in Tids, current[t] \in Buffers, NEW x \in Nat, Bumps(t, x)
  PROVE  /\ pr' \in [Tids -> [Buffers -> PrivateParts]]
         /\ \A u \in Tids, b \in Buffers :
              /\ pr'[u][b].count = pr[u][b].count
              /\ pr'[u][b].lower = pr[u][b].lower /\ pr'[u][b].upper = pr[u][b].upper
              /\ u # t \/ b # current[t] => pr'[u][b] = pr[u][b]
         /\ pr'[t][current[t]].bumped = x
<1>1. pr[t][current[t]] \in PrivateParts
  BY DEF Shape
<1>2. PICK p \in PrivateParts :
        /\ p = [Pr(t) EXCEPT !.bumped = x] /\ p.bumped = x
        /\ p.count = Pr(t).count /\ p.lower = Pr(t).lower /\ p.upper = Pr(t).upper
  <2>1. PICK q \in PrivateParts : q = Pr(t)
    BY <1>1 DEF Pr
  <2>2. PICK p : p = [q EXCEPT !.bumped = x]
    OBVIOUS
  <2>3. p \in PrivateParts /\ p.bumped = x
    BY <2>2 DEF PrivateParts
  <2>4. p.count = q.count /\ p.lower = q.lower /\ p.upper = q.upper
    BY <2>2 DEF PrivateParts
  <2> QED
    BY <2>1, <2>2, <2>3, <2>4
<1>3. /\ \A u \in Tids : u # t => pr'[u] = pr[u]
      /\ pr'[t][current[t]] = p
      /\ \A b \in Buffers : b # current[t] => pr'[t][b] = pr[t][b]
      /\ pr' \in [Tids -> [Buffers -> PrivateParts]]
  BY <1>2, PrivateMoves DEF Bumps
<1> QED
  BY <1>2, <1>3 DEF Pr

LEMMA TurnIsQuiet ==
  ASSUME IInv, DealInv, NEW t \in Tids, pc[t] \in Turns, NEW to \in {"finish", "iteration", "next"},
         Leads(t, to), ran' = ran, CountsTurn(t),
         pr' = pr \/ \E x \in Nat : Bumps(t, x),
         frame' = frame \/ \E i \in Int : frame' = [frame EXCEPT ![t].i = i]
  PROVE  Quiet(t)
<1>1. Typed /\ Shape /\ pc[t] \in Inside /\ program' = program
  BY DEF IInv, DealInv, Inside, Turns, Leads
<1>2. PICK l \in Loops : l = disp_index[t] /\ current[t] \in Buffers /\ pc[t] \notin Outside
  BY <1>1, AtWork
<1>3. /\ pr' \in [Tids -> [Buffers -> PrivateParts]]
      /\ \A u \in Tids, b \in Buffers : pr'[u][b].count = pr[u][b].count
  <2>1. CASE pr' = pr
    BY <1>1, <2>1 DEF Shape
  <2>2. CASE \E x \in Nat : Bumps(t, x)
    BY <1>1, <1>2, <2>2, BumpsKeep
  <2> QED
    BY <2>1, <2>2
<1>4. frame' \in [Tids -> Frames] /\ \A u \in Tids : u # t => frame'[u] = frame[u]
  <2>1. frame \in [Tids -> Frames]
    BY <1>1 DEF Shape
  <2>2. ASSUME NEW i \in Int, frame' = [frame EXCEPT ![t].i = i]
        PROVE  frame' \in [Tids -> Frames] /\ \A u \in Tids : u # t => frame'[u] = frame[u]
    <3>1. [frame[t] EXCEPT !.i = i] \in Frames
      BY <2>1 DEF Frames
    <3> QED
      BY <2>1, <2>2, <3>1
  <2> QED
    BY <2>1, <2>2
<1>5. \A m \in Loops : Progress(m)' = Progress(m)
  BY <1>1, <1>2, TurnMoves
<1>6. Same(t)
  BY <1>3, <1>4, <1>5 DEF Same
<1>7. to \in PlainPlaces /\ to \in Goers /\ pc[t] \in Goers /\ to # "guided"
  BY DEF PlainPlaces, Goers, Inside, Turns
<1> QED
  BY <1>1, <1>6, <1>7, GoerIsQuiet

LEMMA ExitOrderedIsQuiet ==
  ASSUME IInv, DealInv, NEW t \in Tids, ExitOrdered(t)
  PROVE  Quiet(t)
<1>1. /\ pc[t] = "section" /\ pc[t] \in Turns /\ pc[t] \in Inside /\ Leads(t, "finish")
      /\ ran' = ran /\ frame' = frame
      /\ SetPr(t, [Pr(t) EXCEPT !.bumped = @ + 1]) /\ CountsTurn(t)
  BY DEF ExitOrdered, Goes, Leads, Turns, Inside, CountsTurn
<1>2. Pr(t) \in PrivateParts
  BY <1>1, AtWork
<1>3. PICK x \in Nat : x = Pr(t).bumped + 1
  BY <1>2 DEF PrivateParts
<1>4. Bumps(t, x)
  BY <1>1, <1>3 DEF Bumps
<1> QED
  BY <1>1, <1>4, TurnIsQuiet

LEMMA DispatchFinishIsQuiet ==
  ASSUME IInv, DealInv, NEW t \in Tids, DispatchFinish(t)
  PROVE  Quiet(t)
<1>1. /\ pc[t] = "finish" /\ pc[t] \in Turns /\ Shape /\ ran' = ran
  BY DEF DispatchFinish, Goes, Turns, DealInv, history
<1>2. PICK to \in {"iteration", "next"} : Leads(t, to)
  BY DEF DispatchFinish, Goes, Leads
<1>3. CountsTurn(t)
  BY DEF DispatchFinish, CountOrdered, CountsTurn
<1>4. pr' = pr \/ Bumps(t, 0)
  BY DEF DispatchFinish, Bumps
<1>5. \E i \in Int : frame' = [frame EXCEPT ![t].i = i]
  <2>1. PICK j \in Int : j = frame[t].i
    BY <1>1 DEF Shape, Frames
  <2>2. PICK i \in Int : i = IF frame[t].i < Pr(t).upper THEN j + 1 ELSE 0
    BY <2>1
  <2>3. frame' = [frame EXCEPT ![t].i = i]
    BY <2>1, <2>2 DEF DispatchFinish
  <2> QED
    BY <2>3
<1> QED
  BY <1>1, <1>2, <1>3, <1>4, <1>5, TurnIsQuiet

(* The end of a loop.                                                       *)
LEMMA EndIs ==
  ASSUME IInv, DealInv, NEW t \in Tids, pc[t] \in Leavers
  PROVE  /\ disp_index[t] \in Loops /\ pc[t] \notin Outside
         /\ Schedule(MyLoop(t)) # "static_steal"
         /\ IsPart(Sh(t)) /\ Typed /\ Shape
         /\ pc[t] \in Ending => EndedBy(disp_index[t]) = Tids
<1>1. pc[t] \notin Outside /\ pc[t] # "out" /\ Typed /\ Shape
  BY DEF Leavers, Ending, Outside, IInv, DealInv
<1>2. disp_index[t] \in Loops /\ Schedule(MyLoop(t)) # "static_steal"
  BY <1>1 DEF DealInv, Waited, Plain, PlainSchedules, MyLoop
<1>3. IsPart(Sh(t))
  BY <1>1, InItsLoop DEF IInv, Typed, Sh
<1>4. ASSUME pc[t] \in Ending PROVE EndedBy(disp_index[t]) = Tids
  <2>1. ASSUME NEW u \in Tids PROVE Ended(u, disp_index[t])
    <3>1. CASE u = t
      BY <1>4, <3>1 DEF Ended
    <3>2. CASE u # t
      BY <1>4, <3>2 DEF IInv, LastResets, Ended
    <3> QED
      BY <3>1, <3>2
  <2> QED
    BY <2>1 DEF EndedBy
<1> QED
  BY <1>1, <1>2, <1>3, <1>4

LEMMA CountDoneIsQuiet ==
  ASSUME IInv, DealInv, NEW t \in Tids, CountDone(t)
  PROVE  Quiet(t) /\ (\/ ~Last(t) /\ pc'[t] = "out"
                      \/ Last(t) /\ pc'[t] = "reset")
<1>1. /\ pc[t] = "end" /\ pc[t] \in Leavers /\ ran' = ran /\ pr' = pr /\ frame' = frame
      /\ program' = program
      /\ SetSh(t, [Sh(t) EXCEPT !.num_done = @ + 1])
  BY DEF CountDone, Leavers, history
<1>2. /\ disp_index[t] \in Loops /\ pc[t] \notin Outside
      /\ Schedule(MyLoop(t)) # "static_steal"
      /\ IsPart(Sh(t)) /\ Typed /\ Shape
  BY <1>1, EndIs
<1>3. PICK to \in {"out", "reset"} :
        /\ Leads(t, to)
        /\ (~Last(t) /\ to = "out") \/ (Last(t) /\ to = "reset")
  BY <1>2 DEF CountDone, LeaveLoop, Goes, Leads
<1>4. PICK p : p = [Sh(t) EXCEPT !.num_done = @ + 1]
  OBVIOUS
<1>5. p.buffer_index = Sh(t).buffer_index /\ p.iteration = Sh(t).iteration
  BY <1>2, <1>4 DEF IsPart
<1>6. sh' = [sh EXCEPT ![current[t]] = p]
  BY <1>1, <1>4 DEF SetSh
<1>7. \A l \in Loops : Progress(l)' = Progress(l)
  BY <1>1, <1>2, <1>5, <1>6, SharedMoves
<1>8. Same(t)
  BY <1>1, <1>2, <1>7, SameParts
<1>9. to \in PlainPlaces /\ to \in Leavers \cup {"out"}
  BY DEF PlainPlaces, Leavers, Ending
<1>10. pc'[t] = to
  BY <1>2, <1>3 DEF Leads, Typed
<1> QED
  BY <1>1, <1>2, <1>3, <1>8, <1>9, <1>10, LeaverIsQuiet

LEMMA ResetIsQuiet ==
  ASSUME IInv, DealInv, NEW t \in Tids, ResetBuffer(t)
  PROVE  Quiet(t) /\ pc'[t] = "release"
<1>1. /\ pc[t] = "reset" /\ pc[t] \in Leavers /\ pc[t] \in Ending
      /\ ran' = ran /\ pr' = pr /\ frame' = frame
      /\ program' = program /\ Leads(t, "release")
      /\ SetSh(t, Fresh(Sh(t), MyLoop(t).ordered))
  BY DEF ResetBuffer, Goes, Leads, Leavers, Ending, history
<1>2. /\ disp_index[t] \in Loops /\ pc[t] \notin Outside
      /\ IsPart(Sh(t)) /\ Typed /\ Shape /\ EndedBy(disp_index[t]) = Tids
  BY <1>1, EndIs
<1>3. PICK p : p = Fresh(Sh(t), MyLoop(t).ordered)
  OBVIOUS
<1>4. p.buffer_index = Sh(t).buffer_index
  BY <1>2, <1>3 DEF IsPart, Fresh
<1>5. sh' = [sh EXCEPT ![current[t]] = p]
  BY <1>1, <1>3 DEF SetSh
<1>6. \A l \in Loops : l # disp_index[t] => Progress(l)' = Progress(l)
  BY <1>1, <1>2, <1>4, <1>5, SharedMoves
<1>7. Same(t)
  BY <1>1, <1>2, <1>6, SameParts
<1>8. "release" \in PlainPlaces /\ "release" \in Leavers \cup {"out"}
  BY DEF PlainPlaces, Leavers, Ending
<1>9. pc'[t] = "release"
  BY <1>1, <1>2 DEF Leads, Typed
<1> QED
  BY <1>1, <1>2, <1>7, <1>8, <1>9, LeaverIsQuiet

LEMMA ReleaseIsQuiet ==
  ASSUME IInv, DealInv, NEW t \in Tids, ReleaseBuffer(t)
  PROVE  Quiet(t) /\ pc'[t] = "out"
<1>1. /\ pc[t] = "release" /\ pc[t] \in Leavers
      /\ ran' = ran /\ pr' = pr /\ frame' = frame /\ Leads(t, "out")
  BY DEF ReleaseBuffer, LeaveLoop, Goes, Leads, Leavers, Ending, history
<1>2. Typed /\ Shape
  BY DEF IInv, DealInv
<1>3. Same(t)
  BY <1>1, <1>2, SameParts, ReleaseMoves
<1>4. "out" \in PlainPlaces
  BY DEF PlainPlaces
<1>5. pc'[t] = "out"
  BY <1>1, <1>2 DEF Leads, Typed
<1> QED
  BY <1>1, <1>2, <1>3, <1>4, <1>5, LeaverIsQuiet

-----------------------------------------------------------------------------
(* A thread enters a loop.                                                  *)

LEMMA EnterMoves ==
  ASSUME Typed, NEW t \in Tids, DispatchInit(t), NEW l, l = disp_index[t] + 1
  PROVE  /\ l \in Loops /\ pc[t] = "out" /\ pc'[t] = "wait" /\ disp_index'[t] = l
         /\ \A u \in Tids : u # t => pc'[u] = pc[u] /\ disp_index'[u] = disp_index[u]
         /\ \A u \in Tids : Left(u)' = Left(u)
         /\ \A u \in Tids, m \in Loops : Ended(u, m)' <=> Ended(u, m)
         /\ \A u \in Tids, m \in Loops : u # t \/ m # l => (Within(u, m)' <=> Within(u, m))
         /\ Within(t, l)' /\ ~Within(t, l) /\ ~Ended(t, l)
<1>1. /\ l \in Loops /\ pc[t] = "out" /\ pc'[t] = "wait" /\ disp_index'[t] = l
      /\ Tids' = Tids
      /\ \A u \in Tids : u # t => pc'[u] = pc[u] /\ disp_index'[u] = disp_index[u]
  BY DEF Typed, DispatchInit, Goes, Tids
<1>2. PICK d \in Nat : d = disp_index[t] /\ l = d + 1
  BY DEF Typed
<1>3. Left(t) = d /\ Left(t)' = d
  BY <1>1, <1>2 DEF Left
<1>4. \A u \in Tids : Left(u)' = Left(u)
  BY <1>1, <1>3 DEF Left
<1>5. "wait" \notin Ending \cup {"end"} /\ "out" \notin Ending \cup {"end"}
      /\ "out" \notin Inside \cup {"wait"}
  BY DEF Ending, Inside
<1>6. \A u \in Tids, m \in Loops : Ended(u, m)' <=> Ended(u, m)
  BY <1>1, <1>4, <1>5 DEF Ended
<1>7. \A u \in Tids, m \in Loops : u # t \/ m # l => (Within(u, m)' <=> Within(u, m))
  BY <1>1, <1>5 DEF Within
<1>8. Within(t, l)' /\ ~Within(t, l)
  BY <1>1, <1>5 DEF Within
<1>9. ~Ended(t, l)
  BY <1>1, <1>2, <1>3, <1>5 DEF Ended
<1> QED
  BY <1>1, <1>4, <1>6, <1>7, <1>8, <1>9

(* It is past none of its iterations.                                       *)
LEMMA NothingPassed ==
  ASSUME IInv, DealInv, NEW t \in Tids, DispatchInit(t), NEW l, l = disp_index[t] + 1,
         NEW c, c = Private(t, l).count
  PROVE  /\ ~FromCounter(Loop(l)) => \A i \in 0..Loop(l).tc-1 :
              Mine(Loop(l), t, i) => ~Passed(Loop(l), t, c, i)
         /\ Schedule(Loop(l)) = "static_balanced" /\ c = 0 =>
              Share(Loop(l).tc, t) < Share(Loop(l).tc, t + 1)
         /\ Schedule(Loop(l)) # "static_balanced" => c = 0
         /\ Private(t, l) \in PrivateParts
         /\ Loop(l).ordered => Private(t, l).bumped = 0
<1>1. /\ Typed /\ Shape /\ l \in Loops /\ Schedule(Loop(l)) \in PlainSchedules
  <2>1. Typed /\ Shape /\ l \in Loops
    BY DEF IInv, DealInv, DispatchInit
  <2> QED
    BY <2>1 DEF DealInv, Plain
<1>2. PICK tc \in Nat, n \in Nat \ {0} : tc = Loop(l).tc /\ n = program.n /\ t \in 0..n-1
  BY <1>1, LoopIs, Known DEF Tids
<1>3. PICK a \in Nat, z \in Nat : a = Share(tc, t) /\ z = Share(tc, t + 1) /\ a <= z
  <2>1. PICK S : S = [x \in 0..n |-> Share(tc, x)] /\ Splits(S, n, tc)
    BY <1>2, SharesSplit
  <2>2. t \in 0..n /\ t + 1 \in 0..n /\ t <= t + 1
    BY <1>2
  <2> QED
    BY <2>1, <2>2 DEF Splits
<1>4. pr[t][Buffer(l)] \in PrivateParts
  BY <1>1, LoopIs, BufferIs DEF Shape
<1>5. PICK q \in PrivateParts : q = pr[t][Buffer(l)]
  BY <1>4
<1>6. Schedule(Loop(l)) # "static_steal"
  BY <1>1 DEF PlainSchedules
<1>7. PICK fixed \in BOOLEAN, none \in BOOLEAN :
        /\ fixed <=> Schedule(Loop(l)) = "static_balanced"
        /\ none <=> fixed /\ a = z
  <2>1. (Schedule(Loop(l)) = "static_balanced") \in BOOLEAN
        /\ (Schedule(Loop(l)) = "static_balanced" /\ a = z) \in BOOLEAN
    OBVIOUS
  <2> QED
    BY <2>1
<1>8. PICK bumped \in Nat, lower \in Int, upper \in Int, count \in Nat :
        /\ bumped = IF Loop(l).ordered THEN 0 ELSE q.bumped
        /\ lower = IF fixed /\ ~none THEN a ELSE 1
        /\ upper = IF fixed /\ ~none THEN z - 1 ELSE 0
        /\ count = IF none THEN 1 ELSE 0
  <2>1. q.bumped \in Nat
    BY DEF PrivateParts
  <2>2. (IF Loop(l).ordered THEN 0 ELSE q.bumped) \in Nat
    BY <2>1
  <2>3. (IF fixed /\ ~none THEN a ELSE 1) \in Int /\ (IF fixed /\ ~none THEN z - 1 ELSE 0) \in Int
        /\ (IF none THEN 1 ELSE 0) \in Nat
    OBVIOUS
  <2> QED
    BY <2>2, <2>3
<1>9. Private(t, l) = [q EXCEPT !.loop = l, !.count = count, !.ub = tc, !.lower = lower,
                                !.upper = upper, !.bumped = bumped, !.parm4 = @]
  BY <1>2, <1>3, <1>5, <1>6, <1>7, <1>8 DEF Private
<1>10. Private(t, l) \in PrivateParts /\ c = count
  <2>1. l \in Int /\ tc \in Int
    BY <1>1, LoopIs
  <2>2. PICK p : p = [q EXCEPT !.loop = l, !.count = count, !.ub = tc, !.lower = lower,
                               !.upper = upper, !.bumped = bumped, !.parm4 = @]
    OBVIOUS
  <2>3. p \in PrivateParts /\ p.count = count
    BY <2>1, <2>2 DEF PrivateParts
  <2> QED
    BY <1>9, <2>2, <2>3
<1>11. Schedule(Loop(l)) = "static_balanced" /\ c = 0 => a < z
  BY <1>3, <1>7, <1>8, <1>10
<1>12. Schedule(Loop(l)) # "static_balanced" => c = 0
  BY <1>7, <1>8, <1>10
<1>13. ASSUME ~FromCounter(Loop(l)), NEW i \in 0..tc-1, Mine(Loop(l), t, i)
       PROVE  ~Passed(Loop(l), t, c, i)
  <2>1. CASE Schedule(Loop(l)) = "static_balanced"
    <3>1. a <= i /\ i < z
      BY <1>2, <1>3, <1>13, <2>1 DEF Mine
    <3>2. a # z /\ i \in Int
      BY <1>2, <1>3, <3>1
    <3>3. c = 0
      BY <1>7, <1>8, <1>10, <3>2
    <3> QED
      BY <2>1, <3>3 DEF Passed
  <2>2. CASE Schedule(Loop(l)) # "static_balanced"
    <3>1. Schedule(Loop(l)) \in {"static_greedy", "static_chunked"} /\ tc > 0
      BY <1>1, <1>2, <1>13, <2>2 DEF PlainSchedules, FromCounter
    <3>2. PICK h \in Nat \ {0} : h = ChunkOf(Loop(l))
      BY <1>1, <1>2, <3>1, ChunkOfIs
    <3>3. PICK y \in Nat : y = h * (0 + t)
      <4>1. h * (0 + t) \in Nat
        BY <1>2
      <4> QED
        BY <4>1
    <3>4. 0 % program.n = 0 /\ c = 0 /\ i \in 0..Loop(l).tc-1 /\ 0 \in Nat
      BY <1>2, <1>12, <2>2
    <3> QED
      BY <1>1, <1>13, <3>1, <3>2, <3>3, <3>4, StridedNext
  <2> QED
    BY <2>1, <2>2
<1>14. Loop(l).ordered => Private(t, l).bumped = 0
  <2>1. Private(t, l).bumped = bumped
    BY <1>9 DEF PrivateParts
  <2> QED
    BY <1>8, <2>1
<1> QED
  BY <1>2, <1>3, <1>10, <1>11, <1>12, <1>13, <1>14

LEMMA EnterDeals ==
  ASSUME IInv, DealInv, NEW t \in Tids, DispatchInit(t)
  PROVE  DealInv'
<1>1. PICK l : l = disp_index[t] + 1
  OBVIOUS
<1>2. /\ Typed /\ Shape /\ Exactly /\ program' = program /\ ran' = ran /\ sh' = sh /\ frame' = frame
      /\ pr' = [pr EXCEPT ![t][Buffer(l)] = Private(t, l)]
      /\ l > 1 /\ Loop(l - 1).barrier => \A u \in Tids : Left(u) >= l - 1
  BY <1>1 DEF DispatchInit, IInv, DealInv, history
<1>3. /\ l \in Loops /\ pc[t] = "out" /\ pc'[t] = "wait" /\ disp_index'[t] = l
      /\ \A u \in Tids : u # t => pc'[u] = pc[u] /\ disp_index'[u] = disp_index[u]
      /\ \A u \in Tids : Left(u)' = Left(u)
      /\ \A u \in Tids, m \in Loops : Ended(u, m)' <=> Ended(u, m)
      /\ \A u \in Tids, m \in Loops : u # t \/ m # l => (Within(u, m)' <=> Within(u, m))
      /\ Within(t, l)' /\ ~Within(t, l) /\ ~Ended(t, l)
  BY <1>1, <1>2, EnterMoves
<1>4. /\ Tids' = Tids /\ Loops' = Loops /\ Buffers' = Buffers /\ Plain' = Plain
      /\ Buffer(l)' = Buffer(l) /\ \A m \in Loops : Buffer(m)' = Buffer(m)
      /\ \A m : Loop(m)' = Loop(m) /\ Schedule(Loop(l))' = Schedule(Loop(l))
  <2>1. PICK L : L = Loop(l) /\ L = Loop(l)' /\ Schedule(L)' = Schedule(L)
    BY <1>2, SameProgram
  <2>2. Schedule(Loop(l))' = Schedule(L)
    BY <2>1 DEF Schedule
  <2> QED
    BY <1>2, <2>1, <2>2, SameProgram DEF Buffers
<1>5. PICK c : c = Private(t, l).count
  OBVIOUS
<1>6. /\ ~FromCounter(Loop(l)) => \A i \in 0..Loop(l).tc-1 :
              Mine(Loop(l), t, i) => ~Passed(Loop(l), t, c, i)
      /\ Schedule(Loop(l)) = "static_balanced" /\ c = 0 =>
              Share(Loop(l).tc, t) < Share(Loop(l).tc, t + 1)
      /\ Schedule(Loop(l)) # "static_balanced" => c = 0
      /\ Private(t, l) \in PrivateParts
  BY <1>1, <1>5, NothingPassed
<1>7. Buffer(l) \in Buffers
  BY <1>2, <1>3, LoopIs, BufferIs
<1>8. /\ pr' \in [Tids -> [Buffers -> PrivateParts]]
      /\ \A u \in Tids : u # t => pr'[u] = pr[u]
      /\ pr'[t][Buffer(l)] = Private(t, l)
  BY <1>2, <1>6, <1>7 DEF Shape
<1>9. Tally(t, l)' = c /\ \A u \in Tids, m \in Loops : u # t => Tally(u, m)' = Tally(u, m)
  BY <1>3, <1>4, <1>5, <1>8 DEF Tally
<1>10. \A m : Progress(m)' = Progress(m)
  BY <1>2, SharedStays
<1>11. ASSUME NEW m \in Loops, m # l
       PROVE  DealsNone(m) /\ Advanced(m)' /\ \A u \in Tids : Counting(u, m)'
  <2>1. ~Within(t, m)
    BY <1>3 DEF Within, Inside
  <2>2. Untouched(m)
    BY <1>3, <1>9, <1>10, <1>11, <2>1 DEF Untouched
  <2> QED
    BY <1>2, <2>2, UntouchedKeeps DEF DealsNone, DealInv
<1>12. EndedBy(l)' = EndedBy(l)
  BY <1>3, <1>4 DEF EndedBy
<1>13. Advanced(l)'
  BY <1>2, <1>3, <1>10, <1>12, AdvancedStays DEF DealInv
<1>14. DealsNone(l)
  <2> SUFFICES ASSUME NEW i \in 0..Loop(l).tc-1 PROVE Dealt(l, i)' <=> Dealt(l, i)
    BY DEF DealsNone
  <2>1. CASE FromCounter(Loop(l))
    <3>1. PICK k : k = Progress(l) /\ k = Progress(l)'
      BY <1>10
    <3> QED
      BY <1>2, <1>3, <1>12, <2>1, <3>1, CounterDealt
  <2>2. CASE ~FromCounter(Loop(l))
    <3>1. ASSUME NEW u \in Tids PROVE Had(u, l, i)' <=> Had(u, l, i)
      <4>1. PICK x : x = Tally(u, l)'
        OBVIOUS
      <4>2. Had(u, l, i)' <=> /\ Mine(Loop(l), u, i)
                              /\ Ended(u, l)' \/ (Within(u, l)' /\ Passed(Loop(l), u, x, i))
        BY <1>2, <1>3, <2>2, <4>1, StaticDealt
      <4>3. CASE u = t
        <5>1. x = c
          BY <1>9, <4>1, <4>3
        <5> QED
          BY <1>3, <1>6, <2>2, <4>2, <4>3, <5>1 DEF Had
      <4>4. CASE u # t
        <5>1. x = Tally(u, l)
          BY <1>3, <1>9, <4>1, <4>4
        <5> QED
          BY <1>3, <4>2, <4>4, <5>1 DEF Had
      <4> QED
        BY <4>3, <4>4
    <3> QED
      BY <1>2, <1>3, <2>2, <3>1, StaticDealt
  <2> QED
    BY <2>1, <2>2
<1>15. ASSUME NEW u \in Tids PROVE Counting(u, l)'
  <2>1. CASE u = t
    <3>1. Share(Loop(l).tc, t)' = Share(Loop(l).tc, t)
          /\ Share(Loop(l).tc, t + 1)' = Share(Loop(l).tc, t + 1)
      BY <1>2, <1>4 DEF Share, Lesser
    <3>2. program.n \in Nat \ {0} => 0 % program.n = 0
      OBVIOUS
    <3>3. Schedule(Loop(l)) = "static_balanced" /\ Tally(t, l)' = 0 =>
            Share(Loop(l).tc, t)' < Share(Loop(l).tc, t + 1)'
      BY <1>6, <1>9, <3>1
    <3>4. Schedule(Loop(l)) \in {"static_greedy", "static_chunked"} =>
            Tally(t, l)' % program.n = 0 /\ Tally(t, l)' = 0
      BY <1>2, <1>6, <1>9, <3>2, Known
    <3> QED
      BY <1>2, <1>4, <2>1, <3>3, <3>4 DEF Counting
  <2>2. CASE u # t
    <3>1. Within(u, l)' => Within(u, l) /\ Tally(u, l)' = Tally(u, l)
      BY <1>3, <1>9, <2>2
    <3> QED
      BY <1>2, <1>3, <3>1, CountingStays DEF DealInv
  <2> QED
    BY <2>1, <2>2
<1>16. Exactly'
  BY <1>2, <1>11, <1>14, ExactlyStays
<1>17. Shape'
  <2>1. pc' \in [Tids -> PlainPlaces]
    <3>1. pc' = [pc EXCEPT ![t] = "wait"]
      BY DEF DispatchInit, Goes
    <3> QED
      BY <1>2, <3>1 DEF Shape, PlainPlaces
  <2> QED
    BY <1>2, <1>4, <1>8, <2>1 DEF Shape, PlainPlaces, PrivateParts, Frames
<1>18. ASSUME NEW u \in Tids PROVE Reading(u)'
  <2>1. CASE u = t
    BY <1>3, <2>1 DEF Reading
  <2>2. CASE u # t
    <3>1. pc'[u] = pc[u] /\ disp_index'[u] = disp_index[u] /\ Reading(u)
      BY <1>3, <2>2 DEF DealInv
    <3>2. PICK m : m = disp_index[u] /\ m = disp_index'[u]
      BY <3>1
    <3>3. Progress(disp_index[u])' = Progress(m) /\ Progress(disp_index[u]) = Progress(m)
      BY <1>10, <3>2 DEF Progress, Buffer
    <3>4. PICK L : L = Loop(m) /\ L = Loop(m)' /\ Schedule(L)' = Schedule(L)
      BY <1>2, SameProgram
    <3>5. MyLoop(u) = L /\ MyLoop(u)' = L
      BY <3>2, <3>4 DEF MyLoop, Loop
    <3>6. Schedule(MyLoop(u))' = Schedule(L)
      BY <3>4, <3>5 DEF Schedule
    <3> QED
      BY <1>2, <3>1, <3>3, <3>5, <3>6 DEF Reading
  <2> QED
    BY <2>1, <2>2
<1>19. ASSUME NEW u \in Tids PROVE Waited(u)'
  <2>1. CASE u = t
    <3>1. l > 1 /\ Loop(l - 1)'.barrier => \A v \in Tids : Left(v)' >= l - 1
      BY <1>2, <1>3, <1>4
    <3> QED
      BY <1>3, <1>4, <2>1, <3>1 DEF Waited
  <2>2. CASE u # t
    <3>1. Waited(u) /\ disp_index'[u] = disp_index[u] /\ (pc'[u] # "out" => pc[u] # "out")
      BY <1>3, <2>2 DEF DealInv
    <3>2. \A v \in Tids : Left(v) \in Int /\ Left(v)' \in Int /\ Left(v) <= Left(v)'
      BY <1>2, <1>3, LeftIsInt
    <3> QED
      BY <1>2, <3>1, <3>2, WaitedStays
  <2> QED
    BY <2>1, <2>2
<1> QED
  BY <1>2, <1>4, <1>11, <1>13, <1>15, <1>16, <1>17, <1>18, <1>19 DEF DealInv

-----------------------------------------------------------------------------
(* DealInv holds in all states of plain programs.                           *)

LEMMA InitDeals ==
  ASSUME Init, Plain
  PROVE  DealInv
<1>1. IInv /\ Typed
  BY InitInv DEF IInv
<1>2. /\ pc = [t \in Tids |-> "out"] /\ disp_index = [t \in Tids |-> 0]
      /\ ran = [l \in Loops |-> [i \in 0..Loop(l).tc-1 |-> 0]]
      /\ sh = [b \in Buffers |->
                 [buffer_index |-> b + 1, iteration |-> 0, num_done |-> 0, ordered_iteration |-> 0]]
  BY DEF Init
<1>3. ASSUME NEW l \in Loops
      PROVE  /\ EndedBy(l) = {} /\ Progress(l) = 0
             /\ \A t \in Tids : ~Within(t, l) /\ ~Ended(t, l)
  <2>1. l \in Nat \ {0} /\ Buffer(l) \in Buffers
    BY <1>1, LoopIs, BufferIs
  <2>2. ASSUME NEW t \in Tids PROVE ~Within(t, l) /\ ~Ended(t, l)
    <3>1. pc[t] = "out" /\ disp_index[t] = 0 /\ Left(t) = 0
      BY <1>2 DEF Left
    <3>2. ~(0 >= l) /\ l # 0
      BY <2>1
    <3> QED
      BY <3>1, <3>2 DEF Within, Ended, Inside
  <2>3. Progress(l) = 0
    BY <1>2, <2>1 DEF Progress
  <2> QED
    BY <2>2, <2>3 DEF EndedBy
<1>4. Shape
  <2>1. \A t \in Tids, b \in Buffers : pr[t][b] \in PrivateParts
    BY DEF Init, PrivateParts
  <2>2. pr = [t \in Tids |-> [b \in Buffers |-> pr[t][b]]]
    BY DEF Init
  <2>3. NoFrame \in Frames
    BY DEF NoFrame, Frames
  <2>4. frame \in [Tids -> Frames]
    BY <2>3 DEF Init
  <2>5. pc \in [Tids -> PlainPlaces]
    BY <1>2 DEF PlainPlaces
  <2>6. pr \in [Tids -> [Buffers -> PrivateParts]]
    BY <2>1, <2>2
  <2> QED
    BY <2>4, <2>5, <2>6 DEF Shape
<1>5. ASSUME NEW l \in Loops PROVE Advanced(l) /\ \A t \in Tids : Counting(t, l)
  <2>1. PICK f \in Int : f = Furthest(Loop(l)) /\ Pace(Loop(l)) \in Nat /\ 0 <= f
    <3>1. Loop(l).tc \in Nat /\ Loop(l).chunk \in Nat \ {0}
      BY <1>1, <1>3, LoopIs
    <3>2. Number(Loop(l)) \in Nat
      BY <1>1, TrapezoidIs DEF IsTrapezoid
    <3>3. Loop(l).tc + Loop(l).chunk - 1 \in Nat
      BY <3>1
    <3>4. Furthest(Loop(l)) \in Nat
      BY <3>2, <3>3 DEF Furthest
    <3>5. Pace(Loop(l)) \in Nat
      BY <3>1 DEF Pace
    <3> QED
      BY <3>4, <3>5
  <2>2. Cardinality(EndedBy(l)) = 0
    BY <1>3, FS_EmptySet
  <2>3. Amount(Loop(l), 0) = 0
    <3>1. Loop(l).chunk \in Nat
      BY <1>1, LoopIs
    <3> QED
      BY <3>1 DEF Amount
  <2>4. f + Pace(Loop(l)) * 0 = f
    BY <2>1
  <2>5. Advanced(l)
    BY <1>3, <2>1, <2>2, <2>3, <2>4 DEF Advanced
  <2> QED
    BY <1>3, <2>5 DEF Counting
<1>6. Exactly
  <2>1. ASSUME NEW l \in Loops, NEW i \in 0..Loop(l).tc-1 PROVE ~Dealt(l, i)
    <3>1. Position(Loop(l), 0) = 0 /\ ~(i < 0)
      BY <1>1, PositionStarts
    <3> QED
      BY <1>3, <3>1 DEF Dealt
  <2> QED
    BY <1>2, <2>1 DEF Exactly
<1>7. \A t \in Tids : Reading(t) /\ Waited(t)
  BY <1>2 DEF Reading, Waited
<1> QED
  BY <1>4, <1>5, <1>6, <1>7 DEF DealInv

(* The steps of plain programs.                                             *)
LEMMA PlainSteps ==
  ASSUME IInv, DealInv, NEW t \in Tids, Step(t)
  PROVE  \/ DispatchInit(t) \/ WaitForBuffer(t) \/ Asking(t) \/ GuidedRead(t) \/ Guided(t)
         \/ EnterOrdered(t) \/ ExitOrdered(t) \/ SkipOrdered(t) \/ DispatchFinish(t)
         \/ CountDone(t) \/ ResetBuffer(t) \/ ReleaseBuffer(t)
<1>1. pc[t] \in PlainPlaces
  <2>1. Shape
    BY DEF DealInv
  <2> QED
    BY <2>1 DEF Shape
<1>2. ~AllowStealing(t) /\ ~Seek(t) /\ ~Rob(t) /\ ~Keep(t) /\ ~DestroyLocks(t)
  <2>1. pc[t] \notin {"flag", "seek", "rob", "keep", "destroy"}
    BY <1>1 DEF PlainPlaces, Turns
  <2> QED
    BY <2>1, Zenon DEF AllowStealing, Seek, Rob, Keep, DestroyLocks, Goes
<1>3. pc[t] # "out" => Schedule(MyLoop(t)) \in PlainSchedules
  BY DEF DealInv, Waited, Plain, MyLoop
<1>4. ~Is(t, "static_steal") /\ ~Is(t, "guided_analytical")
  BY <1>3 DEF Is, PlainSchedules
<1>5. ~NextOwn(t) /\ ~NextAnalytical(t)
  BY <1>4 DEF NextOwn, NextAnalytical
<1>6. ~NoLock(t)
  BY <1>1, <1>4 DEF NoLock, PlainPlaces, Turns
<1> QED
  BY <1>2, <1>5, <1>6 DEF Step, Asking

LEMMA StepDeals ==
  ASSUME IInv, DealInv, NEW t \in Tids, Step(t)
  PROVE  DealInv'
<1>1. CASE DispatchInit(t)
  BY <1>1, EnterDeals
<1>2. CASE Asking(t)
  BY <1>2, AskingDeals, HandsKeeps, TellsKeeps
<1>3. CASE Guided(t)
  BY <1>3, GuidedDeals, HandsKeeps, TellsKeeps, RetryIsQuiet, QuietKeeps
<1>4. CASE \/ WaitForBuffer(t) \/ GuidedRead(t)
           \/ EnterOrdered(t) \/ ExitOrdered(t) \/ SkipOrdered(t) \/ DispatchFinish(t)
           \/ CountDone(t) \/ ResetBuffer(t) \/ ReleaseBuffer(t)
  <2>1. Quiet(t)
    BY <1>4, WaitIsQuiet, GuidedReadIsQuiet, EnterOrderedIsQuiet, ExitOrderedIsQuiet,
       DispatchFinishIsQuiet, CountDoneIsQuiet, ResetIsQuiet, ReleaseIsQuiet
  <2> QED
    BY <2>1, QuietKeeps
<1> QED
  BY <1>1, <1>2, <1>3, <1>4, PlainSteps

LEMMA NextDeals == IInv /\ DealInv /\ [Next]_vars => DealInv'
<1> SUFFICES ASSUME IInv, DealInv, [Next]_vars PROVE DealInv'
  OBVIOUS
<1>1. CASE Next
  BY <1>1, StepDeals DEF Next
<1>2. CASE UNCHANGED vars
  <2>1. /\ Typed /\ Shape /\ Exactly /\ program' = program /\ disp_index' = disp_index /\ pc' = pc
        /\ pr' = pr /\ sh' = sh /\ frame' = frame /\ ran' = ran
    BY <1>2 DEF vars, history, IInv, DealInv
  <2>2. Loops' = Loops /\ Tids' = Tids /\ Buffers' = Buffers /\ Plain' = Plain
    BY <2>1, SameProgram DEF Buffers
  <2>3. \A l : Progress(l)' = Progress(l)
    BY <2>1, SharedStays
  <2>4. \A u, l : (Ended(u, l)' <=> Ended(u, l)) /\ (Within(u, l)' <=> Within(u, l))
                 /\ Tally(u, l)' = Tally(u, l) /\ Left(u)' = Left(u)
    BY <2>1 DEF Ended, Within, Tally, Left, Buffer
  <2>5. \A l \in Loops : Untouched(l)
    BY <2>3, <2>4 DEF Untouched
  <2>6. \A l \in Loops : DealsNone(l) /\ Advanced(l)' /\ \A u \in Tids : Counting(u, l)'
    BY <2>1, <2>5, UntouchedKeeps DEF DealsNone, DealInv
  <2>7. Exactly'
    BY <2>1, <2>6, ExactlyStays
  <2>8. Shape'
    BY <2>1, <2>2 DEF Shape, PlainPlaces, PrivateParts, Frames
  <2>9. ASSUME NEW u \in Tids PROVE Reading(u)' /\ Waited(u)'
    <3>1. Reading(u)'
      <4>1. PICK L : L = MyLoop(u) /\ L = MyLoop(u)' /\ Schedule(L)' = Schedule(L)
        BY <2>1, SameProgram DEF MyLoop
      <4>2. Schedule(MyLoop(u))' = Schedule(L)
        BY <4>1 DEF Schedule
      <4>3. Progress(disp_index[u])' = Progress(disp_index[u])
        BY <2>1 DEF Progress, Buffer
      <4>4. Reading(u)
        BY DEF DealInv
      <4> QED
        BY <2>1, <4>1, <4>2, <4>3, <4>4 DEF Reading
    <3>2. Waited(u)'
      <4>1. Waited(u) /\ \A v \in Tids : Left(v) \in Int /\ Left(v)' \in Int /\ Left(v) <= Left(v)'
        BY <2>1, <2>4, LeftIsInt DEF DealInv
      <4> QED
        BY <2>1, <4>1, WaitedStays
    <3> QED
      BY <3>1, <3>2
  <2> QED
    BY <2>1, <2>2, <2>6, <2>7, <2>8, <2>9 DEF DealInv
<1> QED
  BY <1>1, <1>2

-----------------------------------------------------------------------------
(* The turns of ordered loops: threads and loops that a step leaves alone.  *)

LEMMA StillIs ==
  ASSUME program' = program, NEW u, Still(u)
  PROVE  /\ Chunk(u)' = Chunk(u) /\ MyLoop(u)' = MyLoop(u) /\ Open(u)' = Open(u)
         /\ Behindhand(u)' = Behindhand(u)
         /\ \A j : Holds(u, j)' <=> Holds(u, j)
         /\ \A l, j : Owes(u, l, j)' <=> Owes(u, l, j)
<1>1. Chunk(u)' = Chunk(u)
  BY DEF Still, Chunk, Buffer
<1>2. MyLoop(u)' = MyLoop(u)
  BY DEF Still, MyLoop, Loop
<1>3. Open(u)' = Open(u)
  BY <1>1, <1>2 DEF Still, Open
<1>4. Behindhand(u)' = Behindhand(u)
  BY DEF Still, Behindhand
<1> QED
  BY <1>1, <1>2, <1>3, <1>4 DEF Still, Holds, Owes

LEMMA StillInChunk ==
  ASSUME Typed, DealInv, program' = program, NEW u \in Tids, Still(u), Grows,
         InChunk(u), NotBumped(u)
  PROVE  InChunk(u)' /\ NotBumped(u)'
<1>1. PICK C, L, f : C = Chunk(u) /\ L = MyLoop(u) /\ f = frame[u]
  OBVIOUS
<1>2. Chunk(u)' = C /\ MyLoop(u)' = L /\ frame'[u] = f /\ pc'[u] = pc[u]
      /\ disp_index'[u] = disp_index[u] /\ Behindhand(u)' = Behindhand(u)
  BY <1>1, StillIs DEF Still
<1>3. NotBumped(u)'
  BY <1>1, <1>2 DEF NotBumped
<1>4. ASSUME pc[u] \in Turns
      PROVE  /\ {C.lower, C.upper, f.i} \subseteq Nat
             /\ C.lower <= f.i /\ f.i <= C.upper /\ C.upper < L.tc
             /\ C.bumped <= (IF L.gomp THEN f.i - C.lower ELSE 0) + Behindhand(u)
             /\ \A j \in C.lower..C.upper : ran'[disp_index[u]][j] = 1
  <2>1. /\ {C.lower, C.upper, f.i} \subseteq Nat
        /\ C.lower <= f.i /\ f.i <= C.upper /\ C.upper < L.tc
        /\ C.bumped <= (IF L.gomp THEN f.i - C.lower ELSE 0) + Behindhand(u)
        /\ \A j \in C.lower..C.upper : ran[disp_index[u]][j] = 1
    BY <1>1, <1>4 DEF InChunk
  <2>2. PICK l \in Loops : l = disp_index[u] /\ L = Loop(l)
    <3>1. pc[u] # "out"
      BY <1>4 DEF Turns
    <3> QED
      BY <1>1, <3>1 DEF DealInv, Waited, MyLoop
  <2>3. Loop(l).tc \in Nat
    BY <2>2, LoopIs
  <2>4. \A j \in C.lower..C.upper : j \in 0..Loop(l).tc-1
    BY <2>1, <2>2, <2>3
  <2>5. \A j \in C.lower..C.upper : ran'[l][j] = 1
    BY <2>1, <2>2, <2>4 DEF Grows
  <2> QED
    BY <2>1, <2>2, <2>5
<1> HIDE DEF Behindhand
<1>5. InChunk(u)'
  BY <1>2, <1>4 DEF InChunk
<1> QED
  BY <1>3, <1>5

LEMMA StillDisjoint ==
  ASSUME program' = program, NEW u, NEW v, Still(u), Still(v), Disjoint(u, v)
  PROVE  Disjoint(u, v)'
<1>1. (\A j : Holds(u, j)' <=> Holds(u, j)) /\ (\A j : Holds(v, j)' <=> Holds(v, j))
  BY StillIs
<1> QED
  BY <1>1 DEF Disjoint, Still

(* A section that others do not end, in a loop that counts on.              *)
LEMMA StillInSection ==
  ASSUME program' = program, NEW u \in Tids, Still(u), NEW l, l = disp_index[u],
         pc[u] = "section" =>
           /\ Turn(l) \in Int /\ Turn(l)' \in Int /\ Turn(l) <= Turn(l)' /\ Chunk(u).lower \in Int
           /\ section'[l].in = section[l].in,
         InSection(u)
  PROVE  InSection(u)'
<1>1. Chunk(u)' = Chunk(u) /\ pc'[u] = pc[u] /\ frame'[u] = frame[u] /\ disp_index'[u] = l
  BY StillIs DEF Still
<1>2. Turn(disp_index[u])' = Turn(l)'
  BY <1>1 DEF Turn, Buffer
<1>3. ASSUME pc[u] = "section"
      PROVE  Chunk(u).lower <= Turn(l)' /\ section'[l].in = frame[u].i
  BY <1>3 DEF InSection
<1> QED
  BY <1>1, <1>2, <1>3 DEF InSection

LEMMA StillBehindhanded ==
  ASSUME program' = program, NEW u \in Tids, Still(u), NEW l, l = disp_index[u],
         pc[u] \in Turns => section'[l].last = section[l].last,
         Behindhanded(u)
  PROVE  Behindhanded(u)'
<1>1. Chunk(u)' = Chunk(u) /\ pc'[u] = pc[u] /\ frame'[u] = frame[u] /\ disp_index'[u] = l
      /\ Open(u)' = Open(u) /\ Behindhand(u)' = Behindhand(u)
  BY StillIs DEF Still
<1> QED
  BY <1>1 DEF Behindhanded

(* A loop of which nothing is given out or counted.                         *)
LEMMA TurnsCountStays ==
  ASSUME program' = program, NEW l \in Loops,
         EndedBy(l)' # Tids => EndedBy(l) # Tids /\ Turn(l)' = Turn(l) /\ ran'[l] = ran[l],
         \A u \in Tids, j \in 0..Loop(l).tc-1 : Owes(u, l, j)' <=> Owes(u, l, j),
         TurnsCount(l)
  PROVE  TurnsCount(l)'
<1>1. Loop(l)' = Loop(l) /\ Tids' = Tids
  BY SameProgram
<1>2. ASSUME Loop(l).ordered, EndedBy(l)' # Tids
      PROVE  /\ Turn(l)' \in 0..Loop(l).tc
             /\ \A j \in 0..Loop(l).tc-1 :
                  j < Turn(l)' <=> ran'[l][j] = 1 /\ \A t \in Tids : ~Owes(t, l, j)'
  <2>1. /\ Turn(l) \in 0..Loop(l).tc
        /\ \A j \in 0..Loop(l).tc-1 :
             j < Turn(l) <=> ran[l][j] = 1 /\ \A t \in Tids : ~Owes(t, l, j)
    BY <1>2 DEF TurnsCount
  <2> QED
    BY <1>2, <2>1
<1> QED
  BY <1>1, <1>2 DEF TurnsCount

LEMMA SectionsOfStays ==
  ASSUME program' = program, NEW l \in Loops, Grows, Exactly, Exactly',
         section'[l] = section[l],
         \A u \in Tids : disp_index[u] = l /\ pc[u] = "section" =>
           disp_index'[u] = l /\ pc'[u] = "section",
         SectionsOf(l)
  PROVE  SectionsOf(l)'
<1>1. Loop(l)' = Loop(l) /\ Tids' = Tids /\ Loops' = Loops
  BY SameProgram
<1>2. \A j \in 0..Loop(l).tc-1 : ran'[l][j] = 0 => ran[l][j] = 0
  BY DEF Grows, Exactly
<1> QED
  BY <1>1, <1>2 DEF SectionsOf

(* A step keeps TurnInv if it does so of its own thread.                    *)
LEMMA TurnKeeps ==
  ASSUME IInv, DealInv, TurnInv, program' = program, NEW t \in Tids,
         \A u \in Tids : u # t => Still(u), Grows,
         section' = [l \in Loops |-> section'[l]],
         InChunk(t)', NotBumped(t)',
         \A u \in Tids : u # t => Disjoint(t, u)',
         \A u \in Tids : InSection(u)' /\ Behindhanded(u)',
         \A l \in Loops : TurnsCount(l)' /\ SectionsOf(l)'
  PROVE  TurnInv'
<1>1. Tids' = Tids /\ Loops' = Loops /\ Typed
  BY SameProgram DEF IInv
<1>2. \A u \in Tids : InChunk(u)' /\ NotBumped(u)'
  BY <1>1, StillInChunk DEF TurnInv
<1>3. ASSUME NEW u \in Tids, NEW v \in Tids PROVE Disjoint(u, v)'
  <2>1. CASE u = v
    BY <2>1 DEF Disjoint
  <2>2. CASE u = t
    BY <2>1, <2>2
  <2>3. CASE v = t /\ u # t
    <3>1. Disjoint(t, u)'
      BY <2>3
    <3> QED
      BY <2>3, <3>1 DEF Disjoint
  <2>4. CASE u # t /\ v # t
    <3>1. Disjoint(u, v)
      BY DEF TurnInv
    <3> QED
      BY <2>4, <3>1, StillDisjoint
  <2> QED
    BY <2>1, <2>2, <2>3, <2>4
<1> QED
  BY <1>1, <1>2, <1>3 DEF TurnInv

(* What is known of a thread with an ordered chunk.                         *)
LEMMA AtTurn ==
  ASSUME IInv, DealInv, TurnInv, NEW t \in Tids, pc[t] \in Turns, NEW l, l = disp_index[t]
  PROVE  /\ l \in Loops /\ MyLoop(t) = Loop(l) /\ EndedBy(l) # Tids /\ Loop(l).ordered
         /\ pc[t] \in Inside /\ pc[t] \notin Outside
         /\ current[t] \in Buffers /\ current[t] = Buffer(l) /\ Chunk(t) = Pr(t)
         /\ Chunk(t).bumped \in Nat /\ Chunk(t).lower \in Nat /\ Chunk(t).upper \in Nat
         /\ frame[t].i \in Nat /\ Chunk(t).lower <= frame[t].i /\ frame[t].i <= Chunk(t).upper
         /\ Loop(l).tc \in Nat /\ Chunk(t).upper < Loop(l).tc
         /\ Open(t) \in Nat /\ Chunk(t).lower <= Open(t)
         /\ Open(t) <= frame[t].i + Behindhand(t) /\ Open(t) <= Chunk(t).upper + 1
         /\ \A j \in Chunk(t).lower..Chunk(t).upper : ran[l][j] = 1
         /\ \A j : Owes(t, l, j) <=> Open(t) <= j /\ j <= Chunk(t).upper
         /\ Turn(l) = Sh(t).ordered_iteration /\ Turn(l) \in 0..Loop(l).tc /\ Turn(l) \in Nat
         /\ \A j \in 0..Loop(l).tc-1 :
              j < Turn(l) <=> ran[l][j] = 1 /\ \A u \in Tids : ~Owes(u, l, j)
<1>1. pc[t] \in Inside /\ pc[t] \notin Outside /\ Has(t) /\ Typed
  BY DEF Turns, Inside, Outside, IInv
<1>2. /\ l \in Loops /\ MyLoop(t) = Loop(l) /\ EndedBy(l) # Tids
      /\ current[t] \in Buffers /\ current[t] = Buffer(l) /\ Chunk(t) = Pr(t)
      /\ Pr(t) \in PrivateParts /\ Turn(l) = Sh(t).ordered_iteration
  BY <1>1, AtWork
<1>3. Loop(l).ordered
  BY <1>1, <1>2 DEF Has
<1>4. PICK C, i, tc : C = Chunk(t) /\ i = frame[t].i /\ tc = Loop(l).tc /\ tc \in Nat
  BY <1>1, <1>2, LoopIs
<1>5. /\ C.lower \in Nat /\ C.upper \in Nat /\ i \in Nat /\ C.lower <= i /\ i <= C.upper
      /\ C.upper < tc
      /\ C.bumped <= (IF Loop(l).gomp THEN i - C.lower ELSE 0) + Behindhand(t)
      /\ \A j \in C.lower..C.upper : ran[l][j] = 1
  BY <1>2, <1>4 DEF TurnInv, InChunk
<1>6. PICK m \in Nat, h \in {0, 1} : m = C.bumped /\ h = Behindhand(t)
  BY <1>2, <1>4 DEF PrivateParts, Behindhand
<1>7. Open(t) = m + IF Loop(l).gomp THEN C.lower ELSE i
  BY <1>2, <1>4, <1>6 DEF Open
<1>8. Open(t) \in Nat /\ C.lower <= Open(t) /\ Open(t) <= i + h /\ Open(t) <= C.upper + 1
  <2>1. CASE Loop(l).gomp
    BY <1>5, <1>6, <1>7, <2>1
  <2>2. CASE ~Loop(l).gomp
    BY <1>5, <1>6, <1>7, <2>2
  <2> QED
    BY <2>1, <2>2
<1>9. \A j : Owes(t, l, j) <=> Open(t) <= j /\ j <= C.upper
  BY <1>4 DEF Owes
<1>10. /\ Turn(l) \in 0..Loop(l).tc
       /\ \A j \in 0..Loop(l).tc-1 :
            j < Turn(l) <=> ran[l][j] = 1 /\ \A u \in Tids : ~Owes(u, l, j)
  BY <1>2, <1>3 DEF TurnInv, TurnsCount
<1>11. Turn(l) \in Nat
  BY <1>4, <1>10
<1> QED
  BY <1>1, <1>2, <1>3, <1>4, <1>5, <1>6, <1>8, <1>9, <1>10, <1>11

(* An iteration that one thread holds, no other holds or owes.              *)
LEMMA HoldsAlone ==
  ASSUME IInv, DealInv, TurnInv, NEW t \in Tids, pc[t] \in Turns, NEW l, l = disp_index[t],
         NEW j \in Int, Chunk(t).lower <= j, j <= Chunk(t).upper
  PROVE  \A u \in Tids : u # t => ~Owes(u, l, j)
<1> SUFFICES ASSUME NEW u \in Tids, u # t, Owes(u, l, j) PROVE FALSE
  OBVIOUS
<1>1. pc[u] \in Turns /\ disp_index[u] = l
  BY DEF Owes
<1>2. Chunk(u).lower \in Nat /\ Open(u) \in Nat /\ Chunk(u).lower <= Open(u)
      /\ Open(u) <= j /\ j <= Chunk(u).upper
  BY <1>1, AtTurn DEF Owes
<1>3. Holds(t, j) /\ Holds(u, j)
  BY <1>2 DEF Holds
<1>4. Disjoint(t, u)
  BY DEF TurnInv
<1> QED
  BY <1>1, <1>3, <1>4 DEF Disjoint

(* Whose turn it is counts next.                                            *)
LEMMA TurnOf ==
  ASSUME IInv, DealInv, TurnInv, NEW t \in Tids, pc[t] \in Turns, NEW l, l = disp_index[t],
         Open(t) <= Chunk(t).upper, Chunk(t).lower <= Turn(l)
  PROVE  Turn(l) = Open(t)
<1>1. PICK o \in Nat, a \in Nat, b \in Nat, tc \in Nat, n \in Nat :
        /\ o = Open(t) /\ a = Chunk(t).lower /\ b = Chunk(t).upper /\ tc = Loop(l).tc /\ n = Turn(l)
        /\ a <= o /\ o <= b /\ b < tc /\ a <= n
  BY AtTurn
<1>2. ~(o < n)
  <2>1. Owes(t, l, o)
    BY <1>1, AtTurn
  <2>2. o \in 0..tc-1
    BY <1>1
  <2> QED
    BY <1>1, <2>1, <2>2, AtTurn
<1>3. ASSUME n < o PROVE FALSE
  <2>1. n \in 0..tc-1 /\ n \in a..b /\ n \in Int
    BY <1>1, <1>3
  <2>2. ran[l][n] = 1
    BY <1>1, <2>1, AtTurn
  <2>3. ~Owes(t, l, n)
    BY <1>1, <1>3, AtTurn
  <2>4. \A u \in Tids : u # t => ~Owes(u, l, n)
    BY <1>1, <2>1, HoldsAlone
  <2>5. n < Turn(l)
    BY <1>1, <2>1, <2>2, <2>3, <2>4, AtTurn
  <2> QED
    BY <1>1, <2>5
<1> QED
  BY <1>1, <1>2, <1>3

(* It is the turn of one thread at most.                                    *)
LEMMA OneTurn ==
  ASSUME IInv, DealInv, TurnInv, NEW t \in Tids, pc[t] \in Turns, NEW l, l = disp_index[t],
         Open(t) <= Chunk(t).upper, Chunk(t).lower <= Turn(l),
         NEW u \in Tids, pc[u] \in Turns, l = disp_index[u],
         Open(u) <= Chunk(u).upper, Chunk(u).lower <= Turn(l)
  PROVE  t = u
<1> SUFFICES ASSUME u # t PROVE FALSE
  OBVIOUS
<1>1. Turn(l) = Open(t) /\ Turn(l) = Open(u)
  BY TurnOf
<1>2. Open(t) \in Int /\ Chunk(t).lower <= Open(t) /\ Open(t) <= Chunk(t).upper
  BY AtTurn
<1>3. ~Owes(u, l, Open(t))
  BY <1>2, HoldsAlone
<1>4. \A j : Owes(u, l, j) <=> Open(u) <= j /\ j <= Chunk(u).upper
  BY AtTurn
<1>5. Open(t) <= Open(t)
  BY <1>2
<1> QED
  BY <1>1, <1>3, <1>4, <1>5

(* A thread in a section has it in its turn.                                *)
LEMMA InTurn ==
  ASSUME IInv, DealInv, TurnInv, NEW t \in Tids, pc[t] = "section", NEW l, l = disp_index[t]
  PROVE  /\ pc[t] \in Turns /\ Open(t) <= Chunk(t).upper /\ Chunk(t).lower <= Turn(l)
         /\ Turn(l) = Open(t) /\ section[l].in = frame[t].i
<1>1. pc[t] \in Turns /\ Behindhand(t) = 0
  BY DEF Turns, Behindhand
<1>2. Open(t) <= Chunk(t).upper
  <2>1. Open(t) \in Nat /\ frame[t].i \in Nat /\ Chunk(t).upper \in Nat
        /\ Open(t) <= frame[t].i + 0 /\ frame[t].i <= Chunk(t).upper
    BY <1>1, AtTurn
  <2> QED
    BY <2>1
<1>3. Chunk(t).lower <= Turn(l) /\ section[l].in = frame[t].i
  BY DEF TurnInv, InSection
<1>4. Turn(l) = Open(t)
  BY <1>1, <1>2, <1>3, TurnOf
<1> QED
  BY <1>1, <1>2, <1>3, <1>4

-----------------------------------------------------------------------------
(* Steps keep TurnInv.                                                      *)

(* A thread with a section is still in its loop.                            *)
LEMMA NotAllEnded ==
  ASSUME IInv, DealInv, program' = program, NEW u \in Tids, Still(u), pc[u] \in Turns,
         NEW l, l = disp_index[u]
  PROVE  EndedBy(l)' # Tids
<1>1. pc[u] \in Inside /\ pc[u] # "out" /\ Tids' = Tids
  BY SameProgram DEF Turns, Inside
<1>2. l \in Loops /\ ~Ended(u, l)
  BY <1>1, AtWork
<1>3. ~Ended(u, l)'
  BY <1>2 DEF Ended, Left, Still
<1> QED
  BY <1>1, <1>3 DEF EndedBy

(* A step of a thread that has no chunk before or after.                    *)
LEMMA IdleKeeps ==
  ASSUME IInv, DealInv, TurnInv, Exactly', program' = program, NEW t \in Tids,
         \A u \in Tids : u # t => Still(u),
         pc[t] \notin Turns, pc'[t] \notin Turns, ran' = ran, section' = section, NotBumped(t)',
         \A l \in Loops : EndedBy(l)' # Tids => EndedBy(l) # Tids /\ Turn(l)' = Turn(l)
  PROVE  TurnInv'
<1>1. Tids' = Tids /\ Loops' = Loops /\ Typed /\ Exactly
  BY SameProgram DEF IInv, DealInv
<1>2. Grows
  BY DEF Grows
<1>3. section' = [l \in Loops |-> section'[l]]
  BY DEF TurnInv
<1>4. InChunk(t)' /\ \A u \in Tids : Disjoint(t, u)'
  BY DEF InChunk, Disjoint
<1>5. ASSUME NEW u \in Tids PROVE InSection(u)' /\ Behindhanded(u)'
  <2>1. CASE u = t
    <3>1. pc'[u] # "section"
      BY <2>1 DEF Turns
    <3> QED
      BY <2>1, <3>1 DEF InSection, Behindhanded
  <2>2. CASE u # t
    <3>1. PICK l : l = disp_index[u]
      OBVIOUS
    <3>2. Still(u) /\ InSection(u) /\ Behindhanded(u)
      BY <2>2 DEF TurnInv
    <3>3. ASSUME pc[u] = "section"
          PROVE  /\ Turn(l) \in Int /\ Turn(l)' = Turn(l) /\ Turn(l) <= Turn(l)
                 /\ Chunk(u).lower \in Int
      <4>1. pc[u] \in Turns
        BY <3>3 DEF Turns
      <4>2. l \in Loops /\ Turn(l) \in Nat /\ Chunk(u).lower \in Nat
        BY <3>1, <4>1, AtTurn
      <4>3. EndedBy(l)' # Tids
        BY <3>1, <3>2, <4>1, NotAllEnded
      <4> QED
        BY <4>2, <4>3
    <3>4. InSection(u)'
      BY <3>1, <3>2, <3>3, StillInSection
    <3>5. Behindhanded(u)'
      BY <3>1, <3>2, StillBehindhanded
    <3> QED
      BY <3>4, <3>5
  <2> QED
    BY <2>1, <2>2
<1>6. ASSUME NEW l \in Loops PROVE TurnsCount(l)' /\ SectionsOf(l)'
  <2>1. \A u \in Tids, j \in 0..Loop(l).tc-1 : Owes(u, l, j)' <=> Owes(u, l, j)
    <3>1. \A u \in Tids : u # t => \A j : Owes(u, l, j)' <=> Owes(u, l, j)
      BY StillIs
    <3>2. \A j : ~Owes(t, l, j) /\ ~Owes(t, l, j)'
      BY DEF Owes
    <3> QED
      BY <3>1, <3>2
  <2>2. TurnsCount(l) /\ SectionsOf(l)
    BY DEF TurnInv
  <2>3. EndedBy(l)' # Tids => EndedBy(l) # Tids /\ Turn(l)' = Turn(l) /\ ran'[l] = ran[l]
    OBVIOUS
  <2>4. TurnsCount(l)'
    BY <2>1, <2>2, <2>3, TurnsCountStays
  <2>5. \A u \in Tids : disp_index[u] = l /\ pc[u] = "section" =>
           disp_index'[u] = l /\ pc'[u] = "section"
    BY DEF Still, Turns
  <2>6. SectionsOf(l)'
    BY <1>1, <1>2, <2>2, <2>5, SectionsOfStays
  <2> QED
    BY <2>4, <2>6
<1> QED
  BY <1>2, <1>3, <1>4, <1>5, <1>6, TurnKeeps

(* A step that leads a thread to another place leaves the others still.     *)
LEMMA OthersStill ==
  ASSUME Typed, NEW t \in Tids, NEW to, Leads(t, to),
         \A u \in Tids : u # t => pr'[u] = pr[u] /\ frame'[u] = frame[u]
  PROVE  pc'[t] = to /\ \A u \in Tids : u # t => Still(u)
BY DEF Typed, Leads, Still

(* What is known when iterations are given out.                             *)
LEMMA HandsIs ==
  ASSUME IInv, DealInv, NEW t \in Tids, NEW l, NEW a, NEW b, Hands(t, l, a, b)
  PROVE  /\ l = disp_index[t] /\ l \in Loops /\ MyLoop(t) = Loop(l) /\ disp_index' = disp_index
         /\ program' = program /\ section' = section
         /\ pc[t] \in Asks /\ pc[t] \notin Turns
         /\ pc'[t] = IF Loop(l).ordered THEN "iteration" ELSE "next"
         /\ \A u \in Tids : u # t => Still(u)
         /\ \A m \in Loops : Turn(m)' = Turn(m) /\ EndedBy(m)' = EndedBy(m)
         /\ Loop(l).ordered => /\ Chunk(t)'.lower = a /\ Chunk(t)'.upper = b
                               /\ Chunk(t)'.bumped = Chunk(t).bumped /\ frame'[t].i = a
         /\ ~Loop(l).ordered => Chunk(t)'.bumped = Chunk(t).bumped
<1>1. /\ l = disp_index[t] /\ l \in Loops /\ pc[t] \in Asks /\ pc[t] \in Inside /\ pc[t] \in Goers
      /\ pc[t] \notin Outside /\ pc[t] \notin Turns
      /\ AfterChunk(t) \in Goers
      /\ Leads(t, AfterChunk(t)) /\ Given(t, a, b)
  BY DEF Hands, Asks, Inside, Goers, AfterChunk, Turns, Outside
<1>2. /\ Typed /\ Shape /\ program' = program /\ disp_index' = disp_index /\ section' = section
      /\ current[t] \in Buffers /\ current[t] = Buffer(l) /\ MyLoop(t) = Loop(l) /\ Chunk(t) = Pr(t)
  BY <1>1, AtWork DEF IInv, DealInv, Leads, Given
<1>3. PICK p \in PrivateParts : SetPr(t, Bounded(t, p, a, b)) /\ p.bumped = Pr(t).bumped
  BY DEF Hands
<1>3i. PICK i : i = IF MyLoop(t).ordered THEN a ELSE 0
  OBVIOUS
<1>4. PICK q : q = Bounded(t, p, a, b)
  OBVIOUS
<1>5. /\ \A u \in Tids : u # t => pr'[u] = pr[u]
      /\ pr'[t][current[t]] = q
  BY <1>2, <1>3, <1>4, PrivateMoves
<1>6. /\ Loop(l).ordered => q.lower = a /\ q.upper = b /\ q.bumped = p.bumped
      /\ ~Loop(l).ordered => q.bumped = p.bumped
  <2>1. PICK r : r = [p EXCEPT !.lower = a, !.upper = b]
    OBVIOUS
  <2>2. r.lower = a /\ r.upper = b /\ r.bumped = p.bumped
    BY <2>1 DEF PrivateParts
  <2> QED
    BY <1>2, <1>4, <2>1, <2>2 DEF Bounded
<1>7. Chunk(t)' = q
  BY <1>1, <1>2, <1>5 DEF Chunk, Buffer
<1>8. /\ \A u \in Tids : u # t => frame'[u] = frame[u]
      /\ frame'[t].i = i
  <2>1. PICK f : f = [NoFrame EXCEPT !.i = i]
    OBVIOUS
  <2>2. f.i = i
    BY <2>1 DEF NoFrame
  <2>3. frame' = [frame EXCEPT ![t] = f]
    BY <1>1, <1>3i, <2>1 DEF Given
  <2> QED
    BY <1>2, <2>2, <2>3 DEF Shape
<1>9. /\ pc'[t] = AfterChunk(t) /\ \A u \in Tids : u # t => Still(u)
  BY <1>1, <1>2, <1>5, <1>8, OthersStill
<1>10. PlacesStay
  BY <1>1, <1>2, GoersStay
<1>11. \A m \in Loops : Turn(m)' = Turn(m)
  <2>1. MovesOn(t)
    BY DEF Hands, MovesOn
  <2> QED
    BY <1>1, <1>2, <2>1, CounterMoves
<1>12. \A m \in Loops : EndedBy(m)' = EndedBy(m)
  BY <1>2, <1>10, SameProgram DEF EndedBy, PlacesStay
<1> QED
  BY <1>1, <1>2, <1>3, <1>3i, <1>6, <1>7, <1>8, <1>9, <1>11, <1>12 DEF AfterChunk

LEMMA HandsTurn ==
  ASSUME IInv, DealInv, TurnInv, NEW t \in Tids, NEW l, NEW a, NEW b, Hands(t, l, a, b)
  PROVE  TurnInv'
<1>1. /\ l = disp_index[t] /\ l \in Loops /\ MyLoop(t) = Loop(l) /\ disp_index' = disp_index
      /\ program' = program /\ section' = section
      /\ pc[t] \in Asks /\ pc[t] \notin Turns
      /\ pc'[t] = IF Loop(l).ordered THEN "iteration" ELSE "next"
      /\ \A u \in Tids : u # t => Still(u)
      /\ \A m \in Loops : Turn(m)' = Turn(m) /\ EndedBy(m)' = EndedBy(m)
      /\ Loop(l).ordered => /\ Chunk(t)'.lower = a /\ Chunk(t)'.upper = b
                            /\ Chunk(t)'.bumped = Chunk(t).bumped /\ frame'[t].i = a
      /\ ~Loop(l).ordered => Chunk(t)'.bumped = Chunk(t).bumped
  BY HandsIs
<1>2. DealtOut(l, a, b) /\ Exactly'
  BY HandsKeeps DEF DealInv
<1>3. PICK tc \in Nat : tc = Loop(l).tc /\ a \in Nat /\ b \in Nat /\ a <= b /\ b < tc
  BY <1>1, LoopIs DEF Hands, IInv
<1>4. /\ \A i \in 0..tc-1 : ran'[l][i] = IF i \in a..b THEN 1 ELSE ran[l][i]
      /\ \A i \in a..b : i \in 0..tc-1 /\ ran[l][i] = 0 /\ ran'[l][i] = 1
      /\ \A m \in Loops : m # l => ran'[m] = ran[m]
  <2>1. \A i \in a..b : i \in 0..tc-1
    BY <1>3
  <2> QED
    BY <1>3, <2>1, <1>2 DEF DealtOut
<1>5. Grows
  BY <1>3, <1>4 DEF Grows
<1>6. /\ Tids' = Tids /\ Loops' = Loops /\ Typed /\ Exactly /\ MyLoop(t)' = Loop(l)
      /\ \A m : Loop(m)' = Loop(m)
  BY <1>1, SameProgram DEF IInv, DealInv, MyLoop
<1>7. section' = [m \in Loops |-> section'[m]]
  BY <1>1 DEF TurnInv
<1>8. ASSUME Loop(l).ordered
      PROVE  /\ Chunk(t)'.bumped = 0 /\ Behindhand(t)' = 0 /\ Open(t)' = a
             /\ pc'[t] = "iteration"
  <2>1. Chunk(t).bumped = 0
    BY <1>1, <1>8 DEF TurnInv, NotBumped, Asks
  <2>2. pc'[t] = "iteration" /\ Behindhand(t)' = 0
    BY <1>1, <1>8 DEF Behindhand
  <2>3. Open(t)' = a
    BY <1>1, <1>3, <1>8, <2>1 DEF Open
  <2> QED
    BY <1>1, <1>8, <2>1, <2>2, <2>3
<1>9. InChunk(t)'
  <2> SUFFICES ASSUME pc'[t] \in Turns PROVE InChunk(t)'
    BY DEF InChunk
  <2>1. Loop(l).ordered
    BY <1>1 DEF Turns
  <2>2. /\ {a, b, a} \subseteq Nat /\ a <= a /\ a <= b /\ b < tc
        /\ 0 <= (IF Loop(l).gomp THEN a - a ELSE 0) + 0
        /\ \A j \in a..b : ran'[l][j] = 1
    BY <1>3, <1>4
  <2> QED
    BY <1>1, <1>3, <1>6, <1>8, <2>1, <2>2 DEF InChunk
<1>10. NotBumped(t)'
  BY <1>1, <1>6 DEF NotBumped
<1>11. ASSUME NEW u \in Tids, u # t PROVE Disjoint(t, u)'
  <2> SUFFICES ASSUME pc'[t] \in Turns, pc'[u] \in Turns, disp_index'[t] = disp_index'[u],
                      NEW j \in Int, Holds(t, j)', Holds(u, j)'
               PROVE  FALSE
    BY DEF Disjoint
  <2>1. Loop(l).ordered
    BY <1>1 DEF Turns
  <2>2. j \in a..b
    BY <1>1, <1>3, <2>1 DEF Holds
  <2>3. Still(u) /\ Holds(u, j)
    BY <1>1, <1>11, StillIs
  <2>4. pc[u] \in Turns /\ disp_index[u] = l
    BY <1>1, <2>3 DEF Still
  <2>5. ran[l][j] = 1
    <3>1. Chunk(u).lower <= j /\ j <= Chunk(u).upper
      BY <2>3 DEF Holds
    <3>2. Chunk(u).lower \in Nat /\ Chunk(u).upper \in Nat
          /\ \A i \in Chunk(u).lower..Chunk(u).upper : ran[l][i] = 1
      BY <2>4, AtTurn
    <3> QED
      BY <3>1, <3>2
  <2> QED
    BY <1>4, <2>2, <2>5
<1>12. ASSUME NEW u \in Tids PROVE InSection(u)' /\ Behindhanded(u)'
  <2>1. CASE u = t
    <3>1. InSection(u)'
      BY <1>1, <2>1 DEF InSection
    <3>2. Behindhanded(u)'
      <4> SUFFICES ASSUME pc'[t] \in Turns
                   PROVE  section'[disp_index'[t]].last < frame'[t].i + Behindhand(t)'
        BY <2>1 DEF Behindhanded
      <4>1. Loop(l).ordered
        BY <1>1 DEF Turns
      <4>2. a \in 0..tc-1 /\ ran[l][a] = 0
        BY <1>3, <1>4
      <4>3. section[l].last < a
        BY <1>1, <1>3, <4>2 DEF TurnInv, SectionsOf
      <4>4. a + 0 = a
        BY <1>3
      <4> QED
        BY <1>1, <1>8, <4>1, <4>3, <4>4
    <3> QED
      BY <3>1, <3>2
  <2>2. CASE u # t
    <3>1. PICK m : m = disp_index[u]
      OBVIOUS
    <3>2. Still(u) /\ InSection(u) /\ Behindhanded(u)
      BY <1>1, <2>2 DEF TurnInv
    <3>3. ASSUME pc[u] = "section"
          PROVE  /\ Turn(m) \in Int /\ Turn(m)' = Turn(m) /\ Turn(m) <= Turn(m)
                 /\ Chunk(u).lower \in Int
      <4>1. pc[u] \in Turns
        BY <3>3 DEF Turns
      <4>2. m \in Loops /\ Turn(m) \in Nat /\ Chunk(u).lower \in Nat
        BY <3>1, <4>1, AtTurn
      <4> QED
        BY <1>1, <4>2
    <3>4. InSection(u)'
      BY <1>1, <3>1, <3>2, <3>3, StillInSection
    <3>5. Behindhanded(u)'
      BY <1>1, <3>1, <3>2, StillBehindhanded
    <3> QED
      BY <3>4, <3>5
  <2> QED
    BY <2>1, <2>2
<1>13. ASSUME NEW m \in Loops PROVE SectionsOf(m)'
  <2>1. SectionsOf(m)
    BY DEF TurnInv
  <2>2. \A u \in Tids : disp_index[u] = m /\ pc[u] = "section" =>
          disp_index'[u] = m /\ pc'[u] = "section"
    BY <1>1 DEF Still, Asks
  <2> QED
    BY <1>1, <1>2, <1>5, <1>6, <2>1, <2>2, SectionsOfStays
<1>14. \A u \in Tids, m \in Loops, j \in Int : u # t => (Owes(u, m, j)' <=> Owes(u, m, j))
  BY <1>1, StillIs
<1>15. \A m, j : ~Owes(t, m, j) /\ (m # l => ~Owes(t, m, j)')
  BY <1>1 DEF Owes
<1>16. ASSUME NEW m \in Loops PROVE TurnsCount(m)'
  <2>1. TurnsCount(m)
    BY DEF TurnInv
  <2>2. CASE m # l
    <3>1. \A u \in Tids, j \in 0..Loop(m).tc-1 : Owes(u, m, j)' <=> Owes(u, m, j)
      BY <1>14, <1>15, <2>2
    <3> QED
      BY <1>1, <1>4, <2>1, <2>2, <3>1, TurnsCountStays
  <2>3. CASE m = l
    <3> SUFFICES ASSUME Loop(l).ordered, EndedBy(l) # Tids
                 PROVE  /\ Turn(l)' \in 0..tc
                        /\ \A j \in 0..tc-1 :
                             j < Turn(l)' <=> ran'[l][j] = 1 /\ \A u \in Tids : ~Owes(u, l, j)'
      BY <1>1, <1>3, <1>6, <2>3 DEF TurnsCount
    <3>1. /\ Turn(l) \in 0..tc
          /\ \A j \in 0..tc-1 : j < Turn(l) <=> ran[l][j] = 1 /\ \A u \in Tids : ~Owes(u, l, j)
      BY <1>3, <2>1, <2>3 DEF TurnsCount
    <3>2. \A j \in Int : Owes(t, l, j)' <=> a <= j /\ j <= b
      BY <1>1, <1>8 DEF Owes, Turns
    <3>3. ASSUME NEW j \in 0..tc-1
          PROVE  j < Turn(l) <=> ran'[l][j] = 1 /\ \A u \in Tids : ~Owes(u, l, j)'
      <4>1. j < Turn(l) <=> ran[l][j] = 1 /\ \A u \in Tids : ~Owes(u, l, j)
        BY <3>1
      <4>2. CASE j \in a..b
        <5>1. Owes(t, l, j)' /\ ran[l][j] = 0
          BY <1>4, <3>2, <4>2
        <5> QED
          BY <4>1, <5>1
      <4>3. CASE j \notin a..b
        <5>1. ~Owes(t, l, j)' /\ ran'[l][j] = ran[l][j]
          BY <1>3, <1>4, <3>2, <4>3
        <5>2. \A u \in Tids : Owes(u, l, j)' <=> Owes(u, l, j)
          BY <1>1, <1>14, <1>15, <5>1
        <5> QED
          BY <4>1, <5>1, <5>2
      <4> QED
        BY <4>2, <4>3
    <3> QED
      BY <1>1, <3>1, <3>3
  <2> QED
    BY <2>2, <2>3
<1> QED
  BY <1>1, <1>5, <1>7, <1>9, <1>10, <1>11, <1>12, <1>13, <1>16, TurnKeeps

(* A step outside of the turns.                                             *)
LEMMA IdleLeads ==
  ASSUME IInv, DealInv, TurnInv, DealInv', NEW t \in Tids, NEW to, Leads(t, to),
         pc[t] \notin Turns, to \notin Turns,
         to \in {"wait", "next", "guided"} => pc[t] \in {"wait", "next", "guided"},
         UNCHANGED <<pr, ran, section>>,
         \A u \in Tids : u # t => frame'[u] = frame[u],
         \A l \in Loops : EndedBy(l)' # Tids => EndedBy(l) # Tids /\ Turn(l)' = Turn(l)
  PROVE  TurnInv'
<1>1. Typed /\ Exactly' /\ program' = program /\ disp_index' = disp_index
  BY DEF IInv, DealInv, Leads
<1>2. pc'[t] = to /\ \A u \in Tids : u # t => Still(u)
  BY <1>1, OthersStill
<1>3. NotBumped(t)'
  <2>1. NotBumped(t)
    BY DEF TurnInv
  <2>2. Chunk(t)' = Chunk(t) /\ MyLoop(t)' = MyLoop(t)
    BY <1>1 DEF Chunk, MyLoop, Loop, Buffer
  <2> QED
    BY <1>2, <2>1, <2>2 DEF NotBumped
<1> QED
  BY <1>1, <1>2, <1>3, IdleKeeps

LEMMA EnterTurn ==
  ASSUME IInv, DealInv, TurnInv, DealInv', NEW t \in Tids, DispatchInit(t)
  PROVE  TurnInv'
<1>1. PICK l : l = disp_index[t] + 1
  OBVIOUS
<1>2. /\ Typed /\ Shape /\ Exactly' /\ program' = program /\ ran' = ran /\ sh' = sh
      /\ section' = section /\ frame' = frame
      /\ pr' = [pr EXCEPT ![t][Buffer(l)] = Private(t, l)]
  BY <1>1 DEF DispatchInit, IInv, DealInv, history
<1>3. /\ l \in Loops /\ pc[t] = "out" /\ pc'[t] = "wait" /\ disp_index'[t] = l
      /\ \A u \in Tids : u # t => pc'[u] = pc[u] /\ disp_index'[u] = disp_index[u]
      /\ \A u \in Tids, m \in Loops : Ended(u, m)' <=> Ended(u, m)
  BY <1>1, <1>2, EnterMoves
<1>4. /\ \A u \in Tids : u # t => Still(u)
      /\ pr'[t][Buffer(l)] = Private(t, l)
  <2>1. Buffer(l) \in Buffers
    BY <1>2, <1>3, LoopIs, BufferIs
  <2> QED
    BY <1>2, <1>3, <2>1 DEF Shape, Still
<1>5. Loop(l).ordered => Private(t, l).bumped = 0
  BY <1>1, NothingPassed
<1>6. NotBumped(t)'
  <2>1. Buffer(l)' = Buffer(l) /\ Loop(l)' = Loop(l)
    BY <1>2, SameProgram
  <2>2. MyLoop(t)' = Loop(l) /\ Chunk(t)' = Private(t, l)
    BY <1>3, <1>4, <2>1 DEF MyLoop, Loop, Chunk, Buffer
  <2> QED
    BY <1>5, <2>2 DEF NotBumped
<1>7. pc[t] \notin Turns /\ pc'[t] \notin Turns
  BY <1>3 DEF Turns
<1>8. \A m \in Loops : EndedBy(m)' # Tids => EndedBy(m) # Tids /\ Turn(m)' = Turn(m)
  <2>1. \A m \in Loops : EndedBy(m)' = EndedBy(m)
    BY <1>2, <1>3, SameProgram DEF EndedBy
  <2> QED
    BY <1>2, <2>1, SharedStays
<1> QED
  BY <1>2, <1>4, <1>6, <1>7, <1>8, IdleKeeps

(* Who has ended a loop, when the places stay.                              *)
LEMMA PlacesEnded ==
  ASSUME program' = program, PlacesStay
  PROVE  \A m \in Loops : EndedBy(m)' = EndedBy(m)
BY SameProgram DEF PlacesStay, EndedBy

LEMMA AskTurn ==
  ASSUME IInv, DealInv, TurnInv, DealInv', NEW t \in Tids,
         WaitForBuffer(t) \/ GuidedRead(t) \/
         (Goes(t, "guided", "next") /\ UNCHANGED <<program, disp_index, pr, current, sh, frame, ran, section>>)
  PROVE  TurnInv'
<1>1. Typed
  BY DEF IInv
<1>2. PICK to \in {"next", "guided"} : Leads(t, to)
  <2>1. WaitForBuffer(t) => Leads(t, "next")
    <3>1. pc[t] = "wait" => Schedule(MyLoop(t)) # "static_steal"
      BY DEF DealInv, Waited, Plain, PlainSchedules, MyLoop
    <3> QED
      BY <3>1 DEF WaitForBuffer, Goes, Leads
  <2>2. GuidedRead(t) => Leads(t, "guided")
    BY DEF GuidedRead, Goes, Leads
  <2> QED
    BY <2>1, <2>2 DEF Goes, Leads
<1>3. /\ pc[t] \in {"wait", "next", "guided"} /\ UNCHANGED <<pr, ran, section>> /\ sh' = sh
      /\ program' = program /\ \A u \in Tids : u # t => frame'[u] = frame[u]
  <2>1. frame' = frame \/ frame' = [frame EXCEPT ![t].init = Sh(t).iteration]
    BY DEF WaitForBuffer, GuidedRead
  <2>2. \A u \in Tids : u # t => frame'[u] = frame[u]
    BY <2>1 DEF DealInv, Shape
  <2>3. pc[t] \in {"wait", "next", "guided"} /\ UNCHANGED <<pr, ran, section>> /\ sh' = sh
        /\ program' = program
    BY DEF WaitForBuffer, GuidedRead, Goes, history
  <2> QED
    BY <2>2, <2>3
<1>4. \A l \in Loops : EndedBy(l)' = EndedBy(l)
  <2>1. pc[t] \in Goers /\ to \in Goers
    BY <1>3 DEF Goers, Inside
  <2> QED
    BY <1>1, <1>2, <1>3, <2>1, GoersStay, PlacesEnded
<1>5. pc[t] \notin Turns /\ to \notin Turns
  BY <1>3 DEF Turns
<1> QED
  BY <1>2, <1>3, <1>4, <1>5, SharedStays, IdleLeads

LEMMA TellsTurn ==
  ASSUME IInv, DealInv, TurnInv, DealInv', NEW t \in Tids, NEW l, Tells(t, l)
  PROVE  TurnInv'
<1>1. /\ l = disp_index[t] /\ l \in Loops /\ pc[t] \in Asks /\ pc[t] \in Goers
      /\ pc[t] \notin Outside \/ pc[t] = "wait"
      /\ Leads(t, "end") /\ pc[t] \notin Turns /\ "end" \notin Turns
      /\ program' = program
      /\ UNCHANGED <<pr, ran, section>>
      /\ frame' = [frame EXCEPT ![t] = NoFrame]
  BY DEF Tells, Asks, Goers, Inside, Turns, Outside, Leads
<1>2. pc[t] \notin Outside
  BY DEF Tells, Asks, Outside
<1>3. \A u \in Tids : u # t => frame'[u] = frame[u]
  BY <1>1 DEF DealInv, Shape
<1>4. \A m \in Loops : Turn(m)' = Turn(m)
  <2>1. MovesOn(t)
    BY DEF Tells, MovesOn
  <2> QED
    BY <1>1, <1>2, <2>1, CounterMoves
<1>5. ASSUME NEW m \in Loops, EndedBy(m)' # Tids PROVE EndedBy(m) # Tids
  <2>1. \A u \in Tids : Ended(u, m) => Ended(u, m)'
    BY <1>1, GoerEnds DEF IInv
  <2>2. Tids' = Tids
    BY <1>1, SameProgram
  <2> QED
    BY <1>5, <2>1, <2>2 DEF EndedBy
<1> QED
  BY <1>1, <1>3, <1>4, <1>5, IdleLeads

(* The end of a loop.                                                       *)
LEMMA LeaverTurn ==
  ASSUME IInv, DealInv, TurnInv, DealInv', NEW t \in Tids,
         CountDone(t) \/ ResetBuffer(t) \/ ReleaseBuffer(t)
  PROVE  TurnInv'
<1>1. /\ pc[t] \in Leavers /\ UNCHANGED <<pr, ran, section, frame>> /\ program' = program
      /\ Typed /\ pc[t] \notin Turns
  BY DEF CountDone, ResetBuffer, ReleaseBuffer, LeaveLoop, Goes, Leavers, Ending, history, IInv, Turns
<1>2. /\ disp_index[t] \in Loops /\ pc[t] \notin Outside
      /\ Schedule(MyLoop(t)) # "static_steal" /\ IsPart(Sh(t))
      /\ pc[t] \in Ending => EndedBy(disp_index[t]) = Tids
  BY <1>1, EndIs
<1>3. PICK to \in {"out", "reset", "release"} : Leads(t, to)
  BY <1>2 DEF CountDone, ResetBuffer, ReleaseBuffer, LeaveLoop, Goes, Leads
<1>4. \A l \in Loops : EndedBy(l)' = EndedBy(l)
  <2>1. to \in Leavers \cup {"out"}
    BY DEF Leavers, Ending
  <2> QED
    BY <1>1, <1>3, <2>1, LeaversStay, PlacesEnded
<1>5. ASSUME NEW l \in Loops, EndedBy(l) # Tids PROVE Turn(l)' = Turn(l)
  <2>1. CASE CountDone(t)
    <3>1. PICK p : p = [Sh(t) EXCEPT !.num_done = @ + 1]
      OBVIOUS
    <3>2. /\ p.buffer_index = Sh(t).buffer_index
          /\ p.ordered_iteration = Sh(t).ordered_iteration
      BY <1>2, <3>1 DEF IsPart
    <3>3. sh' = [sh EXCEPT ![current[t]] = p]
      BY <2>1, <3>1 DEF CountDone, SetSh
    <3> QED
      BY <1>1, <1>2, <3>2, <3>3, SharedMoves
  <2>2. CASE ResetBuffer(t)
    <3>1. PICK p : p = Fresh(Sh(t), MyLoop(t).ordered)
      OBVIOUS
    <3>2. p.buffer_index = Sh(t).buffer_index
      BY <1>2, <3>1 DEF IsPart, Fresh
    <3>3. sh' = [sh EXCEPT ![current[t]] = p]
      BY <2>2, <3>1 DEF ResetBuffer, SetSh
    <3>4. l # disp_index[t]
      BY <1>2, <1>5, <2>2 DEF ResetBuffer, Goes, Ending
    <3> QED
      BY <1>1, <1>2, <3>2, <3>3, <3>4, SharedMoves
  <2>3. CASE ReleaseBuffer(t)
    BY <1>5, <2>3, ReleaseMoves
  <2> QED
    BY <2>1, <2>2, <2>3
<1>6. to \notin Turns /\ to \notin {"wait", "next", "guided"}
  BY DEF Turns
<1> QED
  BY <1>1, <1>3, <1>4, <1>5, <1>6, IdleLeads

-----------------------------------------------------------------------------
(* The steps of ordered chunks.                                             *)

LEMMA TurnsOnCount ==
  ASSUME IInv, DealInv, TurnInv, NEW t \in Tids, pc[t] \in Turns, NEW l, l = disp_index[t],
         NEW k \in Nat, TurnsOn(t, l, k)
  PROVE  TurnsCount(l)'
<1>1. /\ program' = program /\ disp_index' = disp_index /\ ran' = ran
      /\ \A u \in Tids : u # t => Still(u)
      /\ Turn(l)' = Turn(l) + k
      /\ k > 0 => Turn(l) = Open(t) /\ Open(t) + k <= Chunk(t).upper + 1
      /\ Chunk(t)'.upper = Chunk(t).upper
      /\ IF pc'[t] \in Turns THEN Open(t)' = Open(t) + k ELSE Chunk(t).upper < Open(t) + k
  BY DEF TurnsOn
<1>2. l \in Loops /\ Loop(l)' = Loop(l) /\ Tids' = Tids
  BY <1>1, SameProgram, AtTurn
<1>3. PICK o \in Nat, a \in Nat, b \in Nat, tc \in Nat, n \in Nat :
        /\ o = Open(t) /\ a = Chunk(t).lower /\ b = Chunk(t).upper /\ tc = Loop(l).tc /\ n = Turn(l)
        /\ a <= o /\ o <= b + 1 /\ b < tc /\ n <= tc
  <2>1. /\ Open(t) \in Nat /\ Chunk(t).lower \in Nat /\ Chunk(t).upper \in Nat /\ Loop(l).tc \in Nat
        /\ Turn(l) \in Nat /\ Turn(l) \in 0..Loop(l).tc
        /\ Chunk(t).lower <= Open(t) /\ Open(t) <= Chunk(t).upper + 1 /\ Chunk(t).upper < Loop(l).tc
    BY AtTurn
  <2>2. Turn(l) <= Loop(l).tc
    BY <2>1
  <2> QED
    BY <2>1, <2>2
<1>4. /\ \A j \in 0..tc-1 : j < n <=> ran[l][j] = 1 /\ \A u \in Tids : ~Owes(u, l, j)
      /\ \A j : Owes(t, l, j) <=> o <= j /\ j <= b
      /\ \A j \in a..b : ran[l][j] = 1
  BY <1>3, AtTurn
<1>5. \A j \in Int : Owes(t, l, j)' <=> o + k <= j /\ j <= b
  <2>1. CASE pc'[t] \in Turns
    BY <1>1, <1>3, <2>1 DEF Owes
  <2>2. CASE pc'[t] \notin Turns
    <3>1. \A j : ~Owes(t, l, j)'
      BY <2>2 DEF Owes
    <3>2. b < o + k
      BY <1>1, <1>3, <2>2
    <3> QED
      BY <1>3, <3>1, <3>2
  <2> QED
    BY <2>1, <2>2
<1>6. \A u \in Tids : u # t => \A j : Owes(u, l, j)' <=> Owes(u, l, j)
  BY <1>1, StillIs
<1>7. k > 0 => n = o /\ o + k <= b + 1
  BY <1>1, <1>3
<1>8. n + k \in 0..tc
  BY <1>3, <1>7
<1>9. ASSUME NEW j \in 0..tc-1
      PROVE  j < n + k <=> ran[l][j] = 1 /\ \A u \in Tids : ~Owes(u, l, j)'
  <2>1. j < n <=> ran[l][j] = 1 /\ \A u \in Tids : ~Owes(u, l, j)
    BY <1>4
  <2>2. j \in Int
    OBVIOUS
  <2>3. CASE k = 0
    <3>1. Owes(t, l, j)' <=> Owes(t, l, j)
      BY <1>3, <1>4, <1>5, <2>2, <2>3
    <3>2. \A u \in Tids : Owes(u, l, j)' <=> Owes(u, l, j)
      BY <1>6, <3>1
    <3>3. n + k = n
      BY <1>3, <2>3
    <3> QED
      BY <2>1, <3>2, <3>3
  <2>4. CASE k > 0 /\ j < o
    <3>1. j < n /\ j < n + k /\ ~(o + k <= j)
      BY <1>3, <1>7, <2>2, <2>4
    <3>2. ~Owes(t, l, j)'
      BY <1>5, <2>2, <3>1
    <3> QED
      BY <1>6, <2>1, <3>1, <3>2
  <2>5. CASE k > 0 /\ o <= j /\ j < o + k
    <3>1. j < n + k /\ ~(o + k <= j) /\ a <= j /\ j <= b /\ j \in a..b
      BY <1>3, <1>7, <2>2, <2>5
    <3>2. ~Owes(t, l, j)' /\ ran[l][j] = 1
      BY <1>4, <1>5, <2>2, <3>1
    <3>3. \A u \in Tids : u # t => ~Owes(u, l, j)
      BY <1>3, <2>2, <3>1, HoldsAlone
    <3> QED
      BY <1>6, <3>1, <3>2, <3>3
  <2>6. CASE k > 0 /\ o + k <= j
    <3>1. ~(j < n + k) /\ ~(j < n) /\ o <= j
      BY <1>3, <1>7, <2>2, <2>6
    <3>2. Owes(t, l, j)' <=> Owes(t, l, j)
      BY <1>4, <1>5, <2>2, <2>6, <3>1
    <3>3. \A u \in Tids : Owes(u, l, j)' <=> Owes(u, l, j)
      BY <1>6, <3>2
    <3> QED
      BY <2>1, <3>1, <3>3
  <2>7. k = 0 \/ (k > 0 /\ j < o) \/ (k > 0 /\ o <= j /\ j < o + k) \/ (k > 0 /\ o + k <= j)
    BY <1>3, <2>2
  <2> QED
    BY <2>3, <2>4, <2>5, <2>6, <2>7
<1>10. Loop(l)'.tc = tc /\ Turn(l)' = n + k
  BY <1>1, <1>2, <1>3
<1>11. TurnsCount(l)' <=>
         (Loop(l)'.ordered /\ EndedBy(l)' # Tids' =>
            /\ n + k \in 0..tc
            /\ \A j \in 0..tc-1 :
                 j < n + k <=> ran[l][j] = 1 /\ \A u \in Tids : ~Owes(u, l, j)')
  BY <1>1, <1>2, <1>10 DEF TurnsCount
<1> QED
  BY <1>8, <1>9, <1>11

(* Such a step keeps TurnInv if it does so of the thread and the sections.  *)
LEMMA TurnsOnKeeps ==
  ASSUME IInv, DealInv, TurnInv, NEW t \in Tids, pc[t] \in Turns, NEW l, l = disp_index[t],
         NEW k \in Nat, TurnsOn(t, l, k),
         InChunk(t)', NotBumped(t)', InSection(t)', Behindhanded(t)',
         section' = [m \in Loops |-> section'[m]],
         \A m \in Loops : SectionsOf(m)',
         \A u \in Tids : u # t =>
           /\ pc[u] = "section" => section'[disp_index[u]].in = section[disp_index[u]].in
           /\ Behindhanded(u)'
  PROVE  TurnInv'
<1>1. /\ program' = program /\ disp_index' = disp_index /\ ran' = ran
      /\ \A u \in Tids : u # t => Still(u)
      /\ Turn(l)' = Turn(l) + k /\ \A m \in Loops : m # l => Turn(m)' = Turn(m)
      /\ Chunk(t)'.lower = Chunk(t).lower /\ Chunk(t)'.upper = Chunk(t).upper
      /\ \A m \in Loops : EndedBy(m)' = EndedBy(m)
  BY DEF TurnsOn
<1>2. l \in Loops /\ Turn(l) \in Nat
  BY AtTurn
<1>3. Grows
  BY <1>1 DEF Grows
<1>4. ASSUME NEW u \in Tids, u # t PROVE Disjoint(t, u)'
  <2>1. \A j : Holds(t, j)' <=> Holds(t, j)
    BY <1>1 DEF Holds
  <2>2. \A j : Holds(u, j)' <=> Holds(u, j)
    BY <1>1, <1>4, StillIs
  <2>3. Disjoint(t, u) /\ pc'[u] = pc[u]
    BY <1>1, <1>4 DEF TurnInv, Still
  <2> QED
    BY <1>1, <2>1, <2>2, <2>3 DEF Disjoint
<1>5. ASSUME NEW u \in Tids, u # t PROVE InSection(u)'
  <2>1. PICK m : m = disp_index[u]
    OBVIOUS
  <2>2. ASSUME pc[u] = "section"
        PROVE  /\ Turn(m) \in Int /\ Turn(m)' \in Int /\ Turn(m) <= Turn(m)'
               /\ Chunk(u).lower \in Int /\ section'[m].in = section[m].in
    <3>1. pc[u] \in Turns
      BY <2>2 DEF Turns
    <3>2. m \in Loops /\ Turn(m) \in Nat /\ Chunk(u).lower \in Nat
      BY <2>1, <3>1, AtTurn
    <3>3. Turn(m)' = Turn(m) \/ Turn(m)' = Turn(m) + k
      BY <1>1, <3>2
    <3> QED
      BY <1>5, <2>1, <2>2, <3>2, <3>3
  <2>3. Still(u) /\ InSection(u)
    BY <1>1, <1>5 DEF TurnInv
  <2> QED
    BY <1>1, <2>1, <2>2, <2>3, StillInSection
<1>6. ASSUME NEW m \in Loops PROVE TurnsCount(m)'
  <2>1. CASE m = l
    BY <2>1, TurnsOnCount
  <2>2. CASE m # l
    <3>1. \A u \in Tids, j \in 0..Loop(m).tc-1 : Owes(u, m, j)' <=> Owes(u, m, j)
      <4>1. \A j : ~Owes(t, m, j) /\ ~Owes(t, m, j)'
        BY <1>1, <2>2 DEF Owes
      <4>2. \A u \in Tids : u # t => \A j : Owes(u, m, j)' <=> Owes(u, m, j)
        BY <1>1, StillIs
      <4> QED
        BY <4>1, <4>2
    <3>2. TurnsCount(m) /\ Turn(m)' = Turn(m) /\ ran'[m] = ran[m]
      BY <1>1, <2>2 DEF TurnInv
    <3>3. EndedBy(m)' # Tids => EndedBy(m) # Tids
      BY <1>1
    <3> QED
      BY <1>1, <3>1, <3>2, <3>3, TurnsCountStays
  <2> QED
    BY <2>1, <2>2
<1> QED
  BY <1>1, <1>3, <1>4, <1>5, <1>6, TurnKeeps

LEMMA TurnsOnIs ==
  ASSUME IInv, DealInv, TurnInv, NEW t \in Tids, NEW l, NEW to \in Turns \cup {"next"},
         NEW x \in Nat, NEW i, NEW k \in Nat, pc[t] \in Turns, l = disp_index[t],
         Changes(t, l, to, x, i, k), Fits(t, l, to, x, i, k)
  PROVE  Turned(t, l, to, i, k)
<1>c. /\ Leads(t, to) /\ ran' = ran
      /\ (pr' = pr /\ x = Chunk(t).bumped) \/ Bumps(t, x)
      /\ (frame' = frame /\ i = frame[t].i) \/ frame' = [frame EXCEPT ![t].i = i]
      /\ \/ sh' = sh /\ k = 0
         \/ SetSh(t, [Sh(t) EXCEPT !.ordered_iteration = Turn(l) + k])
  BY DEF Changes
<1>f. /\ k > 0 => Turn(l) = Open(t) /\ Open(t) + k <= Chunk(t).upper + 1
      /\ to \in Turns =>
           /\ x + (IF Loop(l).gomp THEN Chunk(t).lower ELSE i) = Open(t) + k
           /\ i \in Nat /\ Chunk(t).lower <= i /\ i <= Chunk(t).upper
           /\ x <= (IF Loop(l).gomp THEN i - Chunk(t).lower ELSE 0) + (IF to = "finish" THEN 1 ELSE 0)
      /\ to = "next" => Chunk(t).upper < Open(t) + k /\ x = 0
  BY DEF Fits
<1>1. /\ Typed /\ Shape /\ program' = program /\ disp_index' = disp_index
      /\ pc[t] \in Goers /\ to \in Goers
  BY <1>c DEF IInv, DealInv, Leads, Goers, Turns, Inside
<1>2. /\ l \in Loops /\ MyLoop(t) = Loop(l) /\ pc[t] \notin Outside
      /\ current[t] \in Buffers /\ current[t] = Buffer(l) /\ Chunk(t) = Pr(t)
      /\ Chunk(t).lower \in Nat /\ Chunk(t).upper \in Nat /\ Chunk(t).upper < Loop(l).tc
      /\ Turn(l) \in Nat /\ Open(t) \in Nat
      /\ \A j \in Chunk(t).lower..Chunk(t).upper : ran[l][j] = 1
  BY AtTurn
<1>3. /\ \A u \in Tids : u # t => pr'[u] = pr[u]
      /\ pr'[t][Buffer(l)].lower = Chunk(t).lower /\ pr'[t][Buffer(l)].upper = Chunk(t).upper
      /\ pr'[t][Buffer(l)].bumped = x
  <2>1. CASE pr' = pr /\ x = Chunk(t).bumped
    BY <1>2, <2>1 DEF Pr
  <2>2. CASE Bumps(t, x)
    <3>1. /\ pr'[t][current[t]].lower = pr[t][current[t]].lower
          /\ pr'[t][current[t]].upper = pr[t][current[t]].upper
          /\ pr'[t][current[t]].bumped = x
      BY <1>1, <1>2, <2>2, BumpsKeep
    <3>2. \A u \in Tids : u # t => pr'[u] = pr[u]
      BY <1>1, <1>2, <2>2, PrivateMoves DEF Bumps
    <3> QED
      BY <1>2, <3>1, <3>2 DEF Pr
  <2> QED
    BY <1>c, <2>1, <2>2
<1>4. Buffer(l)' = Buffer(l) /\ Loop(l)' = Loop(l)
  BY <1>1, SameProgram
<1>5. /\ Chunk(t)' = pr'[t][Buffer(l)] /\ MyLoop(t)' = Loop(l) /\ disp_index'[t] = l
  BY <1>1, <1>4 DEF Chunk, MyLoop, Buffer, Loop
<1>6. Chunk(t)'.lower = Chunk(t).lower /\ Chunk(t)'.upper = Chunk(t).upper /\ Chunk(t)'.bumped = x
  BY <1>3, <1>5
<1>7. frame'[t].i = i /\ \A u \in Tids : u # t => frame'[u] = frame[u]
  <2>1. frame = [u \in Tids |-> frame[u]] /\ frame[t] \in Frames
    BY <1>1 DEF Shape
  <2>2. PICK f : f = [frame[t] EXCEPT !.i = i] /\ f.i = i
    <3>1. PICK f : f = [frame[t] EXCEPT !.i = i]
      OBVIOUS
    <3>2. f.i = i
      BY <2>1, <3>1 DEF Frames
    <3> QED
      BY <3>1, <3>2
  <2>3. frame' = frame \/ frame' = [frame EXCEPT ![t] = f]
    BY <1>c, <2>2
  <2>4. CASE frame' = [frame EXCEPT ![t].i = i]
    <3>1. frame' = [frame EXCEPT ![t] = f]
      BY <2>2, <2>4
    <3> QED
      BY <2>1, <2>2, <3>1
  <2> QED
    BY <1>c, <2>4
<1>8. pc'[t] = to /\ \A u \in Tids : u # t => Still(u)
  BY <1>1, <1>3, <1>7, <1>c, OthersStill
<1>9. Turn(l)' = Turn(l) + k /\ \A m \in Loops : m # l => Turn(m)' = Turn(m)
  <2>1. CASE sh' = sh /\ k = 0
    <3>1. \A m \in Loops : Turn(m)' = Turn(m)
      BY <2>1, SharedStays
    <3>2. Turn(l) + 0 = Turn(l)
      BY <1>2
    <3> QED
      BY <1>2, <2>1, <3>1, <3>2
  <2>2. CASE SetSh(t, [Sh(t) EXCEPT !.ordered_iteration = Turn(l) + k])
    BY <1>1, <1>2, <2>2, TurnMoves
  <2> QED
    BY <1>c, <2>1, <2>2
<1>10. \A m \in Loops : EndedBy(m)' = EndedBy(m)
  BY <1>1, <1>c, GoersStay, PlacesEnded
<1>11. Behindhand(t)' = IF to = "finish" THEN 1 ELSE 0
  BY <1>8 DEF Behindhand
<1>12. to \in Turns => Open(t)' = Open(t) + k
  <2>1. Open(t)' = x + IF Loop(l).gomp THEN Chunk(t).lower ELSE i
    BY <1>5, <1>6, <1>7 DEF Open
  <2> QED
    BY <1>f, <2>1
<1>13. TurnsOn(t, l, k)
  <2>1. IF pc'[t] \in Turns THEN Open(t)' = Open(t) + k ELSE Chunk(t).upper < Open(t) + k
    BY <1>8, <1>12, <1>f
  <2> QED
    BY <1>1, <1>6, <1>8, <1>9, <1>10, <1>c, <1>f, <2>1 DEF TurnsOn
<1>14. InChunk(t)'
  <2> SUFFICES ASSUME to \in Turns PROVE InChunk(t)'
    BY <1>8 DEF InChunk
  <2>1. PICK h \in {0, 1} : h = IF to = "finish" THEN 1 ELSE 0
    OBVIOUS
  <2>2. PICK g, a, b : g = Loop(l).gomp /\ a = Chunk(t).lower /\ b = Chunk(t).upper
    OBVIOUS
  <2>3. /\ {a, b, i} \subseteq Nat /\ a <= i /\ i <= b /\ b < Loop(l).tc
        /\ x <= (IF g THEN i - a ELSE 0) + h
        /\ \A j \in a..b : ran'[l][j] = 1
    BY <1>2, <1>c, <1>f, <2>1, <2>2
  <2> QED
    BY <1>5, <1>6, <1>7, <1>11, <2>1, <2>2, <2>3 DEF InChunk
<1>15. NotBumped(t)'
  <2>1. to \in {"wait", "next", "guided"} => x = 0
    BY <1>f DEF Turns
  <2> QED
    BY <1>6, <1>8, <2>1 DEF NotBumped
<1> QED
  BY <1>5, <1>6, <1>7, <1>8, <1>11, <1>12, <1>13, <1>14, <1>15 DEF Turned

(* Sections are left alone.                                                 *)
LEMMA NoSection ==
  ASSUME IInv, DealInv, TurnInv, DealInv', NEW t \in Tids, pc[t] \in Turns, NEW l, l = disp_index[t],
         NEW k \in Nat, TurnsOn(t, l, k),
         section' = section, pc[t] # "section", pc'[t] # "section",
         InChunk(t)', NotBumped(t)', Behindhanded(t)'
  PROVE  TurnInv'
<1>1. /\ program' = program /\ disp_index' = disp_index /\ ran' = ran
      /\ \A u \in Tids : u # t => Still(u)
  BY DEF TurnsOn
<1>2. Loops' = Loops /\ Exactly /\ Exactly' /\ Grows
  BY <1>1, SameProgram DEF DealInv, Grows
<1>3. InSection(t)'
  BY DEF InSection
<1>4. ASSUME NEW m \in Loops PROVE SectionsOf(m)'
  <2>1. \A u \in Tids : disp_index[u] = m /\ pc[u] = "section" =>
          disp_index'[u] = m /\ pc'[u] = "section"
    BY <1>1 DEF Still
  <2>2. SectionsOf(m)
    BY DEF TurnInv
  <2> QED
    BY <1>1, <1>2, <2>1, <2>2, SectionsOfStays
<1>5. \A u \in Tids : u # t => Behindhanded(u)'
  BY <1>1, StillBehindhanded DEF TurnInv
<1>6. section' = [m \in Loops |-> section'[m]]
  BY DEF TurnInv
<1> QED
  BY <1>2, <1>3, <1>4, <1>5, <1>6, TurnsOnKeeps

(* What a chunk has counted of the iterations that are begun.               *)
LEMMA ChunkIs ==
  ASSUME IInv, DealInv, TurnInv, NEW t \in Tids, pc[t] \in Turns, NEW l, l = disp_index[t]
  PROVE  /\ Loop(l).gomp \in BOOLEAN
         /\ Chunk(t).bumped <= (IF Loop(l).gomp THEN frame[t].i - Chunk(t).lower ELSE 0)
                               + Behindhand(t)
         /\ Open(t) = Chunk(t).bumped + IF Loop(l).gomp THEN Chunk(t).lower ELSE frame[t].i
<1>1. InChunk(t) /\ Loop(l).gomp \in BOOLEAN /\ MyLoop(t) = Loop(l)
  BY LoopIs, AtTurn DEF TurnInv, IInv
<1>2. Chunk(t).bumped <= (IF Loop(l).gomp THEN frame[t].i - Chunk(t).lower ELSE 0) + Behindhand(t)
  BY <1>1 DEF InChunk
<1>3. Open(t) = Chunk(t).bumped + IF Loop(l).gomp THEN Chunk(t).lower ELSE frame[t].i
  BY <1>1 DEF Open
<1> QED
  BY <1>1, <1>2, <1>3

(* Nobody is in a section when a thread begins one, and the last one lies   *)
(* behind.                                                                  *)
LEMMA EnterOrderedIs ==
  ASSUME IInv, DealInv, TurnInv, NEW t \in Tids, EnterOrdered(t), NEW l, l = disp_index[t]
  PROVE  /\ pc[t] \in Turns /\ l \in Loops /\ Loop(l).ordered
         /\ section[l].in = Null /\ section[l].last < frame[t].i
         /\ frame[t].i \in 0..Loop(l).tc-1 /\ ran[l][frame[t].i] = 1
         /\ Chunk(t).lower <= Turn(l) /\ Open(t) <= Chunk(t).upper
         /\ section' = [section EXCEPT ![l].in = frame[t].i]
<1>1. pc[t] = "iteration" /\ pc[t] \in Turns /\ MyTurn(t) /\ Behindhand(t) = 0
      /\ section' = [section EXCEPT ![l].in = frame[t].i]
  BY DEF EnterOrdered, Goes, Turns, Behindhand
<1>2. PICK o \in Nat, a \in Nat, b \in Nat, tc \in Nat, n \in Nat, i \in Nat :
        /\ o = Open(t) /\ a = Chunk(t).lower /\ b = Chunk(t).upper /\ tc = Loop(l).tc
        /\ n = Turn(l) /\ i = frame[t].i
        /\ a <= o /\ o <= i + 0 /\ a <= i /\ i <= b /\ b < tc
  BY <1>1, AtTurn
<1>3. l \in Loops /\ Loop(l).ordered /\ Chunk(t) = Pr(t) /\ n = Sh(t).ordered_iteration
  BY <1>1, <1>2, AtTurn
<1>4. a <= n
  <2>1. n >= a
    BY <1>1, <1>2, <1>3 DEF MyTurn
  <2> QED
    BY <2>1
<1>5. o <= b
  BY <1>2
<1>6. i \in a..b /\ i \in 0..tc-1
  BY <1>2
<1>7. ran[l][i] = 1
  BY <1>1, <1>2, <1>6, AtTurn
<1>8. section[l].in = Null
  <2> SUFFICES ASSUME section[l].in # Null PROVE FALSE
    OBVIOUS
  <2>1. PICK u \in Tids : disp_index[u] = l /\ pc[u] = "section"
    BY <1>3 DEF TurnInv, SectionsOf
  <2>2. pc[u] \in Turns /\ Open(u) <= Chunk(u).upper /\ Chunk(u).lower <= Turn(l)
    BY <2>1, InTurn
  <2>3. t = u
    BY <1>1, <1>2, <1>4, <1>5, <2>1, <2>2, OneTurn
  <2> QED
    BY <1>1, <2>1, <2>3
<1>9. section[l].last < i
  <2>1. section[l].last < i + 0
    BY <1>1, <1>2, <1>5 DEF TurnInv, Behindhanded
  <2> QED
    BY <1>2, <2>1
<1> QED
  BY <1>1, <1>2, <1>3, <1>4, <1>5, <1>6, <1>7, <1>8, <1>9

LEMMA EnterOrderedTurn ==
  ASSUME IInv, DealInv, TurnInv, DealInv', NEW t \in Tids, EnterOrdered(t)
  PROVE  TurnInv'
<1>1. PICK l : l = disp_index[t]
  OBVIOUS
<1>2. /\ pc[t] \in Turns /\ l \in Loops
      /\ section[l].in = Null /\ section[l].last < frame[t].i
      /\ Chunk(t).lower <= Turn(l) /\ Open(t) <= Chunk(t).upper
      /\ section' = [section EXCEPT ![l].in = frame[t].i]
  BY <1>1, EnterOrderedIs
<1>3. /\ pc[t] = "iteration" /\ Behindhand(t) = 0 /\ Leads(t, "section") /\ "section" \in Turns
      /\ ran' = ran /\ pr' = pr /\ frame' = frame /\ sh' = sh
      /\ program' = program /\ disp_index' = disp_index
  BY DEF EnterOrdered, Goes, Turns, Behindhand, Leads
<1>4. PICK o \in Nat, a \in Nat, b \in Nat, i \in Nat, x \in Nat, n \in Nat, g \in BOOLEAN :
        /\ o = Open(t) /\ a = Chunk(t).lower /\ b = Chunk(t).upper /\ i = frame[t].i
        /\ x = Chunk(t).bumped /\ n = Turn(l) /\ g = Loop(l).gomp
        /\ a <= i /\ i <= b
        /\ x <= (IF g THEN i - a ELSE 0) + 0
        /\ o = x + IF g THEN a ELSE i
  BY <1>1, <1>2, <1>3, AtTurn, ChunkIs
<1>k. PICK k \in Nat : k = 0
  OBVIOUS
<1>5. /\ TurnsOn(t, l, k) /\ InChunk(t)' /\ NotBumped(t)'
      /\ pc'[t] = "section" /\ frame'[t].i = i /\ disp_index'[t] = l
      /\ Chunk(t)'.lower = a /\ Chunk(t)'.upper = b /\ Behindhand(t)' = 0
  <2>1. ~(k > 0) /\ "section" \in Turns \cup {"next"} /\ "section" # "next"
    BY <1>k DEF Turns
  <2>2. x + (IF Loop(l).gomp THEN Chunk(t).lower ELSE i) = Open(t) + k
    <3>1. o + k = o
      BY <1>4, <1>k
    <3> QED
      BY <1>4, <3>1
  <2>3. x <= (IF Loop(l).gomp THEN i - Chunk(t).lower ELSE 0)
             + (IF "section" = "finish" THEN 1 ELSE 0)
    <3>1. (IF "section" = "finish" THEN 1 ELSE 0) = 0
      OBVIOUS
    <3> QED
      BY <1>4, <3>1
  <2>4. i \in Nat /\ Chunk(t).lower <= i /\ i <= Chunk(t).upper
    BY <1>4
  <2>5. Fits(t, l, "section", x, i, k)
    BY <2>1, <2>2, <2>3, <2>4 DEF Fits
  <2>6. Changes(t, l, "section", x, i, k)
    BY <1>3, <1>4, <1>k DEF Changes
  <2>7. Turned(t, l, "section", i, k)
    BY <1>1, <1>2, <2>1, <2>5, <2>6, TurnsOnIs
  <2>8. (IF "section" = "finish" THEN 1 ELSE 0) = 0
    OBVIOUS
  <2> QED
    BY <1>4, <2>7, <2>8 DEF Turned
<1>6. /\ \A u \in Tids : u # t => Still(u)
      /\ Turn(l)' = n
  <2>1. Turn(l)' = n + k
    BY <1>4, <1>5 DEF TurnsOn
  <2> QED
    BY <1>4, <1>5, <1>k, <2>1 DEF TurnsOn
<1>7. /\ section = [m \in Loops |-> section[m]] /\ Loops' = Loops
      /\ section' = [m \in Loops |-> section'[m]]
      /\ \A m \in Loops : m # l => section'[m] = section[m]
      /\ section'[l].in = i /\ section'[l].last = section[l].last
      /\ section'[l] \in [last : Int, in : Int]
  <2>1. section = [m \in Loops |-> section[m]] /\ Loops' = Loops /\ section[l] \in [last : Int, in : Int]
    BY <1>2, <1>3, SameProgram DEF TurnInv, SectionsOf
  <2>2. PICK r \in [last : Int, in : Int], s \in [last : Int, in : Int] :
          r = section[l] /\ s = [r EXCEPT !.in = i] /\ s.in = i /\ s.last = r.last
    <3>1. PICK r \in [last : Int, in : Int] : r = section[l]
      BY <2>1
    <3>2. PICK s : s = [r EXCEPT !.in = i]
      OBVIOUS
    <3>3. s.in = i /\ s.last = r.last
      BY <3>2
    <3>4. s \in [last : Int, in : Int]
      BY <3>2
    <3> QED
      BY <3>1, <3>2, <3>3, <3>4
  <2>3. s.in = i /\ s.last = section[l].last /\ s \in [last : Int, in : Int]
    BY <2>2
  <2>4. section' = [section EXCEPT ![l] = s]
    BY <1>2, <1>4, <2>2
  <2> QED
    BY <1>2, <2>1, <2>3, <2>4
<1>8. InSection(t)'
  <2>1. Turn(disp_index[t])' = Turn(l)'
    BY <1>5 DEF Turn, Buffer
  <2> QED
    BY <1>2, <1>4, <1>5, <1>6, <1>7, <2>1 DEF InSection
<1>9. Behindhanded(t)'
  <2>1. section'[l].last < i + 0
    BY <1>2, <1>4, <1>7
  <2> QED
    BY <1>5, <1>7, <2>1 DEF Behindhanded
<1>10. ASSUME NEW m \in Loops PROVE SectionsOf(m)'
  <2>1. SectionsOf(m)
    BY DEF TurnInv
  <2>2. Loop(m)' = Loop(m) /\ Tids' = Tids
    BY <1>3, SameProgram
  <2>3. CASE m = l
    <3>1. \E u \in Tids : disp_index'[u] = l /\ pc'[u] = "section"
      BY <1>5
    <3> QED
      BY <1>3, <1>7, <2>1, <2>2, <2>3, <3>1 DEF SectionsOf
  <2>4. CASE m # l
    <3>1. \A u \in Tids : disp_index[u] = m /\ pc[u] = "section" =>
            disp_index'[u] = m /\ pc'[u] = "section"
      BY <1>1, <1>6, <2>4 DEF Still
    <3> QED
      BY <1>3, <1>7, <2>1, <2>2, <2>4, <3>1 DEF SectionsOf
  <2> QED
    BY <2>3, <2>4
<1>11. ASSUME NEW u \in Tids, u # t
       PROVE  /\ pc[u] = "section" => section'[disp_index[u]].in = section[disp_index[u]].in
              /\ Behindhanded(u)'
  <2>1. ASSUME pc[u] \in Turns
        PROVE  /\ disp_index[u] \in Loops
               /\ section'[disp_index[u]].last = section[disp_index[u]].last
    BY <1>7, <2>1, AtTurn
  <2>2. Still(u) /\ Behindhanded(u)
    BY <1>6, <1>11 DEF TurnInv
  <2>3. Behindhanded(u)'
    BY <1>3, <2>1, <2>2, StillBehindhanded
  <2>4. ASSUME pc[u] = "section" PROVE section'[disp_index[u]].in = section[disp_index[u]].in
    <3>1. disp_index[u] \in Loops /\ section[disp_index[u]].in = frame[u].i /\ frame[u].i \in Nat
      BY <2>4, InTurn, AtTurn
    <3>2. disp_index[u] # l
      BY <1>2, <3>1 DEF Null
    <3> QED
      BY <1>7, <3>1, <3>2
  <2> QED
    BY <2>3, <2>4
<1> QED
  BY <1>1, <1>2, <1>5, <1>7, <1>8, <1>9, <1>10, <1>11, TurnsOnKeeps

LEMMA TurnNumbers ==
  ASSUME IInv, DealInv, TurnInv, NEW t \in Tids, pc[t] \in Turns, NEW l, l = disp_index[t]
  PROVE  HasNumbers(t, l)
<1>1. /\ Loop(l).gomp \in BOOLEAN
      /\ Chunk(t).bumped <= (IF Loop(l).gomp THEN frame[t].i - Chunk(t).lower ELSE 0)
                            + Behindhand(t)
      /\ Open(t) = Chunk(t).bumped + IF Loop(l).gomp THEN Chunk(t).lower ELSE frame[t].i
  BY ChunkIs
<1>2. /\ Open(t) \in Nat /\ Chunk(t).lower \in Nat /\ Chunk(t).upper \in Nat
      /\ frame[t].i \in Nat /\ Chunk(t).bumped \in Nat /\ Turn(l) \in Nat /\ Loop(l).tc \in Nat
      /\ Turn(l) \in 0..Loop(l).tc
      /\ Chunk(t).lower <= frame[t].i /\ frame[t].i <= Chunk(t).upper
      /\ Chunk(t).upper < Loop(l).tc
      /\ Chunk(t).lower <= Open(t) /\ Open(t) <= Chunk(t).upper + 1
  BY AtTurn
<1>3. Turn(l) <= Loop(l).tc
  BY <1>2
<1>4. PICK h \in {0, 1} : h = (IF pc[t] = "finish" THEN 1 ELSE 0) /\ h = Behindhand(t)
  BY DEF Behindhand
<1> QED
  BY <1>1, <1>2, <1>3, <1>4 DEF HasNumbers

LEMMA SkipOrderedTurn ==
  ASSUME IInv, DealInv, TurnInv, DealInv', NEW t \in Tids, SkipOrdered(t)
  PROVE  TurnInv'
<1>1. PICK l : l = disp_index[t]
  OBVIOUS
<1>2. /\ pc[t] = "iteration" /\ pc[t] \in Turns /\ Leads(t, "finish")
      /\ "finish" \in Turns /\ "finish" \in Turns \cup {"next"}
      /\ ran' = ran /\ section' = section /\ pr' = pr /\ frame' = frame /\ sh' = sh
      /\ program' = program
  BY DEF SkipOrdered, Goes, Turns, Leads, history
<1>3. PICK o, a, b, i, x, n, tc \in Nat : \E g \in BOOLEAN : \E h \in {0, 1} :
        /\ o = Open(t) /\ a = Chunk(t).lower /\ b = Chunk(t).upper /\ i = frame[t].i
        /\ x = Chunk(t).bumped /\ n = Turn(l) /\ tc = Loop(l).tc /\ g = Loop(l).gomp
        /\ h = IF pc[t] = "finish" THEN 1 ELSE 0
        /\ h = Behindhand(t)
        /\ a <= i /\ i <= b /\ b < tc /\ a <= o /\ o <= b + 1 /\ n <= tc
        /\ x <= (IF g THEN i - a ELSE 0) + h
        /\ o = x + IF g THEN a ELSE i
  <2>1. HasNumbers(t, l)
    BY <1>1, <1>2, TurnNumbers
  <2> QED
    BY <2>1 DEF HasNumbers
<1>4. PICK g \in BOOLEAN :
        /\ g = Loop(l).gomp /\ 0 = Behindhand(t)
        /\ x <= (IF g THEN i - a ELSE 0) + 0
        /\ o = x + IF g THEN a ELSE i
  BY <1>2, <1>3
<1>5. PICK k \in Nat : k = 0
  OBVIOUS
<1>6. Changes(t, l, "finish", x, i, k)
  BY <1>2, <1>3, <1>5 DEF Changes
<1>7. Fits(t, l, "finish", x, i, k)
  <2>1. ~(k > 0) /\ o + k = o
    BY <1>5
  <2>2. x <= (IF g THEN i - a ELSE 0) + 1
    BY <1>4
  <2>3. x + (IF g THEN a ELSE i) = o + k
    BY <1>4, <2>1
  <2> QED
    BY <1>3, <1>4, <2>1, <2>2, <2>3 DEF Fits
<1>8. Turned(t, l, "finish", i, k)
  BY <1>1, <1>2, <1>6, <1>7, TurnsOnIs
<1>9. Behindhanded(t)'
  <2>1. /\ disp_index'[t] = l /\ frame'[t].i = i /\ Chunk(t)'.upper = b
        /\ Behindhand(t)' = 1 /\ Open(t)' = o
    <3>1. o + k = o
      BY <1>5
    <3> QED
      BY <1>2, <1>3, <1>8, <3>1 DEF Turned
  <2>2. ASSUME o <= b PROVE section[l].last < i + 1
    <3>1. section[l].last < i + 0
      BY <1>1, <1>2, <1>3, <1>4, <2>2 DEF TurnInv, Behindhanded
    <3>2. section[l].last \in Int
      BY <1>1, <1>2, AtTurn DEF TurnInv, SectionsOf
    <3> QED
      BY <3>1, <3>2
  <2> QED
    BY <1>2, <2>1, <2>2 DEF Behindhanded
<1>10. pc[t] # "section" /\ pc'[t] # "section"
  BY <1>2, <1>8 DEF Turned
<1>11. TurnsOn(t, l, k) /\ InChunk(t)' /\ NotBumped(t)'
  BY <1>8 DEF Turned
<1> QED
  BY <1>1, <1>2, <1>9, <1>10, <1>11, NoSection

(* What a thread counts at the end of an iteration or of its chunk.         *)
LEMMA FinishIs ==
  ASSUME IInv, DealInv, TurnInv, NEW t \in Tids, DispatchFinish(t), NEW l, l = disp_index[t]
  PROVE  \E to \in {"iteration", "next"}, x \in Nat, i \in Nat, k \in Nat :
           /\ Changes(t, l, to, x, i, k) /\ Fits(t, l, to, x, i, k)
           /\ to = "iteration" => i = frame[t].i + 1
<1>1. pc[t] = "finish" /\ pc[t] \in Turns /\ ran' = ran
  BY DEF DispatchFinish, Goes, Turns, history
<1>2. PICK o, a, b, i, x, n, tc \in Nat : \E g \in BOOLEAN : \E h \in {0, 1} :
        /\ o = Open(t) /\ a = Chunk(t).lower /\ b = Chunk(t).upper /\ i = frame[t].i
        /\ x = Chunk(t).bumped /\ n = Turn(l) /\ tc = Loop(l).tc /\ g = Loop(l).gomp
        /\ h = IF pc[t] = "finish" THEN 1 ELSE 0
        /\ h = Behindhand(t)
        /\ a <= i /\ i <= b /\ b < tc /\ a <= o /\ o <= b + 1 /\ n <= tc
        /\ x <= (IF g THEN i - a ELSE 0) + h
        /\ o = x + IF g THEN a ELSE i
  <2>1. HasNumbers(t, l)
    BY <1>1, TurnNumbers
  <2> QED
    BY <2>1 DEF HasNumbers
<1>3. PICK g \in BOOLEAN :
        /\ g = Loop(l).gomp
        /\ x <= (IF g THEN i - a ELSE 0) + 1
        /\ o = x + IF g THEN a ELSE i
  BY <1>1, <1>2
<1>4. /\ MyLoop(t) = Loop(l) /\ Chunk(t) = Pr(t) /\ Turn(l) = Sh(t).ordered_iteration
      /\ l \in Loops /\ tc < 2^Width
  BY <1>1, <1>2, AtTurn, LoopIs DEF IInv
<1>5. PICK to \in {"iteration", "next"}, z \in Nat :
        /\ Leads(t, to) /\ frame' = [frame EXCEPT ![t].i = z]
        /\ to = "iteration" <=> i < b
        /\ i < b => z = i + 1
  <2>1. PICK m \in BOOLEAN : m <=> i < b
    <3>1. (i < b) \in BOOLEAN
      OBVIOUS
    <3> QED
      BY <3>1
  <2>2. m <=> frame[t].i < Pr(t).upper
    BY <1>2, <1>4, <2>1
  <2>3. PICK z \in Nat : z = IF m THEN i + 1 ELSE 0
    OBVIOUS
  <2>4. PICK to \in {"iteration", "next"} : to = IF m THEN "iteration" ELSE "next"
    OBVIOUS
  <2>5. Leads(t, to)
    <3>1. pc' = [pc EXCEPT ![t] = IF frame[t].i < Pr(t).upper THEN "iteration" ELSE "next"]
          /\ UNCHANGED <<program, disp_index>>
      BY DEF DispatchFinish, Goes
    <3> QED
      BY <2>2, <2>4, <3>1 DEF Leads
  <2>6. frame' = [frame EXCEPT ![t].i = z]
    <3>1. frame' = [frame EXCEPT ![t].i = IF frame[t].i < Pr(t).upper THEN frame[t].i + 1 ELSE 0]
      BY DEF DispatchFinish
    <3> QED
      BY <1>2, <2>2, <2>3, <3>1
  <2> QED
    BY <2>1, <2>3, <2>4, <2>5, <2>6
<1>6. ASSUME NEW all \in Nat, x <= all, CountOrdered(t, all),
             x < all => o <= b /\ o + (all - x) <= b + 1
      PROVE  \E k \in Nat : /\ \/ sh' = sh /\ k = 0
                               \/ SetSh(t, [Sh(t) EXCEPT !.ordered_iteration = n + k])
                            /\ k = all - x
                            /\ k > 0 => n = o /\ o + k <= b + 1
  <2>1. CASE x = all
    <3>1. sh' = sh
      <4>1. Pr(t).bumped = all
        BY <1>2, <1>4, <2>1
      <4> QED
        BY <1>6, <4>1 DEF CountOrdered
    <3>2. 0 = all - x /\ ~(0 > 0) /\ 0 \in Nat
      BY <2>1
    <3> QED
      BY <3>1, <3>2
  <2>2. CASE x # all
    <3>1. PICK k \in Nat : k = all - x /\ k > 0
      BY <1>6, <2>2
    <3>2. MyTurn(t) /\ SetSh(t, [Sh(t) EXCEPT !.ordered_iteration = U(n + all - x)])
      <4>1. Pr(t).bumped = x /\ Pr(t).bumped # all /\ Sh(t).ordered_iteration = n
        BY <1>2, <1>4, <2>2
      <4>2. MyTurn(t) /\ SetSh(t, [Sh(t) EXCEPT !.ordered_iteration =
                                     U(Sh(t).ordered_iteration + all - Pr(t).bumped)])
        BY <1>6, <4>1 DEF CountOrdered
      <4> QED
        BY <4>1, <4>2
    <3>3. a <= n
      <4>1. n >= a
        BY <1>2, <1>4, <3>2 DEF MyTurn
      <4> QED
        BY <4>1
    <3>4. x < all
      BY <1>6, <2>2
    <3>5. o <= b /\ o + k <= b + 1
      BY <1>6, <3>1, <3>4
    <3>6. n = o
      BY <1>1, <1>2, <3>3, <3>5, TurnOf
    <3>7. U(n + all - x) = n + k
      <4>1. PICK w \in Nat : w = 2^Width
        BY PowerIs
      <4>2. PICK y \in Nat : y = n + k /\ n + all - x = y
        BY <1>2, <3>1
      <4>3. y < w
        BY <1>2, <1>4, <3>5, <3>6, <4>1, <4>2
      <4> QED
        BY <4>1, <4>2, <4>3, UnsignedIs
    <3> QED
      BY <3>1, <3>2, <3>5, <3>6, <3>7
  <2> QED
    BY <2>1, <2>2
<1>7. CASE ~g
  <2>1. o = x + i /\ x <= 1
    BY <1>2, <1>3, <1>7
  <2>2. CountOrdered(t, 1) /\ Bumps(t, 0)
    BY <1>3, <1>4, <1>7 DEF DispatchFinish, Bumps
  <2>3. x < 1 => o <= b /\ o + (1 - x) <= b + 1
    BY <1>2, <2>1
  <2>4. PICK k \in Nat : /\ \/ sh' = sh /\ k = 0
                            \/ SetSh(t, [Sh(t) EXCEPT !.ordered_iteration = n + k])
                         /\ k = 1 - x
                         /\ k > 0 => n = o /\ o + k <= b + 1
    BY <1>6, <2>1, <2>2, <2>3
  <2>5. Changes(t, l, to, 0, z, k)
    BY <1>1, <1>2, <1>5, <2>2, <2>4 DEF Changes
  <2>6. o + k = i + 1
    BY <2>1, <2>4
  <2>7. Fits(t, l, to, 0, z, k)
    <3>1. to = "iteration" => 0 + z = o + k /\ a <= z /\ z <= b
      BY <1>2, <1>5, <2>6
    <3>2. to = "next" => b < o + k
      <4>1. to = "next" => ~(i < b)
        BY <1>5
      <4> QED
        BY <1>2, <2>6, <4>1
    <3>3. to \in Turns <=> to = "iteration"
      BY DEF Turns
    <3>4. 0 <= 0 + 0 /\ (to = "iteration" => (IF to = "finish" THEN 1 ELSE 0) = 0)
      OBVIOUS
    <3> QED
      BY <1>2, <1>3, <1>7, <2>4, <3>1, <3>2, <3>3, <3>4 DEF Fits
  <2> QED
    BY <1>2, <1>5, <2>5, <2>7
<1>8. CASE g /\ i < b
  <2>1. pr' = pr /\ sh' = sh
    BY <1>2, <1>3, <1>4, <1>8 DEF DispatchFinish
  <2>2. to = "iteration" /\ z = i + 1
    BY <1>5, <1>8
  <2>3. PICK k \in Nat : k = 0
    OBVIOUS
  <2>4. Changes(t, l, to, x, z, k)
    BY <1>1, <1>2, <1>5, <2>1, <2>3 DEF Changes
  <2>5. Fits(t, l, to, x, z, k)
    <3>1. x + a = o + k /\ a <= z /\ z <= b /\ x <= (z - a) + 0 /\ ~(k > 0)
      BY <1>2, <1>3, <1>8, <2>2, <2>3
    <3>2. (IF to = "finish" THEN 1 ELSE 0) = 0 /\ to # "next"
      BY <2>2
    <3> QED
      BY <1>2, <1>3, <1>8, <3>1, <3>2 DEF Fits
  <2> QED
    BY <1>2, <1>5, <2>2, <2>4, <2>5
<1>9. CASE g /\ ~(i < b)
  <2>1. PICK all \in Nat : all = b - a + 1 /\ x <= all /\ o + (all - x) = b + 1
    <3>1. b - a + 1 \in Nat /\ x <= b - a + 1 /\ o + ((b - a + 1) - x) = b + 1
      BY <1>2, <1>3, <1>9
    <3> QED
      BY <3>1
  <2>2. CountOrdered(t, all) /\ Bumps(t, 0)
    BY <1>2, <1>3, <1>4, <1>9, <2>1 DEF DispatchFinish, Bumps
  <2>3. x < all => o <= b /\ o + (all - x) <= b + 1
    BY <2>1
  <2>4. PICK k \in Nat : /\ \/ sh' = sh /\ k = 0
                            \/ SetSh(t, [Sh(t) EXCEPT !.ordered_iteration = n + k])
                         /\ k = all - x
                         /\ k > 0 => n = o /\ o + k <= b + 1
    BY <1>6, <2>1, <2>2, <2>3
  <2>5. Changes(t, l, to, 0, z, k)
    BY <1>1, <1>2, <1>5, <2>2, <2>4 DEF Changes
  <2>6. Fits(t, l, to, 0, z, k)
    <3>1. b < o + k
      BY <2>1, <2>4
    <3>2. to = "next" /\ to \notin Turns
      BY <1>5, <1>9 DEF Turns
    <3> QED
      BY <1>2, <2>4, <3>1, <3>2 DEF Fits
  <2> QED
    BY <1>5, <1>9, <2>5, <2>6
<1> QED
  BY <1>7, <1>8, <1>9

LEMMA DispatchFinishTurn ==
  ASSUME IInv, DealInv, TurnInv, DealInv', NEW t \in Tids, DispatchFinish(t)
  PROVE  TurnInv'
<1>1. PICK l : l = disp_index[t]
  OBVIOUS
<1>2. /\ pc[t] = "finish" /\ pc[t] \in Turns /\ section' = section /\ Behindhand(t) = 1
      /\ ran' = ran
  BY DEF DispatchFinish, Goes, Turns, Behindhand, history
<1>3. PICK to \in {"iteration", "next"}, x \in Nat, i \in Nat, k \in Nat :
        /\ Changes(t, l, to, x, i, k) /\ Fits(t, l, to, x, i, k)
        /\ to = "iteration" => i = frame[t].i + 1
  BY <1>1, FinishIs
<1>4. to \in Turns \cup {"next"} /\ to # "finish" /\ to # "section"
      /\ (to \in Turns <=> to = "iteration")
  BY DEF Turns
<1>5. Turned(t, l, to, i, k)
  BY <1>1, <1>2, <1>3, <1>4, TurnsOnIs
<1>6. TurnsOn(t, l, k) /\ InChunk(t)' /\ NotBumped(t)' /\ pc'[t] = to /\ disp_index'[t] = l
      /\ frame'[t].i = i /\ Chunk(t)'.upper = Chunk(t).upper /\ Behindhand(t)' = 0
      /\ (to \in Turns => Open(t)' = Open(t) + k)
  BY <1>4, <1>5 DEF Turned
<1>7. Behindhanded(t)'
  <2> SUFFICES ASSUME to = "iteration", Open(t)' <= Chunk(t).upper
               PROVE  section[l].last < i + 0
    BY <1>2, <1>4, <1>6 DEF Behindhanded
  <2>1. Open(t) \in Nat /\ Chunk(t).upper \in Nat /\ frame[t].i \in Nat
    BY <1>1, <1>2, AtTurn
  <2>2. Open(t) <= Chunk(t).upper
    BY <1>4, <1>6, <2>1
  <2>3. section[l].last < frame[t].i + 1
    BY <1>1, <1>2, <2>2 DEF TurnInv, Behindhanded
  <2> QED
    BY <1>3, <2>1, <2>3
<1>8. pc[t] # "section" /\ pc'[t] # "section"
  BY <1>2, <1>4, <1>6
<1> QED
  BY <1>1, <1>2, <1>6, <1>7, <1>8, NoSection

(* Whoever has to count behind the thread whose turn it is, has iterations  *)
(* behind all of its.                                                       *)
LEMMA BehindTurn ==
  ASSUME IInv, DealInv, TurnInv, NEW t \in Tids, pc[t] \in Turns, NEW l, l = disp_index[t],
         Open(t) <= Chunk(t).upper, Chunk(t).lower <= Turn(l),
         NEW u \in Tids, u # t, pc[u] \in Turns, l = disp_index[u], Open(u) <= Chunk(u).upper
  PROVE  frame[t].i < frame[u].i
<1>1. PICK o, a, b, i \in Nat :
        /\ o = Open(t) /\ a = Chunk(t).lower /\ b = Chunk(t).upper /\ i = frame[t].i
        /\ a <= o /\ o <= b /\ i <= b
  BY AtTurn
<1>2. PICK p, c, d, j, tc \in Nat :
        /\ p = Open(u) /\ c = Chunk(u).lower /\ d = Chunk(u).upper /\ j = frame[u].i
        /\ c <= p /\ p <= d /\ c <= j /\ tc = Loop(l).tc /\ d < tc
  <2>1. /\ Open(u) \in Nat /\ Chunk(u).lower \in Nat /\ Chunk(u).upper \in Nat
        /\ frame[u].i \in Nat /\ Loop(l).tc \in Nat
        /\ Chunk(u).lower <= Open(u) /\ Chunk(u).lower <= frame[u].i
        /\ Chunk(u).upper < Loop(l).tc
    BY AtTurn
  <2> QED
    BY <2>1
<1>3. Turn(l) = o
  BY <1>1, TurnOf
<1>4. ~(p < o)
  <2>1. Owes(u, l, p)
    BY <1>2, AtTurn
  <2>2. p \in 0..tc-1
    BY <1>2
  <2>3. ~(p < Turn(l))
    BY <1>2, <2>1, <2>2, AtTurn
  <2> QED
    BY <1>3, <2>3
<1>5. \A x \in Int : ~(a <= x /\ x <= b /\ c <= x /\ x <= d)
  <2>1. Disjoint(t, u)
    BY DEF TurnInv
  <2> QED
    BY <1>1, <1>2, <2>1 DEF Disjoint, Holds
<1>6. b < c
  <2>1. ~(a <= o /\ o <= b /\ c <= o /\ o <= d)
    BY <1>5
  <2>2. ~(a <= c /\ c <= b /\ c <= c /\ c <= d)
    BY <1>5
  <2> QED
    BY <1>1, <1>2, <1>4, <2>1, <2>2
<1> QED
  BY <1>1, <1>2, <1>6

LEMMA ExitOrderedIs ==
  ASSUME IInv, DealInv, TurnInv, NEW t \in Tids, ExitOrdered(t), NEW l, l = disp_index[t]
  PROVE  /\ l \in Loops /\ section[l].in = frame[t].i /\ frame[t].i \in Nat
         /\ section' = [section EXCEPT ![l] = [last |-> frame[t].i, in |-> Null]]
<1>1. pc[t] = "section"
      /\ section' = [section EXCEPT ![disp_index[t]] = [last |-> section[disp_index[t]].in, in |-> Null]]
  BY DEF ExitOrdered, Goes
<1>2. section[l].in = frame[t].i /\ pc[t] \in Turns
  BY <1>1, InTurn
<1> QED
  BY <1>1, <1>2, AtTurn

LEMMA ExitOrderedTurn ==
  ASSUME IInv, DealInv, TurnInv, DealInv', NEW t \in Tids, ExitOrdered(t)
  PROVE  TurnInv'
<1>1. PICK l : l = disp_index[t]
  OBVIOUS
<1>2. /\ pc[t] = "section" /\ Leads(t, "finish") /\ "finish" \in Turns \cup {"next"}
      /\ "finish" \in Turns
      /\ ran' = ran /\ frame' = frame
      /\ SetPr(t, [Pr(t) EXCEPT !.bumped = @ + 1])
      /\ SetSh(t, [Sh(t) EXCEPT !.ordered_iteration = U(@ + 1)])
      /\ program' = program /\ disp_index' = disp_index
  BY DEF ExitOrdered, Goes, Turns, Leads
<1>3. /\ pc[t] \in Turns /\ Open(t) <= Chunk(t).upper /\ Chunk(t).lower <= Turn(l)
      /\ Turn(l) = Open(t) /\ section[l].in = frame[t].i
  BY <1>1, <1>2, InTurn
<1>4. PICK o, a, b, i, x, n, tc \in Nat : \E g \in BOOLEAN : \E h \in {0, 1} :
        /\ o = Open(t) /\ a = Chunk(t).lower /\ b = Chunk(t).upper /\ i = frame[t].i
        /\ x = Chunk(t).bumped /\ n = Turn(l) /\ tc = Loop(l).tc /\ g = Loop(l).gomp
        /\ h = IF pc[t] = "finish" THEN 1 ELSE 0
        /\ h = Behindhand(t)
        /\ a <= i /\ i <= b /\ b < tc /\ a <= o /\ o <= b + 1 /\ n <= tc
        /\ x <= (IF g THEN i - a ELSE 0) + h
        /\ o = x + IF g THEN a ELSE i
  <2>1. HasNumbers(t, l)
    BY <1>1, <1>3, TurnNumbers
  <2> QED
    BY <2>1 DEF HasNumbers
<1>5. PICK g \in BOOLEAN :
        /\ g = Loop(l).gomp
        /\ x <= (IF g THEN i - a ELSE 0) + 0
        /\ o = x + IF g THEN a ELSE i
  BY <1>2, <1>4
<1>6. /\ MyLoop(t) = Loop(l) /\ Chunk(t) = Pr(t) /\ n = Sh(t).ordered_iteration
      /\ l \in Loops /\ tc < 2^Width /\ n = o /\ o <= b
  BY <1>1, <1>3, <1>4, AtTurn, LoopIs DEF IInv
<1>7. PICK k \in Nat, y \in Nat : k = 1 /\ y = x + 1
  OBVIOUS
<1>8. Changes(t, l, "finish", y, i, k)
  <2>1. Bumps(t, y)
    BY <1>2, <1>4, <1>6, <1>7 DEF Bumps
  <2>2. SetSh(t, [Sh(t) EXCEPT !.ordered_iteration = n + k])
    <3>1. PICK w \in Nat : w = 2^Width
      BY PowerIs
    <3>2. PICK z \in Nat : z = n + 1 /\ z < w /\ z = n + k
      BY <1>4, <1>6, <1>7, <3>1
    <3>3. U(n + 1) = n + k
      BY <3>1, <3>2, UnsignedIs
    <3> QED
      BY <1>2, <1>6, <3>3
  <2> QED
    BY <1>2, <1>4, <2>1, <2>2 DEF Changes
<1>9. Fits(t, l, "finish", y, i, k)
  <2>1. k > 0 /\ o + k <= b + 1
    BY <1>4, <1>6, <1>7
  <2>2. y <= (IF g THEN i - a ELSE 0) + 1 /\ y + (IF g THEN a ELSE i) = o + k
    BY <1>4, <1>5, <1>7
  <2> QED
    BY <1>4, <1>5, <1>6, <2>1, <2>2 DEF Fits
<1>10. Turned(t, l, "finish", i, k)
  BY <1>1, <1>2, <1>3, <1>8, <1>9, TurnsOnIs
<1>11. /\ TurnsOn(t, l, k) /\ InChunk(t)' /\ NotBumped(t)' /\ pc'[t] = "finish"
       /\ disp_index'[t] = l /\ frame'[t].i = i /\ Behindhand(t)' = 1
       /\ \A u \in Tids : u # t => Still(u)
  BY <1>10 DEF Turned, TurnsOn
<1>12. /\ section = [m \in Loops |-> section[m]] /\ Loops' = Loops
       /\ section' = [m \in Loops |-> section'[m]]
       /\ \A m \in Loops : m # l => section'[m] = section[m]
       /\ section'[l].in = Null /\ section'[l].last = i
       /\ section'[l] \in [last : Int, in : Int]
  <2>1. section = [m \in Loops |-> section[m]] /\ Loops' = Loops
    BY <1>2, SameProgram DEF TurnInv
  <2>2. PICK s : s = [last |-> i, in |-> Null]
    OBVIOUS
  <2>3. s.in = Null /\ s.last = i /\ s \in [last : Int, in : Int]
    BY <2>2 DEF Null
  <2>4. section' = [section EXCEPT ![l] = s]
    BY <1>1, <1>4, <2>2, ExitOrderedIs
  <2> QED
    BY <1>6, <2>1, <2>3, <2>4
<1>13. InSection(t)' /\ Behindhanded(t)'
  <2>1. section'[l].last < i + 1
    BY <1>12
  <2> QED
    BY <1>11, <1>12, <2>1 DEF InSection, Behindhanded
<1>14. ASSUME NEW m \in Loops PROVE SectionsOf(m)'
  <2>1. SectionsOf(m)
    BY DEF TurnInv
  <2>2. Loop(m)' = Loop(m) /\ Tids' = Tids
    BY <1>2, SameProgram
  <2>3. CASE m = l
    <3>1. ASSUME NEW j \in 0..tc-1, ran[l][j] = 0 PROVE i < j
      <4>1. ~(j < n)
        BY <1>1, <1>3, <1>4, <3>1, AtTurn
      <4>2. ~(a <= j /\ j <= b)
        <5> SUFFICES ASSUME a <= j, j <= b PROVE FALSE
          OBVIOUS
        <5>1. j \in a..b
          BY <1>4
        <5> QED
          BY <1>1, <1>3, <1>4, <3>1, <5>1, AtTurn
      <4> QED
        BY <1>4, <1>6, <4>1, <4>2
    <3>2. \A j \in 0..Loop(l).tc-1 : ran'[l][j] = 0 => section'[l].last < j
      BY <1>2, <1>4, <1>12, <3>1
    <3> QED
      BY <1>12, <2>2, <2>3, <3>2 DEF SectionsOf
  <2>4. CASE m # l
    <3>1. \A u \in Tids : disp_index[u] = m /\ pc[u] = "section" =>
            disp_index'[u] = m /\ pc'[u] = "section"
      BY <1>1, <1>11, <2>4 DEF Still
    <3> QED
      BY <1>2, <1>12, <2>1, <2>2, <2>4, <3>1 DEF SectionsOf
  <2> QED
    BY <2>3, <2>4
<1>15. ASSUME NEW u \in Tids, u # t
       PROVE  /\ pc[u] = "section" => section'[disp_index[u]].in = section[disp_index[u]].in
              /\ Behindhanded(u)'
  <2>1. ASSUME pc[u] = "section" PROVE section'[disp_index[u]].in = section[disp_index[u]].in
    <3>1. PICK m : m = disp_index[u]
      OBVIOUS
    <3>2. pc[u] \in Turns /\ Open(u) <= Chunk(u).upper /\ Chunk(u).lower <= Turn(m)
      BY <2>1, <3>1, InTurn
    <3>3. m \in Loops
      BY <3>1, <3>2, AtTurn
    <3>4. m # l
      BY <1>1, <1>3, <1>15, <3>1, <3>2, OneTurn
    <3> QED
      BY <1>12, <3>1, <3>3, <3>4
  <2>2. Behindhanded(u)'
    <3>1. Still(u) /\ Behindhanded(u)
      BY <1>11, <1>15 DEF TurnInv
    <3>2. CASE disp_index[u] # l
      <4>1. pc[u] \in Turns => section'[disp_index[u]].last = section[disp_index[u]].last
        BY <1>12, <3>2, AtTurn
      <4> QED
        BY <1>2, <3>1, <4>1, StillBehindhanded
    <3>3. CASE disp_index[u] = l
      <4> SUFFICES ASSUME pc'[u] \in Turns, Open(u)' <= Chunk(u)'.upper
                   PROVE  section'[l].last < frame'[u].i + Behindhand(u)'
        BY <1>2, <3>1, <3>3 DEF Behindhanded, Still
      <4>1. /\ pc[u] \in Turns /\ Open(u) <= Chunk(u).upper /\ frame'[u] = frame[u]
            /\ Behindhand(u)' = Behindhand(u)
        BY <1>2, <3>1, StillIs DEF Still
      <4>2. i < frame[u].i
        BY <1>1, <1>3, <1>4, <1>15, <3>3, <4>1, BehindTurn
      <4>3. frame[u].i \in Nat /\ Behindhand(u) \in {0, 1}
        BY <4>1, AtTurn DEF Behindhand
      <4> QED
        BY <1>12, <4>1, <4>2, <4>3
    <3> QED
      BY <3>2, <3>3
  <2> QED
    BY <2>1, <2>2
<1> QED
  BY <1>1, <1>3, <1>11, <1>12, <1>13, <1>14, <1>15, TurnsOnKeeps

-----------------------------------------------------------------------------
LEMMA InitTurns ==
  ASSUME Init, Plain
  PROVE  TurnInv
<1>1. Typed /\ DealInv
  BY InitInv, InitDeals DEF IInv
<1>2. /\ \A t \in Tids : pc[t] = "out" /\ pc[t] \notin Turns /\ disp_index[t] = 0
      /\ \A l \in Loops : section[l] = [last |-> Null, in |-> Null]
      /\ section = [l \in Loops |-> section[l]]
      /\ \A l \in Loops : \A i \in 0..Loop(l).tc-1 : ran[l][i] = 0
  BY DEF Init, Turns
<1>3. ASSUME NEW t \in Tids PROVE InChunk(t) /\ NotBumped(t) /\ InSection(t) /\ Behindhanded(t)
  BY <1>2 DEF InChunk, NotBumped, InSection, Behindhanded
<1>4. \A t, u \in Tids : Disjoint(t, u)
  BY <1>2 DEF Disjoint
<1>5. ASSUME NEW l \in Loops PROVE TurnsCount(l) /\ SectionsOf(l)
  <2>1. Buffer(l) \in Buffers /\ Loop(l).tc \in Nat
    BY <1>1, LoopIs, BufferIs
  <2>2. Turn(l) = 0
    BY <2>1 DEF Init, Turn
  <2>3. TurnsCount(l)
    BY <1>2, <2>1, <2>2 DEF TurnsCount
  <2>4. section[l].in = Null /\ section[l].last = Null /\ section[l] \in [last : Int, in : Int]
    BY <1>2 DEF Null
  <2>5. \A j \in 0..Loop(l).tc-1 : Null < j
    BY DEF Null
  <2> QED
    BY <2>3, <2>4, <2>5 DEF SectionsOf
<1> QED
  BY <1>2, <1>3, <1>4, <1>5 DEF TurnInv

LEMMA StepTurns ==
  ASSUME IInv, DealInv, TurnInv, DealInv', NEW t \in Tids, Step(t)
  PROVE  TurnInv'
<1>1. CASE DispatchInit(t)
  BY <1>1, EnterTurn
<1>2. CASE Asking(t)
  BY <1>2, AskingDeals, HandsTurn, TellsTurn
<1>3. CASE Guided(t)
  BY <1>3, GuidedDeals, HandsTurn, TellsTurn, AskTurn
<1>4. CASE WaitForBuffer(t) \/ GuidedRead(t)
  BY <1>4, AskTurn
<1>5. CASE EnterOrdered(t)
  BY <1>5, EnterOrderedTurn
<1>6. CASE ExitOrdered(t)
  BY <1>6, ExitOrderedTurn
<1>7. CASE SkipOrdered(t)
  BY <1>7, SkipOrderedTurn
<1>8. CASE DispatchFinish(t)
  BY <1>8, DispatchFinishTurn
<1>9. CASE CountDone(t) \/ ResetBuffer(t) \/ ReleaseBuffer(t)
  BY <1>9, LeaverTurn
<1> QED
  BY <1>1, <1>2, <1>3, <1>4, <1>5, <1>6, <1>7, <1>8, <1>9, PlainSteps

LEMMA NextTurns == IInv /\ DealInv /\ TurnInv /\ DealInv' /\ [Next]_vars => TurnInv'
<1> SUFFICES ASSUME IInv, DealInv, TurnInv, DealInv', [Next]_vars PROVE TurnInv'
  OBVIOUS
<1>1. CASE Next
  BY <1>1, StepTurns DEF Next
<1>2. CASE UNCHANGED vars
  <2>1. /\ Typed /\ Exactly /\ Exactly' /\ program' = program /\ disp_index' = disp_index /\ pc' = pc
        /\ pr' = pr /\ sh' = sh /\ frame' = frame /\ ran' = ran /\ section' = section
    BY <1>2 DEF vars, history, IInv, DealInv
  <2>2. Loops' = Loops /\ Tids' = Tids /\ Grows
    BY <2>1, SameProgram DEF Grows
  <2>3. \A u \in Tids : Still(u)
    BY <2>1 DEF Still
  <2>4. \A u \in Tids : InChunk(u)' /\ NotBumped(u)'
    BY <2>1, <2>2, <2>3, StillInChunk DEF TurnInv
  <2>5. ASSUME NEW u \in Tids PROVE InSection(u)' /\ Behindhanded(u)'
    <3>1. PICK l : l = disp_index[u]
      OBVIOUS
    <3>2. Still(u) /\ InSection(u) /\ Behindhanded(u)
      BY <2>3 DEF TurnInv
    <3>3. ASSUME pc[u] = "section"
          PROVE  /\ Turn(l) \in Int /\ Turn(l)' \in Int /\ Turn(l) <= Turn(l)'
                 /\ Chunk(u).lower \in Int /\ section'[l].in = section[l].in
      <4>1. pc[u] \in Turns
        BY <3>3 DEF Turns
      <4>2. Turn(l) \in Nat /\ Chunk(u).lower \in Nat /\ Turn(l)' = Turn(l)
        BY <2>1, <3>1, <4>1, AtTurn, SharedStays
      <4> QED
        BY <2>1, <4>2
    <3>4. InSection(u)'
      BY <2>1, <3>1, <3>2, <3>3, StillInSection
    <3> QED
      BY <2>1, <3>2, <3>4, StillBehindhanded
  <2>6. \A t, u \in Tids : Disjoint(t, u)'
    BY <2>1, <2>3, StillDisjoint DEF TurnInv
  <2>7. ASSUME NEW l \in Loops PROVE TurnsCount(l)' /\ SectionsOf(l)'
    <3>1. \A u \in Tids, j \in 0..Loop(l).tc-1 : Owes(u, l, j)' <=> Owes(u, l, j)
      BY <2>1, <2>3, StillIs
    <3>2. Turn(l)' = Turn(l) /\ EndedBy(l)' = EndedBy(l)
      BY <2>1, SharedStays DEF EndedBy, Ended, Left, Tids
    <3>3. TurnsCount(l) /\ SectionsOf(l)
      BY DEF TurnInv
    <3>4. TurnsCount(l)'
      BY <2>1, <3>1, <3>2, <3>3, TurnsCountStays
    <3>5. SectionsOf(l)'
      BY <2>1, <2>2, <3>3, SectionsOfStays
    <3> QED
      BY <3>4, <3>5
  <2>8. section' = [l \in Loops |-> section'[l]]
    BY <2>1 DEF TurnInv
  <2> QED
    BY <2>2, <2>4, <2>5, <2>6, <2>7, <2>8 DEF TurnInv
<1> QED
  BY <1>1, <1>2

(* The invariants hold in all states of plain programs.                     *)
LEMMA TurnsAlways == Spec => (Plain => [](IInv /\ DealInv /\ TurnInv))
<1>1. Init /\ Plain => IInv /\ DealInv /\ TurnInv
  BY InitInv, InitDeals, InitTurns
<1>2. IInv /\ DealInv /\ TurnInv /\ [Next]_vars => IInv' /\ DealInv' /\ TurnInv'
  BY NextInv, NextDeals, NextTurns
<1> QED
  BY <1>1, <1>2, PTL DEF Spec

-----------------------------------------------------------------------------
(* Every step is one of WorkShare or leaves what it sees alone.             *)

LEMMA PromiseIs ==
  /\ Promise!Tids = Tids /\ Promise!Loops = Loops
  /\ \A l : Promise!Iterations(l) = 0..Loop(l).tc-1
BY DEF Promise!Tids, Promise!Loops, Promise!Iterations, Tids, Loops, Loop

LEMMA UnseenIs ==
  ASSUME Unseen
  PROVE  UNCHANGED Promise!vars
<1>1. Tids' = Tids /\ \A u \in Tids : Left(u)' = Left(u)
  BY DEF Unseen, Tids
<1>2. [u \in Tids |-> Left(u)]' = [u \in Tids |-> Left(u)]
  BY <1>1
<1> QED
  BY <1>2 DEF Unseen, Promise!vars

(* A thread in a loop is in its next, and not alone beyond a barrier.       *)
LEMMA IsIn ==
  ASSUME IInv, DealInv, NEW t \in Tids, pc[t] # "out", NEW l, l = disp_index[t]
  PROVE  l \in Loops /\ Promise!In(t, l) /\ Left(t) = l - 1
<1>1. /\ l \in Loops
      /\ l > 1 /\ Loop(l - 1).barrier => \A u \in Tids : Left(u) >= l - 1
  BY DEF DealInv, Waited
<1>2. l \in Nat /\ Left(t) = l - 1
  BY <1>1, LoopIs DEF IInv, Left
<1>3. l = [u \in Tids |-> Left(u)][t] + 1
  BY <1>2
<1>4. l > 1 /\ program.loops[l-1].barrier => \A u \in Tids : [v \in Tids |-> Left(v)][u] >= l - 1
  BY <1>1 DEF Loop
<1> QED
  BY <1>1, <1>2, <1>3, <1>4, PromiseIs DEF Promise!In

(* Iterations are given out.                                                *)
LEMMA HandsChunk ==
  ASSUME IInv, DealInv, DealInv', NEW t \in Tids, NEW l, NEW a, NEW b, Hands(t, l, a, b)
  PROVE  Promise!Chunk(t, l) /\ l \in Loops
<1>1. /\ l = disp_index[t] /\ l \in Loops /\ program' = program /\ section' = section
      /\ pc[t] \in Goers /\ pc[t] # "out" /\ AfterChunk(t) \in Goers /\ Leads(t, AfterChunk(t))
      /\ a \in Nat /\ b \in Nat /\ a <= b /\ b < Loop(l).tc
  BY DEF Hands, Asks, Goers, Inside, AfterChunk, Leads, Given
<1>2. /\ \A m \in Loops : m # l => ran'[m] = ran[m]
      /\ \A i \in 0..Loop(l).tc-1 : ran'[l][i] = IF i \in a..b THEN 1 ELSE ran[l][i]
      /\ \A i \in 0..Loop(l).tc-1 : i \in a..b => ran[l][i] = 0
  BY HandsKeeps DEF DealtOut
<1>3. Promise!In(t, l)
  BY <1>1, IsIn
<1>4. /\ Loops' = Loops /\ Tids' = Tids
      /\ ran = [m \in Loops |-> ran[m]] /\ ran' = [m \in Loops |-> ran'[m]]
  <2>1. ran = [m \in Loops |-> ran[m]]
    BY DEF DealInv, Exactly
  <2>2. ran' = [m \in Loops' |-> ran'[m]]
    BY DEF DealInv, Exactly
  <2> QED
    BY <1>1, <2>1, <2>2, SameProgram
<1>5. ran' # ran
  <2>1. a \in 0..Loop(l).tc-1 /\ a \in a..b
    BY <1>1, LoopIs DEF IInv
  <2>2. ran[l][a] = 0 /\ ran'[l][a] = 1
    BY <1>2, <2>1
  <2> QED
    BY <2>2
<1>6. ran' = [ran EXCEPT ![l] = ran'[l]]
  BY <1>1, <1>2, <1>4
<1>7. \A i \in 0..Loop(l).tc-1 : ran'[l][i] = ran[l][i] \/ (ran[l][i] = 0 /\ ran'[l][i] = 1)
  BY <1>2
<1>8. [u \in Tids |-> Left(u)]' = [u \in Tids |-> Left(u)]
  <2>1. \A u \in Tids : Left(u)' = Left(u)
    BY <1>1, GoersStay DEF IInv
  <2> QED
    BY <1>4, <2>1
<1> QED
  BY <1>1, <1>3, <1>5, <1>6, <1>7, <1>8, PromiseIs DEF Promise!Chunk

(* When all have been told that there is no more, all iterations are given  *)
(* out.                                                                     *)
LEMMA AllDealt ==
  ASSUME IInv, DealInv, NEW l \in Loops, EndedBy(l) = Tids
  PROVE  \A i \in 0..Loop(l).tc-1 : ran[l][i] = 1
<1> SUFFICES ASSUME NEW i \in 0..Loop(l).tc-1 PROVE ran[l][i] = 1
  OBVIOUS
<1>1. Typed /\ Exactly
  BY DEF IInv, DealInv
<1>2. Dealt(l, i)
  <2>1. CASE FromCounter(Loop(l))
    <3>1. Tids # {}
      <4>1. program.n \in Nat \ {0}
        BY <1>1, Known
      <4>2. 0 \in 0..program.n-1
        BY <4>1
      <4> QED
        BY <4>2 DEF Tids
    <3> QED
      BY <2>1, <3>1 DEF Dealt
  <2>2. CASE ~FromCounter(Loop(l))
    <3>1. PICK t \in Tids : Mine(Loop(l), t, i)
      BY <1>1, OneOwner
    <3>2. Ended(t, l)
      BY DEF EndedBy
    <3> QED
      BY <2>2, <3>1, <3>2 DEF Dealt
  <2> QED
    BY <2>1, <2>2
<1> QED
  BY <1>1, <1>2, ExactlyIs

LEMMA LeaverPromises ==
  ASSUME IInv, DealInv, NEW t \in Tids, CountDone(t) \/ ResetBuffer(t) \/ ReleaseBuffer(t),
         NEW l, l = disp_index[t]
  PROVE  (l \in Loops /\ Promise!Leave(t, l)) \/ Unseen
<1>1. /\ pc[t] \in Leavers /\ UNCHANGED <<ran, section>> /\ program' = program /\ Typed
      /\ pc[t] # "out"
  BY DEF CountDone, ResetBuffer, ReleaseBuffer, LeaveLoop, Goes, Leavers, Ending, history, IInv
<1>2. l \in Loops /\ Schedule(MyLoop(t)) # "static_steal"
  BY <1>1, EndIs
<1>3. PICK to \in {"out", "reset", "release"} : Leads(t, to)
  BY <1>2 DEF CountDone, ResetBuffer, ReleaseBuffer, LeaveLoop, Goes, Leads
<1>4. /\ \A u \in Tids : u # t => Left(u)' = Left(u)
      /\ Left(t)' = IF to = "out" THEN l ELSE Left(t)
  <2>1. to \in Leavers \cup {"out"}
    BY DEF Leavers, Ending
  <2> QED
    BY <1>1, <1>3, <2>1, LeaversStay
<1>5. CASE to # "out"
  BY <1>1, <1>4, <1>5 DEF Unseen
<1>6. CASE to = "out"
  <2>1. Promise!In(t, l)
    BY <1>1, IsIn
  <2>2. Tids' = Tids
    BY <1>1, SameProgram
  <2>3. [u \in Tids |-> Left(u)]' = [[u \in Tids |-> Left(u)] EXCEPT ![t] = l]
    BY <1>4, <1>6, <2>2
  <2>4. ASSUME \A u \in Tids \ {t} : [v \in Tids |-> Left(v)][u] >= l
        PROVE  \A i \in 0..Loop(l).tc-1 : ran[l][i] = 1
    <3>1. \A u \in Tids : u # t => Ended(u, l)
      BY <2>4 DEF Ended
    <3>2. Ended(t, l)
      BY <1>1 DEF Ended, Leavers
    <3>3. EndedBy(l) = Tids
      BY <3>1, <3>2 DEF EndedBy
    <3> QED
      BY <1>2, <3>3, AllDealt
  <2>5. Promise!Leave(t, l)
    BY <1>1, <2>1, <2>3, <2>4, PromiseIs DEF Promise!Leave
  <2> QED
    BY <1>2, <2>5
<1> QED
  BY <1>5, <1>6

LEMMA EnterPromises ==
  ASSUME IInv, DealInv, TurnInv, NEW t \in Tids, EnterOrdered(t), NEW l, l = disp_index[t]
  PROVE  l \in Loops /\ \E i \in 0..Loop(l).tc-1 : Promise!BeginOrdered(l, i)
<1>1. /\ l \in Loops /\ Loop(l).ordered
      /\ section[l].in = Null /\ section[l].last < frame[t].i
      /\ frame[t].i \in 0..Loop(l).tc-1 /\ ran[l][frame[t].i] = 1
      /\ section' = [section EXCEPT ![l].in = frame[t].i]
  BY EnterOrderedIs
<1>2. PICK i \in 0..Loop(l).tc-1 : i = frame[t].i
  BY <1>1
<1>3. /\ program' = program /\ ran' = ran
      /\ pc[t] \in Goers /\ "section" \in Goers /\ Leads(t, "section")
  BY DEF EnterOrdered, Goes, Goers, Inside, Leads
<1>4. [u \in Tids |-> Left(u)]' = [u \in Tids |-> Left(u)]
  <2>1. \A u \in Tids : Left(u)' = Left(u)
    BY <1>3, GoersStay DEF IInv
  <2> QED
    BY <1>3, <2>1, SameProgram
<1>5. Promise!BeginOrdered(l, i)
  BY <1>1, <1>2, <1>3, <1>4 DEF Promise!BeginOrdered, Promise!Outside, Null, Loop
<1> QED
  BY <1>1, <1>5

LEMMA ExitPromises ==
  ASSUME IInv, DealInv, TurnInv, NEW t \in Tids, ExitOrdered(t), NEW l, l = disp_index[t]
  PROVE  l \in Loops /\ Promise!EndOrdered(l)
<1>1. /\ l \in Loops /\ section[l].in = frame[t].i /\ frame[t].i \in Nat
      /\ section' = [section EXCEPT ![l] = [last |-> frame[t].i, in |-> Null]]
  BY ExitOrderedIs
<1>2. section' = [section EXCEPT ![l] = [last |-> @.in, in |-> Promise!Outside]]
  BY <1>1 DEF Promise!Outside, Null
<1>3. /\ program' = program /\ ran' = ran
      /\ pc[t] \in Goers /\ "finish" \in Goers /\ Leads(t, "finish")
  BY DEF ExitOrdered, Goes, Goers, Inside, Leads
<1>4. [u \in Tids |-> Left(u)]' = [u \in Tids |-> Left(u)]
  <2>1. \A u \in Tids : Left(u)' = Left(u)
    BY <1>3, GoersStay DEF IInv
  <2> QED
    BY <1>3, <2>1, SameProgram
<1>5. section[l].in # Promise!Outside
  BY <1>1 DEF Promise!Outside
<1> QED
  BY <1>1, <1>2, <1>3, <1>4, <1>5 DEF Promise!EndOrdered

(* The other steps.                                                         *)
LEMMA GoerUnseen ==
  ASSUME IInv, DealInv, NEW t \in Tids,
         \/ WaitForBuffer(t) \/ GuidedRead(t) \/ SkipOrdered(t) \/ DispatchFinish(t)
         \/ Goes(t, "guided", "next") /\ UNCHANGED <<program, disp_index, ran, section>>
         \/ \E l : Tells(t, l)
  PROVE  Unseen
<1>1. Typed /\ (pc[t] = "wait" => Schedule(MyLoop(t)) # "static_steal")
  BY DEF IInv, DealInv, Waited, Plain, PlainSchedules, MyLoop
<1>2. CASE WaitForBuffer(t)
  <2>1. Leads(t, "next") /\ pc[t] \in Goers /\ "next" \in Goers
    BY <1>1, <1>2 DEF WaitForBuffer, Goes, Leads, Goers, Inside
  <2>2. UNCHANGED <<program, ran, section>>
    BY <1>2 DEF WaitForBuffer, history
  <2> QED
    BY <1>1, <2>1, <2>2, GoersStay DEF Unseen
<1>3. CASE GuidedRead(t)
  <2>1. Leads(t, "guided") /\ pc[t] \in Goers /\ "guided" \in Goers
    BY <1>3 DEF GuidedRead, Goes, Leads, Goers, Inside
  <2>2. UNCHANGED <<program, ran, section>>
    BY <1>3 DEF GuidedRead, history
  <2> QED
    BY <1>1, <2>1, <2>2, GoersStay DEF Unseen
<1>4. CASE SkipOrdered(t)
  <2>1. Leads(t, "finish") /\ pc[t] \in Goers /\ "finish" \in Goers
    BY <1>4 DEF SkipOrdered, Goes, Leads, Goers, Inside
  <2>2. UNCHANGED <<program, ran, section>>
    BY <1>4 DEF SkipOrdered, history
  <2> QED
    BY <1>1, <2>1, <2>2, GoersStay DEF Unseen
<1>5. CASE DispatchFinish(t)
  <2>1. PICK to \in {"iteration", "next"} : Leads(t, to)
    BY <1>5 DEF DispatchFinish, Goes, Leads
  <2>2. to \in Goers /\ pc[t] \in Goers
    BY <1>5 DEF DispatchFinish, Goes, Goers, Inside
  <2>3. UNCHANGED <<program, ran, section>>
    BY <1>5 DEF DispatchFinish, history
  <2> QED
    BY <1>1, <2>1, <2>2, <2>3, GoersStay DEF Unseen
<1>6. CASE Goes(t, "guided", "next") /\ UNCHANGED <<program, disp_index, ran, section>>
  <2>1. Leads(t, "next") /\ pc[t] \in Goers /\ "next" \in Goers
    BY <1>6 DEF Goes, Leads, Goers, Inside
  <2> QED
    BY <1>1, <1>6, <2>1, GoersStay DEF Unseen
<1>7. CASE \E l : Tells(t, l)
  <2>1. Leads(t, "end") /\ pc[t] \in Goers /\ UNCHANGED <<program, ran, section>>
    BY <1>7 DEF Tells, Leads, Asks, Goers, Inside
  <2> QED
    BY <1>1, <2>1, GoerEnds DEF Unseen
<1> QED
  BY <1>2, <1>3, <1>4, <1>5, <1>6, <1>7

LEMMA StepPromises ==
  ASSUME IInv, DealInv, TurnInv, DealInv', NEW t \in Tids, Step(t)
  PROVE  Promise!Next \/ Unseen
<1>1. CASE DispatchInit(t)
  <2>1. PICK l : l = disp_index[t] + 1
    OBVIOUS
  <2>2. \A u \in Tids : Left(u)' = Left(u)
    BY <1>1, <2>1, EnterMoves DEF IInv
  <2>3. UNCHANGED <<program, ran, section>>
    BY <1>1 DEF DispatchInit, history
  <2> QED
    BY <2>2, <2>3 DEF Unseen
<1>2. CASE Asking(t) \/ Guided(t)
  <2>1. \/ \E l, a, b : Hands(t, l, a, b)
        \/ \E l : Tells(t, l)
        \/ Goes(t, "guided", "next") /\ UNCHANGED <<program, disp_index, ran, section>>
    BY <1>2, AskingDeals, GuidedDeals
  <2>2. CASE \E l, a, b : Hands(t, l, a, b)
    <3>1. PICK l, a, b : Hands(t, l, a, b)
      BY <2>2
    <3>2. Promise!Chunk(t, l) /\ l \in Loops
      BY <3>1, HandsChunk
    <3> QED
      BY <3>2, PromiseIs DEF Promise!Next
  <2> QED
    BY <2>1, <2>2, GoerUnseen
<1>3. CASE WaitForBuffer(t) \/ GuidedRead(t) \/ SkipOrdered(t) \/ DispatchFinish(t)
  BY <1>3, GoerUnseen
<1>4. CASE EnterOrdered(t)
  <2>1. PICK l \in Loops, i \in 0..Loop(disp_index[t]).tc-1 : l = disp_index[t] /\ Promise!BeginOrdered(l, i)
    BY <1>4, EnterPromises
  <2> QED
    BY <2>1, PromiseIs DEF Promise!Next
<1>5. CASE ExitOrdered(t)
  <2>1. PICK l \in Loops : Promise!EndOrdered(l)
    BY <1>5, ExitPromises
  <2> QED
    BY <2>1, PromiseIs DEF Promise!Next
<1>6. CASE CountDone(t) \/ ResetBuffer(t) \/ ReleaseBuffer(t)
  <2>1. (\E l \in Loops : Promise!Leave(t, l)) \/ Unseen
    BY <1>6, LeaverPromises
  <2> QED
    BY <2>1, PromiseIs DEF Promise!Next
<1> QED
  BY <1>1, <1>2, <1>3, <1>4, <1>5, <1>6, PlainSteps

LEMMA NextPromises ==
  IInv /\ DealInv /\ TurnInv /\ DealInv' /\ [Next]_vars => [Promise!Next]_(Promise!vars)
<1> SUFFICES ASSUME IInv, DealInv, TurnInv, DealInv', [Next]_vars
             PROVE  [Promise!Next]_(Promise!vars)
  OBVIOUS
<1>1. Promise!Next \/ Unseen
  <2>1. CASE Next
    BY <2>1, StepPromises DEF Next
  <2>2. CASE UNCHANGED vars
    <3>1. UNCHANGED <<program, disp_index, pc, ran, section>>
      BY <2>2 DEF vars, history
    <3>2. \A u \in Tids : Left(u)' = Left(u)
      BY <3>1 DEF Left
    <3> QED
      BY <3>1, <3>2 DEF Unseen
  <2> QED
    BY <2>1, <2>2
<1> QED
  BY <1>1, UnseenIs

LEMMA InitPromises == Init => Promise!Init
<1> SUFFICES ASSUME Init PROVE Promise!Init
  OBVIOUS
<1>1. \A t \in Tids : Left(t) = 0
  BY DEF Init, Left
<1>2. [t \in Tids |-> Left(t)] = [t \in Promise!Tids |-> 0]
  BY <1>1, PromiseIs
<1>3. section = [l \in Promise!Loops |-> [last |-> Promise!Outside, in |-> Promise!Outside]]
  BY PromiseIs DEF Init, Null, Promise!Outside
<1>4. ran = [l \in Promise!Loops |-> [i \in Promise!Iterations(l) |-> 0]]
  BY PromiseIs DEF Init
<1> QED
  BY <1>2, <1>3, <1>4 DEF Init, Promise!Init

(***************************************************************************)
(* The loops of plain programs keep the promise of WorkShare, for every     *)
(* number of threads, loops, iterations and buffers: no iteration is given  *)
(* out twice, the last thread to leave a loop leaves none over, and the     *)
(* ordered sections of a loop are executed one at a time, in the order of   *)
(* the iterations (__kmp_dispatch_init, _next, _deo, _dxo and _finish).     *)
(***************************************************************************)
THEOREM LoopsShareWork == Spec => (Plain => ImplementsWorkShare)
<1>1. IInv /\ DealInv /\ TurnInv /\ IInv' /\ DealInv' /\ TurnInv' /\ [Next]_vars
        => [Promise!Next]_(Promise!vars)
  BY NextPromises
<1> QED
  BY <1>1, TurnsAlways, InitPromises, PTL DEF Spec, ImplementsWorkShare, Promise!Spec

(***************************************************************************)
(* The same of the loops that are run beside static ones: what those do is  *)
(* invisible to WorkShare.                                                  *)
(***************************************************************************)
THEOREM LoopsKeepSharing == LoopsSpec => (Plain => ImplementsWorkShare)
<1>1. LoopsInit => Init
  BY DEF LoopsInit
<1>2. [LoopsNext]_<<vars, input, result>> => [Next]_vars
  BY DEF LoopsNext
<1> QED
  BY <1>1, <1>2, LoopsShareWork, PTL DEF LoopsSpec, Spec
=============================================================================
