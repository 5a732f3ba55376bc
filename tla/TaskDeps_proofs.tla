-------------------------- MODULE TaskDeps_proofs ---------------------------
(***************************************************************************)
(* Proofs about TaskDeps, for every number of tasks and waits, every finite *)
(* set of addresses and all lists of dependences: its variables keep their  *)
(* types, predecessor and reference counts are exact, and the graph keeps   *)
(* the order of TaskOrder.                                                  *)
(*                                                                          *)
(* The invariant IInv says what the hash table knows: every earlier user of *)
(* an address is in its lists, has finished, or leads to one that is        *)
(* (Table); what the dependence at hand conflicts with is still to be       *)
(* looked at, or linked, or has finished (Linked).  So an entered task is   *)
(* covered against everything it conflicts with (Guarded), and the last to  *)
(* notify it finds all of that finished (StartsLast).  Counts are           *)
(* cardinalities of the places where a node occurs.                         *)
(***************************************************************************)
EXTENDS TaskDeps, FiniteSetTheorems, TLAPS

(***************************************************************************)
(* Where a value is in a list, and where it is in the lists of a function.  *)
(***************************************************************************)
IsOne(b) == IF b THEN 1 ELSE 0

(* A value is at finitely many places of a list.                            *)
LEMMA IndicesAreFinite ==
  ASSUME NEW T, NEW l \in Seq(T), NEW n
  PROVE  /\ IsFiniteSet(Indices(l, n)) /\ Cardinality(Indices(l, n)) \in Nat
         /\ Indices(l, n) \subseteq 1..Len(l)
<1>1. IsFiniteSet(1..Len(l))
  BY FS_Interval
<1>2. Indices(l, n) \in SUBSET (1..Len(l))
  BY DEF Indices
<1> QED
  BY <1>1, <1>2, FS_Subset, FS_CardinalityType

(* The first element of a list is one place more.                           *)
LEMMA IndicesOfTail ==
  ASSUME NEW T, NEW l \in Seq(T), l # <<>>, NEW n
  PROVE  Cardinality(Indices(l, n))
           = Cardinality(Indices(Tail(l), n)) + IsOne(Head(l) = n)
<1> DEFINE I == Indices(l, n)
           J == Indices(Tail(l), n)
           K == I \ {1}
           f == [i \in J |-> i + 1]
<1>1. Tail(l) \in Seq(T) /\ Len(l) \in Nat \ {0} /\ Len(Tail(l)) = Len(l) - 1
      /\ Head(l) = l[1] /\ \A i \in 1..Len(Tail(l)) : Tail(l)[i] = l[i + 1]
  OBVIOUS
<1>2. /\ IsFiniteSet(I) /\ I \subseteq 1..Len(l) /\ Cardinality(I) \in Nat
      /\ IsFiniteSet(J) /\ J \subseteq 1..Len(Tail(l)) /\ Cardinality(J) \in Nat
  BY <1>1, IndicesAreFinite
<1>3. \A i : i \in J <=> i \in 1..Len(l) - 1 /\ l[i + 1] = n
  BY <1>1 DEF Indices
<1>4. \A i : i \in I <=> i \in 1..Len(l) /\ l[i] = n
  BY DEF Indices
<1>5. f \in Bijection(J, K)
  <2>1. \A i \in J : i \in Int /\ i + 1 \in K
    BY <1>1, <1>2, <1>3, <1>4
  <2>2. \A k \in K : k - 1 \in J /\ k \in Int
    BY <1>1, <1>2, <1>3, <1>4
  <2>3. f \in [J -> K] /\ \A i, j \in J : f[i] = f[j] => i = j
    BY <2>1
  <2>4. \A k \in K : \E i \in J : f[i] = k
    <3> SUFFICES ASSUME NEW k \in K PROVE \E i \in J : f[i] = k
      OBVIOUS
    <3>1. k - 1 \in J /\ k \in Int
      BY <2>2
    <3>2. f[k - 1] = (k - 1) + 1
      BY <3>1
    <3> QED
      BY <3>1, <3>2
  <2>5. f \in Injection(J, K)
    BY <2>3 DEF Injection, IsInjective
  <2>6. f \in Surjection(J, K)
    BY <2>3, <2>4 DEF Surjection
  <2> QED
    BY <2>5, <2>6 DEF Bijection
<1>6. Cardinality(K) = Cardinality(J)
  <2>1. ExistsBijection(J, K)
    BY <1>5 DEF ExistsBijection
  <2> QED
    BY <1>2, <2>1, FS_Bijection
<1>7. Cardinality(K) = Cardinality(I) - IsOne(1 \in I)
  <2>1. Cardinality(K) = IF 1 \in I THEN Cardinality(I) - 1 ELSE Cardinality(I)
    BY <1>2, FS_RemoveElement
  <2> QED
    BY <1>2, <2>1 DEF IsOne
<1>8. 1 \in I <=> Head(l) = n
  BY <1>1, <1>4
<1> QED
  BY <1>2, <1>6, <1>7, <1>8 DEF IsOne

(* An element put before a list.                                            *)
LEMMA IndicesOfCons ==
  ASSUME NEW T, NEW l \in Seq(T), NEW x \in T, NEW n
  PROVE  Cardinality(Indices(<<x>> \o l, n)) = Cardinality(Indices(l, n)) + IsOne(x = n)
<1> DEFINE s == <<x>> \o l
<1>1. s \in Seq(T) /\ s # <<>> /\ Head(s) = x /\ Tail(s) = l
  <2>1. s \in Seq(T) /\ Len(s) = Len(l) + 1 /\ s[1] = x
        /\ \A i \in 1..Len(l) : s[i + 1] = l[i]
    OBVIOUS
  <2>2. s # <<>> /\ Head(s) = x
    BY <2>1
  <2>3. Tail(s) \in Seq(T) /\ Len(Tail(s)) = Len(l)
        /\ \A i \in 1..Len(l) : Tail(s)[i] = l[i]
    BY <2>1, <2>2
  <2>4. Tail(s) = l
    BY <2>3
  <2> QED
    BY <2>1, <2>2, <2>4
<1> HIDE DEF s
<1>2. Cardinality(Indices(s, n)) = Cardinality(Indices(Tail(s), n)) + IsOne(Head(s) = n)
  BY <1>1, IndicesOfTail
<1> QED
  BY <1>1, <1>2 DEF s

(* An element put behind a list.                                            *)
LEMMA IndicesOfAppend ==
  ASSUME NEW T, NEW l \in Seq(T), NEW x, NEW n
  PROVE  Cardinality(Indices(Append(l, x), n)) = Cardinality(Indices(l, n)) + IsOne(x = n)
<1> DEFINE I == Indices(l, n)
           J == Indices(Append(l, x), n)
<1>1. IsFiniteSet(I) /\ Cardinality(I) \in Nat /\ I \subseteq 1..Len(l)
  BY IndicesAreFinite
<1>2. /\ DOMAIN Append(l, x) = 1..Len(l) + 1 /\ Append(l, x)[Len(l) + 1] = x
      /\ DOMAIN l = 1..Len(l) /\ Len(l) \in Nat
      /\ \A i \in 1..Len(l) : Append(l, x)[i] = l[i]
  OBVIOUS
<1>3. \A i : i \in J <=> i \in I \/ (i = Len(l) + 1 /\ x = n)
  BY <1>2 DEF Indices
<1>4. CASE x = n
  <2>1. J = I \cup {Len(l) + 1} /\ Len(l) + 1 \notin I
    BY <1>1, <1>2, <1>3, <1>4
  <2> QED
    BY <1>1, <1>4, <2>1, FS_AddElement DEF IsOne
<1>5. CASE x # n
  <2>1. J = I
    BY <1>3, <1>5
  <2> QED
    BY <1>1, <1>5, <2>1 DEF IsOne
<1> QED
  BY <1>4, <1>5

(* Nothing is in the empty list.                                            *)
LEMMA IndicesOfEmpty ==
  ASSUME NEW n
  PROVE  Cardinality(Indices(<<>>, n)) = 0
<1>1. Indices(<<>>, n) = {}
  BY DEF Indices
<1> QED
  BY <1>1, FS_EmptySet

(* A list of one element.                                                   *)
LEMMA IndicesOfOne ==
  ASSUME NEW x, NEW n
  PROVE  Cardinality(Indices(<<x>>, n)) = IsOne(x = n)
<1>1. \A i : i \in Indices(<<x>>, n) <=> i = 1 /\ x = n
  BY DEF Indices
<1>2. CASE x = n
  <2>1. Indices(<<x>>, n) = {1}
    BY <1>1, <1>2
  <2> QED
    BY <1>2, <2>1, FS_Singleton DEF IsOne
<1>3. CASE x # n
  <2>1. Indices(<<x>>, n) = {}
    BY <1>1, <1>3
  <2> QED
    BY <1>3, <2>1, FS_EmptySet DEF IsOne
<1> QED
  BY <1>2, <1>3

(* The lists of a function with a finite domain have a finite number of     *)
(* places for n, as many as its elements; there are none if no list has n.  *)
LEMMA PlacesAreFinite ==
  ASSUME NEW S, IsFiniteSet(S), NEW T, NEW f \in [S -> Seq(T)], NEW n
  PROVE  /\ IsFiniteSet(Places(f, n)) /\ Cardinality(Places(f, n)) \in Nat
         /\ Cardinality(Places(f, n)) = 0
              <=> \A t \in S : \A i \in DOMAIN f[t] : f[t][i] # n
<1> DEFINE G == {{t} \X Indices(f[t], n) : t \in S}
<1>1. IsFiniteSet(G)
  <2> DEFINE g == [t \in S |-> {t} \X Indices(f[t], n)]
  <2>1. g \in Surjection(S, G)
    BY DEF Surjection
  <2> QED
    BY <2>1, FS_Surjection
<1>2. \A s \in G : IsFiniteSet(s)
  <2> SUFFICES ASSUME NEW t \in S PROVE IsFiniteSet({t} \X Indices(f[t], n))
    OBVIOUS
  <2>1. IsFiniteSet({t}) /\ IsFiniteSet(Indices(f[t], n))
    BY FS_Singleton, IndicesAreFinite
  <2> QED
    BY <2>1, FS_Product
<1>3. Places(f, n) = UNION G
  BY DEF Places
<1>4. IsFiniteSet(Places(f, n))
  BY <1>1, <1>2, <1>3, FS_UNION
<1>5. Places(f, n) = {} <=> \A t \in S : \A i \in DOMAIN f[t] : f[t][i] # n
  <2>1. Places(f, n) = {} <=> \A t \in S : Indices(f[t], n) = {}
    <3>1. \A t \in S : Indices(f[t], n) = {} <=> {t} \X Indices(f[t], n) = {}
      <4> SUFFICES ASSUME NEW t \in S
                   PROVE  Indices(f[t], n) = {} <=> {t} \X Indices(f[t], n) = {}
        OBVIOUS
      <4>1. \A i \in Indices(f[t], n) : <<t, i>> \in {t} \X Indices(f[t], n)
        OBVIOUS
      <4>2. \A x \in {t} \X Indices(f[t], n) : x[2] \in Indices(f[t], n)
        OBVIOUS
      <4> QED
        BY <4>1, <4>2
    <3>2. UNION G = {} <=> \A s \in G : s = {}
      OBVIOUS
    <3> QED
      BY <1>3, <3>1, <3>2
  <2>2. \A t \in S : Indices(f[t], n) = {} <=> \A i \in DOMAIN f[t] : f[t][i] # n
    BY DEF Indices
  <2> QED
    BY <2>1, <2>2
<1> QED
  BY <1>4, <1>5, FS_EmptySet, FS_CardinalityType

(* Functions to lists that differ at one argument.                          *)
AreLists(S, T, f)    == f \in [S -> Seq(T)]
AgreeBut(S, f, g, p) == \A t \in S : t # p => g[t] = f[t]

(* One list of a function is replaced.                                      *)
LEMMA Replaced ==
  ASSUME NEW S, IsFiniteSet(S), NEW T, NEW f, NEW g, AreLists(S, T, f), AreLists(S, T, g),
         NEW p \in S, AgreeBut(S, f, g, p), NEW n
  PROVE  /\ Cardinality(Places(f, n)) \in Nat /\ Cardinality(Places(g, n)) \in Nat
         /\ Cardinality(Places(g, n)) + Cardinality(Indices(f[p], n))
              = Cardinality(Places(f, n)) + Cardinality(Indices(g[p], n))
<1> DEFINE Rest == UNION {{t} \X Indices(f[t], n) : t \in S \ {p}}
           F    == {p} \X Indices(f[p], n)
           G    == {p} \X Indices(g[p], n)
<1> USE DEF AreLists
<1>1. \A t \in S \ {p} : g[t] = f[t]
  BY DEF AgreeBut
<1>2. Places(f, n) = Rest \cup F /\ Rest \cap F = {}
  BY DEF Places
<1>3. Places(g, n) = Rest \cup G /\ Rest \cap G = {}
  <2>1. Places(g, n) = UNION {{t} \X Indices(g[t], n) : t \in S}
    BY <1>1 DEF Places
  <2>2. \A x : x \in Places(g, n) <=> \E t \in S : x \in {t} \X Indices(g[t], n)
    BY <2>1
  <2>3. \A x : x \in Rest <=> \E t \in S \ {p} : x \in {t} \X Indices(f[t], n)
    OBVIOUS
  <2>4. \A x : x \in Places(g, n) <=> x \in Rest \/ x \in G
    BY <1>1, <2>2, <2>3
  <2>5. Places(g, n) = Rest \cup G
    BY <2>4
  <2>6. Rest \cap G = {}
    OBVIOUS
  <2> QED
    BY <2>5, <2>6
<1>4. IsFiniteSet(Places(f, n)) /\ Rest \in SUBSET Places(f, n)
  BY <1>2, PlacesAreFinite
<1>5. IsFiniteSet(Rest)
  BY <1>4, FS_Subset
<1>6. /\ IsFiniteSet(F) /\ Cardinality(F) = Cardinality(Indices(f[p], n))
      /\ IsFiniteSet(G) /\ Cardinality(G) = Cardinality(Indices(g[p], n))
  <2>1. IsFiniteSet({p}) /\ Cardinality({p}) = 1
    BY FS_Singleton
  <2>2. /\ IsFiniteSet(Indices(f[p], n)) /\ Cardinality(Indices(f[p], n)) \in Nat
        /\ IsFiniteSet(Indices(g[p], n)) /\ Cardinality(Indices(g[p], n)) \in Nat
    BY IndicesAreFinite
  <2>3. IsFiniteSet(F) /\ Cardinality(F) = 1 * Cardinality(Indices(f[p], n))
    BY <2>1, <2>2, FS_Product
  <2>4. IsFiniteSet(G) /\ Cardinality(G) = 1 * Cardinality(Indices(g[p], n))
    BY <2>1, <2>2, FS_Product
  <2> QED
    BY <2>2, <2>3, <2>4
<1>7. Cardinality(Rest) \in Nat /\ Cardinality(F) \in Nat /\ Cardinality(G) \in Nat
  BY <1>5, <1>6, FS_CardinalityType
<1> HIDE DEF Rest, F, G
<1>8. Cardinality(Places(f, n)) = Cardinality(Rest) + Cardinality(F)
  <2>1. Cardinality(Rest \cup F)
          = Cardinality(Rest) + Cardinality(F) - Cardinality(Rest \cap F)
    BY <1>5, <1>6, FS_Union
  <2>2. Cardinality(Rest \cap F) = 0
    BY <1>2, FS_EmptySet
  <2>3. Cardinality(Places(f, n)) = Cardinality(Rest \cup F)
    BY <1>2, Zenon
  <2> QED
    BY <1>7, <2>1, <2>2, <2>3
<1>9. Cardinality(Places(g, n)) = Cardinality(Rest) + Cardinality(G)
  <2>1. Cardinality(Rest \cup G)
          = Cardinality(Rest) + Cardinality(G) - Cardinality(Rest \cap G)
    BY <1>5, <1>6, FS_Union
  <2>2. Cardinality(Rest \cap G) = 0
    BY <1>3, FS_EmptySet
  <2>3. Cardinality(Places(g, n)) = Cardinality(Rest \cup G)
    BY <1>3, Zenon
  <2> QED
    BY <1>7, <2>1, <2>2, <2>3
<1> QED
  BY <1>6, <1>7, <1>8, <1>9, PlacesAreFinite

(* The number of arguments that have a value.                               *)
Held(S, f, n) == Cardinality({a \in S : f[a] = n})

(* The arguments that have a value, when the function changes at one.       *)
LEMMA HoldersChange ==
  ASSUME NEW S, IsFiniteSet(S), NEW f, NEW g, NEW p \in S,
         AgreeBut(S, f, g, p), NEW n
  PROVE  /\ Held(S, f, n) \in Nat /\ Held(S, g, n) \in Nat
         /\ Held(S, g, n) + IsOne(f[p] = n) = Held(S, f, n) + IsOne(g[p] = n)
<1> DEFINE F == {a \in S : f[a] = n}
           G == {a \in S : g[a] = n}
           R == {a \in S \ {p} : f[a] = n}
<1>1. \A a \in S \ {p} : g[a] = f[a]
  BY DEF AgreeBut
<1>2. R \in SUBSET S
  OBVIOUS
<1>3. IsFiniteSet(R) /\ Cardinality(R) \in Nat /\ p \notin R
  BY <1>2, FS_Subset, FS_CardinalityType
<1>4. F = IF f[p] = n THEN R \cup {p} ELSE R
  OBVIOUS
<1>5. G = IF g[p] = n THEN R \cup {p} ELSE R
  BY <1>1
<1> HIDE DEF F, G, R
<1>6. Cardinality(R \cup {p}) = Cardinality(R) + 1
  BY <1>3, FS_AddElement
<1>7. Cardinality(F) = Cardinality(R) + IsOne(f[p] = n)
  BY <1>3, <1>4, <1>6 DEF IsOne
<1>8. Cardinality(G) = Cardinality(R) + IsOne(g[p] = n)
  BY <1>3, <1>5, <1>6 DEF IsOne
<1>9. /\ Cardinality(F) \in Nat /\ Cardinality(G) \in Nat
      /\ Cardinality(G) + IsOne(f[p] = n) = Cardinality(F) + IsOne(g[p] = n)
  BY <1>3, <1>7, <1>8 DEF IsOne
<1> QED
  BY <1>9 DEF F, G, Held

(***************************************************************************)
(* __kmp_check_deps folds a list of dependences into one that has every     *)
(* address once.                                                            *)
(***************************************************************************)
Dependence == [addr : Addrs, out : BOOLEAN]

(* The first occurrences are counted from 1 without a gap.                  *)
LEMMA RanksAreExact ==
  ASSUME NEW l \in Seq(Dependence), l # <<>>
  PROVE  /\ Cardinality(Firsts(l)) \in Nat \ {0}
         /\ \A n \in 1..Cardinality(Firsts(l)) : \E i \in Firsts(l) : Rank(l, i) = n
<1> DEFINE F == Firsts(l)
           c == Cardinality(F)
           B(i) == {j \in F : j <= i}
           r == [i \in F |-> Rank(l, i)]
<1>1. F \in SUBSET (1..Len(l)) /\ IsFiniteSet(1..Len(l)) /\ Len(l) \in Nat \ {0}
  BY FS_Interval DEF Firsts
<1>2. IsFiniteSet(F) /\ c \in Nat
  BY <1>1, FS_Subset, FS_CardinalityType
<1>3. 1 \in F
  BY <1>1 DEF Firsts
<1>4. c # 0
  BY <1>2, <1>3, FS_EmptySet
<1>5. \A i \in F : /\ IsFiniteSet(B(i)) /\ Cardinality(B(i)) \in 1..c
  <2> TAKE i \in F
  <2>1. B(i) \in SUBSET F /\ i \in B(i)
    BY <1>1
  <2>2. IsFiniteSet(B(i)) /\ Cardinality(B(i)) <= c /\ Cardinality(B(i)) \in Nat
    BY <1>2, <2>1, FS_Subset, FS_CardinalityType
  <2>3. Cardinality(B(i)) # 0
    BY <2>1, <2>2, FS_EmptySet
  <2> QED
    BY <1>2, <2>2, <2>3
<1>6. \A i, j \in F : i < j => Cardinality(B(i)) # Cardinality(B(j))
  <2> SUFFICES ASSUME NEW i \in F, NEW j \in F, i < j
               PROVE  Cardinality(B(i)) # Cardinality(B(j))
    OBVIOUS
  <2>1. B(i) \in SUBSET B(j) /\ j \in B(j) /\ j \notin B(i)
    BY <1>1
  <2>2. IsFiniteSet(B(j))
    BY <1>5
  <2> HIDE DEF B
  <2> QED
    BY <2>1, <2>2, FS_Subset
<1>7. \A i, j \in F : Cardinality(B(i)) = Cardinality(B(j)) => i = j
  <2>1. \A i, j \in F : i < j \/ j < i \/ i = j
    BY <1>1
  <2> HIDE DEF B
  <2> QED
    BY <1>6, <2>1
<1>8. \A i \in F : r[i] = Cardinality(B(i))
  BY DEF Rank
<1> HIDE DEF B
<1>9. r \in Injection(F, 1..c)
  <2>1. r \in [F -> 1..c]
    BY <1>5, <1>8
  <2>2. \A i, j \in F : r[i] = r[j] => i = j
    BY <1>7, <1>8
  <2> HIDE DEF r
  <2> QED
    BY <2>1, <2>2 DEF Injection, IsInjective
<1>10. IsFiniteSet(1..c) /\ Cardinality(1..c) = c
  BY <1>2, <1>4, FS_Interval
<1>11. r \in Surjection(F, 1..c)
  BY <1>9, <1>10, FS_Injection
<1> QED
  BY <1>2, <1>4, <1>11 DEF Surjection

(* What __kmp_process_deps gets is not empty, and no two of its dependences *)
(* have the same address.                                                   *)
LEMMA FilterMerges ==
  ASSUME NEW l \in Seq(Dependence), l # <<>>
  PROVE  /\ Filter(l) \in Seq(Dependence) /\ Filter(l) # <<>>
         /\ \A i, j \in DOMAIN Filter(l) : Filter(l)[i].addr = Filter(l)[j].addr => i = j
<1> DEFINE F == Firsts(l)
           c == Cardinality(F)
           At(n) == CHOOSE i \in F : Rank(l, i) = n
<1>1. c \in Nat \ {0} /\ \A n \in 1..c : \E i \in F : Rank(l, i) = n
  BY RanksAreExact
<1>2. \A n \in 1..c : At(n) \in F /\ Rank(l, At(n)) = n
  BY <1>1
<1>3. F \subseteq DOMAIN l /\ \A i, j \in F : l[i].addr = l[j].addr => i = j
  <2>1. \A i, j \in F : i < j => l[i].addr # l[j].addr
    BY DEF Firsts
  <2>2. F \subseteq 1..Len(l)
    BY DEF Firsts
  <2>3. \A i, j \in F : i < j \/ j < i \/ i = j
    BY <2>2
  <2> HIDE DEF F
  <2> QED
    BY <2>1, <2>2, <2>3
<1>4. \A i \in F : Folded(l, i) \in Dependence /\ Folded(l, i).addr = l[i].addr
  <2>1. \A i \in F : l[i] \in Dependence
    BY <1>3
  <2> QED
    BY <2>1 DEF Folded, Dependence
<1>5. Filter(l) = [n \in 1..c |-> Folded(l, At(n))]
  BY DEF Filter
<1> HIDE DEF F, c, At
<1>6. /\ DOMAIN Filter(l) = 1..c
      /\ \A n \in 1..c : Filter(l)[n] \in Dependence /\ Filter(l)[n].addr = l[At(n)].addr
  BY <1>2, <1>4, <1>5
<1>7. Filter(l) \in Seq(Dependence)
  BY <1>1, <1>2, <1>4, <1>5
<1>8. Filter(l) # <<>>
  BY <1>1, <1>6
<1>9. \A i, j \in 1..c : l[At(i)].addr = l[At(j)].addr => i = j
  BY <1>2, <1>3
<1> QED
  BY <1>6, <1>7, <1>8, <1>9

(***************************************************************************)
(* What is known of the graph while it is built and taken apart.            *)
(***************************************************************************)
Finished(k) == status[k] \in {"notify", "drop", "wake", "done"}
Started(k)  == status[k] \in {"queued", "running"}

(* The item that is entered; a dependence of an item that was recorded in   *)
(* the hash table.                                                          *)
Entering(k)    == k = cur /\ Counting
Recorded(k, i) == k < cur \/ (k = cur /\ (pc # "process" \/ i < dep))
Pending        == pc \in {"process", "publish", "count", "wait"} /\ kind[cur] = "wait"

(* Task j uses, or uses as an output, an address; that is in conflict with  *)
(* a dependence of a later item.                                            *)
Touches(j, a) ==
  /\ kind[j] = "task"
  /\ \E h \in DOMAIN deps[j] : Recorded(j, h) /\ deps[j][h].addr = a
Writes(j, a)  ==
  /\ kind[j] = "task"
  /\ \E h \in DOMAIN deps[j] : Recorded(j, h) /\ deps[j][h].addr = a /\ deps[j][h].out
Conflicts(j, d) == IF d.out THEN Touches(j, d.addr) ELSE Writes(j, d.addr)

(* Task t has yet to notify k.                                              *)
Notifies(t, k) == \E i \in DOMAIN ToNotify[t] : ToNotify[t][i] = k

(* p cannot finish before j has: it is j, or needs it at one or two removes.*)
(* Then k is safe from j once p has finished, and while p still has to      *)
(* notify k.                                                                *)
Before(j, p)  == j = p \/ j \in Needs(p) \/ \E m \in Needs(p) : j \in Needs(m)
Covered(j, k) == Finished(j) \/ \E t \in Items : Notifies(t, k) /\ Before(j, t)

(* Items beyond cur are untouched; what the other items look like.          *)
Fresh(k) ==
  /\ kind[k] = "task" /\ deps[k] = <<>> /\ status[k] = "none"
  /\ ~task[k] /\ npredecessors[k] = 0 /\ successors[k] = <<>>

Merged(k) ==
  /\ deps[k] # <<>>
  /\ \A i, j \in DOMAIN deps[k] : deps[k][i].addr = deps[k][j].addr => i = j

Published(k) ==
  task[k] <=> /\ kind[k] = "task" /\ status[k] \in {"created", "queued", "running"}
              /\ ~(k = cur /\ pc \in {"process", "publish"})

Idle(k) ==
  kind[k] = "wait" =>
    /\ successors[k] = <<>>
    /\ status[k] = IF k = cur /\ pc \in {"process", "publish", "count", "wait"}
                   THEN "created" ELSE "done"

Behind(k) ==
  /\ status[k] \in {"wake", "drop"} => successors[k] # <<>>
  /\ status[k] = "done" => successors[k] = <<>>
  /\ \A i \in DOMAIN successors[k] : successors[k][i] \in k+1..cur

Entered(k) ==
  /\ status[k] # "none"
  /\ Entering(k) => status[k] = "created" /\ npredecessors[k] < 0
  /\ Merged(k) /\ Published(k) /\ Idle(k) /\ Behind(k)

Control ==
  /\ pc \in {"process", "publish", "count", "wait"} => cur # 0
  /\ pc = "wait" => kind[cur] = "wait"
  /\ pc = "process" => dep \in DOMAIN deps[cur]
  /\ pc # "process" => todo = <<>>

ItemsAreSound == \A k \in Items : IF k <= cur THEN Entered(k) ELSE Fresh(k)

(* The hash table holds the last users of every address; the users before   *)
(* them have finished, or lead to them, or to what a wait waits for.        *)
Settled(j) == Finished(j) \/ (Pending /\ Covered(j, cur))

LastWriter(a) ==
  last_out[a] # Null => last_out[a] \in 1..cur /\ Writes(last_out[a], a)

LastReaders(a) ==
  \A i \in DOMAIN last_ins[a] :
    last_ins[a][i] \in last_out[a]+1..cur /\ Touches(last_ins[a][i], a)

Users(a) ==
  \A j \in 1..cur :
    /\ Writes(j, a)  => j <= last_out[a] \/ Settled(j)
    /\ Touches(j, a) => \/ j <= last_out[a] \/ Settled(j)
                        \/ \E i \in DOMAIN last_ins[a] : last_ins[a][i] = j

Table == pc # "end" => \A a \in Addrs : LastWriter(a) /\ LastReaders(a) /\ Users(a)

(* The predecessors of the dependence at hand are still to be looked at, or *)
(* linked, or have finished.                                                *)
Looked(p) ==
  \/ \E i \in DOMAIN todo : todo[i] = p
  \/ Finished(p) \/ Notifies(p, cur)

Linked ==
  pc = "process" =>
    /\ \A i \in DOMAIN todo : \E j \in DOMAIN Preds(Dep) : Preds(Dep)[j] = todo[i]
    /\ \A p \in Items : (\E j \in DOMAIN Preds(Dep) : Preds(Dep)[j] = p) => Looked(p)

(* What an item is in conflict with has finished or leads to a task that    *)
(* has yet to notify it; it is not started before all have.                 *)
Guarded ==
  \A k \in 1..cur : \A i \in DOMAIN deps[k] : \A j \in 1..k-1 :
    Recorded(k, i) /\ Conflicts(j, deps[k][i]) => Covered(j, k)

StartsLast ==
  \A k \in 1..cur : Started(k) \/ Finished(k) =>
    /\ \A j \in Needs(k) : Finished(j)
    /\ \A t \in Items : ~Notifies(t, k)

(* The last to notify a task is the only one to queue it.                   *)
Wakes(t, s) ==
  /\ ~Entering(s)
  /\ kind[s] = "task" => status[s] = "created"
  /\ \A u \in Items : ~Notifies(u, s)
  /\ \A u \in Items : status[u] = "wake" /\ Head(successors[u]) = s => u = t

Waking == \A t \in Items : status[t] = "wake" => Wakes(t, Head(successors[t]))

(* The parts of the reference count.                                        *)
Own(n)    == IF status[n] = "none" \/ (kind[n] = "task" /\ status[n] = "done") THEN 0 ELSE 1
Listed(n) == Cardinality(Places(successors, n))
Outs(n)   == Cardinality({a \in Addrs : last_out[a] = n})
Ins(n)    == Cardinality(Places(last_ins, n))

Counted == \A n \in Items : nrefs[n] = Own(n) + Listed(n) + Outs(n) + Ins(n)

Typed ==
  /\ kind \in [Items -> {"task", "wait"}]
  /\ deps \in [Items -> Seq(Dependence)]
  /\ last_out \in [Addrs -> Items \cup {Null}]
  /\ last_ins \in [Addrs -> Seq(Items)]
  /\ task \in [Items -> BOOLEAN]
  /\ npredecessors \in [Items -> Int]
  /\ successors \in [Items -> Seq(Items)]
  /\ status \in [Items -> Statuses]
  /\ cur \in 0..MaxItems /\ dep \in Nat \ {0} /\ npre \in Nat
  /\ todo \in Seq(Items)
  /\ pc \in {"create", "process", "publish", "count", "wait", "end"}
  /\ fault \in BOOLEAN

NrefsTyped == nrefs \in [Items -> Nat]

Graph ==
  /\ Control /\ ItemsAreSound /\ Table /\ Linked /\ Guarded /\ StartsLast /\ Waking

IInv == Typed /\ NrefsTyped /\ Graph /\ PredecessorsAreExact /\ Counted

(* The invariant has the types in it.                                       *)
LEMMA InvIsTypeOK == IInv => TypeOK
BY DEF IInv, TypeOK, Typed, NrefsTyped, Dependence

(* The items that were created are items.                                   *)
LEMMA ItemsUpTo == cur \in 0..MaxItems => 1..cur \subseteq Items /\ cur \in Int
BY ItemsAssumption DEF Items

(* What an item needs, in terms of the places in the lists.                 *)
LEMMA NeedsOf ==
  ASSUME NEW k, NEW j
  PROVE  j \in Needs(k) <=>
           /\ j \in 1..k-1 /\ kind[j] = "task"
           /\ \E h \in DOMAIN deps[j], i \in DOMAIN deps[k] :
                /\ deps[j][h].addr = deps[k][i].addr
                /\ deps[j][h].out \/ deps[k][i].out
BY DEF Needs, Range

(* Of two users of an address, one of which writes, the later needs the     *)
(* earlier.                                                                 *)
LEMMA UsersNeed ==
  ASSUME NEW j, NEW m, j \in 1..m-1, NEW a, Touches(j, a), Touches(m, a),
         Writes(j, a) \/ Writes(m, a)
  PROVE  j \in Needs(m)
<1>1. CASE Writes(j, a)
  BY <1>1, NeedsOf DEF Writes, Touches
<1>2. CASE Writes(m, a)
  BY <1>2, NeedsOf DEF Writes, Touches
<1> QED
  BY <1>1, <1>2

(* Who writes an address uses it.                                           *)
LEMMA WritersTouch ==
  ASSUME NEW j, NEW a, Writes(j, a)
  PROVE  Touches(j, a)
BY DEF Writes, Touches

(* What an item needs is in conflict with one of its dependences.           *)
LEMMA NeedsConflict ==
  ASSUME Typed, NEW k \in 1..cur, NEW j \in Needs(k)
  PROVE  j \in 1..k-1 /\ \E i \in DOMAIN deps[k] : Conflicts(j, deps[k][i])
<1>1. j \in 1..k-1 /\ kind[j] = "task" /\ j < cur
  BY NeedsOf DEF Typed
<1>2. PICK h \in DOMAIN deps[j], i \in DOMAIN deps[k] :
        /\ deps[j][h].addr = deps[k][i].addr
        /\ deps[j][h].out \/ deps[k][i].out
  BY NeedsOf
<1>3. Recorded(j, h)
  BY <1>1 DEF Recorded
<1>4. Conflicts(j, deps[k][i])
  BY <1>1, <1>2, <1>3 DEF Conflicts, Touches, Writes
<1> QED
  BY <1>1, <1>4

(* Users of an address up to its last writer are before that writer and     *)
(* before every user after it.                                              *)
LEMMA UpToWriter ==
  ASSUME NEW a, NEW w \in Nat, Writes(w, a), NEW j \in Nat \ {0}, Touches(j, a), j <= w
  PROVE  Before(j, w)
<1>1. CASE j = w
  BY <1>1 DEF Before
<1>2. CASE j < w
  <2>1. j \in 1..w-1
    BY <1>2
  <2>2. j \in Needs(w)
    BY <2>1, UsersNeed, WritersTouch
  <2> QED
    BY <2>2 DEF Before
<1> QED
  BY <1>1, <1>2

(* The same for a user of the address after its last writer.                *)
LEMMA UpToReader ==
  ASSUME NEW a, NEW w \in Nat \ {0}, Writes(w, a), NEW j \in Nat \ {0}, Touches(j, a), j <= w,
         NEW p \in Nat, Touches(p, a), w < p
  PROVE  Before(j, p)
<1>1. w \in Needs(p)
  <2>1. w \in 1..p-1
    OBVIOUS
  <2> QED
    BY <2>1, UsersNeed, WritersTouch
<1>2. CASE j = w
  BY <1>1, <1>2 DEF Before
<1>3. CASE j < w
  <2>1. j \in 1..w-1
    BY <1>3
  <2>2. j \in Needs(w)
    BY <2>1, UsersNeed, WritersTouch
  <2> QED
    BY <1>1, <2>2 DEF Before
<1> QED
  BY <1>2, <1>3

(* What is before a task that has finished has finished.                    *)
LEMMA FinishedBefore ==
  ASSUME Typed, StartsLast, NEW p \in 1..cur, Finished(p), NEW j, Before(j, p)
  PROVE  Finished(j)
<1>1. \A m \in Needs(p) : Finished(m) /\ m \in 1..cur
  <2>1. \A m \in Needs(p) : m \in 1..p-1
    BY NeedsOf
  <2>2. \A m \in Needs(p) : m \in 1..cur
    BY <2>1 DEF Typed
  <2> QED
    BY <2>2 DEF StartsLast
<1>2. \A m \in Needs(p) : \A i \in Needs(m) : Finished(i)
  BY <1>1 DEF StartsLast
<1> QED
  BY <1>1, <1>2 DEF Before

(* An item is safe from what is before a predecessor that has finished or has*)
(* to notify it.                                                            *)
LEMMA BehindPred ==
  ASSUME Typed, StartsLast, NEW p \in 1..cur, NEW k, Finished(p) \/ Notifies(p, k),
         NEW j, Before(j, p)
  PROVE  Covered(j, k)
<1>1. p \in Items
  BY ItemsUpTo DEF Typed
<1> QED
  BY <1>1, FinishedBefore DEF Covered

(* A finished item has been entered.                                        *)
LEMMA FinishedIsEntered ==
  ASSUME Typed, ItemsAreSound, NEW p \in Items, Finished(p) \/ Started(p) \/ status[p] # "none"
  PROVE  p \in 1..cur /\ Entered(p)
<1>1. p \in Int /\ p >= 1 /\ cur \in Int
  BY ItemsAssumption DEF Items, Typed
<1>2. p <= cur
  BY <1>1 DEF ItemsAreSound, Fresh, Finished, Started
<1> QED
  BY <1>1, <1>2 DEF ItemsAreSound

(* Who notifies has successors, which are later.                            *)
LEMMA NotifiersAreEntered ==
  ASSUME Typed, ItemsAreSound, NEW t \in Items, NEW k, Notifies(t, k)
  PROVE  t \in 1..cur /\ Entered(t) /\ k \in t+1..cur /\ kind[t] = "task"
<1>1. t \in Int /\ t >= 1 /\ cur \in Int /\ successors[t] \in Seq(Items)
  BY ItemsAssumption DEF Items, Typed
<1>2. PICK i \in DOMAIN ToNotify[t] : ToNotify[t][i] = k
  BY DEF Notifies
<1>3. ToNotify[t] = IF status[t] \in {"wake", "drop"} THEN Tail(successors[t])
                                                      ELSE successors[t]
  BY DEF ToNotify
<1>4. successors[t] # <<>>
  <2>1. CASE successors[t] = <<>> /\ status[t] \notin {"wake", "drop"}
    BY <1>2, <1>3, <2>1
  <2>2. CASE successors[t] = <<>> /\ status[t] \in {"wake", "drop"}
    BY <1>1, <2>2 DEF ItemsAreSound, Entered, Behind, Fresh
  <2> QED
    BY <2>1, <2>2
<1>5. t <= cur
  BY <1>1, <1>4 DEF ItemsAreSound, Fresh
<1>6. Entered(t)
  BY <1>5 DEF ItemsAreSound
<1>7. \E m \in DOMAIN successors[t] : successors[t][m] = k
  <2>1. CASE status[t] \in {"wake", "drop"}
    <3>1. i \in 1..Len(successors[t]) - 1 /\ k = successors[t][i + 1]
      BY <1>1, <1>2, <1>3, <1>4, <2>1
    <3> QED
      BY <1>1, <3>1
  <2>2. CASE status[t] \notin {"wake", "drop"}
    BY <1>2, <1>3, <2>2
  <2> QED
    BY <2>1, <2>2
<1>8. k \in t+1..cur
  BY <1>6, <1>7 DEF Entered, Behind
<1>9. kind[t] = "task"
  <2>1. kind[t] \in {"task", "wait"}
    BY DEF Typed
  <2> QED
    BY <1>4, <1>6, <2>1 DEF Entered, Idle
<1> QED
  BY <1>1, <1>5, <1>6, <1>8, <1>9

(* While a task has to notify k, k is neither started nor finished.         *)
LEMMA NotifiedIsCreated ==
  ASSUME Typed, ItemsAreSound, StartsLast, NEW t \in Items, NEW k, Notifies(t, k)
  PROVE  status[k] = "created" /\ k \in Items /\ k # t
<1>1. t \in 1..cur /\ k \in t+1..cur
  BY NotifiersAreEntered
<1>2. k \in 1..cur /\ k \in Items /\ k # t
  BY <1>1, ItemsUpTo DEF Typed
<1>3. ~Started(k) /\ ~Finished(k)
  BY <1>2 DEF StartsLast
<1>4. status[k] # "none" /\ status[k] \in Statuses
  BY <1>2 DEF ItemsAreSound, Entered, Typed
<1> QED
  BY <1>2, <1>3, <1>4 DEF Started, Finished, Statuses

(* An item that nobody has to notify any more needs only finished tasks.    *)
LEMMA NothingLeft ==
  ASSUME Typed, Guarded, NEW k \in 1..cur, pc # "process" \/ k # cur,
         \A t \in Items : ~Notifies(t, k)
  PROVE  \A j \in Needs(k) : Finished(j)
<1> SUFFICES ASSUME NEW j \in Needs(k) PROVE Finished(j)
  OBVIOUS
<1>1. j \in 1..k-1 /\ \E i \in DOMAIN deps[k] : Conflicts(j, deps[k][i])
  BY NeedsConflict
<1>2. \A i \in DOMAIN deps[k] : Recorded(k, i)
  BY DEF Recorded, Typed
<1>3. Covered(j, k)
  BY <1>1, <1>2 DEF Guarded
<1> QED
  BY <1>3 DEF Covered

(***************************************************************************)
(* What stays as it is when the lists and counts change.                    *)
(***************************************************************************)
SameItems == kind' = kind /\ deps' = deps

(* What items need depends on their kinds and dependences alone.            *)
LEMMA SameNeeds ==
  ASSUME SameItems
  PROVE  /\ \A k : Needs(k)' = Needs(k)
         /\ \A j, p : Before(j, p)' <=> Before(j, p)
<1>1. \A k : Needs(k)' = Needs(k)
  BY DEF SameItems, Needs, Range
<1> QED
  BY <1>1 DEF Before

(* Tasks that have finished stay so; who has to notify does or has finished.*)
Forward ==
  /\ \A t \in Items : Finished(t) => Finished(t)'
  /\ \A t \in Items : \A k : Notifies(t, k) => Notifies(t, k)' \/ Finished(t)

(* A task that has finished, or leads to one that has to notify, still does.*)
LEMMA CoverageStays ==
  ASSUME Typed, ItemsAreSound, StartsLast, SameItems, Forward,
         NEW j \in Items, NEW k, Covered(j, k)
  PROVE  Covered(j, k)'
<1>1. CASE Finished(j)
  BY <1>1 DEF Forward, Covered
<1>2. ASSUME NEW t \in Items, Notifies(t, k), Before(j, t)
      PROVE  Covered(j, k)'
  <2>1. CASE Notifies(t, k)'
    <3>1. Before(j, t)'
      BY <1>2, SameNeeds
    <3> QED
      BY <2>1, <3>1 DEF Covered
  <2>2. CASE Finished(t)
    <3>1. t \in 1..cur
      BY <2>2, FinishedIsEntered
    <3>2. Finished(j)
      BY <1>2, <2>2, <3>1, FinishedBefore
    <3> QED
      BY <3>2 DEF Forward, Covered
  <2> QED
    BY <1>2, <2>1, <2>2 DEF Forward
<1> QED
  BY <1>1, <1>2 DEF Covered

(* The same dependences are recorded.                                       *)
SameRecords ==
  /\ cur' = cur
  /\ \A j \in 1..cur : \A h \in DOMAIN deps[j] : Recorded(j, h)' <=> Recorded(j, h)

(* The same tasks use the addresses.                                        *)
LEMMA SameUsers ==
  ASSUME SameItems, SameRecords
  PROVE  /\ \A j \in 1..cur : \A a : Touches(j, a)' <=> Touches(j, a)
         /\ \A j \in 1..cur : \A a : Writes(j, a)' <=> Writes(j, a)
         /\ \A j \in 1..cur : \A d : Conflicts(j, d)' <=> Conflicts(j, d)
<1>1. ASSUME NEW j \in 1..cur, NEW a
      PROVE  (Touches(j, a)' <=> Touches(j, a)) /\ (Writes(j, a)' <=> Writes(j, a))
  BY DEF SameItems, SameRecords, Touches, Writes
<1> QED
  BY <1>1 DEF Conflicts

(* Conflicts are still covered.                                             *)
LEMMA GuardStays ==
  ASSUME Typed, ItemsAreSound, StartsLast, Guarded, SameItems, SameRecords, Forward
  PROVE  Guarded'
<1> SUFFICES ASSUME NEW k \in (1..cur)', NEW i \in (DOMAIN deps[k])', NEW j \in 1..k-1,
                    Recorded(k, i)', Conflicts(j, deps[k][i])'
             PROVE  Covered(j, k)'
  BY DEF Guarded
<1>1. k \in 1..cur /\ i \in DOMAIN deps[k] /\ j \in 1..cur /\ j \in Items
  BY ItemsUpTo DEF SameItems, SameRecords, Typed
<1>2. Recorded(k, i) /\ Conflicts(j, deps[k][i])
  BY <1>1, SameUsers DEF SameRecords, SameItems
<1>3. Covered(j, k)
  BY <1>1, <1>2 DEF Guarded
<1> QED
  BY <1>1, <1>3, CoverageStays

(* The hash table is still right when no entry changes.                     *)
LEMMA TableStays ==
  ASSUME Typed, Table, SameItems, SameRecords, UNCHANGED hash, pc = "end" => pc' = "end",
         \A j \in 1..cur : Settled(j) => Settled(j)'
  PROVE  Table'
<1> SUFFICES ASSUME pc' # "end", NEW a \in Addrs
             PROVE  LastWriter(a)' /\ LastReaders(a)' /\ Users(a)'
  BY DEF Table
<1>1. LastWriter(a) /\ LastReaders(a) /\ Users(a) /\ cur' = cur
  BY DEF Table, SameRecords
<1>2. last_out' = last_out /\ last_ins' = last_ins
  BY DEF hash
<1>3. LastWriter(a)'
  BY <1>1, <1>2, SameUsers DEF LastWriter
<1>4. LastReaders(a)'
  <2>1. last_out[a] \in Nat
    BY ItemsAssumption DEF Typed, Items, Null
  <2>2. \A i \in DOMAIN last_ins[a] : last_ins[a][i] \in 1..cur
    BY <1>1, <2>1 DEF LastReaders, Typed
  <2> QED
    BY <1>1, <1>2, <2>2, SameUsers DEF LastReaders
<1>5. Users(a)'
  BY <1>1, <1>2, SameUsers DEF Users
<1> QED
  BY <1>3, <1>4, <1>5

(* A wait that is not over stays so, and what it waits for is covered.      *)
LEMMA SettledStays ==
  ASSUME Typed, ItemsAreSound, StartsLast, SameItems, Forward, cur' = cur, Pending => Pending'
  PROVE  \A j \in 1..cur : Settled(j) => Settled(j)'
<1> SUFFICES ASSUME NEW j \in 1..cur, Settled(j) PROVE Settled(j)'
  OBVIOUS
<1>1. j \in Items
  BY ItemsUpTo DEF Typed
<1>2. CASE Finished(j)
  BY <1>1, <1>2 DEF Settled, Forward
<1>3. CASE Pending /\ Covered(j, cur)
  <2>1. Covered(j, cur)'
    <3>1. ASSUME NEW k, k = cur, Covered(j, k) PROVE Covered(j, k)'
      BY <1>1, <3>1, CoverageStays
    <3>2. PICK k : k = cur
      OBVIOUS
    <3>3. Covered(j, k)'
      BY <1>3, <3>1, <3>2
    <3>4. k = cur'
      BY <3>2
    <3> QED
      BY <3>3, <3>4 DEF Covered, Notifies, ToNotify
  <2> QED
    BY <1>3, <2>1 DEF Settled
<1> QED
  BY <1>2, <1>3 DEF Settled

(* The predecessors of the dependence at hand are earlier tasks.            *)
LEMMA PredsAreEarlier ==
  ASSUME Typed, Graph, pc = "process", NEW j \in DOMAIN Preds(Dep)
  PROVE  Preds(Dep)[j] \in 1..cur-1 /\ Touches(Preds(Dep)[j], Dep.addr)
<1> DEFINE p == Preds(Dep)[j]
           a == Dep.addr
<1>1. cur # 0 /\ cur \in 1..cur /\ cur \in Items /\ dep \in DOMAIN deps[cur]
  <2>1. cur # 0 /\ dep \in DOMAIN deps[cur]
    BY DEF Graph, Control
  <2>2. cur \in 0..MaxItems
    BY DEF Typed
  <2>3. cur \in 1..cur
    BY <2>1, <2>2, ItemsAssumption
  <2> QED
    BY <2>1, <2>2, <2>3, ItemsUpTo
<1>2. deps[cur] \in Seq(Dependence) /\ Dep \in Dependence /\ a \in Addrs
  <2>1. deps[cur] \in Seq(Dependence) /\ Dep = deps[cur][dep]
    BY <1>1 DEF Typed, Dep
  <2>2. Dep \in Dependence
    BY <1>1, <2>1
  <2> QED
    BY <2>1, <2>2 DEF Dependence
<1>3. LastWriter(a) /\ LastReaders(a)
  BY <1>2 DEF Graph, Table
<1>4. p \in 1..cur /\ Touches(p, a)
  <2>1. \/ \E i \in DOMAIN last_ins[a] : p = last_ins[a][i]
        \/ p = last_out[a] /\ last_out[a] # Null
    <3>1. CASE Dep.out /\ last_ins[a] # <<>>
      BY <3>1 DEF Preds
    <3>2. CASE ~(Dep.out /\ last_ins[a] # <<>>) /\ last_out[a] # Null
      <4>1. Preds(Dep) = <<last_out[a]>>
        BY <3>2 DEF Preds
      <4>2. j = 1
        BY <4>1
      <4> QED
        BY <3>2, <4>1, <4>2
    <3>3. CASE ~(Dep.out /\ last_ins[a] # <<>>) /\ last_out[a] = Null
      <4>1. Preds(Dep) = <<>>
        BY <3>3 DEF Preds
      <4> QED
        BY <4>1
    <3> QED
      BY <3>1, <3>2, <3>3
  <2>2. last_out[a] \in Nat /\ cur \in Nat
    <3>1. last_out[a] \in Items \cup {Null} /\ cur \in 0..MaxItems
      BY <1>2 DEF Typed
    <3> QED
      BY <3>1, ItemsAssumption DEF Items, Null
  <2>3. CASE \E i \in DOMAIN last_ins[a] : p = last_ins[a][i]
    BY <1>3, <2>2, <2>3 DEF LastReaders
  <2>4. CASE p = last_out[a] /\ last_out[a] # Null
    BY <1>3, <2>4, WritersTouch DEF LastWriter
  <2> QED
    BY <2>1, <2>3, <2>4
<1> HIDE DEF p
<1>5. p # cur
  <2> SUFFICES ASSUME p = cur PROVE FALSE
    OBVIOUS
  <2>1. PICK h \in DOMAIN deps[cur] : Recorded(cur, h) /\ deps[cur][h].addr = a
    BY <1>4 DEF Touches
  <2>2. cur <= cur /\ cur \in Int
    BY DEF Typed
  <2>3. Merged(cur)
    BY <1>1, <2>2 DEF Graph, ItemsAreSound, Entered
  <2>4. h = dep
    BY <1>1, <2>1, <2>3 DEF Merged, Dep
  <2> QED
    BY <2>1, <2>2, <2>4 DEF Recorded, Typed
<1>6. p \in 1..cur-1
  BY <1>4, <1>5 DEF Typed
<1> QED
  BY <1>4, <1>6 DEF p

(* They are items, too.                                                     *)
LEMMA PredsAreItems ==
  ASSUME Typed, Graph, pc = "process", NEW j \in DOMAIN Preds(Dep)
  PROVE  Preds(Dep)[j] \in Items
<1>1. Preds(Dep)[j] \in 1..cur-1
  BY PredsAreEarlier
<1> QED
  BY <1>1, ItemsAssumption DEF Typed, Items

(***************************************************************************)
(* Notifications and counts.                                                *)
(***************************************************************************)
LEMMA NotifyTyped ==
  ASSUME Typed, ItemsAreSound
  PROVE  ToNotify \in [Items -> Seq(Items)]
<1> SUFFICES ASSUME NEW t \in Items
             PROVE  (IF status[t] \in {"wake", "drop"} THEN Tail(successors[t])
                                                       ELSE successors[t]) \in Seq(Items)
  BY DEF ToNotify
<1>1. successors[t] \in Seq(Items)
  BY DEF Typed
<1>2. CASE status[t] \in {"wake", "drop"}
  <2>1. t \in 1..cur /\ Entered(t)
    BY <1>2, FinishedIsEntered DEF Finished
  <2>2. successors[t] # <<>>
    BY <1>2, <2>1 DEF Entered, Behind
  <2> QED
    BY <1>1, <1>2, <2>2
<1> QED
  BY <1>1, <1>2

(* There are finitely many items.                                           *)
LEMMA ItemsAreFinite == IsFiniteSet(Items)
BY FS_Interval, ItemsAssumption DEF Items

(* Nobody has to notify n if and only if nothing is outstanding.            *)
LEMMA NobodyLeft ==
  ASSUME Typed, ItemsAreSound, NEW n
  PROVE  /\ Outstanding(n) \in Nat
         /\ Outstanding(n) = 0 <=> \A t \in Items : ~Notifies(t, n)
<1>1. ToNotify \in [Items -> Seq(Items)]
  BY NotifyTyped
<1>2. /\ Outstanding(n) \in Nat
      /\ Outstanding(n) = 0 <=> \A t \in Items : \A i \in DOMAIN ToNotify[t] : ToNotify[t][i] # n
  BY <1>1, ItemsAreFinite, PlacesAreFinite DEF Outstanding
<1> QED
  BY <1>2 DEF Notifies

(* The parts of a reference count are numbers.                              *)
LEMMA CountsAreNatural ==
  ASSUME NEW f \in [Items -> Seq(Items)], NEW o \in [Addrs -> Items \cup {Null}],
         NEW i \in [Addrs -> Seq(Items)], NEW n
  PROVE  /\ Cardinality(Places(f, n)) \in Nat
         /\ Cardinality({a \in Addrs : o[a] = n}) \in Nat
         /\ Cardinality(Places(i, n)) \in Nat
<1>1. IsFiniteSet({a \in Addrs : o[a] = n})
  <2>1. {a \in Addrs : o[a] = n} \in SUBSET Addrs
    OBVIOUS
  <2> QED
    BY <2>1, AddrsAssumption, FS_Subset
<1> QED
  BY <1>1, ItemsAreFinite, AddrsAssumption, PlacesAreFinite, FS_CardinalityType

(* A reference count that is the sum of its parts is not below 0.           *)
LEMMA CountedIsTyped ==
  ASSUME Typed', Counted', NEW S, nrefs' \in [Items -> S]
  PROVE  NrefsTyped'
<1>1. \A n \in Items : nrefs'[n] \in Nat
  <2> TAKE n \in Items
  <2>1. Listed(n)' \in Nat /\ Outs(n)' \in Nat /\ Ins(n)' \in Nat
    <3>1. /\ successors' \in [Items -> Seq(Items)] /\ last_ins' \in [Addrs -> Seq(Items)]
          /\ last_out' \in [Addrs -> Items \cup {Null}]
      BY DEF Typed
    <3>2. /\ Cardinality(Places(successors', n)) \in Nat
          /\ Cardinality({a \in Addrs : last_out'[a] = n}) \in Nat
          /\ Cardinality(Places(last_ins', n)) \in Nat
      BY <3>1, CountsAreNatural
    <3> QED
      BY <3>2 DEF Listed, Outs, Ins
  <2>2. Own(n)' \in Nat
    BY DEF Own
  <2> QED
    BY <2>1, <2>2 DEF Counted
<1> QED
  BY <1>1 DEF NrefsTyped

(* The same is left to notify.                                              *)
LEMMA SameNotifies ==
  ASSUME \A t \in Items : ToNotify'[t] = ToNotify[t]
  PROVE  /\ \A t \in Items : \A k : Notifies(t, k)' <=> Notifies(t, k)
         /\ \A n : Outstanding(n)' = Outstanding(n)
<1>1. ToNotify' = ToNotify
  BY DEF ToNotify
<1>2. \A n : Outstanding(n)' = Outstanding(n)
  BY <1>1 DEF Outstanding
<1>3. \A t \in Items : \A k : Notifies(t, k)' <=> Notifies(t, k)
  BY <1>1 DEF Notifies
<1> QED
  BY <1>2, <1>3

(* Only items that need no unfinished task have started, if no other starts.*)
LEMMA StartsStay ==
  ASSUME Typed, StartsLast, SameItems, cur' = cur, Forward,
         \A t \in Items : \A k : Notifies(t, k)' => Notifies(t, k) \/ status'[k] = "created",
         \A k \in 1..cur : Started(k)' \/ Finished(k)' =>
           \/ Started(k) \/ Finished(k)
           \/ (\A j \in Needs(k) : Finished(j)) /\ \A t \in Items : ~Notifies(t, k)
  PROVE  StartsLast'
<1> SUFFICES ASSUME NEW k \in (1..cur)', Started(k)' \/ Finished(k)'
             PROVE  (\A j \in Needs(k)' : Finished(j)') /\ \A t \in Items : ~Notifies(t, k)'
  BY DEF StartsLast
<1>1. k \in 1..cur
  OBVIOUS
<1>2. (\A j \in Needs(k) : Finished(j)) /\ \A t \in Items : ~Notifies(t, k)
  BY <1>1 DEF StartsLast
<1>3. status'[k] # "created"
  BY DEF Started, Finished
<1>4. \A j \in Needs(k) : j \in Items
  <2>1. \A j \in Needs(k) : j \in 1..k-1
    BY NeedsOf
  <2>2. 1..k-1 \subseteq Items
    BY <1>1, ItemsUpTo DEF Typed
  <2> QED
    BY <2>1, <2>2
<1> QED
  BY <1>2, <1>3, <1>4, SameNeeds DEF Forward

(* The last to notify a task remains the only one.                          *)
LEMMA WakesStay ==
  ASSUME NEW t, NEW s, Wakes(t, s), Entering(s)' => Entering(s), kind' = kind,
         kind[s] = "task" /\ status[s] = "created" => status'[s] = "created",
         \A u \in Items : Notifies(u, s)' => Notifies(u, s),
         \A u \in Items : status'[u] = "wake" /\ Head(successors'[u]) = s =>
           u = t \/ (status[u] = "wake" /\ Head(successors[u]) = s)
  PROVE  Wakes(t, s)'
BY DEF Wakes

(* The creating thread does nothing.                                        *)
LEMMA CreatorWaits ==
  ASSUME Typed, Graph, SameItems, UNCHANGED <<creator, hash>>, Forward
  PROVE  Control' /\ Table' /\ Linked' /\ Guarded' /\ SameRecords
         /\ \A s : Entering(s)' <=> Entering(s)
<1>1. cur' = cur /\ pc' = pc /\ dep' = dep /\ todo' = todo /\ kind' = kind /\ deps' = deps
      /\ last_out' = last_out /\ last_ins' = last_ins
  BY DEF creator, SameItems, hash
<1>2. SameRecords
  BY <1>1 DEF SameRecords, Recorded
<1>3. Control'
  BY <1>1 DEF Graph, Control
<1>4. Guarded'
  BY <1>2, GuardStays DEF Graph
<1>5. \A j \in 1..cur : Settled(j) => Settled(j)'
  <2>1. Pending => Pending'
    BY <1>1 DEF Pending
  <2> QED
    BY <1>1, <2>1, SettledStays DEF Graph
<1>6. Table'
  BY <1>1, <1>2, <1>5, TableStays DEF Graph
<1>7. Linked'
  <2> SUFFICES ASSUME pc = "process"
               PROVE  Linked'
    BY <1>1 DEF Linked
  <2>1. Preds(Dep)' = Preds(Dep)
    BY <1>1 DEF Preds, Dep
  <2>2. \A p \in Items : Looked(p) => Looked(p)'
    <3> SUFFICES ASSUME NEW p \in Items, Looked(p) PROVE Looked(p)'
      OBVIOUS
    <3>1. PICK k : k = cur
      OBVIOUS
    <3>2. Notifies(p, k) => Notifies(p, k)' \/ Finished(p)'
      BY DEF Forward
    <3>3. Notifies(p, cur) => Notifies(p, k)
      BY <3>1
    <3>4. Notifies(p, k)' => Notifies(p, cur)'
      BY <1>1, <3>1 DEF Notifies
    <3>5. Finished(p) => Finished(p)'
      BY DEF Forward
    <3> QED
      BY <1>1, <3>2, <3>3, <3>4, <3>5 DEF Looked
  <2> QED
    BY <1>1, <2>1, <2>2 DEF Linked, Graph
<1>8. \A s : Entering(s)' <=> Entering(s)
  BY <1>1 DEF Entering, Counting
<1> QED
  BY <1>2, <1>3, <1>4, <1>6, <1>7, <1>8

(* The parts of the reference counts are numbers in every state.            *)
LEMMA PartsAreNatural ==
  ASSUME Typed
  PROVE  \A n : Own(n) \in Nat /\ Listed(n) \in Nat /\ Outs(n) \in Nat /\ Ins(n) \in Nat
<1> SUFFICES ASSUME NEW n
             PROVE  Own(n) \in Nat /\ Listed(n) \in Nat /\ Outs(n) \in Nat /\ Ins(n) \in Nat
  OBVIOUS
<1>1. Own(n) \in Nat
  BY DEF Own
<1>2. Listed(n) \in Nat /\ Outs(n) \in Nat /\ Ins(n) \in Nat
  <2>1. /\ successors \in [Items -> Seq(Items)] /\ last_ins \in [Addrs -> Seq(Items)]
        /\ last_out \in [Addrs -> Items \cup {Null}]
    BY DEF Typed
  <2>2. /\ Cardinality(Places(successors, n)) \in Nat
        /\ Cardinality({a \in Addrs : last_out[a] = n}) \in Nat
        /\ Cardinality(Places(last_ins, n)) \in Nat
    BY <2>1, CountsAreNatural
  <2> QED
    BY <2>2 DEF Listed, Outs, Ins
<1> QED
  BY <1>1, <1>2

(***************************************************************************)
(* The threads that run the tasks.                                          *)
(***************************************************************************)
LEMMA RunningIsTask ==
  ASSUME Typed, ItemsAreSound, NEW t \in Items,
         status[t] \in {"queued", "running", "notify", "wake", "drop"}
  PROVE  /\ t \in 1..cur /\ Entered(t) /\ kind[t] = "task" /\ ~Entering(t)
         /\ Finished(t) \/ Started(t)
<1>1. t \in 1..cur /\ Entered(t)
  BY FinishedIsEntered DEF Finished, Started
<1>2. kind[t] = "task"
  <2>1. kind[t] \in {"task", "wait"}
    BY DEF Typed
  <2>2. kind[t] # "wait"
    BY <1>1 DEF Entered, Idle
  <2> QED
    BY <2>1, <2>2
<1>3. ~Entering(t)
  BY <1>1 DEF Entered
<1> QED
  BY <1>1, <1>2, <1>3 DEF Finished, Started

(* A task goes on and notifies nobody.                                      *)
LEMMA RunnerKeeps ==
  ASSUME IInv, NEW t \in Items, SameItems,
         UNCHANGED <<hash, creator, npredecessors, successors, fault>>,
         NEW to \in {"running", "notify", "done"}, status' = [status EXCEPT ![t] = to],
         status[t] \in {"queued", "running", "notify"},
         status[t] = "notify" => to = "done",
         task' \in [Items -> BOOLEAN], \A k \in Items : k # t => task'[k] = task[k],
         task'[t] <=> to = "running", to = "done" => successors[t] = <<>>
  PROVE  Typed' /\ Graph' /\ PredecessorsAreExact'
<1>1. /\ t \in 1..cur /\ Entered(t) /\ kind[t] = "task" /\ ~Entering(t)
      /\ Finished(t) \/ Started(t)
  BY RunningIsTask DEF IInv, Graph
<1>2. /\ status \in [Items -> Statuses] /\ status' \in [Items -> Statuses] /\ status'[t] = to
      /\ \A k \in Items : k # t => status'[k] = status[k]
  BY DEF IInv, Typed, Statuses
<1>3. /\ kind' = kind /\ deps' = deps /\ cur' = cur /\ pc' = pc /\ successors' = successors
      /\ npredecessors' = npredecessors
  BY DEF SameItems, creator
<1>4. \A u \in Items : ToNotify'[u] = ToNotify[u]
  BY <1>2, <1>3 DEF ToNotify
<1>5. Forward
  BY <1>2, <1>4, SameNotifies DEF Forward, Finished
<1>6. Control' /\ Table' /\ Linked' /\ Guarded' /\ \A s : Entering(s)' <=> Entering(s)
  BY <1>5, CreatorWaits DEF IInv
<1>7. Typed'
  BY <1>2 DEF IInv, Typed, SameItems, creator, hash
<1>8. ItemsAreSound'
  <2>1. Entered(t)'
    <3>1. Published(t)'
      BY <1>1, <1>2, <1>3 DEF Published, Entering, Counting
    <3>2. Merged(t)' /\ Idle(t)' /\ Behind(t)'
      BY <1>1, <1>2, <1>3 DEF Entered, Merged, Idle, Behind
    <3> QED
      BY <1>1, <1>2, <1>6, <3>1, <3>2 DEF Entered
  <2>2. \A k \in Items : k # t => (Entered(k) => Entered(k)')
    BY <1>2, <1>3, <1>6 DEF Entered, Merged, Published, Idle, Behind
  <2>3. \A k \in Items : k # t => (Fresh(k) => Fresh(k)')
    BY <1>2, <1>3 DEF Fresh
  <2>4. t <= cur
    BY <1>1
  <2> QED
    BY <1>3, <2>1, <2>2, <2>3, <2>4 DEF ItemsAreSound, IInv, Graph
<1>9. StartsLast'
  <2>1. \A k \in 1..cur : Started(k)' \/ Finished(k)' => Started(k) \/ Finished(k)
    BY <1>1, <1>2, ItemsUpTo DEF Started, Finished, IInv, Typed
  <2> QED
    BY <1>3, <1>4, <1>5, <2>1, SameNotifies, StartsStay DEF IInv, Graph
<1>10. Waking'
  <2> SUFFICES ASSUME NEW u \in Items, status'[u] = "wake"
               PROVE  Wakes(u, Head(successors[u]))'
    BY <1>3 DEF Waking
  <2>1. u # t /\ status[u] = "wake"
    BY <1>2
  <2>2. PICK s : s = Head(successors[u])
    OBVIOUS
  <2>3. Wakes(u, s)
    BY <2>1, <2>2 DEF IInv, Graph, Waking
  <2>4. status[s] = "created" => status'[s] = "created"
    BY <1>2
  <2>5. Wakes(u, s)'
    BY <1>2, <1>3, <1>4, <1>6, <2>3, <2>4, SameNotifies, WakesStay
  <2>6. s = Head(successors[u])'
    BY <1>3, <2>2
  <2> QED
    BY <2>5, <2>6 DEF Wakes, Entering, Counting, Notifies, ToNotify
<1>11. PredecessorsAreExact'
  BY <1>3, <1>4, SameNotifies DEF IInv, PredecessorsAreExact, Counting, creator
<1> QED
  BY <1>6, <1>7, <1>8, <1>9, <1>10, <1>11 DEF Graph

(* A thread takes a task.                                                   *)
LEMMA StartKeeps ==
  ASSUME IInv, NEW t \in Items, Start(t)
  PROVE  IInv'
<1>1. /\ status[t] = "queued" /\ status' = [status EXCEPT ![t] = "running"]
      /\ SameItems /\ UNCHANGED <<hash, creator, npredecessors, successors, fault>>
      /\ task' = task /\ nrefs' = nrefs
  BY DEF Start, Goto, items, SameItems
<1>2. task' \in [Items -> BOOLEAN] /\ task'[t]
  <2>1. Entered(t) /\ kind[t] = "task" /\ ~Entering(t)
    BY <1>1, RunningIsTask DEF IInv, Graph
  <2> QED
    BY <1>1, <2>1 DEF Entered, Published, Entering, Counting, IInv, Typed
<1>3. Typed' /\ Graph' /\ PredecessorsAreExact'
  <2>1. PICK to \in {"running", "notify", "done"} : to = "running"
    OBVIOUS
  <2> QED
    BY <1>1, <1>2, <2>1, RunnerKeeps
<1>4. Counted'
  <2>1. \A n \in Items : Own(n)' = Own(n)
    BY <1>1 DEF Own, IInv, Typed, SameItems
  <2> QED
    BY <1>1, <2>1 DEF IInv, Counted, Listed, Outs, Ins, hash
<1> QED
  BY <1>1, <1>3, <1>4 DEF IInv, NrefsTyped

(* A task is marked as finished.                                            *)
LEMMA FinishKeeps ==
  ASSUME IInv, NEW t \in Items, Finish(t)
  PROVE  IInv'
<1>1. /\ status[t] = "running" /\ status' = [status EXCEPT ![t] = "notify"]
      /\ SameItems /\ UNCHANGED <<hash, creator, npredecessors, successors, fault>>
      /\ task' = [task EXCEPT ![t] = FALSE] /\ nrefs' = nrefs
  BY DEF Finish, Goto, items, SameItems
<1>2. /\ task' \in [Items -> BOOLEAN] /\ ~task'[t]
      /\ \A k \in Items : k # t => task'[k] = task[k]
  BY <1>1 DEF IInv, Typed
<1>3. Typed' /\ Graph' /\ PredecessorsAreExact'
  <2>1. PICK to \in {"running", "notify", "done"} : to = "notify"
    OBVIOUS
  <2> QED
    BY <1>1, <1>2, <2>1, RunnerKeeps
<1>4. Counted'
  <2>1. \A n \in Items : Own(n)' = Own(n)
    BY <1>1 DEF Own, IInv, Typed, SameItems
  <2> QED
    BY <1>1, <2>1 DEF IInv, Counted, Listed, Outs, Ins, hash
<1> QED
  BY <1>1, <1>3, <1>4 DEF IInv, NrefsTyped

(* A task has notified all successors.                                      *)
LEMMA ReleasedKeeps ==
  ASSUME IInv, NEW t \in Items, Released(t)
  PROVE  IInv'
<1>1. /\ status[t] = "notify" /\ status' = [status EXCEPT ![t] = "done"]
      /\ SameItems /\ UNCHANGED <<hash, creator, npredecessors, successors, fault>>
      /\ task' = task /\ nrefs' = [nrefs EXCEPT ![t] = @ - 1] /\ successors[t] = <<>>
  BY DEF Released, Goto, items, SameItems
<1>2. Entered(t) /\ kind[t] = "task" /\ ~Entering(t)
  BY <1>1, RunningIsTask DEF IInv, Graph
<1>3. task' \in [Items -> BOOLEAN] /\ ~task'[t]
  BY <1>1, <1>2 DEF Entered, Published, IInv, Typed
<1>4. Typed' /\ Graph' /\ PredecessorsAreExact'
  <2>1. PICK to \in {"running", "notify", "done"} : to = "done"
    OBVIOUS
  <2> QED
    BY <1>1, <1>3, <2>1, RunnerKeeps
<1>5. \A n \in Items : nrefs'[n] = IF n = t THEN nrefs[n] - 1 ELSE nrefs[n]
  BY <1>1 DEF IInv, NrefsTyped
<1>6. Counted'
  <2>1. \A n \in Items : Own(n)' = IF n = t THEN Own(n) - 1 ELSE Own(n)
    BY <1>1, <1>2 DEF Own, IInv, Typed, SameItems
  <2>2. \A n \in Items : Listed(n)' = Listed(n) /\ Outs(n)' = Outs(n) /\ Ins(n)' = Ins(n)
    BY <1>1 DEF Listed, Outs, Ins, hash
  <2>3. \A n \in Items : Own(n) \in Nat /\ Listed(n) \in Nat /\ Outs(n) \in Nat /\ Ins(n) \in Nat
    BY PartsAreNatural DEF IInv
  <2> QED
    BY <1>5, <2>1, <2>2, <2>3 DEF IInv, Counted
<1>7. NrefsTyped'
  <2>1. nrefs' \in [Items -> Int]
    BY <1>1 DEF IInv, NrefsTyped
  <2> QED
    BY <1>4, <1>6, <2>1, CountedIsTyped
<1> QED
  BY <1>4, <1>6, <1>7 DEF IInv

(* The first entry of one list is taken away.                               *)
Shrinks(f, g, t) ==
  /\ AreLists(Items, Items, f) /\ AreLists(Items, Items, g)
  /\ t \in Items /\ f[t] # <<>> /\ g[t] = Tail(f[t]) /\ AgreeBut(Items, f, g, t)

OneLess(f, g, x, n) ==
  Cardinality(Places(g, n)) = Cardinality(Places(f, n)) - IsOne(x = n)

NonePlaced(g, n) ==
  Cardinality(Places(g, n)) = 0 => \A u \in Items : \A i \in DOMAIN g[u] : g[u][i] # n

(* The value at the front has one place less.                               *)
LEMMA ListShrinks ==
  ASSUME NEW f, NEW g, NEW t, Shrinks(f, g, t), NEW n
  PROVE  OneLess(f, g, Head(f[t]), n) /\ NonePlaced(g, n)
<1>0. /\ AreLists(Items, Items, f) /\ AreLists(Items, Items, g)
      /\ t \in Items /\ f[t] # <<>> /\ g[t] = Tail(f[t]) /\ AgreeBut(Items, f, g, t)
  BY DEF Shrinks
<1>1. PICK l \in Seq(Items) : l = f[t] /\ l # <<>>
  BY <1>0 DEF AreLists
<1>2. PICK m \in Seq(Items) : m = g[t] /\ m = Tail(l)
  BY <1>0, <1>1 DEF AreLists
<1>3. /\ Cardinality(Places(f, n)) \in Nat /\ Cardinality(Places(g, n)) \in Nat
      /\ Cardinality(Indices(l, n)) \in Nat /\ Cardinality(Indices(m, n)) \in Nat
  BY <1>0, ItemsAreFinite, Replaced, IndicesAreFinite
<1>4. Cardinality(Places(g, n)) + Cardinality(Indices(l, n))
        = Cardinality(Places(f, n)) + Cardinality(Indices(m, n))
  <2>1. Cardinality(Places(g, n)) + Cardinality(Indices(f[t], n))
          = Cardinality(Places(f, n)) + Cardinality(Indices(g[t], n))
    BY <1>0, ItemsAreFinite, Replaced
  <2> QED
    BY <1>1, <1>2, <2>1
<1>5. Cardinality(Indices(l, n)) = Cardinality(Indices(m, n)) + IsOne(Head(l) = n)
  BY <1>1, <1>2, IndicesOfTail
<1>6. IsOne(Head(l) = n) \in Nat /\ Head(l) = Head(f[t])
  BY <1>1 DEF IsOne
<1> DEFINE cf == Cardinality(Places(f, n))
           cg == Cardinality(Places(g, n))
           cl == Cardinality(Indices(l, n))
           cm == Cardinality(Indices(m, n))
           one == IsOne(Head(l) = n)
<1>7. cf \in Nat /\ cg \in Nat /\ cl \in Nat /\ cm \in Nat /\ one \in Nat
      /\ cg + cl = cf + cm /\ cl = cm + one
  BY <1>3, <1>4, <1>5, <1>6
<1> HIDE DEF cf, cg, cl, cm, one
<1>8. cg = cf - one
  BY <1>7
<1>9. NonePlaced(g, n)
  BY <1>0, ItemsAreFinite, PlacesAreFinite DEF AreLists, NonePlaced
<1> QED
  BY <1>6, <1>8, <1>9 DEF cf, cg, one, OneLess

(* What changes when a task has one successor less to notify.               *)
LEMMA NotifyOne ==
  ASSUME Typed, ItemsAreSound, NEW t \in Items, ToNotify[t] # <<>>,
         \A u \in Items : ToNotify'[u] = IF u = t THEN Tail(ToNotify[t]) ELSE ToNotify[u]
  PROVE  /\ \A n : Outstanding(n)' = Outstanding(n) - IsOne(Head(ToNotify[t]) = n)
         /\ \A n : Outstanding(n)' = 0 => \A u \in Items : ~Notifies(u, n)'
         /\ \A u \in Items : \A k : Notifies(u, k)' => Notifies(u, k)
         /\ \A u \in Items : \A k : Notifies(u, k) => Notifies(u, k)' \/ u = t
         /\ Notifies(t, Head(ToNotify[t]))
<1>1. ToNotify \in [Items -> Seq(Items)]
  BY NotifyTyped
<1>2. ToNotify' \in [Items -> Seq(Items)]
  <2>1. ToNotify' = [u \in Items |-> ToNotify'[u]]
    BY DEF ToNotify
  <2>2. \A u \in Items : ToNotify'[u] \in Seq(Items)
    <3>1. ToNotify[t] \in Seq(Items) /\ Tail(ToNotify[t]) \in Seq(Items)
      BY <1>1
    <3> QED
      BY <1>1, <3>1
  <2> QED
    BY <2>1, <2>2
<1>3. ASSUME NEW n
      PROVE  /\ Outstanding(n)' = Outstanding(n) - IsOne(Head(ToNotify[t]) = n)
             /\ Outstanding(n)' = 0 => \A u \in Items : ~Notifies(u, n)'
  <2>1. PICK f \in [Items -> Seq(Items)] : f = ToNotify
    BY <1>1
  <2>2. PICK g \in [Items -> Seq(Items)] : g = ToNotify'
    BY <1>2
  <2>3. Shrinks(f, g, t)
    BY <2>1, <2>2 DEF Shrinks, AreLists, AgreeBut
  <2>4. OneLess(f, g, Head(f[t]), n) /\ NonePlaced(g, n)
    BY <2>3, ListShrinks, Zenon
  <2> QED
    BY <2>1, <2>2, <2>4 DEF Outstanding, Notifies, OneLess, NonePlaced
<1>4. ToNotify[t] \in Seq(Items)
  BY <1>1
<1>5. \A k : Notifies(t, k)' => Notifies(t, k)
  <2>1. \A i \in DOMAIN Tail(ToNotify[t]) :
          i + 1 \in DOMAIN ToNotify[t] /\ Tail(ToNotify[t])[i] = ToNotify[t][i + 1]
    BY <1>4
  <2>2. ToNotify'[t] = Tail(ToNotify[t])
    OBVIOUS
  <2> QED
    BY <2>1, <2>2 DEF Notifies
<1>6. \A u \in Items : u # t => \A k : Notifies(u, k)' <=> Notifies(u, k)
  BY DEF Notifies
<1>7. Notifies(t, Head(ToNotify[t]))
  <2>1. 1 \in DOMAIN ToNotify[t] /\ ToNotify[t][1] = Head(ToNotify[t])
    BY <1>4
  <2> QED
    BY <2>1 DEF Notifies
<1> QED
  BY <1>3, <1>5, <1>6, <1>7

(* A successor has one predecessor less.                                    *)
LEMMA DecrementKeeps ==
  ASSUME IInv, NEW t \in Items, Decrement(t)
  PROVE  IInv'
<1> DEFINE l == successors[t]
<1>1. PICK s : s = Head(successors[t])
  OBVIOUS
<1>2. PICK to \in {"wake", "drop"} : to = IF npredecessors[s] = 1 THEN "wake" ELSE "drop"
  OBVIOUS
<1>3. /\ status[t] = "notify" /\ l # <<>> /\ status' = [status EXCEPT ![t] = to]
      /\ npredecessors' = [npredecessors EXCEPT ![s] = @ - 1]
      /\ SameItems /\ UNCHANGED <<hash, creator, successors, task, nrefs>>
      /\ fault' = Gone(s)
  BY <1>1, <1>2 DEF Decrement, items, SameItems
<1>4. Typed /\ Graph /\ Control /\ ItemsAreSound /\ StartsLast /\ Waking /\ PredecessorsAreExact
  BY DEF IInv, Graph
<1>5. t \in 1..cur /\ Entered(t) /\ kind[t] = "task" /\ ~Entering(t) /\ Finished(t)
  BY <1>3, <1>4, RunningIsTask DEF Finished
<1>6. /\ status \in [Items -> Statuses] /\ status' \in [Items -> Statuses] /\ status'[t] = to
      /\ \A k \in Items : k # t => status'[k] = status[k]
  BY <1>3, <1>4 DEF Typed, Statuses
<1>7. /\ kind' = kind /\ deps' = deps /\ cur' = cur /\ pc' = pc /\ npre' = npre
      /\ successors' = successors /\ task' = task /\ nrefs' = nrefs
      /\ last_out' = last_out /\ last_ins' = last_ins
  BY <1>3 DEF SameItems, creator, hash
<1>8. ToNotify[t] = l /\ Head(ToNotify[t]) = s
  BY <1>1, <1>3 DEF ToNotify
<1>9. \A u \in Items : ToNotify'[u] = IF u = t THEN Tail(ToNotify[t]) ELSE ToNotify[u]
  BY <1>6, <1>7, <1>8, <1>3 DEF ToNotify
<1>10. /\ \A n : Outstanding(n)' = Outstanding(n) - IsOne(s = n)
       /\ \A n : Outstanding(n)' = 0 => \A u \in Items : ~Notifies(u, n)'
       /\ \A u \in Items : \A k : Notifies(u, k)' => Notifies(u, k)
       /\ \A u \in Items : \A k : Notifies(u, k) => Notifies(u, k)' \/ u = t
       /\ Notifies(t, s)
  BY <1>3, <1>4, <1>8, <1>9, NotifyOne
<1>11. Forward
  BY <1>5, <1>6, <1>10 DEF Forward, Finished
<1>12. Control' /\ Table' /\ Linked' /\ Guarded' /\ \A k : Entering(k)' <=> Entering(k)
  BY <1>3, <1>4, <1>11, CreatorWaits
<1>13. s \in 1..cur /\ s \in Items /\ s # t /\ status[s] = "created"
  <2>1. s \in t+1..cur
    BY <1>4, <1>10, NotifiersAreEntered
  <2> QED
    BY <1>4, <1>5, <1>10, <2>1, NotifiedIsCreated
<1>14. /\ npredecessors'[s] = npredecessors[s] - 1 /\ npredecessors[s] \in Int
       /\ \A k \in Items : k # s => npredecessors'[k] = npredecessors[k]
       /\ npredecessors' \in [Items -> Int]
  BY <1>3, <1>4, <1>13 DEF Typed
<1>15. Typed'
  <2>1. fault' \in BOOLEAN
    BY <1>3 DEF Gone
  <2> QED
    BY <1>3, <1>4, <1>6, <1>14, <2>1 DEF Typed, SameItems, creator, hash
<1>16. ItemsAreSound'
  <2>1. Entered(t)'
    <3>1. Published(t)'
      BY <1>3, <1>5, <1>6, <1>7 DEF Entered, Published
    <3>2. Merged(t)' /\ Idle(t)' /\ Behind(t)'
      BY <1>3, <1>5, <1>6, <1>7 DEF Entered, Merged, Idle, Behind
    <3> QED
      BY <1>5, <1>6, <1>12, <3>1, <3>2 DEF Entered
  <2>2. ASSUME NEW k \in Items, k # t, Entered(k) PROVE Entered(k)'
    <3>1. npredecessors[k] < 0 => npredecessors'[k] < 0
      BY <1>14
    <3>2. Merged(k)' /\ Idle(k)' /\ Behind(k)' /\ Published(k)'
      BY <1>6, <1>7, <2>2 DEF Entered, Merged, Idle, Behind, Published
    <3> QED
      BY <1>6, <1>12, <2>2, <3>1, <3>2 DEF Entered
  <2>3. \A k \in Items : k # t => (Fresh(k) => Fresh(k)')
    BY <1>6, <1>7, <1>13, <1>14 DEF Fresh
  <2>4. t <= cur
    BY <1>5
  <2> QED
    BY <1>4, <1>7, <2>1, <2>2, <2>3, <2>4 DEF ItemsAreSound
<1>17. StartsLast'
  <2>1. \A k \in 1..cur : Started(k)' \/ Finished(k)' => Started(k) \/ Finished(k)
    BY <1>4, <1>5, <1>6, ItemsUpTo DEF Started, Finished, Typed
  <2> QED
    BY <1>3, <1>4, <1>7, <1>10, <1>11, <2>1, StartsStay
<1>18. PredecessorsAreExact'
  <2> SUFFICES ASSUME NEW n \in 1..cur
               PROVE  IF n = cur /\ Counting
                        THEN /\ npredecessors'[n] + npre + 1 = Outstanding(n)'
                             /\ npredecessors'[n] < 0
                        ELSE npredecessors'[n] = Outstanding(n)'
    BY <1>7 DEF PredecessorsAreExact, Counting
  <2>1. n \in Items /\ npredecessors[n] \in Int /\ npre \in Nat
    BY <1>4, ItemsUpTo DEF Typed
  <2>2. npredecessors'[n] = npredecessors[n] - IsOne(s = n)
    BY <1>14, <2>1 DEF IsOne
  <2>3. Outstanding(n)' = Outstanding(n) - IsOne(s = n) /\ Outstanding(n) \in Nat
    BY <1>4, <1>10, NobodyLeft
  <2> QED
    BY <1>4, <2>1, <2>2, <2>3 DEF PredecessorsAreExact, IsOne
<1>19. Waking'
  <2> SUFFICES ASSUME NEW u \in Items, status'[u] = "wake", NEW h, h = Head(successors[u])
               PROVE  Wakes(u, h)'
    BY <1>7 DEF Waking, Wakes, Entering, Counting, Notifies, ToNotify
  <2>1. CASE u = t
    <3>1. h = s /\ npredecessors[s] = 1
      BY <1>1, <1>2, <1>6, <2>1
    <3>2. ~Entering(s)
      BY <1>4, <1>13, <3>1 DEF ItemsAreSound, Entered, Entering
    <3>3. Outstanding(s) = 1
      BY <1>4, <1>13, <3>1, <3>2 DEF PredecessorsAreExact, Entering
    <3>4. Outstanding(s)' = 0
      BY <1>10, <3>3 DEF IsOne
    <3>5. \A v \in Items : ~Notifies(v, s)'
      BY <1>10, <3>4
    <3>6. \A v \in Items : status'[v] = "wake" /\ Head(successors'[v]) = s => v = t
      BY <1>4, <1>6, <1>7, <1>10 DEF Waking, Wakes
    <3>7. Entering(s)' <=> FALSE
      BY <1>12, <3>2
    <3> QED
      BY <1>6, <1>13, <2>1, <3>1, <3>5, <3>6, <3>7 DEF Wakes
  <2>2. CASE u # t
    <3>1. status[u] = "wake" /\ Wakes(u, h)
      BY <1>4, <1>6, <2>2 DEF Waking
    <3>2. h # s
      BY <1>10, <3>1 DEF Wakes
    <3>3. status[h] = "created" => status'[h] = "created"
      BY <1>3, <1>6
    <3>4. \A v \in Items : status'[v] = "wake" /\ Head(successors'[v]) = h =>
            v = u \/ (status[v] = "wake" /\ Head(successors[v]) = h)
      BY <1>1, <1>6, <1>7, <3>2
    <3> QED
      BY <1>7, <1>10, <1>12, <3>1, <3>3, <3>4, WakesStay
  <2> QED
    BY <2>1, <2>2
<1>20. Counted'
  <2>1. \A n \in Items : Own(n)' = Own(n)
    BY <1>2, <1>3, <1>6, <1>7 DEF Own
  <2> QED
    BY <1>7, <2>1 DEF IInv, Counted, Listed, Outs, Ins
<1>21. NrefsTyped'
  BY <1>7 DEF IInv, NrefsTyped
<1> QED
  BY <1>12, <1>15, <1>16, <1>17, <1>18, <1>19, <1>20, <1>21 DEF IInv, Graph

(* The reference to a successor that was notified is dropped, and it is     *)
(* queued if this was the last predecessor.                                 *)
LEMMA PopKeeps ==
  ASSUME IInv, NEW t \in Items, status[t] \in {"wake", "drop"},
         NEW s, s = Head(successors[t]), Pop(t, s), SameItems,
         UNCHANGED <<hash, task, npredecessors, creator>>,
         status' \in [Items -> Statuses], status'[t] = "notify",
         \A u \in Items : u # t =>
           \/ status'[u] = status[u]
           \/ u = s /\ status[t] = "wake" /\ task[s] /\ status'[u] = "queued"
  PROVE  IInv'
<1>1. Typed /\ Graph /\ Control /\ ItemsAreSound /\ StartsLast /\ Guarded /\ Waking
      /\ PredecessorsAreExact
  BY DEF IInv, Graph
<1>2. t \in 1..cur /\ Entered(t) /\ kind[t] = "task" /\ ~Entering(t) /\ Finished(t)
  BY <1>1, RunningIsTask DEF Finished
<1>3. successors[t] \in Seq(Items) /\ successors[t] # <<>>
  BY <1>1, <1>2 DEF Typed, Entered, Behind
<1>4. s \in t+1..cur
  <2>1. 1 \in DOMAIN successors[t] /\ s = successors[t][1]
    BY <1>3
  <2> QED
    BY <1>2, <2>1 DEF Entered, Behind
<1>5. s \in 1..cur /\ s \in Items /\ s # t
  <2>1. cur \in Int /\ 1..cur \subseteq Items
    BY <1>1, ItemsUpTo DEF Typed
  <2> QED
    BY <1>2, <1>4, <2>1
<1>6. /\ kind' = kind /\ deps' = deps /\ cur' = cur /\ pc' = pc /\ npre' = npre
      /\ npredecessors' = npredecessors /\ task' = task
      /\ last_out' = last_out /\ last_ins' = last_ins
  BY DEF SameItems, creator, hash
<1>7. /\ successors' = [successors EXCEPT ![t] = Tail(@)]
      /\ nrefs' = [nrefs EXCEPT ![s] = @ - 1] /\ fault' = Gone(s)
  BY DEF Pop
<1>8. /\ successors' \in [Items -> Seq(Items)] /\ successors'[t] = Tail(successors[t])
      /\ \A u \in Items : u # t => successors'[u] = successors[u]
  BY <1>1, <1>3, <1>7 DEF Typed
<1>9. ASSUME status'[s] # status[s]
      PROVE  /\ status[t] = "wake" /\ Wakes(t, s) /\ task[s] /\ status[s] = "created"
             /\ status'[s] = "queued" /\ kind[s] = "task"
  <2>1. status[t] = "wake" /\ task[s] /\ status'[s] = "queued"
    BY <1>5, <1>9
  <2>2. Wakes(t, s)
    BY <1>1, <2>1 DEF Waking
  <2>3. Entered(s)
    BY <1>1, <1>5 DEF ItemsAreSound
  <2>4. kind[s] = "task"
    BY <2>1, <2>3 DEF Entered, Published
  <2> QED
    BY <2>1, <2>2, <2>4 DEF Wakes
<1>10. \A u \in Items : u # t /\ u # s => status'[u] = status[u]
  OBVIOUS
<1>11. \A u \in Items : ToNotify'[u] = ToNotify[u]
  <2> SUFFICES ASSUME NEW u \in Items
               PROVE  (IF status'[u] \in {"wake", "drop"} THEN Tail(successors'[u])
                                                          ELSE successors'[u])
                    = IF status[u] \in {"wake", "drop"} THEN Tail(successors[u])
                                                        ELSE successors[u]
    BY DEF ToNotify
  <2>1. CASE u = t
    BY <1>8, <2>1
  <2>2. CASE u # t
    BY <1>8, <1>9, <1>10, <2>2
  <2> QED
    BY <2>1, <2>2
<1>12. /\ \A u \in Items : \A k : Notifies(u, k)' <=> Notifies(u, k)
       /\ \A n : Outstanding(n)' = Outstanding(n)
  BY <1>11, SameNotifies
<1>13. \A k \in Items : Finished(k)' <=> Finished(k)
  <2> TAKE k \in Items
  <2>1. CASE k = t
    BY <1>2, <2>1 DEF Finished
  <2>2. CASE k # t
    BY <1>9, <1>10, <2>2 DEF Finished
  <2> QED
    BY <2>1, <2>2
<1>14. Forward
  BY <1>12, <1>13 DEF Forward
<1>15. Control' /\ Table' /\ Linked' /\ Guarded' /\ \A k : Entering(k)' <=> Entering(k)
  BY <1>1, <1>14, CreatorWaits
<1>16. Typed'
  <2>1. fault' \in BOOLEAN
    BY <1>7 DEF Gone
  <2> QED
    BY <1>1, <1>8, <2>1 DEF Typed, SameItems, creator, hash
<1>17. ItemsAreSound'
  <2>1. Entered(t)'
    <3>1. Published(t)'
      BY <1>2, <1>6 DEF Entered, Published
    <3>2. Behind(t)'
      <4>1. \A i \in DOMAIN Tail(successors[t]) : /\ i + 1 \in DOMAIN successors[t]
              /\ Tail(successors[t])[i] = successors[t][i + 1]
        BY <1>3
      <4>2. \A i \in DOMAIN successors'[t] : successors'[t][i] \in t+1..cur
        BY <1>2, <1>8, <4>1 DEF Entered, Behind
      <4> QED
        BY <1>6, <4>2 DEF Behind
    <3>3. Merged(t)' /\ Idle(t)'
      BY <1>2, <1>6 DEF Entered, Merged, Idle
    <3> QED
      BY <1>2, <1>15, <3>1, <3>2, <3>3 DEF Entered
  <2>2. ASSUME NEW k \in Items, k # t, Entered(k), status'[k] = status[k] PROVE Entered(k)'
    <3>1. Merged(k)' /\ Idle(k)' /\ Behind(k)' /\ Published(k)'
      BY <1>6, <1>8, <2>2 DEF Entered, Merged, Idle, Behind, Published
    <3> QED
      BY <1>6, <1>15, <2>2, <3>1 DEF Entered
  <2>3. ASSUME Entered(s), status'[s] # status[s] PROVE Entered(s)'
    <3>1. Published(s)'
      BY <1>6, <1>9, <2>3 DEF Published, Wakes, Entering, Counting
    <3>2. Merged(s)' /\ Idle(s)' /\ Behind(s)'
      BY <1>5, <1>6, <1>8, <1>9, <2>3 DEF Entered, Merged, Idle, Behind
    <3>3. ~Entering(s)'
      BY <1>9, <1>15, <2>3 DEF Wakes
    <3> QED
      BY <1>9, <2>3, <3>1, <3>2, <3>3 DEF Entered
  <2>4. \A k \in Items : k # t /\ k # s => (Fresh(k) => Fresh(k)')
    BY <1>6, <1>8, <1>10 DEF Fresh
  <2>5. t <= cur /\ s <= cur
    BY <1>2, <1>5
  <2> QED
    BY <1>1, <1>5, <1>6, <1>10, <2>1, <2>2, <2>3, <2>4, <2>5 DEF ItemsAreSound
<1>18. StartsLast'
  <2>1. ASSUME NEW k \in 1..cur, Started(k)' \/ Finished(k)'
        PROVE  \/ Started(k) \/ Finished(k)
               \/ (\A j \in Needs(k) : Finished(j)) /\ \A u \in Items : ~Notifies(u, k)
    <3>1. k \in Items
      BY <1>1, ItemsUpTo DEF Typed
    <3>2. CASE status'[k] = status[k]
      BY <2>1, <3>2 DEF Started, Finished
    <3>3. CASE k = t
      BY <1>2, <3>3
    <3>4. CASE k = s /\ status'[s] # status[s]
      <4>1. ~Entering(k) /\ \A u \in Items : ~Notifies(u, k)
        BY <1>9, <3>4 DEF Wakes
      <4>2. pc # "process" \/ k # cur
        BY <4>1 DEF Entering, Counting
      <4>3. \A j \in Needs(k) : Finished(j)
        BY <1>1, <4>1, <4>2, NothingLeft
      <4> QED
        BY <4>1, <4>3
    <3> QED
      BY <1>10, <3>1, <3>2, <3>3, <3>4
  <2> QED
    BY <1>1, <1>6, <1>12, <1>14, <2>1, StartsStay
<1>19. PredecessorsAreExact'
  BY <1>1, <1>6, <1>12 DEF PredecessorsAreExact, Counting
<1>20. Waking'
  <2> SUFFICES ASSUME NEW u \in Items, status'[u] = "wake", NEW h, h = Head(successors'[u])
               PROVE  Wakes(u, h)'
    BY DEF Waking, Wakes, Entering, Counting, Notifies, ToNotify
  <2>1. u # t /\ status[u] = "wake" /\ h = Head(successors[u])
    BY <1>8, <1>9, <1>10
  <2>2. Wakes(u, h)
    BY <1>1, <2>1 DEF Waking
  <2>3. status[h] = "created" => status'[h] = "created"
    <3>1. h \in Items
      <4>1. Entered(u) /\ u \in 1..cur
        BY <1>1, <2>1, RunningIsTask
      <4>2. successors[u] \in Seq(Items) /\ successors[u] # <<>>
        BY <1>1, <2>1, <4>1 DEF Entered, Behind, Typed
      <4> QED
        BY <2>1, <4>2
    <3>2. h = s => status'[s] = status[s]
      BY <1>9, <2>1 DEF Wakes
    <3> QED
      BY <1>10, <3>1, <3>2
  <2>4. \A v \in Items : status'[v] = "wake" /\ Head(successors'[v]) = h =>
          v = u \/ (status[v] = "wake" /\ Head(successors[v]) = h)
    BY <1>8, <1>9, <1>10
  <2> QED
    BY <1>6, <1>12, <1>15, <2>2, <2>3, <2>4, WakesStay
<1>21. \A n \in Items : nrefs'[n] = nrefs[n] - IsOne(s = n)
  BY <1>7 DEF IInv, NrefsTyped, IsOne
<1>22. Counted'
  <2>1. \A n \in Items : Own(n)' = Own(n)
    <3> SUFFICES ASSUME NEW n \in Items PROVE Own(n)' = Own(n)
      OBVIOUS
    <3>1. CASE n = t
      BY <1>6, <3>1 DEF Own
    <3>2. CASE n # t
      BY <1>6, <1>9, <1>10, <3>2 DEF Own
    <3> QED
      BY <3>1, <3>2
  <2>2. \A n : Listed(n)' = Listed(n) - IsOne(s = n)
    <3> TAKE n
    <3>1. PICK f \in [Items -> Seq(Items)] : f = successors
      BY <1>1 DEF Typed
    <3>2. PICK g \in [Items -> Seq(Items)] : g = successors'
      BY <1>8
    <3>3. Shrinks(f, g, t)
      BY <1>3, <1>8, <3>1, <3>2 DEF Shrinks, AreLists, AgreeBut
    <3>4. OneLess(f, g, Head(f[t]), n)
      BY <3>3, ListShrinks, Zenon
    <3> QED
      BY <3>1, <3>2, <3>4 DEF Listed, OneLess
  <2>3. \A n : Outs(n)' = Outs(n) /\ Ins(n)' = Ins(n)
    BY <1>6 DEF Outs, Ins
  <2>4. \A n : Own(n) \in Nat /\ Listed(n) \in Nat /\ Outs(n) \in Nat /\ Ins(n) \in Nat
    BY <1>1, PartsAreNatural
  <2> QED
    BY <1>21, <2>1, <2>2, <2>3, <2>4 DEF IInv, Counted, IsOne
<1>23. NrefsTyped'
  <2>1. nrefs' \in [Items -> Int]
    BY <1>5, <1>7 DEF IInv, NrefsTyped
  <2> QED
    BY <1>16, <1>22, <2>1, CountedIsTyped
<1> QED
  BY <1>15, <1>16, <1>17, <1>18, <1>19, <1>20, <1>22, <1>23 DEF IInv, Graph

(* The last to notify a successor queues it and drops it.                   *)
LEMMA WakeKeeps ==
  ASSUME IInv, NEW t \in Items, Wake(t)
  PROVE  IInv'
<1>1. PICK s : s = Head(successors[t])
  OBVIOUS
<1>2. /\ status[t] = "wake" /\ Pop(t, s) /\ SameItems
      /\ status' = [status EXCEPT ![t] = "notify", ![s] = IF task[s] THEN "queued" ELSE @]
      /\ UNCHANGED <<hash, task, npredecessors, creator>>
  BY <1>1 DEF Wake, items, SameItems
<1>3. s # t
  <2>1. t \in 1..cur /\ Entered(t)
    BY <1>2, RunningIsTask DEF IInv, Graph
  <2>2. successors[t] # <<>> /\ successors[t] \in Seq(Items)
    BY <1>2, <2>1 DEF Entered, Behind, IInv, Typed
  <2>3. 1 \in DOMAIN successors[t] /\ s = successors[t][1]
    BY <1>1, <2>2
  <2>4. s \in t+1..cur
    BY <2>1, <2>3 DEF Entered, Behind
  <2> QED
    BY <2>1, <2>4
<1>4. status \in [Items -> Statuses]
  BY DEF IInv, Typed
<1>5. /\ status' \in [Items -> Statuses] /\ status'[t] = "notify"
      /\ \A u \in Items : u # t => status'[u] = IF u = s /\ task[s] THEN "queued" ELSE status[u]
  BY <1>2, <1>3, <1>4 DEF Statuses
<1> QED
  BY <1>1, <1>2, <1>5, PopKeeps

(* Any other drops it only.                                                 *)
LEMMA DropKeeps ==
  ASSUME IInv, NEW t \in Items, Drop(t)
  PROVE  IInv'
<1>1. PICK s : s = Head(successors[t])
  OBVIOUS
<1>2. /\ status[t] = "drop" /\ Pop(t, s) /\ SameItems
      /\ status' = [status EXCEPT ![t] = "notify"]
      /\ UNCHANGED <<hash, task, npredecessors, creator>>
  BY <1>1 DEF Drop, Goto, items, SameItems
<1>3. /\ status' \in [Items -> Statuses] /\ status'[t] = "notify"
      /\ \A u \in Items : u # t => status'[u] = status[u]
  BY <1>2 DEF IInv, Typed, Statuses
<1> QED
  BY <1>1, <1>2, <1>3, PopKeeps

(***************************************************************************)
(* The creating thread.                                                     *)
(***************************************************************************)
LEMMA CurIsEntered ==
  ASSUME Typed, Graph, pc \in {"process", "publish", "count", "wait"}
  PROVE  /\ cur \in 1..cur /\ cur \in Items /\ Entered(cur) /\ status[cur] = "created"
         /\ \A u \in Items : status[u] = "wake" => u # cur
<1>1. cur # 0 /\ cur \in 0..MaxItems
  BY DEF Graph, Control, Typed
<1>2. cur \in 1..cur /\ cur \in Items /\ cur <= cur
  BY <1>1, ItemsAssumption DEF Items
<1>3. Entered(cur)
  BY <1>2 DEF Graph, ItemsAreSound
<1>4. status[cur] = "created"
  <2>1. CASE pc = "wait"
    BY <1>3, <2>1 DEF Graph, Control, Entered, Idle
  <2>2. CASE pc # "wait"
    BY <1>3, <2>2 DEF Entered, Entering, Counting
  <2> QED
    BY <2>1, <2>2
<1> QED
  BY <1>2, <1>3, <1>4

(* Steps that leave the nodes alone.                                        *)
LEMMA QuietCreator ==
  ASSUME IInv, SameItems, UNCHANGED <<successors, status, npredecessors, cur, npre>>,
         Counting' <=> Counting
  PROVE  /\ Forward /\ StartsLast' /\ Waking' /\ PredecessorsAreExact'
         /\ \A s : Entering(s)' <=> Entering(s)
         /\ \A t \in Items : \A k : Notifies(t, k)' <=> Notifies(t, k)
         /\ \A t : Finished(t)' <=> Finished(t)
         /\ \A n : Own(n)' = Own(n) /\ Listed(n)' = Listed(n)
<1>1. /\ kind' = kind /\ deps' = deps /\ cur' = cur /\ npre' = npre
      /\ successors' = successors /\ status' = status /\ npredecessors' = npredecessors
  BY DEF SameItems
<1>2. \A t \in Items : ToNotify'[t] = ToNotify[t]
  BY <1>1 DEF ToNotify
<1>3. /\ \A t \in Items : \A k : Notifies(t, k)' <=> Notifies(t, k)
      /\ \A n : Outstanding(n)' = Outstanding(n)
  BY <1>2, SameNotifies
<1>4. \A t : (Finished(t)' <=> Finished(t)) /\ (Started(t)' <=> Started(t))
  BY <1>1 DEF Finished, Started
<1>5. Forward
  BY <1>3, <1>4 DEF Forward
<1>6. StartsLast'
  BY <1>1, <1>3, <1>4, <1>5, StartsStay DEF IInv, Graph
<1>7. \A s : Entering(s)' <=> Entering(s)
  BY <1>1 DEF Entering
<1>8. Waking'
  <2> SUFFICES ASSUME NEW u \in Items, status'[u] = "wake", NEW h, h = Head(successors'[u])
               PROVE  Wakes(u, h)'
    BY DEF Waking, Wakes, Entering, Counting, Notifies, ToNotify
  <2>1. Wakes(u, h)
    BY <1>1 DEF IInv, Graph, Waking
  <2> QED
    BY <1>1, <1>3, <1>7, <2>1, WakesStay
<1>9. PredecessorsAreExact'
  BY <1>1, <1>3 DEF IInv, PredecessorsAreExact
<1>10. \A n : Own(n)' = Own(n) /\ Listed(n)' = Listed(n)
  BY <1>1 DEF Own, Listed
<1> QED
  BY <1>3, <1>4, <1>5, <1>6, <1>7, <1>8, <1>9, <1>10

(* The node of the item gets its task.                                      *)
LEMMA PublishKeeps ==
  ASSUME IInv, Publish
  PROVE  IInv'
<1>1. /\ pc = "publish" /\ pc' = "count" /\ task' = [task EXCEPT ![cur] = kind[cur] = "task"]
      /\ SameItems /\ UNCHANGED hash
      /\ UNCHANGED <<npredecessors, nrefs, successors, status, cur, dep, todo, npre, fault>>
  BY DEF Publish, items, SameItems
<1>2. Typed /\ Graph /\ Control /\ ItemsAreSound /\ StartsLast /\ Guarded /\ Table
  BY DEF IInv, Graph
<1>3. cur \in 1..cur /\ cur \in Items /\ Entered(cur) /\ status[cur] = "created"
  BY <1>1, <1>2, CurIsEntered
<1>4. /\ kind' = kind /\ deps' = deps /\ cur' = cur /\ successors' = successors
      /\ status' = status /\ npredecessors' = npredecessors /\ todo' = todo
  BY <1>1 DEF SameItems
<1>5. Counting' <=> Counting
  BY <1>1 DEF Counting
<1>6. /\ Forward /\ StartsLast' /\ Waking' /\ PredecessorsAreExact'
      /\ \A s : Entering(s)' <=> Entering(s)
      /\ \A n : Own(n)' = Own(n) /\ Listed(n)' = Listed(n)
  BY <1>1, <1>5, QuietCreator
<1>7. /\ task' \in [Items -> BOOLEAN] /\ (task'[cur] <=> kind[cur] = "task")
      /\ \A k \in Items : k # cur => task'[k] = task[k]
  BY <1>1, <1>2, <1>3 DEF Typed
<1>8. Typed'
  BY <1>1, <1>2, <1>7 DEF Typed, SameItems, hash
<1>9. SameRecords
  BY <1>1 DEF SameRecords, Recorded
<1>10. Guarded'
  BY <1>1, <1>2, <1>6, <1>9, GuardStays
<1>11. Table'
  <2>1. Pending => Pending'
    BY <1>1, <1>4 DEF Pending
  <2>2. \A j \in 1..cur : Settled(j) => Settled(j)'
    BY <1>1, <1>2, <1>6, <2>1, SettledStays
  <2> QED
    BY <1>1, <1>2, <1>9, <2>2, TableStays
<1>12. Control' /\ Linked'
  BY <1>1, <1>2, <1>3, <1>4 DEF Control, Linked
<1>13. ItemsAreSound'
  <2>1. ASSUME NEW k \in Items, Entered(k) PROVE Entered(k)'
    <3>1. Published(k)'
      BY <1>1, <1>3, <1>4, <1>7, <2>1 DEF Entered, Published
    <3>2. Merged(k)' /\ Idle(k)' /\ Behind(k)'
      BY <1>1, <1>4, <2>1 DEF Entered, Merged, Idle, Behind
    <3> QED
      BY <1>4, <1>6, <2>1, <3>1, <3>2 DEF Entered
  <2>2. \A k \in Items : k # cur => (Fresh(k) => Fresh(k)')
    BY <1>4, <1>7 DEF Fresh
  <2> QED
    BY <1>2, <1>3, <1>4, <2>1, <2>2 DEF ItemsAreSound
<1>14. Counted' /\ NrefsTyped'
  BY <1>1, <1>6 DEF IInv, Counted, Outs, Ins, hash, NrefsTyped
<1> QED
  BY <1>6, <1>8, <1>10, <1>11, <1>12, <1>13, <1>14 DEF IInv, Graph

(* The count of the item is complete; it goes on if that is 0.              *)
LEMMA CountKeeps ==
  ASSUME IInv, pc \in {"count", "wait"}, SameItems,
         UNCHANGED <<hash, task, nrefs, successors, cur, dep, todo, npre, fault>>,
         npredecessors' \in [Items -> Int], npredecessors'[cur] = Outstanding(cur),
         \A k \in Items : k # cur => npredecessors'[k] = npredecessors[k],
         NEW to \in Statuses, status' = [status EXCEPT ![cur] = to],
         \/ to = "created" /\ pc' = (IF kind[cur] = "wait" THEN "wait" ELSE "create")
         \/ /\ to = (IF kind[cur] = "wait" THEN "done" ELSE "queued")
            /\ pc' = "create" /\ Outstanding(cur) = 0
  PROVE  IInv'
<1>1. Typed /\ Graph /\ Control /\ ItemsAreSound /\ StartsLast /\ Guarded /\ Table /\ Waking
      /\ PredecessorsAreExact
  BY DEF IInv, Graph
<1>2. cur \in 1..cur /\ cur \in Items /\ Entered(cur) /\ status[cur] = "created"
  BY <1>1, CurIsEntered
<1>3. /\ kind' = kind /\ deps' = deps /\ cur' = cur /\ successors' = successors
      /\ todo' = todo /\ npre' = npre /\ task' = task /\ nrefs' = nrefs
      /\ last_out' = last_out /\ last_ins' = last_ins
  BY DEF SameItems, hash
<1>4. /\ status' \in [Items -> Statuses] /\ status'[cur] = to
      /\ \A k \in Items : k # cur => status'[k] = status[k]
  BY <1>1, <1>2 DEF Typed
<1>5. to \in {"created", "queued", "done"} /\ kind[cur] \in {"task", "wait"}
  BY <1>1, <1>2 DEF Typed
<1>6. pc' \in {"wait", "create"} /\ (pc' = "wait" => kind[cur] = "wait")
  OBVIOUS
<1>7. \A t \in Items : ToNotify'[t] = ToNotify[t]
  BY <1>2, <1>3, <1>4, <1>5 DEF ToNotify
<1>8. /\ \A t \in Items : \A k : Notifies(t, k)' <=> Notifies(t, k)
      /\ \A n : Outstanding(n)' = Outstanding(n)
  BY <1>7, SameNotifies
<1>9. \A t \in Items : Finished(t) => Finished(t)'
  BY <1>2, <1>4 DEF Finished
<1>10. Forward
  BY <1>8, <1>9 DEF Forward
<1>11. to # "created" => /\ \A t \in Items : ~Notifies(t, cur)
                         /\ \A j \in Needs(cur) : Finished(j)
  <2> SUFFICES ASSUME to # "created"
               PROVE  /\ \A t \in Items : ~Notifies(t, cur)
                      /\ \A j \in Needs(cur) : Finished(j)
    OBVIOUS
  <2>1. \A t \in Items : ~Notifies(t, cur)
    BY <1>1, NobodyLeft
  <2> QED
    BY <1>1, <1>2, <2>1, NothingLeft
<1>12. Typed'
  BY <1>1, <1>4, <1>6 DEF Typed, SameItems, hash
<1>13. SameRecords
  BY <1>3, <1>6 DEF SameRecords, Recorded
<1>14. Guarded'
  BY <1>1, <1>10, <1>13, GuardStays
<1>15. Table'
  <2>1. CASE Pending => Pending'
    <3>1. \A j \in 1..cur : Settled(j) => Settled(j)'
      BY <1>1, <1>3, <1>10, <2>1, SettledStays
    <3> QED
      BY <1>1, <1>13, <3>1, TableStays
  <2>2. CASE Pending /\ ~Pending'
    <3>1. to # "created"
      BY <1>3, <1>5, <2>2 DEF Pending
    <3>2. \A j \in 1..cur : Settled(j) => Finished(j)
      BY <1>11, <3>1 DEF Settled, Covered
    <3>3. \A j \in 1..cur : Settled(j) => Settled(j)'
      BY <1>1, <1>9, <3>2, ItemsUpTo DEF Settled, Typed
    <3> QED
      BY <1>1, <1>13, <3>3, TableStays
  <2> QED
    BY <2>1, <2>2
<1>16. Control' /\ Linked'
  BY <1>1, <1>2, <1>3, <1>6 DEF Control, Linked
<1>17. \A s : ~Entering(s)'
  BY <1>6 DEF Entering, Counting
<1>18. ItemsAreSound'
  <2>1. Entered(cur)'
    <3>1. Published(cur)'
      BY <1>2, <1>3, <1>4, <1>5, <1>6 DEF Entered, Published
    <3>2. Idle(cur)'
      BY <1>2, <1>3, <1>4, <1>5, <1>6 DEF Entered, Idle
    <3>3. Merged(cur)' /\ Behind(cur)'
      BY <1>2, <1>3, <1>4, <1>5 DEF Entered, Idle, Merged, Behind
    <3> QED
      BY <1>2, <1>3, <1>4, <1>5, <1>17, <3>1, <3>2, <3>3 DEF Entered, Entering, Counting
  <2>2. ASSUME NEW k \in Items, k # cur, Entered(k) PROVE Entered(k)'
    <3>1. Merged(k)' /\ Idle(k)' /\ Behind(k)' /\ Published(k)'
      BY <1>3, <1>4, <2>2 DEF Entered, Merged, Idle, Behind, Published
    <3> QED
      BY <1>4, <1>17, <2>2, <3>1 DEF Entered
  <2>3. \A k \in Items : k # cur => (Fresh(k) => Fresh(k)')
    BY <1>3, <1>4 DEF Fresh
  <2>4. cur <= cur
    BY <1>2
  <2> QED
    BY <1>1, <1>3, <2>1, <2>2, <2>3, <2>4 DEF ItemsAreSound
<1>19. StartsLast'
  <2>1. ASSUME NEW k \in 1..cur, Started(k)' \/ Finished(k)'
        PROVE  \/ Started(k) \/ Finished(k)
               \/ (\A j \in Needs(k) : Finished(j)) /\ \A u \in Items : ~Notifies(u, k)
    <3>1. k \in Items
      BY <1>1, ItemsUpTo DEF Typed
    <3>2. CASE k # cur
      BY <1>4, <2>1, <3>1, <3>2 DEF Started, Finished
    <3>3. CASE k = cur
      BY <1>4, <1>11, <2>1, <3>3 DEF Started, Finished
    <3> QED
      BY <3>2, <3>3
  <2> QED
    BY <1>1, <1>3, <1>8, <1>10, <2>1, StartsStay
<1>20. Waking'
  <2> SUFFICES ASSUME NEW u \in Items, status'[u] = "wake", NEW h, h = Head(successors[u])
               PROVE  Wakes(u, h)'
    BY <1>3 DEF Waking, Wakes, Entering, Counting, Notifies, ToNotify
  <2>1. u # cur /\ status[u] = "wake"
    BY <1>4, <1>5
  <2>2. Wakes(u, h)
    BY <1>1, <2>1 DEF Waking
  <2>3. kind[h] = "task" /\ status[h] = "created" => status'[h] = "created"
    <3>1. h = cur => kind[h] # "task"
      BY <1>1, <2>2 DEF Wakes, Entering, Counting, Control
    <3>2. h # cur => status'[h] = status[h]
      OBVIOUS
    <3> QED
      BY <3>1, <3>2
  <2>4. \A v \in Items : status'[v] = "wake" /\ Head(successors'[v]) = h =>
          v = u \/ (status[v] = "wake" /\ Head(successors[v]) = h)
    BY <1>3, <1>4, <1>5
  <2> QED
    BY <1>3, <1>8, <1>17, <2>2, <2>3, <2>4, WakesStay
<1>21. PredecessorsAreExact'
  <2> SUFFICES ASSUME NEW n \in 1..cur
               PROVE  npredecessors'[n] = Outstanding(n)'
    BY <1>3, <1>6 DEF PredecessorsAreExact, Counting
  <2>1. n \in Items
    BY <1>1, ItemsUpTo DEF Typed
  <2> QED
    BY <1>1, <1>8, <2>1 DEF PredecessorsAreExact
<1>22. Counted' /\ NrefsTyped'
  <2>1. \A n \in Items : Own(n)' = Own(n)
    BY <1>2, <1>3, <1>4, <1>5 DEF Own
  <2> QED
    BY <1>3, <2>1 DEF IInv, Counted, Listed, Outs, Ins, NrefsTyped
<1> QED
  BY <1>12, <1>14, <1>15, <1>16, <1>18, <1>19, <1>20, <1>21, <1>22 DEF IInv, Graph

(* The creator adds the predecessors that it found.                         *)
LEMMA AddCountKeeps ==
  ASSUME IInv, AddCount
  PROVE  IInv'
<1>1. Typed /\ Graph /\ ItemsAreSound /\ PredecessorsAreExact /\ pc = "count"
  BY DEF IInv, Graph, AddCount
<1>2. cur \in 1..cur /\ cur \in Items /\ status[cur] = "created"
  BY <1>1, CurIsEntered
<1>3. Total = Outstanding(cur) /\ Outstanding(cur) \in Nat
  <2>1. Total = Outstanding(cur)
    BY <1>1, <1>2 DEF PredecessorsAreExact, Counting, Total
  <2> QED
    BY <1>1, <2>1, NobodyLeft
<1>4. PICK to \in Statuses : to = IF Total > 0 THEN "created"
                                  ELSE IF kind[cur] = "wait" THEN "done" ELSE "queued"
  BY DEF Statuses
<1>5. /\ SameItems
      /\ UNCHANGED <<hash, task, nrefs, successors, cur, dep, todo, npre, fault>>
      /\ npredecessors' = [npredecessors EXCEPT ![cur] = Total]
      /\ pc' = IF Total > 0 /\ kind[cur] = "wait" THEN "wait" ELSE "create"
  BY DEF AddCount, SameItems, items
<1>6. status' = [status EXCEPT ![cur] = to]
  BY <1>1, <1>2, <1>4 DEF AddCount, Typed
<1>7. /\ npredecessors' \in [Items -> Int] /\ npredecessors'[cur] = Outstanding(cur)
      /\ \A k \in Items : k # cur => npredecessors'[k] = npredecessors[k]
  BY <1>1, <1>2, <1>3, <1>5 DEF Typed
<1>8. \/ to = "created" /\ pc' = (IF kind[cur] = "wait" THEN "wait" ELSE "create")
      \/ /\ to = (IF kind[cur] = "wait" THEN "done" ELSE "queued")
         /\ pc' = "create" /\ Outstanding(cur) = 0
  BY <1>3, <1>4, <1>5
<1> QED
  BY <1>1, <1>5, <1>6, <1>7, <1>8, CountKeeps

(* The wait sees its last predecessor go.                                   *)
LEMMA WaitReturnsKeeps ==
  ASSUME IInv, WaitReturns
  PROVE  IInv'
<1>1. Typed /\ Graph /\ ItemsAreSound /\ Control /\ PredecessorsAreExact /\ pc = "wait"
  BY DEF IInv, Graph, WaitReturns
<1>2. cur \in 1..cur /\ cur \in Items /\ kind[cur] = "wait"
  BY <1>1, CurIsEntered DEF Control
<1>3. npredecessors[cur] = Outstanding(cur) /\ Outstanding(cur) = 0
  <2>1. npredecessors[cur] = Outstanding(cur)
    BY <1>1, <1>2 DEF PredecessorsAreExact, Counting
  <2>2. Outstanding(cur) \in Nat
    BY <1>1, NobodyLeft
  <2> QED
    BY <2>1, <2>2 DEF WaitReturns
<1>4. PICK to \in Statuses : to = "done"
  BY DEF Statuses
<1>5. /\ SameItems /\ npredecessors' = npredecessors /\ pc' = "create"
      /\ UNCHANGED <<hash, task, nrefs, successors, cur, dep, todo, npre, fault>>
      /\ status' = [status EXCEPT ![cur] = to]
  BY <1>4 DEF WaitReturns, SameItems, items
<1>6. /\ npredecessors' \in [Items -> Int] /\ npredecessors'[cur] = Outstanding(cur)
      /\ \A k \in Items : k # cur => npredecessors'[k] = npredecessors[k]
  BY <1>1, <1>3, <1>5 DEF Typed
<1>7. /\ to = (IF kind[cur] = "wait" THEN "done" ELSE "queued")
      /\ pc' = "create" /\ Outstanding(cur) = 0
  BY <1>2, <1>3, <1>4, <1>5
<1> QED
  BY <1>1, <1>5, <1>6, <1>7, CountKeeps

(* The hash table is freed with its references.                             *)
LEMMA ParentFinishesKeeps ==
  ASSUME IInv, ParentFinishes
  PROVE  IInv'
<1>1. /\ pc = "create" /\ pc' = "end" /\ SameItems
      /\ nrefs' = [n \in Items |-> nrefs[n] - Outs(n) - Ins(n)]
      /\ last_out' = [a \in Addrs |-> Null] /\ last_ins' = [a \in Addrs |-> <<>>]
      /\ UNCHANGED <<task, npredecessors, successors, status, cur, dep, todo, npre, fault>>
  BY DEF ParentFinishes, items, SameItems, Outs, Ins
<1>2. Typed /\ Graph /\ Control /\ ItemsAreSound /\ StartsLast /\ Guarded
  BY DEF IInv, Graph
<1>3. /\ kind' = kind /\ deps' = deps /\ cur' = cur /\ successors' = successors /\ task' = task
      /\ status' = status /\ npredecessors' = npredecessors /\ todo' = todo
  BY <1>1 DEF SameItems
<1>4. Counting' <=> Counting
  BY <1>1 DEF Counting
<1>5. /\ Forward /\ StartsLast' /\ Waking' /\ PredecessorsAreExact'
      /\ \A s : Entering(s)' <=> Entering(s)
      /\ \A n : Own(n)' = Own(n) /\ Listed(n)' = Listed(n)
  BY <1>1, <1>4, QuietCreator
<1>6. Typed'
  <2>1. /\ last_out' \in [Addrs -> Items \cup {Null}]
        /\ last_ins' \in [Addrs -> Seq(Items)]
    BY <1>1
  <2> QED
    BY <1>1, <1>2, <2>1 DEF Typed, SameItems
<1>7. Guarded'
  <2>1. SameRecords
    BY <1>1 DEF SameRecords, Recorded
  <2> QED
    BY <1>1, <1>2, <1>5, <2>1, GuardStays
<1>8. Control' /\ Table' /\ Linked'
  BY <1>1, <1>2, <1>3 DEF Control, Table, Linked
<1>9. ItemsAreSound'
  <2>1. \A k \in Items : Entered(k) => Entered(k)'
    BY <1>1, <1>3, <1>5 DEF Entered, Merged, Idle, Behind, Published
  <2>2. \A k \in Items : Fresh(k) => Fresh(k)'
    BY <1>3 DEF Fresh
  <2> QED
    BY <1>2, <1>3, <2>1, <2>2 DEF ItemsAreSound
<1>10. Counted'
  <2> SUFFICES ASSUME NEW n \in Items
               PROVE  nrefs'[n] = Own(n)' + Listed(n)' + Outs(n)' + Ins(n)'
    BY DEF Counted
  <2>1. Outs(n)' = 0
    <3>1. {a \in Addrs : last_out'[a] = n} = {}
      BY <1>1, ItemsAssumption DEF Items, Null
    <3> QED
      BY <3>1, FS_EmptySet DEF Outs
  <2>2. Ins(n)' = 0
    <3>1. PICK f \in [Addrs -> Seq(Items)] : f = last_ins'
      BY <1>6 DEF Typed
    <3>2. \A a \in Addrs : \A i \in DOMAIN f[a] : f[a][i] # n
      BY <1>1, <3>1
    <3>3. Cardinality(Places(f, n)) = 0
      BY <3>2, AddrsAssumption, PlacesAreFinite
    <3> QED
      BY <3>1, <3>3 DEF Ins
  <2>3. nrefs[n] = Own(n) + Listed(n) + Outs(n) + Ins(n)
    BY DEF IInv, Counted
  <2>4. Own(n) \in Nat /\ Listed(n) \in Nat /\ Outs(n) \in Nat /\ Ins(n) \in Nat
    BY <1>2, PartsAreNatural
  <2> QED
    BY <1>1, <1>5, <2>1, <2>2, <2>3, <2>4
<1>11. NrefsTyped'
  <2>1. nrefs' \in [Items -> {nrefs[n] - Outs(n) - Ins(n) : n \in Items}]
    BY <1>1
  <2> QED
    BY <1>6, <1>10, <2>1, CountedIsTyped
<1> QED
  BY <1>5, <1>6, <1>7, <1>8, <1>9, <1>10, <1>11 DEF IInv, Graph

(* An entry is put before one list.                                         *)
Grows(f, g, t, x) ==
  /\ AreLists(Items, Items, f) /\ AreLists(Items, Items, g)
  /\ t \in Items /\ x \in Items /\ g[t] = <<x>> \o f[t] /\ AgreeBut(Items, f, g, t)

OneMore(f, g, x, n) ==
  Cardinality(Places(g, n)) = Cardinality(Places(f, n)) + IsOne(x = n)

(* The places gained and lost when one list is replaced.                    *)
Balanced(f, g, p, n) ==
  Cardinality(Places(g, n)) + Cardinality(Indices(f[p], n))
    = Cardinality(Places(f, n)) + Cardinality(Indices(g[p], n))

(* They balance for the lists of the items.                                 *)
LEMMA ItemsReplaced ==
  ASSUME NEW f, NEW g, AreLists(Items, Items, f), AreLists(Items, Items, g),
         NEW p \in Items, AgreeBut(Items, f, g, p), NEW n
  PROVE  Balanced(f, g, p, n)
BY ItemsAreFinite, Replaced DEF Balanced

(* The value put at the front has one place more.                           *)
LEMMA ListGrows ==
  ASSUME NEW f, NEW g, NEW t, NEW x, Grows(f, g, t, x), NEW n
  PROVE  OneMore(f, g, x, n)
<1>0. /\ AreLists(Items, Items, f) /\ AreLists(Items, Items, g)
      /\ t \in Items /\ x \in Items /\ g[t] = <<x>> \o f[t] /\ AgreeBut(Items, f, g, t)
  BY DEF Grows
<1>1. PICK l \in Seq(Items) : l = f[t]
  BY <1>0 DEF AreLists
<1>2. PICK m \in Seq(Items) : m = g[t] /\ m = <<x>> \o l
  BY <1>0, <1>1 DEF AreLists
<1>3. /\ Cardinality(Places(f, n)) \in Nat /\ Cardinality(Places(g, n)) \in Nat
      /\ Cardinality(Indices(l, n)) \in Nat /\ Cardinality(Indices(m, n)) \in Nat
  BY <1>0, ItemsAreFinite, Replaced, IndicesAreFinite
<1>4. Cardinality(Places(g, n)) + Cardinality(Indices(l, n))
        = Cardinality(Places(f, n)) + Cardinality(Indices(m, n))
  <2>1. Balanced(f, g, t, n)
    BY <1>0, ItemsReplaced, Zenon
  <2> QED
    BY <1>1, <1>2, <2>1, Zenon DEF Balanced
<1>5. Cardinality(Indices(m, n)) = Cardinality(Indices(l, n)) + IsOne(x = n)
  BY <1>0, <1>1, <1>2, IndicesOfCons
<1>6. IsOne(x = n) \in Nat
  BY DEF IsOne
<1> DEFINE cf == Cardinality(Places(f, n))
           cg == Cardinality(Places(g, n))
           cl == Cardinality(Indices(l, n))
           cm == Cardinality(Indices(m, n))
           one == IsOne(x = n)
<1>7. cf \in Nat /\ cg \in Nat /\ cl \in Nat /\ cm \in Nat /\ one \in Nat
      /\ cg + cl = cf + cm /\ cm = cl + one
  BY <1>3, <1>4, <1>5, <1>6
<1> HIDE DEF cf, cg, cl, cm, one
<1>8. cg = cf + one
  BY <1>7
<1> QED
  BY <1>8 DEF cf, cg, one, OneMore

(* What changes with the look at one predecessor.                           *)
LooksAt(p) ==
  /\ p \in 1..cur-1 /\ p \in Items /\ kind[p] = "task"
  /\ task[p] => status[p] \in {"created", "queued", "running"}
  /\ ~task[p] => Finished(p)
  /\ successors' \in [Items -> Seq(Items)] /\ npre' = npre + IsOne(task[p])
  /\ nrefs' \in [Items -> Int]
  /\ \A n \in Items : nrefs'[n] = nrefs[n] + IsOne(task[p] /\ n = cur)
  /\ \A u \in Items : successors'[u] = IF u = p /\ task[p] THEN <<cur>> \o successors[u]
                                                           ELSE successors[u]

LinksTo(p) ==
  /\ \A u \in Items : \A k : Notifies(u, k)' <=>
       Notifies(u, k) \/ (u = p /\ task[p] /\ k = cur)
  /\ \A n : /\ Outstanding(n)' = Outstanding(n) + IsOne(task[p] /\ n = cur)
            /\ Listed(n)' = Listed(n) + IsOne(task[p] /\ n = cur)

LEMMA LinkEffect ==
  ASSUME IInv, Link, NEW p, p = Head(todo)
  PROVE  LooksAt(p) /\ LinksTo(p)
<1> USE DEF LooksAt, LinksTo
<1>1. Typed /\ Graph /\ Linked /\ ItemsAreSound /\ NrefsTyped
  BY DEF IInv, Graph
<1>2. /\ pc = "process" /\ todo # <<>> /\ todo \in Seq(Items) /\ UNCHANGED status
      /\ IF task[p] THEN /\ successors' = [successors EXCEPT ![p] = <<cur>> \o @]
                         /\ nrefs' = [nrefs EXCEPT ![cur] = @ + 1]
                         /\ npre' = npre + 1
                    ELSE UNCHANGED <<successors, nrefs, npre>>
  BY <1>1 DEF Link, Typed
<1>3. p \in 1..cur-1 /\ kind[p] = "task"
  <2>1. 1 \in DOMAIN todo /\ todo[1] = p
    BY <1>2
  <2>2. PICK j \in DOMAIN Preds(Dep) : Preds(Dep)[j] = p
    BY <1>1, <1>2, <2>1 DEF Linked
  <2>3. p \in 1..cur-1 /\ Touches(p, Dep.addr)
    BY <1>1, <1>2, <2>2, PredsAreEarlier
  <2> QED
    BY <2>3 DEF Touches
<1>4. cur \in 1..cur /\ cur \in Items /\ Entered(cur) /\ status[cur] = "created"
  BY <1>1, <1>2, CurIsEntered
<1>5. p \in Items /\ p <= cur /\ p # cur
  <2>1. cur \in Int /\ 1..cur \subseteq Items
    BY <1>1, ItemsUpTo DEF Typed
  <2>2. p \in 1..cur /\ p # cur
    BY <1>3, <2>1
  <2> QED
    BY <2>1, <2>2
<1>6. Entered(p)
  BY <1>1, <1>5 DEF ItemsAreSound
<1>7. /\ task[p] => status[p] \in {"created", "queued", "running"}
      /\ ~task[p] => Finished(p)
  <2>1. status[p] \in Statuses
    BY <1>1, <1>5 DEF Typed
  <2> QED
    BY <1>3, <1>5, <1>6, <2>1 DEF Entered, Published, Finished, Statuses
<1>8. CASE ~task[p]
  <2>1. successors' = successors /\ nrefs' = nrefs /\ npre' = npre /\ status' = status
    BY <1>2, <1>8
  <2>2. \A u \in Items : ToNotify'[u] = ToNotify[u]
    BY <2>1 DEF ToNotify
  <2>3. /\ \A t \in Items : \A k : Notifies(t, k)' <=> Notifies(t, k)
        /\ \A n : Outstanding(n)' = Outstanding(n)
    BY <2>2, SameNotifies
  <2>4. \A n : Outstanding(n) \in Nat /\ Listed(n) \in Nat
    BY <1>1, NobodyLeft, PartsAreNatural
  <2>5. \A n : Listed(n)' = Listed(n)
    BY <2>1 DEF Listed
  <2>6. successors' \in [Items -> Seq(Items)] /\ nrefs' \in [Items -> Int] /\ npre' \in Nat
        /\ \A n \in Items : nrefs[n] \in Nat
    BY <1>1, <2>1 DEF Typed, NrefsTyped
  <2> QED
    BY <1>3, <1>5, <1>7, <1>8, <2>1, <2>3, <2>4, <2>5, <2>6 DEF IsOne
<1>9. CASE task[p]
  <2>1. /\ successors' = [successors EXCEPT ![p] = <<cur>> \o @]
        /\ nrefs' = [nrefs EXCEPT ![cur] = @ + 1] /\ npre' = npre + 1 /\ status' = status
    BY <1>2, <1>9
  <2>2. successors[p] \in Seq(Items) /\ <<cur>> \o successors[p] \in Seq(Items)
    BY <1>1, <1>4, <1>5 DEF Typed
  <2>3. /\ successors' \in [Items -> Seq(Items)] /\ successors'[p] = <<cur>> \o successors[p]
        /\ \A u \in Items : u # p => successors'[u] = successors[u]
    BY <1>1, <1>5, <2>1, <2>2 DEF Typed
  <2>4. /\ nrefs' \in [Items -> Int] /\ npre' \in Nat
        /\ \A n \in Items : nrefs'[n] = nrefs[n] + IsOne(n = cur)
    BY <1>1, <1>4, <2>1 DEF Typed, NrefsTyped, IsOne
  <2>5. ToNotify'[p] = <<cur>> \o ToNotify[p] /\ ToNotify[p] = successors[p]
    BY <1>5, <1>7, <1>9, <2>1, <2>3 DEF ToNotify
  <2>6. \A u \in Items : u # p => ToNotify'[u] = ToNotify[u]
    BY <2>1, <2>3 DEF ToNotify
  <2>7. ToNotify \in [Items -> Seq(Items)] /\ ToNotify' \in [Items -> Seq(Items)]
    <3>1. ToNotify \in [Items -> Seq(Items)]
      BY <1>1, NotifyTyped
    <3>2. ToNotify' = [u \in Items |-> ToNotify'[u]]
      BY DEF ToNotify
    <3>3. \A u \in Items : ToNotify'[u] \in Seq(Items)
      BY <2>2, <2>5, <2>6, <3>1
    <3> QED
      BY <3>1, <3>2, <3>3
  <2>8. PICK x \in Items : x = cur
    BY <1>4
  <2>9. \A n : Outstanding(n)' = Outstanding(n) + IsOne(n = cur)
    <3> TAKE n
    <3>1. PICK f \in [Items -> Seq(Items)] : f = ToNotify
      BY <2>7
    <3>2. PICK g \in [Items -> Seq(Items)] : g = ToNotify'
      BY <2>7
    <3>3. Grows(f, g, p, x)
      BY <1>5, <2>5, <2>6, <2>8, <3>1, <3>2 DEF Grows, AreLists, AgreeBut
    <3>4. OneMore(f, g, x, n)
      BY <3>3, ListGrows, Zenon
    <3> QED
      BY <2>8, <3>1, <3>2, <3>4 DEF Outstanding, OneMore, IsOne
  <2>10. \A n : Listed(n)' = Listed(n) + IsOne(n = cur)
    <3> TAKE n
    <3>1. PICK f \in [Items -> Seq(Items)] : f = successors
      BY <1>1 DEF Typed
    <3>2. PICK g \in [Items -> Seq(Items)] : g = successors'
      BY <2>3
    <3>3. Grows(f, g, p, x)
      BY <1>5, <2>3, <2>8, <3>1, <3>2 DEF Grows, AreLists, AgreeBut
    <3>4. OneMore(f, g, x, n)
      BY <3>3, ListGrows, Zenon
    <3> QED
      BY <2>8, <3>1, <3>2, <3>4 DEF Listed, OneMore, IsOne
  <2>11. \A k : Notifies(p, k)' <=> Notifies(p, k) \/ k = cur
    <3>1. /\ DOMAIN (<<cur>> \o successors[p]) = 1..Len(successors[p]) + 1
          /\ (<<cur>> \o successors[p])[1] = cur
          /\ DOMAIN successors[p] = 1..Len(successors[p]) /\ Len(successors[p]) \in Nat
          /\ \A i \in 1..Len(successors[p]) :
               (<<cur>> \o successors[p])[i + 1] = successors[p][i]
      BY <2>2
    <3>2. \A i \in 1..Len(successors[p]) + 1 : i = 1 \/ i - 1 \in 1..Len(successors[p])
      BY <3>1
    <3>3. \A i \in 1..Len(successors[p]) + 1 : i # 1 =>
            (<<cur>> \o successors[p])[i] = successors[p][i - 1]
      <4> SUFFICES ASSUME NEW i \in 1..Len(successors[p]) + 1, i # 1
                   PROVE  (<<cur>> \o successors[p])[i] = successors[p][i - 1]
        OBVIOUS
      <4>1. i - 1 \in 1..Len(successors[p]) /\ (i - 1) + 1 = i
        BY <3>1
      <4> QED
        BY <3>1, <4>1
    <3> SUFFICES ASSUME NEW k
                 PROVE  (\E i \in DOMAIN ToNotify'[p] : ToNotify'[p][i] = k)
                          <=> (\E i \in DOMAIN ToNotify[p] : ToNotify[p][i] = k) \/ k = cur
      BY DEF Notifies
    <3>4. (\E i \in DOMAIN ToNotify'[p] : ToNotify'[p][i] = k)
            => (\E i \in DOMAIN ToNotify[p] : ToNotify[p][i] = k) \/ k = cur
      <4> SUFFICES ASSUME NEW i \in 1..Len(successors[p]) + 1, ToNotify'[p][i] = k, k # cur
                   PROVE  \E h \in DOMAIN ToNotify[p] : ToNotify[p][h] = k
        BY <2>5, <3>1
      <4>1. i # 1
        BY <2>5, <3>1
      <4>2. i - 1 \in DOMAIN ToNotify[p] /\ ToNotify[p][i - 1] = k
        BY <2>5, <3>1, <3>2, <3>3, <4>1
      <4> QED
        BY <4>2
    <3>5. (\E i \in DOMAIN ToNotify[p] : ToNotify[p][i] = k)
            => \E i \in DOMAIN ToNotify'[p] : ToNotify'[p][i] = k
      <4> SUFFICES ASSUME NEW i \in 1..Len(successors[p]), successors[p][i] = k
                   PROVE  \E h \in DOMAIN ToNotify'[p] : ToNotify'[p][h] = k
        BY <2>5, <3>1
      <4>1. i + 1 \in DOMAIN ToNotify'[p] /\ ToNotify'[p][i + 1] = k
        BY <2>5, <3>1
      <4> QED
        BY <4>1
    <3>6. k = cur => \E i \in DOMAIN ToNotify'[p] : ToNotify'[p][i] = k
      <4>1. 1 \in DOMAIN ToNotify'[p] /\ ToNotify'[p][1] = cur
        BY <2>5, <3>1
      <4> QED
        BY <4>1
    <3> QED
      BY <3>4, <3>5, <3>6
  <2>12. \A u \in Items : u # p => \A k : Notifies(u, k)' <=> Notifies(u, k)
    BY <2>6 DEF Notifies
  <2> QED
    BY <1>3, <1>5, <1>7, <1>9, <2>1, <2>3, <2>4, <2>9, <2>10, <2>11, <2>12 DEF IsOne
<1> QED
  BY <1>8, <1>9

(* One predecessor is looked at.                                            *)
LEMMA LinkKeeps ==
  ASSUME IInv, Link
  PROVE  IInv'
<1>1. PICK p : p = Head(todo)
  OBVIOUS
<1>2. /\ p \in 1..cur-1 /\ p \in Items /\ kind[p] = "task"
      /\ task[p] => status[p] \in {"created", "queued", "running"}
      /\ ~task[p] => Finished(p)
      /\ successors' \in [Items -> Seq(Items)] /\ npre' = npre + IsOne(task[p])
      /\ nrefs' \in [Items -> Int]
      /\ \A n \in Items : nrefs'[n] = nrefs[n] + IsOne(task[p] /\ n = cur)
      /\ \A u \in Items : successors'[u] = IF u = p /\ task[p] THEN <<cur>> \o successors[u]
                                                               ELSE successors[u]
  <2>1. LooksAt(p)
    BY <1>1, LinkEffect
  <2> QED
    BY <2>1, Zenon DEF LooksAt
<1>3. /\ \A u \in Items : \A k : Notifies(u, k)' <=>
           Notifies(u, k) \/ (u = p /\ task[p] /\ k = cur)
      /\ \A n : /\ Outstanding(n)' = Outstanding(n) + IsOne(task[p] /\ n = cur)
                /\ Listed(n)' = Listed(n) + IsOne(task[p] /\ n = cur)
  <2>1. LinksTo(p)
    BY <1>1, LinkEffect
  <2> QED
    BY <2>1, Zenon DEF LinksTo
<1>4. /\ pc = "process" /\ todo # <<>> /\ todo' = Tail(todo) /\ SameItems
      /\ UNCHANGED <<hash, task, npredecessors, status, cur, pc, dep, fault>>
  BY DEF Link, SameItems, items
<1>5. Typed /\ Graph /\ Control /\ ItemsAreSound /\ StartsLast /\ Guarded /\ Table /\ Linked
      /\ Waking /\ PredecessorsAreExact /\ todo \in Seq(Items)
  BY DEF IInv, Graph, Typed
<1>6. cur \in 1..cur /\ cur \in Items /\ Entered(cur) /\ status[cur] = "created"
  BY <1>4, <1>5, CurIsEntered
<1>7. /\ kind' = kind /\ deps' = deps /\ cur' = cur /\ pc' = pc /\ dep' = dep
      /\ status' = status /\ npredecessors' = npredecessors /\ task' = task
      /\ last_out' = last_out /\ last_ins' = last_ins
  BY <1>4 DEF SameItems, hash
<1>8. \A t : (Finished(t)' <=> Finished(t)) /\ (Started(t)' <=> Started(t))
  BY <1>7 DEF Finished, Started
<1>9. Forward
  BY <1>3, <1>8 DEF Forward
<1>10. Typed'
  <2>1. npre' \in Nat
    BY <1>2, <1>5 DEF Typed, IsOne
  <2>2. todo' \in Seq(Items)
    BY <1>4, <1>5
  <2> QED
    BY <1>2, <1>4, <1>5, <2>1, <2>2 DEF Typed, SameItems, hash
<1>11. SameRecords
  BY <1>7 DEF SameRecords, Recorded
<1>12. Guarded'
  BY <1>4, <1>5, <1>9, <1>11, GuardStays
<1>13. Table'
  <2>1. Pending => Pending'
    BY <1>7 DEF Pending
  <2>2. \A j \in 1..cur : Settled(j) => Settled(j)'
    BY <1>4, <1>5, <1>9, <2>1, SettledStays
  <2> QED
    BY <1>4, <1>5, <1>11, <2>2, TableStays
<1>14. Control'
  BY <1>4, <1>5, <1>7 DEF Control
<1>15. Linked'
  <2>1. Preds(Dep)' = Preds(Dep)
    BY <1>7 DEF Preds, Dep
  <2>2. /\ \A i \in DOMAIN todo' : i + 1 \in DOMAIN todo /\ todo'[i] = todo[i + 1]
        /\ \A i \in DOMAIN todo : i = 1 \/ (i - 1 \in DOMAIN todo' /\ todo'[i - 1] = todo[i])
        /\ todo[1] = p
    BY <1>1, <1>4, <1>5
  <2>3. Finished(p)' \/ Notifies(p, cur)'
    <3>1. PICK k : k = cur
      OBVIOUS
    <3>2. Finished(p) \/ Notifies(p, k)'
      BY <1>2, <1>3, <3>1
    <3>3. Notifies(p, k)' => Notifies(p, cur)'
      BY <1>7, <3>1 DEF Notifies
    <3> QED
      BY <1>8, <3>2, <3>3
  <2>4. \A q \in Items : Looked(q) => Looked(q)'
    <3> SUFFICES ASSUME NEW q \in Items, Looked(q) PROVE Looked(q)'
      OBVIOUS
    <3>1. PICK k : k = cur
      OBVIOUS
    <3>2. Notifies(q, k) => Notifies(q, k)'
      BY <1>3
    <3>3. Notifies(q, cur) => Notifies(q, k)
      BY <3>1
    <3>4. Notifies(q, k)' => Notifies(q, cur)'
      BY <1>7, <3>1 DEF Notifies
    <3>5. Finished(q) => Finished(q)'
      BY <1>8
    <3>6. ASSUME NEW i \in DOMAIN todo, todo[i] = q
          PROVE  \/ \E h \in DOMAIN todo' : todo'[h] = q
                 \/ Finished(q)' \/ Notifies(q, cur)'
      <4>1. CASE i = 1
        BY <2>2, <2>3, <3>6, <4>1
      <4>2. CASE i # 1
        BY <2>2, <3>6, <4>2
      <4> QED
        BY <4>1, <4>2
    <3> QED
      BY <3>2, <3>3, <3>4, <3>5, <3>6 DEF Looked
  <2> QED
    BY <1>4, <1>5, <1>7, <2>1, <2>2, <2>4 DEF Linked
<1>16. \A s : Entering(s)' <=> Entering(s)
  BY <1>7 DEF Entering, Counting
<1>17. ItemsAreSound'
  <2>1. Entered(p)'
    <3>1. p <= cur /\ p \in Int /\ cur \in Int
      BY <1>2, <1>5 DEF Typed
    <3>2. Entered(p)
      BY <1>2, <1>5, <3>1 DEF ItemsAreSound
    <3>3. Behind(p)'
      <4>1. CASE ~task[p]
        BY <1>2, <1>7, <3>2, <4>1 DEF Entered, Behind
      <4>2. CASE task[p]
        <5>1. successors[p] \in Seq(Items) /\ successors'[p] = <<cur>> \o successors[p]
          BY <1>2, <1>5, <4>2 DEF Typed
        <5>2. \A i \in DOMAIN successors'[p] :
                 \/ successors'[p][i] = cur
                 \/ /\ i - 1 \in DOMAIN successors[p]
                    /\ successors'[p][i] = successors[p][i - 1]
          BY <5>1
        <5>3. \A i \in DOMAIN successors'[p] : successors'[p][i] \in p+1..cur
          BY <1>2, <3>1, <3>2, <5>2 DEF Entered, Behind
        <5> QED
          BY <1>2, <1>7, <4>2, <5>3 DEF Behind
      <4> QED
        BY <4>1, <4>2
    <3>4. Merged(p)' /\ Idle(p)' /\ Published(p)'
      BY <1>2, <1>7, <3>2 DEF Entered, Merged, Idle, Published
    <3> QED
      BY <1>7, <1>16, <3>2, <3>3, <3>4 DEF Entered
  <2>2. ASSUME NEW k \in Items, k # p
        PROVE  (Entered(k) => Entered(k)') /\ (Fresh(k) => Fresh(k)')
    BY <1>2, <1>7, <1>16, <2>2 DEF Entered, Merged, Idle, Behind, Published, Fresh
  <2>3. p <= cur
    BY <1>2, <1>5 DEF Typed
  <2> QED
    BY <1>5, <1>7, <2>1, <2>2, <2>3 DEF ItemsAreSound
<1>18. StartsLast'
  <2>1. \A t \in Items : \A k : Notifies(t, k)' => Notifies(t, k) \/ status'[k] = "created"
    BY <1>3, <1>6, <1>7
  <2> QED
    BY <1>4, <1>5, <1>7, <1>8, <1>9, <2>1, StartsStay
<1>19. Waking'
  <2> SUFFICES ASSUME NEW u \in Items, status'[u] = "wake", NEW h, h = Head(successors'[u])
               PROVE  Wakes(u, h)'
    BY DEF Waking, Wakes, Entering, Counting, Notifies, ToNotify
  <2>1. ASSUME NEW v \in Items, status[v] = "wake" PROVE successors'[v] = successors[v]
    <3>1. CASE v = p /\ task[p]
      BY <1>2, <2>1, <3>1
    <3> QED
      BY <1>2, <3>1
  <2>2. Wakes(u, h)
    BY <1>5, <1>7, <2>1 DEF Waking
  <2>3. h # cur
    BY <1>4, <2>2 DEF Wakes, Entering, Counting
  <2>4. \A v \in Items : status'[v] = "wake" /\ Head(successors'[v]) = h =>
          v = u \/ (status[v] = "wake" /\ Head(successors[v]) = h)
    BY <1>7, <2>1
  <2>5. \A v \in Items : Notifies(v, h)' => Notifies(v, h)
    BY <1>3, <2>3
  <2> QED
    BY <1>7, <1>16, <2>2, <2>4, <2>5, WakesStay
<1>20. PredecessorsAreExact'
  <2> SUFFICES ASSUME NEW n \in 1..cur
               PROVE  IF n = cur /\ Counting
                        THEN /\ npredecessors[n] + npre' + 1 = Outstanding(n)'
                             /\ npredecessors[n] < 0
                        ELSE npredecessors[n] = Outstanding(n)'
    BY <1>7 DEF PredecessorsAreExact, Counting
  <2>1. n \in Items /\ npredecessors[n] \in Int /\ npre \in Nat /\ Outstanding(n) \in Nat
    BY <1>5, ItemsUpTo, NobodyLeft DEF Typed
  <2>2. Counting
    BY <1>4 DEF Counting
  <2>3. /\ Outstanding(n)' = Outstanding(n) + IsOne(task[p] /\ n = cur)
        /\ npre' = npre + IsOne(task[p])
    BY <1>2, <1>3
  <2>4. IF n = cur THEN npredecessors[n] + npre + 1 = Outstanding(n) /\ npredecessors[n] < 0
                   ELSE npredecessors[n] = Outstanding(n)
    BY <1>5, <2>2 DEF PredecessorsAreExact
  <2> QED
    BY <2>1, <2>2, <2>3, <2>4 DEF IsOne
<1>21. Counted'
  <2> SUFFICES ASSUME NEW n \in Items
               PROVE  nrefs'[n] = Own(n)' + Listed(n)' + Outs(n)' + Ins(n)'
    BY DEF Counted
  <2> DEFINE one == IsOne(task[p] /\ n = cur)
  <2>1. Own(n)' = Own(n) /\ Outs(n)' = Outs(n) /\ Ins(n)' = Ins(n)
    BY <1>7 DEF Own, Outs, Ins
  <2>2. Own(n) \in Nat /\ Listed(n) \in Nat /\ Outs(n) \in Nat /\ Ins(n) \in Nat
    BY <1>5, PartsAreNatural
  <2>3. nrefs[n] = Own(n) + Listed(n) + Outs(n) + Ins(n)
    BY DEF IInv, Counted
  <2>4. nrefs'[n] = nrefs[n] + one /\ Listed(n)' = Listed(n) + one
    BY <1>2, <1>3
  <2>5. one \in Nat
    BY DEF IsOne
  <2> HIDE DEF one
  <2> QED
    BY <2>1, <2>2, <2>3, <2>4, <2>5
<1>22. NrefsTyped'
  BY <1>2, <1>10, <1>21, CountedIsTyped
<1> QED
  BY <1>10, <1>12, <1>13, <1>14, <1>15, <1>17, <1>18, <1>19, <1>20, <1>21, <1>22 DEF IInv, Graph

(* The predecessors that a dependence finds are nodes.                      *)
LEMMA PredsTyped ==
  ASSUME Typed, NEW d \in Dependence
  PROVE  Preds(d) \in Seq(Items)
<1>1. d.addr \in Addrs
  BY DEF Dependence
<1>2. last_ins[d.addr] \in Seq(Items) /\ last_out[d.addr] \in Items \cup {Null}
  BY <1>1 DEF Typed
<1>3. last_out[d.addr] # Null => <<last_out[d.addr]>> \in Seq(Items)
  BY <1>2
<1>4. <<>> \in Seq(Items)
  OBVIOUS
<1> QED
  BY <1>2, <1>3, <1>4 DEF Preds

Absent(S, f, n) == \A t \in S : \A i \in DOMAIN f[t] : f[t][i] # n

(* A value that is in no list has no place.                                 *)
LEMMA AbsentIsNowhere ==
  ASSUME NEW S, IsFiniteSet(S), NEW f, AreLists(S, Items, f), NEW n, Absent(S, f, n)
  PROVE  Cardinality(Places(f, n)) = 0
BY PlacesAreFinite DEF AreLists, Absent

(* The item that comes next is in no list yet.                              *)
LEMMA NobodyHasNext ==
  ASSUME Typed, Graph, pc # "end", NEW c \in Items, c = cur + 1
  PROVE  /\ Fresh(c) /\ \A t \in Items : ~Notifies(t, c)
         /\ Listed(c) = 0 /\ Outs(c) = 0 /\ Ins(c) = 0
<1>1. cur \in Int /\ 1..cur \subseteq Items /\ c \notin 1..cur /\ ~(c <= cur) /\ c # Null
  BY ItemsUpTo, ItemsAssumption DEF Typed, Items, Null
<1>2. ItemsAreSound /\ Table
  BY DEF Graph
<1>3. Fresh(c)
  BY <1>1, <1>2 DEF ItemsAreSound
<1>4. ASSUME NEW t \in Items PROVE ~Notifies(t, c)
  <2>1. Notifies(t, c) => c \in t+1..cur /\ t \in Int
    BY <1>1, <1>2, NotifiersAreEntered
  <2>2. t >= 1 /\ t \in Int
    BY ItemsAssumption DEF Items
  <2> QED
    BY <1>1, <2>1, <2>2
<1>5. Listed(c) = 0
  <2>1. PICK f \in [Items -> Seq(Items)] : f = successors
    BY DEF Typed
  <2>2. ASSUME NEW t \in Items, NEW i \in DOMAIN f[t] PROVE f[t][i] # c
    <3>1. t >= 1 /\ t \in Int
      BY ItemsAssumption DEF Items
    <3>2. CASE t <= cur
      <4>1. f[t][i] \in t+1..cur
        BY <1>2, <2>1, <3>2 DEF ItemsAreSound, Entered, Behind
      <4> QED
        BY <1>1, <3>1, <4>1
    <3>3. CASE ~(t <= cur)
      BY <1>2, <2>1, <3>3 DEF ItemsAreSound, Fresh
    <3> QED
      BY <3>2, <3>3
  <2>3. AreLists(Items, Items, f) /\ Absent(Items, f, c)
    BY <2>2 DEF AreLists, Absent
  <2>4. Cardinality(Places(f, c)) = 0
    BY <2>3, ItemsAreFinite, AbsentIsNowhere, Zenon
  <2> QED
    BY <2>1, <2>4 DEF Listed
<1>6. ASSUME NEW a \in Addrs
      PROVE  last_out[a] # c /\ \A i \in DOMAIN last_ins[a] : last_ins[a][i] # c
  <2>1. LastWriter(a) /\ LastReaders(a)
    BY <1>2 DEF Table
  <2>2. last_out[a] \in Nat
    BY ItemsAssumption DEF Typed, Items, Null
  <2>3. last_out[a] # c
    BY <1>1, <2>1 DEF LastWriter
  <2>4. \A i \in DOMAIN last_ins[a] : last_ins[a][i] \in last_out[a]+1..cur
    BY <2>1 DEF LastReaders
  <2> QED
    BY <1>1, <2>2, <2>3, <2>4
<1>7. Outs(c) = 0
  <2>1. {a \in Addrs : last_out[a] = c} = {}
    BY <1>6
  <2> QED
    BY <2>1, FS_EmptySet DEF Outs
<1>8. Ins(c) = 0
  <2>1. PICK f \in [Addrs -> Seq(Items)] : f = last_ins
    BY DEF Typed
  <2>2. AreLists(Addrs, Items, f) /\ Absent(Addrs, f, c)
    BY <1>6, <2>1 DEF AreLists, Absent
  <2>3. Cardinality(Places(f, c)) = 0
    BY <2>2, AddrsAssumption, AbsentIsNowhere, Zenon
  <2> QED
    BY <2>1, <2>3 DEF Ins
<1> QED
  BY <1>3, <1>4, <1>5, <1>7, <1>8

(* What the older items know of each other stays when one is added.         *)
LEMMA OlderItemsStay ==
  ASSUME Typed, Graph, pc = "create", pc' = "process", dep' = 1,
         NEW c \in Items, c = cur + 1, cur' = c,
         \A j \in Items : j # c => kind'[j] = kind[j] /\ deps'[j] = deps[j],
         deps'[c] \in Seq(Dependence),
         \A t \in Items : (Finished(t)' <=> Finished(t))
                          /\ \A k : Notifies(t, k)' <=> Notifies(t, k)
  PROVE  /\ \A k \in 1..cur : Needs(k)' = Needs(k)
         /\ \A j \in 1..cur : \A k : Covered(j, k) => Covered(j, k)'
         /\ \A j \in 1..cur : \A a : /\ Touches(j, a)' <=> Touches(j, a)
                                     /\ Writes(j, a)' <=> Writes(j, a)
         /\ \A a : ~Touches(c, a)' /\ ~Writes(c, a)'
         /\ \A h \in DOMAIN deps'[c] : ~Recorded(c, h)'
<1>1. /\ cur \in Int /\ 1..cur \subseteq Items /\ c \notin 1..cur
      /\ \A j \in 1..cur : j \in Items /\ j # c
  BY ItemsUpTo, ItemsAssumption DEF Typed, Items
<1>2. \A j \in 1..cur : kind'[j] = kind[j] /\ deps'[j] = deps[j]
  BY <1>1
<1>3. ASSUME NEW k \in 1..cur PROVE Needs(k)' = Needs(k)
  <2>1. \A j \in 1..k-1 : j \in 1..cur
    BY <1>1
  <2>2. \A j \in 1..k-1 : kind'[j] = kind[j] /\ deps'[j] = deps[j]
    BY <1>2, <2>1
  <2>3. deps'[k] = deps[k]
    BY <1>2
  <2> QED
    BY <2>2, <2>3 DEF Needs, Range
<1>4. \A k \in 1..cur : \A m \in Needs(k) : m \in 1..cur
  <2>1. \A k \in 1..cur : \A m \in Needs(k) : m \in 1..k-1
    BY NeedsOf
  <2>2. \A k \in 1..cur : \A m \in 1..k-1 : m \in 1..cur
    BY <1>1
  <2> QED
    BY <2>1, <2>2
<1>5. ASSUME NEW j \in 1..cur, NEW k, Covered(j, k) PROVE Covered(j, k)'
  <2>1. CASE Finished(j)
    <3>1. Finished(j)'
      BY <1>1, <2>1
    <3> QED
      BY <3>1 DEF Covered
  <2>2. ASSUME NEW t \in Items, Notifies(t, k), Before(j, t) PROVE Covered(j, k)'
    <3>1. t \in 1..cur
      BY <2>2, NotifiersAreEntered DEF Graph
    <3>2. Before(j, t)'
      BY <1>3, <1>4, <2>2, <3>1 DEF Before
    <3>3. Notifies(t, k)'
      BY <2>2
    <3> QED
      BY <3>2, <3>3 DEF Covered
  <2> QED
    BY <1>5, <2>1, <2>2 DEF Covered
<1>6. ASSUME NEW j \in 1..cur, NEW a
      PROVE  (Touches(j, a)' <=> Touches(j, a)) /\ (Writes(j, a)' <=> Writes(j, a))
  <2>1. \A h : Recorded(j, h) /\ Recorded(j, h)'
    BY <1>1 DEF Recorded
  <2> QED
    BY <1>2, <2>1 DEF Touches, Writes
<1>7. \A h \in DOMAIN deps'[c] : ~Recorded(c, h)'
  <2>1. \A h \in DOMAIN deps'[c] : h \in 1..Len(deps'[c])
    OBVIOUS
  <2>2. c \in Int
    BY <1>1
  <2> QED
    BY <2>1, <2>2 DEF Recorded
<1>8. \A a : ~Touches(c, a)' /\ ~Writes(c, a)'
  BY <1>7 DEF Touches, Writes
<1> QED
  BY <1>3, <1>5, <1>6, <1>7, <1>8

(* An item is created.                                                      *)
LEMMA CreateKeeps ==
  ASSUME IInv, NEW what \in {"task", "wait"}, NEW list \in DepLists, Create(what, list)
  PROVE  IInv'
<1>1. Typed /\ Graph /\ Control /\ ItemsAreSound /\ StartsLast /\ Guarded /\ Table /\ Waking
      /\ PredecessorsAreExact
  BY DEF IInv, Graph
<1>2. PICK fl \in Seq(Dependence) : /\ fl = Filter(list) /\ fl # <<>>
        /\ \A i, j \in DOMAIN fl : fl[i].addr = fl[j].addr => i = j
  BY ListsAssumption, FilterMerges DEF Dependence
<1>3. PICK c : c = cur + 1
  OBVIOUS
<1>4. /\ c \in Items /\ c \in 1..MaxItems /\ cur \in 0..MaxItems /\ cur \in Int
      /\ 1..cur \subseteq Items /\ c \in Int /\ c # cur
  BY <1>1, <1>3, ItemsAssumption, ItemsUpTo DEF Create, Typed, Items
<1>5. /\ pc = "create" /\ cur' = c /\ pc' = "process" /\ dep' = 1 /\ npre' = 0
      /\ kind' = [kind EXCEPT ![c] = what] /\ deps' = [deps EXCEPT ![c] = fl]
      /\ status' = [status EXCEPT ![c] = "created"] /\ nrefs' = [nrefs EXCEPT ![c] = 1]
      /\ npredecessors' = [npredecessors EXCEPT ![c] = -1] /\ todo' = Preds(fl[1])
      /\ last_out' = last_out /\ last_ins' = last_ins /\ task' = task
      /\ successors' = successors /\ fault' = fault
  BY <1>2, <1>3 DEF Create, hash
<1>6. Fresh(c) /\ (\A t \in Items : ~Notifies(t, c)) /\ Listed(c) = 0 /\ Outs(c) = 0 /\ Ins(c) = 0
  BY <1>1, <1>3, <1>4, <1>5, NobodyHasNext
<1>7. /\ kind'[c] = what /\ deps'[c] = fl /\ status'[c] = "created" /\ npredecessors'[c] = -1
      /\ \A j \in Items : j # c => /\ kind'[j] = kind[j] /\ deps'[j] = deps[j]
                                   /\ status'[j] = status[j]
                                   /\ npredecessors'[j] = npredecessors[j]
  BY <1>1, <1>4, <1>5 DEF Typed
<1>8. fl[1] \in Dependence /\ 1 \in DOMAIN fl
  BY <1>2
<1>9. Typed'
  <2>1. todo' \in Seq(Items)
    BY <1>1, <1>5, <1>8, PredsTyped
  <2>2. /\ kind' \in [Items -> {"task", "wait"}] /\ deps' \in [Items -> Seq(Dependence)]
        /\ status' \in [Items -> Statuses]
    <3>1. /\ kind \in [Items -> {"task", "wait"}] /\ deps \in [Items -> Seq(Dependence)]
          /\ status \in [Items -> Statuses] /\ "created" \in Statuses
      BY <1>1 DEF Typed, Statuses
    <3> QED
      BY <1>5, <3>1
  <2>4. npredecessors' \in [Items -> Int]
    <3>1. npredecessors \in [Items -> Int] /\ -1 \in Int
      BY <1>1 DEF Typed
    <3> QED
      BY <1>5, <3>1
  <2>3. cur' \in 0..MaxItems
    BY <1>4, <1>5
  <2> QED
    BY <1>1, <1>5, <2>1, <2>2, <2>3, <2>4 DEF Typed
<1>10. \A t \in Items : ToNotify'[t] = ToNotify[t]
  <2> TAKE t \in Items
  <2>1. status'[t] \in {"wake", "drop"} <=> status[t] \in {"wake", "drop"}
    BY <1>6, <1>7 DEF Fresh
  <2> QED
    BY <1>5, <2>1 DEF ToNotify
<1>11. /\ \A t \in Items : \A k : Notifies(t, k)' <=> Notifies(t, k)
       /\ \A n : Outstanding(n)' = Outstanding(n)
  BY <1>10, SameNotifies
<1>12. \A t \in Items : (Finished(t)' <=> Finished(t)) /\ (Started(t)' <=> Started(t))
  BY <1>6, <1>7 DEF Finished, Started, Fresh
<1>13. /\ \A k \in 1..cur : Needs(k)' = Needs(k)
       /\ \A j \in 1..cur : \A k : Covered(j, k) => Covered(j, k)'
       /\ \A j \in 1..cur : \A a : /\ Touches(j, a)' <=> Touches(j, a)
                                   /\ Writes(j, a)' <=> Writes(j, a)
       /\ \A a : ~Touches(c, a)' /\ ~Writes(c, a)'
       /\ \A h \in DOMAIN deps'[c] : ~Recorded(c, h)'
  BY <1>1, <1>2, <1>3, <1>4, <1>5, <1>7, <1>11, <1>12, OlderItemsStay
<1>14. \A k \in 1..c : k = c \/ (k \in 1..cur /\ k \in Items /\ k # c)
  BY <1>3, <1>4
<1>15. Control'
  BY <1>4, <1>5, <1>7, <1>8 DEF Control
<1>16. Guarded'
  <2> SUFFICES ASSUME NEW k \in 1..c, NEW i \in DOMAIN deps'[k], NEW j \in 1..k-1,
                      Recorded(k, i)', Conflicts(j, deps[k][i])'
               PROVE  Covered(j, k)'
    BY <1>5 DEF Guarded
  <2>1. k \in 1..cur /\ k # c /\ k \in Items
    BY <1>13, <1>14
  <2>2. j \in 1..cur /\ deps'[k] = deps[k]
    BY <1>4, <1>7, <2>1
  <2>3. Recorded(k, i)
    BY <1>4, <1>5, <2>1 DEF Recorded
  <2>4. Conflicts(j, deps[k][i])
    BY <1>13, <2>2 DEF Conflicts
  <2>5. Covered(j, k)
    BY <1>1, <2>1, <2>2, <2>3, <2>4 DEF Guarded
  <2> QED
    BY <1>13, <2>2, <2>5
<1>17. Table'
  <2> SUFFICES ASSUME NEW a \in Addrs
               PROVE  LastWriter(a)' /\ LastReaders(a)' /\ Users(a)'
    BY DEF Table
  <2>1. LastWriter(a) /\ LastReaders(a) /\ Users(a)
    BY <1>1, <1>5 DEF Table
  <2>2. last_out[a] \in Nat
    BY <1>1, ItemsAssumption DEF Typed, Items, Null
  <2>3. LastWriter(a)'
    BY <1>3, <1>4, <1>5, <1>13, <2>1 DEF LastWriter
  <2>4. LastReaders(a)'
    <3>1. \A i \in DOMAIN last_ins[a] :
            /\ last_ins[a][i] \in last_out[a]+1..cur /\ Touches(last_ins[a][i], a)
      BY <2>1 DEF LastReaders
    <3>2. \A i \in DOMAIN last_ins[a] :
            last_ins[a][i] \in 1..cur /\ last_ins[a][i] \in last_out[a]+1..c
      BY <1>3, <1>4, <2>2, <3>1
    <3> QED
      BY <1>5, <1>13, <3>1, <3>2 DEF LastReaders
  <2>5. Users(a)'
    <3> SUFFICES ASSUME NEW j \in 1..c
                 PROVE  /\ Writes(j, a)'  => j <= last_out[a] \/ Settled(j)'
                        /\ Touches(j, a)' => \/ j <= last_out[a] \/ Settled(j)'
                                             \/ \E i \in DOMAIN last_ins[a] : last_ins[a][i] = j
      BY <1>5 DEF Users
    <3>1. CASE j = c
      BY <1>13, <3>1
    <3>2. CASE j \in 1..cur /\ j \in Items
      <4>1. Settled(j) => Settled(j)'
        BY <1>5, <1>12, <3>2 DEF Settled, Pending
      <4> QED
        BY <1>13, <2>1, <3>2, <4>1 DEF Users
    <3> QED
      BY <1>14, <3>1, <3>2
  <2> QED
    BY <2>3, <2>4, <2>5
<1>18. Linked'
  <2>1. Preds(Dep)' = todo'
    BY <1>5, <1>7 DEF Preds, Dep
  <2> QED
    BY <2>1 DEF Linked, Looked
<1>19. \A s : Entering(s)' <=> s = c
  BY <1>5 DEF Entering, Counting
<1>20. ItemsAreSound'
  <2>1. Entered(c)'
    <3>1. Merged(c)'
      BY <1>2, <1>7 DEF Merged
    <3>2. Published(c)' /\ Idle(c)' /\ Behind(c)'
      BY <1>5, <1>6, <1>7 DEF Published, Idle, Behind, Fresh
    <3> QED
      BY <1>7, <3>1, <3>2 DEF Entered
  <2>2. ASSUME NEW k \in 1..cur, k \in Items, k # c PROVE Entered(k)'
    <3>1. Entered(k)
      BY <1>1, <1>4, <2>2 DEF ItemsAreSound
    <3>2. Merged(k)' /\ Published(k)' /\ Idle(k)'
      BY <1>5, <1>7, <2>2, <3>1 DEF Entered, Merged, Published, Idle
    <3>3. Behind(k)'
      <4>1. \A i \in DOMAIN successors[k] : successors[k][i] \in k+1..c
        BY <1>3, <1>4, <3>1 DEF Entered, Behind
      <4> QED
        BY <1>5, <1>7, <2>2, <3>1, <4>1 DEF Entered, Behind
    <3> QED
      BY <1>7, <1>19, <2>2, <3>1, <3>2, <3>3 DEF Entered
  <2>3. \A k \in Items : k # c => (Fresh(k) => Fresh(k)')
    BY <1>5, <1>7 DEF Fresh
  <2>4. \A k \in Items : IF k <= c THEN k \in 1..c ELSE ~(k <= cur) /\ k # c
    BY <1>3, <1>4, ItemsAssumption DEF Items
  <2> QED
    BY <1>1, <1>5, <1>14, <2>1, <2>2, <2>3, <2>4 DEF ItemsAreSound
<1>21. StartsLast'
  <2> SUFFICES ASSUME NEW k \in 1..c, Started(k)' \/ Finished(k)'
               PROVE  /\ \A j \in Needs(k)' : Finished(j)'
                      /\ \A t \in Items : ~Notifies(t, k)'
    BY <1>5 DEF StartsLast
  <2>1. k \in 1..cur /\ k \in Items
    BY <1>7, <1>14 DEF Started, Finished
  <2>2. /\ \A j \in Needs(k) : Finished(j)
        /\ \A t \in Items : ~Notifies(t, k)
    BY <1>1, <1>12, <2>1 DEF StartsLast
  <2>3. \A j \in Needs(k) : j \in Items
    <3>1. \A j \in Needs(k) : j \in 1..k-1
      BY NeedsOf
    <3>2. 1..k-1 \subseteq 1..cur
      BY <1>4, <2>1
    <3> QED
      BY <1>4, <3>1, <3>2
  <2> QED
    BY <1>11, <1>12, <1>13, <2>1, <2>2, <2>3
<1>22. Waking'
  <2> SUFFICES ASSUME NEW u \in Items, status'[u] = "wake", NEW h, h = Head(successors'[u])
               PROVE  Wakes(u, h)'
    BY DEF Waking, Wakes, Entering, Counting, Notifies, ToNotify
  <2>1. u # c /\ status[u] = "wake" /\ h = Head(successors[u])
    BY <1>5, <1>7
  <2>2. Wakes(u, h)
    BY <1>1, <2>1 DEF Waking
  <2>3. h \in Items /\ h # c
    <3>1. u \in 1..cur /\ Entered(u)
      BY <1>1, <2>1, RunningIsTask
    <3>2. successors[u] \in Seq(Items) /\ successors[u] # <<>>
      BY <1>1, <2>1, <3>1 DEF Entered, Behind, Typed
    <3>3. 1 \in DOMAIN successors[u] /\ h = successors[u][1]
      BY <2>1, <3>2
    <3>4. h \in u+1..cur
      BY <3>1, <3>3 DEF Entered, Behind
    <3> QED
      BY <1>3, <1>4, <3>1, <3>4
  <2>4. \A v \in Items : status'[v] = "wake" /\ Head(successors'[v]) = h =>
          status[v] = "wake" /\ Head(successors[v]) = h
    BY <1>5, <1>7
  <2> QED
    BY <1>7, <1>11, <1>19, <2>2, <2>3, <2>4 DEF Wakes
<1>23. PredecessorsAreExact'
  <2> SUFFICES ASSUME NEW n \in 1..c
               PROVE  IF n = c /\ Counting'
                        THEN /\ npredecessors'[n] + npre' + 1 = Outstanding(n)'
                             /\ npredecessors'[n] < 0
                        ELSE npredecessors'[n] = Outstanding(n)'
    BY <1>5 DEF PredecessorsAreExact
  <2>1. CASE n = c
    <3>1. Outstanding(c) = 0
      BY <1>1, <1>6, NobodyLeft
    <3> QED
      BY <1>5, <1>7, <1>11, <2>1, <3>1 DEF Counting
  <2>2. CASE n \in 1..cur /\ n \in Items /\ n # c
    BY <1>1, <1>5, <1>7, <1>11, <2>2 DEF PredecessorsAreExact, Counting
  <2> QED
    BY <1>14, <2>1, <2>2
<1>24. \A n \in Items : nrefs'[n] = IF n = c THEN 1 ELSE nrefs[n]
  BY <1>5 DEF IInv, NrefsTyped
<1>25. Counted'
  <2> SUFFICES ASSUME NEW n \in Items
               PROVE  nrefs'[n] = Own(n)' + Listed(n)' + Outs(n)' + Ins(n)'
    BY DEF Counted
  <2>1. Listed(n)' = Listed(n) /\ Outs(n)' = Outs(n) /\ Ins(n)' = Ins(n)
    BY <1>5 DEF Listed, Outs, Ins
  <2>2. CASE n = c
    <3>1. Own(c)' = 1
      BY <1>7 DEF Own
    <3> QED
      BY <1>6, <1>24, <2>1, <2>2, <3>1
  <2>3. CASE n # c
    <3>1. Own(n)' = Own(n)
      BY <1>7, <2>3 DEF Own
    <3>2. nrefs[n] = Own(n) + Listed(n) + Outs(n) + Ins(n)
      BY DEF IInv, Counted
    <3> QED
      BY <1>24, <2>1, <2>3, <3>1, <3>2
  <2> QED
    BY <2>2, <2>3
<1>26. NrefsTyped'
  BY <1>4, <1>5 DEF IInv, NrefsTyped
<1> QED
  BY <1>9, <1>15, <1>16, <1>17, <1>18, <1>20, <1>21, <1>22, <1>23, <1>25, <1>26 DEF IInv, Graph

(* The dependence at hand.                                                  *)
LEMMA DepIsSound ==
  ASSUME IInv, pc = "process"
  PROVE  /\ cur \in 1..cur /\ cur \in Items /\ Entered(cur) /\ status[cur] = "created"
         /\ deps[cur] \in Seq(Dependence) /\ dep \in DOMAIN deps[cur]
         /\ Dep \in Dependence /\ Dep.addr \in Addrs
         /\ \A i \in DOMAIN deps[cur] : deps[cur][i].addr = Dep.addr => i = dep
         /\ ~Touches(cur, Dep.addr)
<1>1. Typed /\ Graph /\ Control
  BY DEF IInv, Graph
<1>2. cur \in 1..cur /\ cur \in Items /\ Entered(cur) /\ status[cur] = "created"
  BY <1>1, CurIsEntered
<1>3. deps[cur] \in Seq(Dependence) /\ dep \in DOMAIN deps[cur]
  BY <1>1, <1>2 DEF Control, Typed
<1>4. Dep \in Dependence
  BY <1>3 DEF Dep
<1>5. Dep.addr \in Addrs
  BY <1>4 DEF Dependence
<1>6. \A i \in DOMAIN deps[cur] : deps[cur][i].addr = Dep.addr => i = dep
  BY <1>2, <1>3 DEF Entered, Merged, Dep
<1>7. ~Touches(cur, Dep.addr)
  <2>1. ~Recorded(cur, dep)
    BY <1>1, <1>2 DEF Recorded, Typed
  <2> QED
    BY <1>6, <2>1 DEF Touches
<1> QED
  BY <1>2, <1>3, <1>4, <1>5, <1>6, <1>7

(* What is written into the table.                                          *)
LEMMA RecordWrites ==
  ASSUME IInv, Record, NEW a, a = Dep.addr
  PROVE  /\ pc = "process" /\ todo = <<>> /\ SameItems /\ pc' \in {"process", "publish"}
         /\ UNCHANGED <<task, npredecessors, successors, status, cur, npre, fault>>
         /\ last_out' \in [Addrs -> Items \cup {Null}] /\ last_ins' \in [Addrs -> Seq(Items)]
         /\ \A b \in Addrs : b # a => last_out'[b] = last_out[b] /\ last_ins'[b] = last_ins[b]
         /\ last_out'[a] = IF kind[cur] = "wait" THEN Null
                           ELSE IF Dep.out THEN cur ELSE last_out[a]
         /\ last_ins'[a] = IF kind[cur] # "wait" /\ ~Dep.out THEN <<cur>> \o last_ins[a]
                           ELSE IF Dep.out THEN <<>> ELSE last_ins[a]
<1>1. Typed /\ pc = "process"
  BY DEF IInv, Record
<1>2. cur \in Items /\ a \in Addrs
  BY <1>1, DepIsSound
<1>3. last_ins \in [Addrs -> Seq(Items)] /\ last_out \in [Addrs -> Items \cup {Null}]
  BY <1>1 DEF Typed
<1>4. PICK wn \in Items \cup {Null} : wn = IF kind[cur] = "wait" THEN Null
                                           ELSE IF Dep.out THEN cur ELSE last_out[a]
  BY <1>2, <1>3
<1>5. PICK insn \in Seq(Items) :
        insn = IF kind[cur] # "wait" /\ ~Dep.out THEN <<cur>> \o last_ins[a]
               ELSE IF Dep.out THEN <<>> ELSE last_ins[a]
  <2>1. last_ins[a] \in Seq(Items)
    BY <1>2, <1>3
  <2>2. <<cur>> \o last_ins[a] \in Seq(Items)
    BY <1>2, <2>1
  <2>3. <<>> \in Seq(Items)
    OBVIOUS
  <2> QED
    BY <2>1, <2>2, <2>3
<1>6. last_out' = [last_out EXCEPT ![a] = wn]
  BY <1>2, <1>3, <1>4 DEF Record
<1>7. last_ins' = [last_ins EXCEPT ![a] = insn]
  BY <1>2, <1>3, <1>5 DEF Record
<1>8. pc' \in {"process", "publish"}
  BY <1>1 DEF Record, NextDep
<1>9. SameItems /\ todo = <<>>
      /\ UNCHANGED <<task, npredecessors, successors, status, cur, npre, fault>>
  BY DEF Record, items, SameItems
<1>10. /\ last_out' \in [Addrs -> Items \cup {Null}] /\ last_out'[a] = wn
       /\ last_ins' \in [Addrs -> Seq(Items)] /\ last_ins'[a] = insn
       /\ \A b \in Addrs : b # a => last_out'[b] = last_out[b] /\ last_ins'[b] = last_ins[b]
  BY <1>2, <1>3, <1>6, <1>7
<1> QED
  BY <1>1, <1>4, <1>5, <1>8, <1>9, <1>10

(* The dependence at hand is recorded, and no other.                        *)
LEMMA RecordAdds ==
  ASSUME IInv, Record, NEW a, a = Dep.addr
  PROVE  /\ \A k \in 1..cur : \A i \in DOMAIN deps[k] :
              Recorded(k, i)' <=> Recorded(k, i) \/ (k = cur /\ i = dep)
         /\ \A j \in 1..cur : \A b :
              /\ Touches(j, b)' <=> Touches(j, b) \/ (j = cur /\ kind[cur] = "task" /\ b = a)
              /\ Writes(j, b)' <=>
                   Writes(j, b) \/ (j = cur /\ kind[cur] = "task" /\ b = a /\ Dep.out)
<1>1. Typed /\ pc = "process" /\ cur' = cur /\ kind' = kind /\ deps' = deps
  BY RecordWrites DEF IInv, SameItems
<1>2. cur \in 1..cur /\ deps[cur] \in Seq(Dependence) /\ dep \in DOMAIN deps[cur]
  BY <1>1, DepIsSound
<1>3. dep \in 1..Len(deps[cur]) /\ DOMAIN deps[cur] = 1..Len(deps[cur])
      /\ Len(deps[cur]) \in Nat
  BY <1>2
<1>4. \/ dep < Len(deps[cur]) /\ dep' = dep + 1 /\ pc' = "process"
      \/ ~(dep < Len(deps[cur])) /\ pc' = "publish"
  BY <1>1 DEF Record, NextDep
<1>5. ASSUME NEW k \in 1..cur, NEW i \in DOMAIN deps[k]
      PROVE  Recorded(k, i)' <=> Recorded(k, i) \/ (k = cur /\ i = dep)
  <2>1. CASE k = cur
    BY <1>1, <1>3, <1>4, <2>1 DEF Recorded
  <2>2. CASE k # cur
    BY <1>1, <2>2 DEF Recorded
  <2> QED
    BY <2>1, <2>2
<1>6. ASSUME NEW j \in 1..cur, NEW b
      PROVE  /\ Touches(j, b)' <=> Touches(j, b) \/ (j = cur /\ kind[cur] = "task" /\ b = a)
             /\ Writes(j, b)' <=>
                  Writes(j, b) \/ (j = cur /\ kind[cur] = "task" /\ b = a /\ Dep.out)
  <2>1. CASE j # cur
    <3>1. \A h \in DOMAIN deps[j] : Recorded(j, h)' <=> Recorded(j, h)
      BY <1>5, <2>1
    <3> QED
      BY <1>1, <2>1, <3>1 DEF Touches, Writes
  <2>2. CASE j = cur
    <3>1. \A h \in DOMAIN deps[cur] : Recorded(j, h)' <=> Recorded(cur, h) \/ h = dep
      BY <1>2, <1>5, <2>2
    <3>2. Touches(j, b)' <=>
            kind[cur] = "task" /\ \E h \in DOMAIN deps[cur] :
                                    Recorded(j, h)' /\ deps[cur][h].addr = b
      BY <1>1, <2>2 DEF Touches
    <3>3. Writes(j, b)' <=>
            kind[cur] = "task" /\ \E h \in DOMAIN deps[cur] :
                      Recorded(j, h)' /\ deps[cur][h].addr = b /\ deps[cur][h].out
      BY <1>1, <2>2 DEF Writes
    <3> QED
      BY <1>2, <2>2, <3>1, <3>2, <3>3 DEF Touches, Writes, Dep
  <2> QED
    BY <2>1, <2>2
<1> QED
  BY <1>5, <1>6

(* All predecessors of the dependence have been looked at: what it is in    *)
(* conflict with has finished or leads to one that has to notify the item.  *)
LEMMA LookedCovers ==
  ASSUME IInv, pc = "process", todo = <<>>, NEW a, a = Dep.addr, NEW j \in 1..cur
  PROVE  /\ Touches(j, a) /\ j <= last_out[a] => Covered(j, cur)
         /\ Dep.out /\ (\E i \in DOMAIN last_ins[a] : last_ins[a][i] = j) => Covered(j, cur)
         /\ Settled(j) => Covered(j, cur)
         /\ Conflicts(j, Dep) => Covered(j, cur)
<1>1. Typed /\ Graph /\ Linked /\ StartsLast /\ Table
  BY DEF IInv, Graph
<1>2. a \in Addrs /\ cur \in 1..cur
  BY DepIsSound
<1>3. LastWriter(a) /\ LastReaders(a) /\ Users(a) /\ last_ins[a] \in Seq(Items)
      /\ last_out[a] \in Items \cup {Null} /\ last_out[a] \in Nat /\ j \in Nat \ {0}
  BY <1>1, <1>2, ItemsAssumption DEF Table, Typed, Items, Null
<1>4. ASSUME NEW p \in Items, \E i \in DOMAIN Preds(Dep) : Preds(Dep)[i] = p, Before(j, p)
      PROVE  Covered(j, cur)
  <2>1. Finished(p) \/ Notifies(p, cur)
    BY <1>1, <1>4 DEF Linked, Looked
  <2>2. p \in 1..cur
    <3>1. p \in 1..cur-1
      BY <1>1, <1>4, PredsAreEarlier
    <3> QED
      BY <1>1, <3>1 DEF Typed
  <2> QED
    BY <1>1, <1>4, <2>1, <2>2, BehindPred
<1>5. ASSUME Touches(j, a), j <= last_out[a] PROVE Covered(j, cur)
  <2> DEFINE w == last_out[a]
  <2>1. w # Null /\ w \in Nat \ {0} /\ w \in Items /\ Writes(w, a)
    BY <1>3, <1>5 DEF LastWriter, Null
  <2>2. CASE Dep.out /\ last_ins[a] # <<>>
    <3>1. PICK p \in Items : p = last_ins[a][1] /\ 1 \in DOMAIN last_ins[a]
      BY <1>3, <2>2
    <3>2. p \in w+1..cur /\ Touches(p, a)
      BY <1>3, <3>1 DEF LastReaders
    <3>3. p \in Nat /\ w < p
      BY <2>1, <3>2
    <3>4. Before(j, p)
      BY <1>3, <1>5, <2>1, <3>2, <3>3, UpToReader
    <3>5. \E i \in DOMAIN Preds(Dep) : Preds(Dep)[i] = p
      BY <2>2, <3>1 DEF Preds
    <3> QED
      BY <1>4, <3>4, <3>5
  <2>3. CASE ~(Dep.out /\ last_ins[a] # <<>>)
    <3>1. Preds(Dep) = <<w>>
      BY <2>1, <2>3 DEF Preds
    <3>2. \E i \in DOMAIN Preds(Dep) : Preds(Dep)[i] = w
      <4>1. 1 \in DOMAIN Preds(Dep) /\ Preds(Dep)[1] = w
        BY <3>1
      <4> QED
        BY <4>1
    <3>3. Before(j, w)
      BY <1>3, <1>5, <2>1, UpToWriter
    <3> QED
      BY <1>4, <2>1, <3>2, <3>3
  <2> QED
    BY <2>2, <2>3
<1>6. ASSUME Dep.out, NEW i \in DOMAIN last_ins[a], last_ins[a][i] = j PROVE Covered(j, cur)
  <2>1. last_ins[a] # <<>> /\ j \in Items
    BY <1>3, <1>6
  <2>2. \E h \in DOMAIN Preds(Dep) : Preds(Dep)[h] = j
    BY <1>6, <2>1 DEF Preds
  <2>3. Before(j, j)
    BY DEF Before
  <2> QED
    BY <1>4, <2>1, <2>2, <2>3
<1>7. Settled(j) => Covered(j, cur)
  BY DEF Settled, Covered
<1>8. ASSUME Conflicts(j, Dep) PROVE Covered(j, cur)
  <2>1. CASE Dep.out
    <3>1. Touches(j, a)
      BY <1>8, <2>1 DEF Conflicts
    <3>2. j <= last_out[a] \/ Settled(j) \/ \E i \in DOMAIN last_ins[a] : last_ins[a][i] = j
      BY <1>3, <3>1 DEF Users
    <3> QED
      BY <1>5, <1>6, <1>7, <2>1, <3>1, <3>2
  <2>2. CASE ~Dep.out
    <3>1. Writes(j, a) /\ Touches(j, a)
      BY <1>8, <2>2, WritersTouch DEF Conflicts
    <3>2. j <= last_out[a] \/ Settled(j)
      BY <1>3, <3>1 DEF Users
    <3> QED
      BY <1>5, <1>7, <3>1, <3>2
  <2> QED
    BY <2>1, <2>2
<1> QED
  BY <1>5, <1>6, <1>7, <1>8

(* The hash table has the last users of the address again.                  *)
LEMMA RecordTable ==
  ASSUME IInv, Record
  PROVE  Table'
<1> SUFFICES ASSUME NEW b \in Addrs
             PROVE  LastWriter(b)' /\ LastReaders(b)' /\ Users(b)'
  BY DEF Table
<1>1. PICK a : a = Dep.addr
  OBVIOUS
<1>2. Typed /\ Graph /\ Table /\ ItemsAreSound /\ StartsLast
  BY DEF IInv, Graph
<1>3. /\ pc = "process" /\ todo = <<>> /\ SameItems /\ pc' \in {"process", "publish"}
      /\ UNCHANGED <<npredecessors, successors, status, cur, npre>>
      /\ \A c \in Addrs : c # a => last_out'[c] = last_out[c] /\ last_ins'[c] = last_ins[c]
      /\ last_out'[a] = IF kind[cur] = "wait" THEN Null
                        ELSE IF Dep.out THEN cur ELSE last_out[a]
      /\ last_ins'[a] = IF kind[cur] # "wait" /\ ~Dep.out THEN <<cur>> \o last_ins[a]
                        ELSE IF Dep.out THEN <<>> ELSE last_ins[a]
  BY <1>1, RecordWrites
<1>4. cur \in 1..cur /\ cur \in Items /\ a \in Addrs /\ ~Touches(cur, a)
  BY <1>1, <1>3, DepIsSound
<1>5. \A j \in 1..cur : \A c :
        /\ Touches(j, c)' <=> Touches(j, c) \/ (j = cur /\ kind[cur] = "task" /\ c = a)
        /\ Writes(j, c)' <=>
             Writes(j, c) \/ (j = cur /\ kind[cur] = "task" /\ c = a /\ Dep.out)
  BY <1>1, RecordAdds
<1>6. kind[cur] \in {"task", "wait"} /\ cur' = cur /\ cur \in Int
      /\ (Pending <=> kind[cur] = "wait") /\ (Pending' <=> Pending)
  BY <1>2, <1>3, <1>4 DEF Typed, Pending, SameItems
<1>7. \A j \in 1..cur : Settled(j) => Settled(j)'
  <2>1. Forward
    BY <1>3, QuietCreator DEF Counting
  <2> QED
    BY <1>2, <1>3, <1>6, <2>1, SettledStays
<1>8. /\ LastWriter(b) /\ LastReaders(b) /\ Users(b)
      /\ last_out[b] \in Nat /\ last_ins[b] \in Seq(Items)
  BY <1>2, <1>3, ItemsAssumption DEF Table, Typed, Items, Null
<1>9. \A i \in DOMAIN last_ins[b] : /\ last_ins[b][i] \in 1..cur
                                    /\ last_ins[b][i] \in last_out[b]+1..cur
                                    /\ Touches(last_ins[b][i], b)
  BY <1>6, <1>8 DEF LastReaders
<1>10. CASE b # a
  <2>1. last_out'[b] = last_out[b] /\ last_ins'[b] = last_ins[b]
    BY <1>3, <1>10
  <2>2. \A j \in 1..cur : (Touches(j, b)' <=> Touches(j, b)) /\ (Writes(j, b)' <=> Writes(j, b))
    BY <1>5, <1>10
  <2>3. LastWriter(b)'
    BY <1>6, <1>8, <2>1, <2>2 DEF LastWriter
  <2>4. LastReaders(b)'
    BY <1>6, <1>9, <2>1, <2>2 DEF LastReaders
  <2>5. Users(b)'
    BY <1>6, <1>7, <1>8, <2>1, <2>2 DEF Users
  <2> QED
    BY <2>3, <2>4, <2>5
<1>11. CASE b = a /\ kind[cur] = "wait"
  <2>1. /\ last_out'[b] = Null
        /\ last_ins'[b] = IF Dep.out THEN <<>> ELSE last_ins[b]
    BY <1>3, <1>11
  <2>2. \A j \in 1..cur : (Touches(j, b)' <=> Touches(j, b)) /\ (Writes(j, b)' <=> Writes(j, b))
    BY <1>5, <1>11
  <2>3. LastWriter(b)'
    BY <2>1 DEF LastWriter
  <2>4. LastReaders(b)'
    <3>1. CASE Dep.out
      BY <2>1, <3>1 DEF LastReaders
    <3>2. CASE ~Dep.out
      BY <1>6, <1>9, <2>1, <2>2, <3>2 DEF LastReaders, Null
    <3> QED
      BY <3>1, <3>2
  <2>5. ASSUME NEW j \in 1..cur, Touches(j, b), j <= last_out[b] PROVE Settled(j)'
    <3>1. Covered(j, cur)
      BY <1>1, <1>3, <1>11, <2>5, LookedCovers
    <3>2. Settled(j)
      BY <1>6, <1>11, <3>1 DEF Settled
    <3> QED
      BY <1>7, <3>2
  <2>6. ASSUME NEW j \in 1..cur, Dep.out, \E i \in DOMAIN last_ins[b] : last_ins[b][i] = j
        PROVE  Settled(j)'
    <3>1. Covered(j, cur)
      BY <1>1, <1>3, <1>11, <2>6, LookedCovers
    <3>2. Settled(j)
      BY <1>6, <1>11, <3>1 DEF Settled
    <3> QED
      BY <1>7, <3>2
  <2>7. Users(b)'
    <3> SUFFICES ASSUME NEW j \in 1..cur
                 PROVE  /\ Writes(j, b)  => Settled(j)'
                        /\ Touches(j, b) => \/ Settled(j)'
                                            \/ \E i \in DOMAIN last_ins'[b] : last_ins'[b][i] = j
      BY <1>6, <2>2 DEF Users
    <3>1. Writes(j, b) => Settled(j)'
      BY <1>7, <1>8, <2>5, WritersTouch DEF Users
    <3>2. ASSUME Touches(j, b)
          PROVE  Settled(j)' \/ \E i \in DOMAIN last_ins'[b] : last_ins'[b][i] = j
      <4>1. Settled(j)' \/ \E i \in DOMAIN last_ins[b] : last_ins[b][i] = j
        BY <1>7, <1>8, <2>5, <3>2 DEF Users
      <4> QED
        BY <2>1, <2>6, <4>1
    <3> QED
      BY <3>1, <3>2
  <2> QED
    BY <2>3, <2>4, <2>7
<1>12. CASE b = a /\ kind[cur] = "task" /\ Dep.out
  <2>1. last_out'[b] = cur /\ last_ins'[b] = <<>>
    BY <1>3, <1>12
  <2>2. LastWriter(b)'
    BY <1>4, <1>5, <1>6, <1>12, <2>1 DEF LastWriter
  <2>3. LastReaders(b)'
    BY <2>1 DEF LastReaders
  <2>4. Users(b)'
    BY <1>6, <2>1 DEF Users
  <2> QED
    BY <2>2, <2>3, <2>4
<1>13. CASE b = a /\ kind[cur] = "task" /\ ~Dep.out
  <2>1. last_out'[b] = last_out[b] /\ last_ins'[b] = <<cur>> \o last_ins[b]
    BY <1>3, <1>13
  <2>2. /\ 1 \in DOMAIN last_ins'[b] /\ last_ins'[b][1] = cur
        /\ \A i \in DOMAIN last_ins[b] :
             i + 1 \in DOMAIN last_ins'[b] /\ last_ins'[b][i + 1] = last_ins[b][i]
        /\ \A i \in DOMAIN last_ins'[b] :
             \/ last_ins'[b][i] = cur
             \/ /\ i - 1 \in DOMAIN last_ins[b]
                /\ last_ins'[b][i] = last_ins[b][i - 1]
    BY <1>4, <1>8, <2>1
  <2>3. \A j \in 1..cur : /\ Touches(j, b)' <=> Touches(j, b) \/ j = cur
                          /\ Writes(j, b)' <=> Writes(j, b)
    BY <1>5, <1>13
  <2>4. LastWriter(b)'
    BY <1>6, <1>8, <2>1, <2>3 DEF LastWriter
  <2>5. last_out[b] < cur
    <3>1. last_out[b] # cur
      BY <1>4, <1>8, <1>13, WritersTouch DEF LastWriter, Null
    <3>2. last_out[b] <= cur
      <4>1. CASE last_out[b] = Null
        BY <1>4, <4>1 DEF Null
      <4>2. CASE last_out[b] # Null
        BY <1>8, <4>2 DEF LastWriter
      <4> QED
        BY <4>1, <4>2
    <3> QED
      BY <1>6, <1>8, <3>1, <3>2
  <2>6. cur \in last_out[b]+1..cur
    BY <1>6, <1>8, <2>5
  <2>7. LastReaders(b)'
    <3> SUFFICES ASSUME NEW i \in DOMAIN last_ins'[b], NEW j, j = last_ins'[b][i]
                 PROVE  j \in last_out[b]+1..cur /\ Touches(j, b)'
      BY <1>6, <2>1 DEF LastReaders, Touches, Recorded
    <3>1. CASE j = cur
      BY <1>4, <2>3, <2>6, <3>1
    <3>2. CASE i - 1 \in DOMAIN last_ins[b] /\ j = last_ins[b][i - 1]
      <4>1. j \in 1..cur /\ j \in last_out[b]+1..cur /\ Touches(j, b)
        BY <1>9, <3>2
      <4> QED
        BY <2>3, <4>1
    <3> QED
      BY <2>2, <3>1, <3>2
  <2>8. Users(b)'
    <3> SUFFICES ASSUME NEW j \in 1..cur
                 PROVE  /\ Writes(j, b)  => j <= last_out[b] \/ Settled(j)'
                        /\ Touches(j, b) \/ j = cur =>
                             \/ j <= last_out[b] \/ Settled(j)'
                             \/ \E i \in DOMAIN last_ins'[b] : last_ins'[b][i] = j
      BY <1>6, <2>1, <2>3 DEF Users
    <3>1. CASE j = cur
      <4>1. \E i \in DOMAIN last_ins'[b] : last_ins'[b][i] = j
        BY <2>2, <3>1
      <4> QED
        BY <1>7, <1>8, <4>1 DEF Users
    <3>2. CASE j # cur
      <4>1. (\E i \in DOMAIN last_ins[b] : last_ins[b][i] = j)
              => \E i \in DOMAIN last_ins'[b] : last_ins'[b][i] = j
        BY <2>2
      <4> QED
        BY <1>7, <1>8, <3>2, <4>1 DEF Users
    <3> QED
      BY <3>1, <3>2
  <2> QED
    BY <2>4, <2>7, <2>8
<1> QED
  BY <1>6, <1>10, <1>11, <1>12, <1>13

(* The places balance for the lists of the addresses.                       *)
LEMMA EntriesReplaced ==
  ASSUME NEW f, NEW g, AreLists(Addrs, Items, f), AreLists(Addrs, Items, g),
         NEW p \in Addrs, AgreeBut(Addrs, f, g, p), NEW n
  PROVE  /\ Cardinality(Places(f, n)) \in Nat /\ Cardinality(Places(g, n)) \in Nat
         /\ Balanced(f, g, p, n)
BY AddrsAssumption, Replaced DEF Balanced

HeldAlike(f, g, p, n) ==
  /\ Held(Addrs, f, n) \in Nat /\ Held(Addrs, g, n) \in Nat
  /\ Held(Addrs, g, n) + IsOne(f[p] = n) = Held(Addrs, f, n) + IsOne(g[p] = n)

(* So do the addresses whose last output is n.                              *)
LEMMA OutputReplaced ==
  ASSUME NEW f, NEW g, NEW p \in Addrs, AgreeBut(Addrs, f, g, p), NEW n
  PROVE  HeldAlike(f, g, p, n)
BY AddrsAssumption, HoldersChange DEF HeldAlike

(* The references taken are those that the entry gains, the references      *)
(* dropped those that it loses.                                             *)
LEMMA RecordCounts ==
  ASSUME IInv, Record, NEW n \in Items
  PROVE  /\ nrefs'[n] \in Int
         /\ nrefs'[n] - nrefs[n] = (Outs(n)' - Outs(n)) + (Ins(n)' - Ins(n))
<1>1. PICK a : a = Dep.addr
  OBVIOUS
<1>2. Typed /\ NrefsTyped
  BY DEF IInv
<1>3. /\ pc = "process"
      /\ last_out' \in [Addrs -> Items \cup {Null}] /\ last_ins' \in [Addrs -> Seq(Items)]
      /\ \A c \in Addrs : c # a => last_out'[c] = last_out[c] /\ last_ins'[c] = last_ins[c]
      /\ last_out'[a] = IF kind[cur] = "wait" THEN Null
                        ELSE IF Dep.out THEN cur ELSE last_out[a]
      /\ last_ins'[a] = IF kind[cur] # "wait" /\ ~Dep.out THEN <<cur>> \o last_ins[a]
                        ELSE IF Dep.out THEN <<>> ELSE last_ins[a]
  BY <1>1, RecordWrites
<1>4. cur \in Items /\ a \in Addrs /\ n # Null /\ kind[cur] \in {"task", "wait"}
  <2>1. cur \in Items /\ a \in Addrs
    BY <1>1, <1>3, DepIsSound
  <2> QED
    BY <1>2, <2>1, ItemsAssumption DEF Items, Null, Typed
<1>5. PICK f \in [Addrs -> Seq(Items)] : f = last_ins
  BY <1>2 DEF Typed
<1>6. PICK g \in [Addrs -> Seq(Items)] : g = last_ins'
  BY <1>3
<1>7. PICK o \in [Addrs -> Items \cup {Null}] : o = last_out
  BY <1>2 DEF Typed
<1>8. PICK q \in [Addrs -> Items \cup {Null}] : q = last_out'
  BY <1>3
<1>9. AreLists(Addrs, Items, f) /\ AreLists(Addrs, Items, g)
      /\ AgreeBut(Addrs, f, g, a) /\ AgreeBut(Addrs, o, q, a)
  BY <1>3, <1>5, <1>6, <1>7, <1>8 DEF AreLists, AgreeBut
<1> DEFINE ins   == f[a]
           insn  == g[a]
           cf    == Cardinality(Places(f, n))
           cg    == Cardinality(Places(g, n))
           ci    == Cardinality(Indices(ins, n))
           cin   == Cardinality(Indices(insn, n))
           co    == Held(Addrs, o, n)
           cq    == Held(Addrs, q, n)
           one   == IsOne(o[a] = n)
           onen  == IsOne(q[a] = n)
           added == IF kind[cur] = "wait" THEN <<>> ELSE <<cur>>
           gone  == Cardinality(Indices(Dropped, n))
           come  == Cardinality(Indices(added, n))
<1>10. ins \in Seq(Items) /\ insn \in Seq(Items)
  BY <1>4
<1>11. ci \in Nat /\ cin \in Nat
  <2>1. ci \in Nat
    BY <1>10, IndicesAreFinite
  <2>2. cin \in Nat
    BY <1>10, IndicesAreFinite
  <2> QED
    BY <2>1, <2>2
<1>12. cf \in Nat /\ cg \in Nat /\ cg + ci = cf + cin
  <2>1. /\ Cardinality(Places(f, n)) \in Nat /\ Cardinality(Places(g, n)) \in Nat
        /\ Balanced(f, g, a, n)
    BY <1>4, <1>9, EntriesReplaced, Zenon
  <2> QED
    BY <2>1, Zenon DEF Balanced
<1>13. co \in Nat /\ cq \in Nat /\ cq + one = co + onen
  <2>1. HeldAlike(o, q, a, n)
    BY <1>4, <1>9, OutputReplaced, Zenon
  <2> QED
    BY <2>1, Zenon DEF HeldAlike
<1>14. one \in Nat /\ onen \in Nat /\ IsOne(cur = n) \in Nat
  BY DEF IsOne
<1>15. nrefs'[n] = nrefs[n] + come - gone /\ nrefs[n] \in Nat
  BY <1>2 DEF Record, Refs, NrefsTyped
<1>16. /\ Dropped = IF Dep.out THEN Append(ins, o[a])
                    ELSE IF kind[cur] = "wait" THEN Append(<<>>, o[a]) ELSE <<>>
       /\ insn = IF kind[cur] # "wait" /\ ~Dep.out THEN <<cur>> \o ins
                 ELSE IF Dep.out THEN <<>> ELSE ins
       /\ q[a] = IF kind[cur] = "wait" THEN Null ELSE IF Dep.out THEN cur ELSE o[a]
  BY <1>1, <1>3, <1>5, <1>6, <1>7, <1>8 DEF Dropped
<1>17. /\ Cardinality(Indices(Append(ins, o[a]), n)) = ci + one
       /\ Cardinality(Indices(Append(<<>>, o[a]), n)) = 0 + one
       /\ Cardinality(Indices(<<>>, n)) = 0 /\ Cardinality(Indices(<<cur>>, n)) = IsOne(cur = n)
       /\ Cardinality(Indices(<<cur>> \o ins, n)) = ci + IsOne(cur = n)
  <2>1. Cardinality(Indices(<<>>, n)) = 0
    BY IndicesOfEmpty
  <2>7. <<>> \in Seq(Items)
    OBVIOUS
  <2>2. PICK e \in Seq(Items) : e = <<>>
    BY <2>7, Zenon
  <2>3. Cardinality(Indices(Append(e, o[a]), n)) = Cardinality(Indices(e, n)) + one
    BY IndicesOfAppend
  <2>4. Cardinality(Indices(Append(ins, o[a]), n)) = ci + one
    BY <1>10, IndicesOfAppend
  <2>5. Cardinality(Indices(<<cur>>, n)) = IsOne(cur = n)
    BY IndicesOfOne
  <2>6. Cardinality(Indices(<<cur>> \o ins, n)) = ci + IsOne(cur = n)
    BY <1>4, <1>10, IndicesOfCons
  <2> QED
    BY <2>1, <2>2, <2>3, <2>4, <2>5, <2>6
<1>18. come = IF kind[cur] = "wait" THEN 0 ELSE IsOne(cur = n)
  BY <1>17
<1>19. gone = IF Dep.out THEN ci + one ELSE IF kind[cur] = "wait" THEN 0 + one ELSE 0
  BY <1>16, <1>17
<1>20. cin = IF kind[cur] # "wait" /\ ~Dep.out THEN ci + IsOne(cur = n)
             ELSE IF Dep.out THEN 0 ELSE ci
  BY <1>16, <1>17
<1>21. onen = IF kind[cur] = "wait" THEN 0 ELSE IF Dep.out THEN IsOne(cur = n) ELSE one
  BY <1>4, <1>16 DEF IsOne
<1>22. Outs(n) = co /\ Outs(n)' = cq /\ Ins(n) = cf /\ Ins(n)' = cg
  BY <1>5, <1>6, <1>7, <1>8 DEF Outs, Ins, Held
<1>23. (come - gone) = (onen - one) + (cin - ci)
  <2> HIDE DEF ci, cin, one, onen, gone, come
  <2>1. CASE kind[cur] = "wait" /\ Dep.out
    BY <1>11, <1>14, <1>18, <1>19, <1>20, <1>21, <2>1
  <2>2. CASE kind[cur] = "wait" /\ ~Dep.out
    BY <1>11, <1>14, <1>18, <1>19, <1>20, <1>21, <2>2
  <2>3. CASE kind[cur] # "wait" /\ Dep.out
    BY <1>11, <1>14, <1>18, <1>19, <1>20, <1>21, <2>3
  <2>4. CASE kind[cur] # "wait" /\ ~Dep.out
    BY <1>11, <1>14, <1>18, <1>19, <1>20, <1>21, <2>4
  <2> QED
    BY <2>1, <2>2, <2>3, <2>4
<1>24. come \in Nat /\ gone \in Nat
  BY <1>11, <1>14, <1>18, <1>19
<1> HIDE DEF cf, cg, ci, cin, co, cq, one, onen, gone, come
<1>25. nrefs'[n] \in Int /\ nrefs'[n] - nrefs[n] = come - gone
  BY <1>15, <1>24
<1>26. nrefs'[n] - nrefs[n] = (cq - co) + (cg - cf)
  <2>1. cq - co = onen - one
    BY <1>13, <1>14
  <2>2. cg - cf = cin - ci
    BY <1>11, <1>12
  <2> QED
    BY <1>23, <1>25, <2>1, <2>2
<1> QED
  BY <1>22, <1>25, <1>26

(* A dependence is recorded and the next one taken.                         *)
LEMMA RecordKeeps ==
  ASSUME IInv, Record
  PROVE  IInv'
<1>1. PICK a : a = Dep.addr
  OBVIOUS
<1>2. Typed /\ Graph /\ Control /\ ItemsAreSound /\ StartsLast /\ Guarded /\ Table
  BY DEF IInv, Graph
<1>3. /\ pc = "process" /\ todo = <<>> /\ SameItems /\ pc' \in {"process", "publish"}
      /\ UNCHANGED <<task, npredecessors, successors, status, cur, npre, fault>>
      /\ last_out' \in [Addrs -> Items \cup {Null}] /\ last_ins' \in [Addrs -> Seq(Items)]
      /\ \A c \in Addrs : c # a => last_out'[c] = last_out[c] /\ last_ins'[c] = last_ins[c]
  BY <1>1, RecordWrites
<1>4. /\ cur \in 1..cur /\ cur \in Items /\ Entered(cur) /\ status[cur] = "created"
      /\ deps[cur] \in Seq(Dependence) /\ dep \in DOMAIN deps[cur]
      /\ \A i \in DOMAIN deps[cur] : deps[cur][i].addr = a => i = dep
  BY <1>1, <1>3, DepIsSound
<1>5. /\ kind' = kind /\ deps' = deps /\ cur' = cur /\ successors' = successors /\ task' = task
      /\ status' = status /\ npredecessors' = npredecessors /\ npre' = npre /\ fault' = fault
  BY <1>3 DEF SameItems
<1>6. Counting' <=> Counting
  BY <1>3 DEF Counting
<1>7. /\ Forward /\ StartsLast' /\ Waking' /\ PredecessorsAreExact'
      /\ \A s : Entering(s)' <=> Entering(s)
      /\ \A n : Own(n)' = Own(n) /\ Listed(n)' = Listed(n)
  BY <1>3, <1>6, QuietCreator
<1>8. Len(deps[cur]) \in Nat /\ dep \in 1..Len(deps[cur]) /\ DOMAIN deps[cur] = 1..Len(deps[cur])
  BY <1>4
<1>9. \/ /\ dep < Len(deps[cur]) /\ dep' = dep + 1 /\ pc' = "process"
         /\ dep + 1 \in DOMAIN deps[cur] /\ deps[cur][dep + 1] \in Dependence
         /\ todo' = Preds(deps[cur][dep + 1])
      \/ dep' = dep /\ todo' = <<>> /\ pc' = "publish"
  <2>1. dep < Len(deps[cur]) => dep + 1 \in DOMAIN deps[cur] /\ deps[cur][dep + 1] \in Dependence
    BY <1>4, <1>8
  <2> QED
    BY <1>3, <2>1 DEF Record, NextDep
<1>10. todo' \in Seq(Items) /\ dep' \in Nat \ {0}
  <2>1. dep + 1 \in Nat \ {0} /\ dep \in Nat \ {0}
    BY <1>8
  <2>2. <<>> \in Seq(Items)
    OBVIOUS
  <2> QED
    BY <1>2, <1>9, <2>1, <2>2, PredsTyped
<1>11. Typed'
  BY <1>2, <1>3, <1>5, <1>10 DEF Typed
<1>12. Control'
  BY <1>3, <1>4, <1>5, <1>9 DEF Control
<1>13. Guarded'
  <2> SUFFICES ASSUME NEW k \in 1..cur, NEW i \in DOMAIN deps[k], NEW j \in 1..k-1,
                      Recorded(k, i)', Conflicts(j, deps[k][i])'
               PROVE  Covered(j, k)'
    BY <1>5 DEF Guarded
  <2>0. cur \in Int /\ 1..cur \subseteq Items
    BY <1>2, ItemsUpTo DEF Typed
  <2>1. j \in 1..cur /\ j # cur /\ j \in Items
    BY <2>0
  <2>2. Recorded(k, i) \/ (k = cur /\ i = dep)
    BY <1>1, RecordAdds
  <2>3. \A b : (Touches(j, b)' <=> Touches(j, b)) /\ (Writes(j, b)' <=> Writes(j, b))
    BY <1>1, <2>1, RecordAdds
  <2>4. Conflicts(j, deps[k][i])
    BY <1>5, <2>3 DEF Conflicts
  <2>5. Covered(j, k)
    <3>1. CASE Recorded(k, i)
      BY <1>2, <2>4, <3>1 DEF Guarded
    <3>2. CASE k = cur /\ i = dep
      <4>1. Conflicts(j, Dep)
        BY <2>4, <3>2 DEF Dep
      <4> QED
        BY <1>1, <1>3, <2>1, <3>2, <4>1, LookedCovers
    <3> QED
      BY <2>2, <3>1, <3>2
  <2> QED
    BY <1>2, <1>3, <1>7, <2>1, <2>5, CoverageStays
<1>14. Table'
  BY RecordTable
<1>15. Linked'
  <2> SUFFICES ASSUME pc' = "process"
               PROVE  Linked'
    BY DEF Linked
  <2>1. PICK d \in Dependence : d = deps[cur][dep + 1] /\ todo' = Preds(d) /\ d.addr # a
    BY <1>4, <1>8, <1>9
  <2>2. Dep' = d
    BY <1>5, <1>9, <2>1 DEF Dep
  <2>3. last_out'[d.addr] = last_out[d.addr] /\ last_ins'[d.addr] = last_ins[d.addr]
    <3>1. d.addr \in Addrs
      BY DEF Dependence
    <3> QED
      BY <1>3, <2>1, <3>1
  <2>4. Preds(Dep)' = todo'
    BY <2>1, <2>2, <2>3 DEF Preds
  <2> QED
    BY <2>4 DEF Linked, Looked
<1>16. ItemsAreSound'
  <2>1. ASSUME NEW k \in Items
        PROVE  (Entered(k) => Entered(k)') /\ (Fresh(k) => Fresh(k)')
    BY <1>3, <1>5, <1>7 DEF Entered, Merged, Idle, Behind, Published, Fresh
  <2> QED
    BY <1>2, <1>5, <2>1 DEF ItemsAreSound
<1>17. Counted'
  <2> SUFFICES ASSUME NEW n \in Items
               PROVE  nrefs'[n] = Own(n)' + Listed(n)' + Outs(n)' + Ins(n)'
    BY DEF Counted
  <2>1. nrefs[n] = Own(n) + Listed(n) + Outs(n) + Ins(n)
    BY DEF IInv, Counted
  <2>2. nrefs'[n] \in Int /\ nrefs'[n] - nrefs[n] = (Outs(n)' - Outs(n)) + (Ins(n)' - Ins(n))
    BY RecordCounts
  <2>3. Own(n) \in Nat /\ Listed(n) \in Nat /\ Outs(n) \in Nat /\ Ins(n) \in Nat
    BY <1>2, PartsAreNatural
  <2>4. Outs(n)' \in Nat /\ Ins(n)' \in Nat
    <3>1. /\ successors' \in [Items -> Seq(Items)] /\ last_ins' \in [Addrs -> Seq(Items)]
          /\ last_out' \in [Addrs -> Items \cup {Null}]
      BY <1>11 DEF Typed
    <3>2. /\ Cardinality({c \in Addrs : last_out'[c] = n}) \in Nat
          /\ Cardinality(Places(last_ins', n)) \in Nat
      BY <3>1, CountsAreNatural
    <3> QED
      BY <3>2 DEF Outs, Ins
  <2>5. Own(n)' = Own(n) /\ Listed(n)' = Listed(n)
    BY <1>7
  <2>6. nrefs'[n] = Own(n) + Listed(n) + Outs(n)' + Ins(n)'
    <3>1. nrefs[n] \in Int
      BY <2>1, <2>3
    <3>2. PICK x \in Int, y \in Int, b \in Nat, c \in Nat, d \in Nat, e \in Nat, f \in Nat, g \in Nat :
             /\ x = nrefs'[n] /\ y = nrefs[n] /\ b = Own(n) /\ c = Listed(n)
             /\ d = Outs(n) /\ e = Ins(n) /\ f = Outs(n)' /\ g = Ins(n)'
      BY <2>2, <2>3, <2>4, <3>1, Zenon
    <3>3. y = b + c + d + e /\ x - y = (f - d) + (g - e)
      BY <2>1, <2>2, <3>2, Zenon
    <3>4. x = b + c + f + g
      BY <3>3
    <3> QED
      BY <3>2, <3>4, Zenon
  <2> QED
    BY <2>5, <2>6, Zenon
<1>18. NrefsTyped'
  <2>1. nrefs' \in [Items -> {nrefs'[n] : n \in Items}]
    BY DEF Record, Refs
  <2> QED
    BY <1>11, <1>17, <2>1, CountedIsTyped
<1> QED
  BY <1>7, <1>11, <1>12, <1>13, <1>14, <1>15, <1>16, <1>17, <1>18 DEF IInv, Graph

(***************************************************************************)
(* The invariant holds.                                                     *)
(***************************************************************************)
LEMMA InitInv == Init => IInv
<1> SUFFICES ASSUME Init PROVE IInv
  OBVIOUS
<1>1. /\ kind = [k \in Items |-> "task"] /\ deps = [k \in Items |-> <<>>]
      /\ last_out = [a \in Addrs |-> Null] /\ last_ins = [a \in Addrs |-> <<>>]
      /\ task = [k \in Items |-> FALSE] /\ npredecessors = [k \in Items |-> 0]
      /\ nrefs = [k \in Items |-> 0] /\ successors = [k \in Items |-> <<>>]
      /\ status = [k \in Items |-> "none"]
      /\ cur = 0 /\ pc = "create" /\ dep = 1 /\ todo = <<>> /\ npre = 0 /\ fault = FALSE
  BY DEF Init
<1>2. Typed
  <2>1. cur \in 0..MaxItems /\ dep \in Nat \ {0} /\ npre \in Nat
    BY <1>1, ItemsAssumption
  <2>2. /\ kind \in [Items -> {"task", "wait"}] /\ deps \in [Items -> Seq(Dependence)]
        /\ last_out \in [Addrs -> Items \cup {Null}] /\ last_ins \in [Addrs -> Seq(Items)]
        /\ task \in [Items -> BOOLEAN] /\ npredecessors \in [Items -> Int]
        /\ successors \in [Items -> Seq(Items)]
    BY <1>1
  <2>3. status \in [Items -> Statuses]
    <3>1. "none" \in Statuses
      BY DEF Statuses
    <3> QED
      BY <1>1, <3>1
  <2>4. fault \in BOOLEAN /\ todo \in Seq(Items)
    <3>1. <<>> \in Seq(Items)
      OBVIOUS
    <3> QED
      BY <1>1, <3>1, Zenon
  <2> QED
    BY <1>1, <2>1, <2>2, <2>3, <2>4 DEF Typed
<1>3. 1..cur = {} /\ \A k \in Items : ~(k <= cur) /\ k # Null
  BY <1>1, ItemsAssumption DEF Items, Null
<1>4. ItemsAreSound
  BY <1>1, <1>3 DEF ItemsAreSound, Fresh
<1>5. Control /\ Linked /\ Guarded /\ StartsLast /\ Waking /\ PredecessorsAreExact
  <2>1. Control /\ Linked
    BY <1>1 DEF Control, Linked
  <2>2. Guarded /\ StartsLast /\ PredecessorsAreExact
    BY <1>3 DEF Guarded, StartsLast, PredecessorsAreExact
  <2>3. Waking
    BY <1>1 DEF Waking
  <2> QED
    BY <2>1, <2>2, <2>3
<1>6. Table
  BY <1>1, <1>3 DEF Table, LastWriter, LastReaders, Users
<1>7. Counted
  <2> SUFFICES ASSUME NEW n \in Items
               PROVE  nrefs[n] = Own(n) + Listed(n) + Outs(n) + Ins(n)
    BY DEF Counted
  <2>1. Own(n) = 0 /\ nrefs[n] = 0
    BY <1>1 DEF Own
  <2>2. Listed(n) = 0
    <3>1. PICK f \in [Items -> Seq(Items)] : f = successors
      BY <1>2 DEF Typed
    <3>2. AreLists(Items, Items, f) /\ Absent(Items, f, n)
      BY <1>1, <3>1 DEF AreLists, Absent
    <3>3. Cardinality(Places(f, n)) = 0
      BY <3>2, ItemsAreFinite, AbsentIsNowhere, Zenon
    <3> QED
      BY <3>1, <3>3 DEF Listed
  <2>3. Outs(n) = 0
    <3>1. {a \in Addrs : last_out[a] = n} = {}
      BY <1>1, <1>3
    <3> QED
      BY <3>1, FS_EmptySet DEF Outs
  <2>4. Ins(n) = 0
    <3>1. PICK f \in [Addrs -> Seq(Items)] : f = last_ins
      BY <1>2 DEF Typed
    <3>2. AreLists(Addrs, Items, f) /\ Absent(Addrs, f, n)
      BY <1>1, <3>1 DEF AreLists, Absent
    <3>3. Cardinality(Places(f, n)) = 0
      BY <3>2, AddrsAssumption, AbsentIsNowhere, Zenon
    <3> QED
      BY <3>1, <3>3 DEF Ins
  <2> QED
    BY <2>1, <2>2, <2>3, <2>4
<1>8. NrefsTyped
  BY <1>1 DEF NrefsTyped
<1> QED
  BY <1>2, <1>4, <1>5, <1>6, <1>7, <1>8 DEF IInv, Graph

(* Nothing happens.                                                         *)
LEMMA StutterKeeps ==
  ASSUME IInv, UNCHANGED vars
  PROVE  IInv'
<1>1. /\ SameItems /\ nrefs' = nrefs /\ UNCHANGED <<creator, hash>>
      /\ UNCHANGED <<task, npredecessors, successors, status, cur, npre, fault>> /\ pc' = pc
  BY DEF vars, items, SameItems, creator
<1>2. Counting' <=> Counting
  BY <1>1 DEF Counting
<1>3. /\ Forward /\ StartsLast' /\ Waking' /\ PredecessorsAreExact'
      /\ \A s : Entering(s)' <=> Entering(s)
      /\ \A n : Own(n)' = Own(n) /\ Listed(n)' = Listed(n)
  BY <1>1, <1>2, QuietCreator
<1>4. Control' /\ Table' /\ Linked' /\ Guarded'
  BY <1>1, <1>3, CreatorWaits DEF IInv
<1>5. Typed'
  BY <1>1 DEF IInv, Typed, SameItems, creator, hash
<1>6. ItemsAreSound'
  <2>1. ASSUME NEW k \in Items
        PROVE  (Entered(k) => Entered(k)') /\ (Fresh(k) => Fresh(k)')
    BY <1>1, <1>3 DEF Entered, Merged, Idle, Behind, Published, Fresh, SameItems
  <2> QED
    BY <1>1, <2>1 DEF IInv, Graph, ItemsAreSound
<1>7. Counted' /\ NrefsTyped'
  BY <1>1, <1>3 DEF IInv, Counted, Outs, Ins, hash, NrefsTyped
<1> QED
  BY <1>3, <1>4, <1>5, <1>6, <1>7 DEF IInv, Graph

(* The invariant is inductive.                                              *)
LEMMA NextInv == IInv /\ [Next]_vars => IInv'
<1> SUFFICES ASSUME IInv, [Next]_vars PROVE IInv'
  OBVIOUS
<1>1. CASE Creating
  <2>1. ASSUME NEW what \in {"task", "wait"}, NEW list \in DepLists, Create(what, list)
        PROVE  IInv'
    BY <2>1, CreateKeeps
  <2>2. CASE Link
    BY <2>2, LinkKeeps
  <2>3. CASE Record
    BY <2>3, RecordKeeps
  <2>4. CASE Publish
    BY <2>4, PublishKeeps
  <2>5. CASE AddCount
    BY <2>5, AddCountKeeps
  <2>6. CASE WaitReturns
    BY <2>6, WaitReturnsKeeps
  <2>7. CASE ParentFinishes
    BY <2>7, ParentFinishesKeeps
  <2> QED
    BY <1>1, <2>1, <2>2, <2>3, <2>4, <2>5, <2>6, <2>7 DEF Creating
<1>2. ASSUME NEW t \in Items, Executing(t) PROVE IInv'
  <2>1. CASE Start(t)
    BY <2>1, StartKeeps
  <2>2. CASE Finish(t)
    BY <2>2, FinishKeeps
  <2>3. CASE Decrement(t)
    BY <2>3, DecrementKeeps
  <2>4. CASE Wake(t)
    BY <2>4, WakeKeeps
  <2>5. CASE Drop(t)
    BY <2>5, DropKeeps
  <2>6. CASE Released(t)
    BY <2>6, ReleasedKeeps
  <2> QED
    BY <1>2, <2>1, <2>2, <2>3, <2>4, <2>5, <2>6 DEF Executing
<1>3. CASE UNCHANGED vars
  BY <1>3, StutterKeeps
<1> QED
  BY <1>1, <1>2, <1>3 DEF Next

(* It holds in every state.                                                 *)
LEMMA Always == Spec => []IInv
BY InitInv, NextInv, PTL DEF Spec

(***************************************************************************)
(* The variables have their types; no reference count is below 0.           *)
(***************************************************************************)
THEOREM TypeCorrect == Spec => []TypeOK
BY Always, InvIsTypeOK, PTL

(***************************************************************************)
(* Once the creator of a node has added the predecessors that it found, the *)
(* counter of the node is the number of tasks that have yet to notify it,   *)
(* and before that it is below 0: early decrements queue nothing.  The      *)
(* reference count of a node is the number of references in the lists, in   *)
(* the hash table and in its task, for any number of tasks and any lists.   *)
(***************************************************************************)
THEOREM CountsStayExact == Spec => []CountsAreExact
<1>1. IInv => CountsAreExact
  <2> SUFFICES ASSUME IInv PROVE CountsAreExact
    OBVIOUS
  <2>1. \A n \in Items : References(n) = Own(n) + Listed(n) + Outs(n) + Ins(n)
    BY DEF References, Own, Listed, Outs, Ins
  <2>2. RefsAreExact
    BY <2>1 DEF IInv, Counted, RefsAreExact
  <2> QED
    BY <2>2 DEF IInv, CountsAreExact
<1> QED
  BY <1>1, Always, PTL

(***************************************************************************)
(* The graph implements the order of the depend clauses.                    *)
(***************************************************************************)
LEMMA PromisedIs ==
  ASSUME Typed, NEW k \in Items
  PROVE  /\ Promised(k) = "finished" <=> Finished(k)
         /\ Promised(k) = "started" <=> Started(k)
         /\ Promised(k) = "created" <=> status[k] = "created"
         /\ Promised(k) = "none" <=> status[k] = "none"
         /\ Promised(k) \in {"none", "created", "started", "finished"}
<1>1. status[k] \in Statuses
  BY DEF Typed
<1> QED
  BY <1>1 DEF Promised, Statuses, Finished, Started

(* One item goes on, and no other does.                                     *)
LEMMA OneMoves ==
  ASSUME Typed, Typed', StartsLast', SameItems, cur' = cur, NEW s \in 1..cur,
         \A k \in Items : k # s => Promised(k)' = Promised(k),
         \/ Promised(s) = "created" /\ Promised(s)' = "started"
         \/ Promised(s) = "created" /\ Promised(s)' = "finished"
         \/ Promised(s) = "started" /\ Promised(s)' = "finished"
  PROVE  Abstract!Next
<1>1. s \in Items /\ cur \in Int
  BY ItemsUpTo DEF Typed
<1>2. \A k \in Items : Needs(k)' = Needs(k)
  BY SameNeeds
<1>3. \A j \in Needs(s) : j \in Items /\ j # s
  <2>1. \A j \in Needs(s) : j \in 1..s-1
    BY NeedsOf
  <2>2. s \in Items
    BY <1>1
  <2>3. 1..s-1 \subseteq Items /\ s \notin 1..s-1
    BY <2>2, ItemsAssumption DEF Items
  <2> QED
    BY <2>1, <2>3
<1>4. \A j \in Needs(s) : Promised(j) = "finished"
  <2> TAKE j \in Needs(s)
  <2>1. Started(s)' \/ Finished(s)'
    <3>1. status'[s] \in Statuses
      BY <1>1 DEF Typed
    <3> QED
      BY <3>1 DEF Promised, Statuses, Finished, Started
  <2>2. Finished(j)'
    BY <1>2, <1>1, <2>1 DEF StartsLast
  <2>3. Promised(j)' = "finished"
    BY <2>2 DEF Finished, Promised
  <2> QED
    BY <1>3, <2>3
<1>5. [k \in Items |-> Needs(k)]' = [k \in Items |-> Needs(k)]
  BY <1>2
<1>6. PICK to : to = Promised(s)'
  OBVIOUS
<1>7. [k \in Items |-> Promised(k)]' = [[k \in Items |-> Promised(k)] EXCEPT ![s] = to]
  BY <1>1, <1>6
<1>8. Abstract!Free(s)
  BY <1>1, <1>3, <1>4 DEF Abstract!Free
<1>9. Abstract!Start(s) \/ Abstract!Finish(s) \/ Abstract!Pass(s)
  BY <1>1, <1>5, <1>6, <1>7, <1>8
     DEF Abstract!Start, Abstract!Finish, Abstract!Pass, Abstract!Move
<1> QED
  BY <1>1, <1>9 DEF Abstract!Next

(* No item goes on.                                                         *)
LEMMA NobodyMoves ==
  ASSUME SameItems, \A k \in Items : Promised(k)' = Promised(k)
  PROVE  UNCHANGED Abstract!vars
<1>1. \A k \in Items : Needs(k)' = Needs(k)
  BY SameNeeds
<1> QED
  BY <1>1 DEF Abstract!vars

(* To create an item is to create one with what it needs.                   *)
LEMMA CreateIsCreate ==
  ASSUME IInv, NEW what \in {"task", "wait"}, NEW list \in DepLists, Create(what, list)
  PROVE  Abstract!Next
<1>1. Typed /\ Graph /\ ItemsAreSound
  BY DEF IInv, Graph
<1>2. PICK c : c = cur + 1
  OBVIOUS
<1>3. PICK fl \in Seq(Dependence) : fl = Filter(list)
  BY ListsAssumption, FilterMerges DEF Dependence
<1>4. /\ c \in Items /\ cur \in Int /\ 1..cur \subseteq Items /\ c \in Int
  BY <1>1, <1>2, ItemsAssumption, ItemsUpTo DEF Create, Typed, Items
<1>5. /\ kind' = [kind EXCEPT ![c] = what] /\ deps' = [deps EXCEPT ![c] = fl]
      /\ status' = [status EXCEPT ![c] = "created"] /\ pc = "create"
  BY <1>2, <1>3 DEF Create
<1>6. /\ deps'[c] = fl /\ status'[c] = "created"
      /\ \A j \in Items : j # c => /\ kind'[j] = kind[j] /\ deps'[j] = deps[j]
                                   /\ status'[j] = status[j]
  BY <1>1, <1>4, <1>5 DEF Typed
<1>7. \A k \in Items : ~(k <= cur) => deps[k] = <<>>
  BY <1>1 DEF ItemsAreSound, Fresh
<1>8. ASSUME NEW k \in Items, k # c PROVE Needs(k)' = Needs(k)
  <2>1. CASE k <= cur
    <3>1. \A j \in 1..k-1 : j \in Items /\ j # c
      BY <1>2, <1>4, <2>1, ItemsAssumption DEF Items
    <3>2. \A j \in 1..k-1 : kind'[j] = kind[j] /\ deps'[j] = deps[j]
      BY <1>6, <3>1
    <3>3. deps'[k] = deps[k]
      BY <1>6, <1>8
    <3> QED
      BY <3>2, <3>3 DEF Needs, Range
  <2>2. CASE ~(k <= cur)
    <3>1. deps[k] = <<>> /\ deps'[k] = <<>>
      BY <1>6, <1>7, <1>8, <2>2
    <3> QED
      BY <3>1 DEF Needs, Range
  <2> QED
    BY <2>1, <2>2
<1>9. PICK S : S = Needs(c)'
  OBVIOUS
<1>10. S \in SUBSET {j \in Items : j < c}
  <2>1. S \in SUBSET (1..c-1)
    BY <1>9 DEF Needs
  <2>2. \A j \in 1..c-1 : j \in Items /\ j < c
    BY <1>4, ItemsAssumption DEF Items
  <2> QED
    BY <2>1, <2>2
<1>11. [k \in Items |-> Needs(k)]' = [[k \in Items |-> Needs(k)] EXCEPT ![c] = S]
  BY <1>4, <1>8, <1>9
<1>12. Promised(c) = "none" /\ Promised(c)' = "created"
       /\ \A k \in Items : k # c => Promised(k)' = Promised(k)
  <2>1. status[c] = "none"
    BY <1>1, <1>2, <1>4 DEF ItemsAreSound, Fresh
  <2> QED
    BY <1>6, <2>1 DEF Promised
<1>13. [k \in Items |-> Promised(k)]' = [[k \in Items |-> Promised(k)] EXCEPT ![c] = "created"]
  BY <1>4, <1>12
<1>14. Abstract!Create(c)
  BY <1>4, <1>10, <1>11, <1>12, <1>13 DEF Abstract!Create, Abstract!Move
<1> QED
  BY <1>4, <1>14 DEF Abstract!Next

(* The steps of the creating thread after it has entered the item.          *)
LEMMA CreatorMoves ==
  ASSUME IInv, IInv',
         Link \/ Record \/ Publish \/ AddCount \/ WaitReturns \/ ParentFinishes
  PROVE  Abstract!Next \/ UNCHANGED Abstract!vars
<1>1. Typed /\ Typed' /\ Graph /\ StartsLast' /\ cur' = cur /\ SameItems
  BY DEF IInv, Graph, Link, Record, Publish, AddCount, WaitReturns, ParentFinishes,
         items, SameItems
<1>2. CASE Link \/ Record \/ Publish \/ ParentFinishes
  <2>1. status' = status
    BY <1>2 DEF Link, Record, Publish, ParentFinishes
  <2>2. \A k \in Items : Promised(k)' = Promised(k)
    BY <2>1 DEF Promised
  <2> QED
    BY <1>1, <2>2, NobodyMoves
<1>3. CASE AddCount \/ WaitReturns
  <2>1. pc \in {"count", "wait"}
    BY <1>3 DEF AddCount, WaitReturns
  <2>2. cur \in 1..cur /\ cur \in Items /\ status[cur] = "created"
    BY <1>1, <2>1, CurIsEntered
  <2>3. /\ \A k \in Items : k # cur => status'[k] = status[k]
        /\ status'[cur] \in {"created", "queued", "done"}
    BY <1>1, <1>3, <2>2 DEF AddCount, WaitReturns, Typed
  <2>4. \A k \in Items : k # cur => Promised(k)' = Promised(k)
    BY <2>3 DEF Promised
  <2>5. CASE status'[cur] = "created"
    <3>1. \A k \in Items : Promised(k)' = Promised(k)
      BY <2>2, <2>4, <2>5 DEF Promised
    <3> QED
      BY <1>1, <3>1, NobodyMoves
  <2>6. CASE status'[cur] # "created"
    <3>1. PICK s \in 1..cur : s = cur
      BY <2>2
    <3>2. Promised(s) = "created"
      BY <2>2, <3>1 DEF Promised
    <3>3. Promised(s)' \in {"started", "finished"}
      BY <1>1, <2>3, <2>6, <3>1 DEF Promised
    <3> QED
      BY <1>1, <2>4, <3>1, <3>2, <3>3, OneMoves
  <2> QED
    BY <2>5, <2>6
<1> QED
  BY <1>2, <1>3

(* The steps of the threads that run the tasks.                             *)
LEMMA RunnerMoves ==
  ASSUME IInv, IInv', NEW t \in Items, Executing(t)
  PROVE  Abstract!Next \/ UNCHANGED Abstract!vars
<1>1. Typed /\ Typed' /\ Graph /\ ItemsAreSound /\ Waking /\ StartsLast'
      /\ cur' = cur /\ SameItems /\ status \in [Items -> Statuses]
  BY DEF IInv, Graph, Executing, Start, Finish, Decrement, Wake, Drop, Released,
         items, SameItems, creator, Typed
<1>2. CASE Start(t) \/ Decrement(t) \/ Drop(t) \/ Released(t)
  <2>1. \A k \in Items : k # t => status'[k] = status[k]
    BY <1>1, <1>2 DEF Start, Decrement, Drop, Released, Goto
  <2>2. \/ status[t] = "queued" /\ status'[t] = "running"
        \/ status[t] \in {"notify", "drop"} /\ status'[t] \in {"notify", "wake", "drop", "done"}
    BY <1>1, <1>2 DEF Start, Decrement, Drop, Released, Goto
  <2>3. \A k \in Items : Promised(k)' = Promised(k)
    <3>1. Promised(t)' = Promised(t)
      BY <2>2 DEF Promised
    <3>2. \A k \in Items : k # t => Promised(k)' = Promised(k)
      BY <2>1 DEF Promised
    <3> QED
      BY <3>1, <3>2
  <2> QED
    BY <1>1, <2>3, NobodyMoves
<1>3. CASE Finish(t)
  <2>1. status[t] = "running" /\ status'[t] = "notify"
        /\ \A k \in Items : k # t => status'[k] = status[k]
    BY <1>1, <1>3 DEF Finish, Goto
  <2>2. t \in 1..cur
    BY <1>1, <2>1, RunningIsTask
  <2>3. Promised(t) = "started" /\ Promised(t)' = "finished"
    BY <2>1 DEF Promised
  <2>4. \A k \in Items : k # t => Promised(k)' = Promised(k)
    BY <2>1 DEF Promised
  <2> QED
    BY <1>1, <2>2, <2>3, <2>4, OneMoves
<1>4. CASE Wake(t)
  <2>1. PICK s : s = Head(successors[t])
    OBVIOUS
  <2>2. /\ status[t] = "wake"
        /\ status' = [status EXCEPT ![t] = "notify", ![s] = IF task[s] THEN "queued" ELSE @]
    BY <1>4, <2>1 DEF Wake
  <2>3. t \in 1..cur /\ Entered(t) /\ successors[t] # <<>> /\ successors[t] \in Seq(Items)
    BY <1>1, <2>2, RunningIsTask DEF Entered, Behind, Typed
  <2>4. s \in 1..cur /\ s \in Items /\ s # t
    <3>1. 1 \in DOMAIN successors[t] /\ s = successors[t][1]
      BY <2>1, <2>3
    <3>2. s \in t+1..cur
      BY <2>3, <3>1 DEF Entered, Behind
    <3>3. cur \in Int /\ 1..cur \subseteq Items
      BY <1>1, ItemsUpTo DEF Typed
    <3> QED
      BY <2>3, <3>2, <3>3
  <2>5. /\ status'[t] = "notify" /\ status'[s] = IF task[s] THEN "queued" ELSE status[s]
        /\ \A k \in Items : k # t /\ k # s => status'[k] = status[k]
    BY <1>1, <2>2, <2>4
  <2>6. \A k \in Items : k # s => Promised(k)' = Promised(k)
    <3>1. Promised(t)' = Promised(t)
      BY <2>2, <2>5 DEF Promised
    <3>2. \A k \in Items : k # s /\ k # t => Promised(k)' = Promised(k)
      BY <2>5 DEF Promised
    <3> QED
      BY <3>1, <3>2
  <2>7. CASE ~task[s]
    <3>1. Promised(s)' = Promised(s)
      BY <2>5, <2>7 DEF Promised
    <3> QED
      BY <1>1, <2>6, <3>1, NobodyMoves
  <2>8. CASE task[s]
    <3>1. Wakes(t, s) /\ Entered(s)
      BY <1>1, <2>1, <2>2, <2>4 DEF Waking, ItemsAreSound
    <3>2. status[s] = "created"
      BY <2>8, <3>1 DEF Wakes, Entered, Published
    <3>3. Promised(s) = "created" /\ Promised(s)' = "started"
      BY <2>5, <2>8, <3>2 DEF Promised
    <3> QED
      BY <1>1, <2>4, <2>6, <3>3, OneMoves
  <2> QED
    BY <2>7, <2>8
<1> QED
  BY <1>2, <1>3, <1>4 DEF Executing

(***************************************************************************)
(* A task is queued, and a wait returns, only when every earlier task that  *)
(* it depends on has finished, whatever the threads that release successors *)
(* do meanwhile: every step of the graph is one that the depend clauses     *)
(* allow, or changes nothing that they speak of.                            *)
(***************************************************************************)
THEOREM GraphKeepsOrder == Spec => ImplementsTaskOrder
<1>1. Init => Abstract!Init
  <2> SUFFICES ASSUME Init PROVE Abstract!Init
    OBVIOUS
  <2>1. \A k \in Items : Promised(k) = "none"
    BY DEF Init, Promised
  <2>2. \A k \in Items : Needs(k) = {}
    <3>1. \A k \in Items : deps[k] = <<>>
      BY DEF Init
    <3>2. \A k \in Items : Range(deps[k]) = {}
      BY <3>1 DEF Range
    <3> QED
      BY <3>2 DEF Needs
  <2> QED
    BY <2>1, <2>2 DEF Abstract!Init
<1>2. IInv /\ IInv' /\ [Next]_vars => [Abstract!Next]_Abstract!vars
  <2> SUFFICES ASSUME IInv, IInv', [Next]_vars
               PROVE  Abstract!Next \/ UNCHANGED Abstract!vars
    OBVIOUS
  <2>1. CASE Creating
    BY <2>1, CreateIsCreate, CreatorMoves DEF Creating
  <2>2. ASSUME NEW t \in Items, Executing(t)
        PROVE  Abstract!Next \/ UNCHANGED Abstract!vars
    BY <2>2, RunnerMoves
  <2>3. CASE UNCHANGED vars
    <3>1. SameItems /\ status' = status
      BY <2>3 DEF vars, items, SameItems
    <3>2. \A k \in Items : Promised(k)' = Promised(k)
      BY <3>1 DEF Promised
    <3> QED
      BY <3>1, <3>2, NobodyMoves
  <2> QED
    BY <2>1, <2>2, <2>3 DEF Next
<1> QED
  BY <1>1, <1>2, Always, PTL DEF Spec, ImplementsTaskOrder, Abstract!Spec

=============================================================================
