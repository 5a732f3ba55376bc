--------------------------- MODULE Barrier_proofs ---------------------------
(***************************************************************************)
(* Proofs about Barrier, for every team of the sizes it models, every       *)
(* number of branches and every pair of patterns: the patterns agree on     *)
(* parents and children, nobody leaves early, the reduction is complete and *)
(* no wake-up is lost.                                                      *)
(***************************************************************************)
EXTENDS Barrier, FiniteSetTheorems, WellFoundedInduction, TLAPS

-----------------------------------------------------------------------------
(* Division, and the powers of the number of branches.                      *)

(* 1 << branch_bits *)
Factors == {2, 4, 8, 16, 32}

(* a is q times b and a remainder *)
Splits(a, b, q, r) == a = b * q + r /\ r \in 0..b-1

LEMMA DivMod ==
  ASSUME NEW a \in Nat, NEW b \in Nat \ {0}, NEW q \in Nat, NEW r \in Nat, Splits(a, b, q, r)
  PROVE  a \div b = q /\ a % b = r
<1> DEFINE x == a \div b
           y == a % b
<1>1. x \in Nat /\ y \in 0..b-1 /\ a = b * x + y
  OBVIOUS
<1>2. ASSUME NEW u \in Nat, NEW v \in Nat, u < v PROVE b * u + b <= b * v
  <2>1. PICK d \in Nat : v = u + 1 + d
    BY <1>2
  <2>2. b * v = b * u + b + b * d /\ b * d >= 0
    BY <2>1
  <2> QED
    BY <2>2
<1>3. ~(x < q) /\ ~(q < x)
  BY <1>1, <1>2 DEF Splits
<1> QED
  BY <1>1, <1>3 DEF Splits

LEMMA DivModIs ==
  ASSUME NEW a \in Nat, NEW b \in Nat \ {0}
  PROVE  a = b * (a \div b) + (a % b) /\ a \div b \in Nat /\ a % b \in 0..b-1
<1>1. a \div b \in Nat
  OBVIOUS
<1>2. a % b \in 0..b-1
  OBVIOUS
<1>3. a = b * (a \div b) + (a % b)
  OBVIOUS
<1> QED
  BY <1>1, <1>2, <1>3

LEMMA Chained ==
  ASSUME NEW f \in Nat \ {0}, NEW q \in Nat \ {0}, NEW c \in Nat, c % q = 0, (c \div q) % f = 0
  PROVE  c % (q * f) = 0
<1>1. PICK x \in Nat : x = c \div q /\ c = q * x
  OBVIOUS
<1>2. PICK y \in Nat : x = f * y
  <2>1. x % f = 0
    BY <1>1
  <2>2. x = f * (x \div f) + (x % f) /\ x \div f \in Nat
    BY DivModIs
  <2>3. PICK z \in Nat : z = x \div f
    BY <2>2
  <2>4. f * z \in Nat /\ x = f * z + 0
    BY <2>1, <2>2, <2>3
  <2> QED
    BY <2>4
<1>3. PICK b \in Nat \ {0} : b = q * f
  OBVIOUS
<1>4. c = q * (f * y)
  BY <1>1, <1>2
<1>5. q * (f * y) = (q * f) * y
  BY <1>2
<1>6. Splits(c, b, y, 0)
  BY <1>3, <1>4, <1>5 DEF Splits
<1>7. c % b = 0
  BY <1>6, DivMod
<1> QED
  BY <1>3, <1>7

(* c is the k-th child of t at the level of distance p.                     *)
Below(c, t, k, p, f) == c = t + k * p /\ t % (p * f) = 0

(* The power p is above the power q.                                        *)
Above(p, q, f) == \E e \in Nat : p = (q * f) * e

LEMMA Digits ==
  ASSUME NEW f \in Nat \ {0, 1}, NEW p \in Nat \ {0}, NEW c \in Nat, NEW t \in Nat,
         NEW k \in 1..f-1, Below(c, t, k, p, f)
  PROVE  /\ (c \div p) % f = k /\ t = c - (c % (p * f))
         /\ \A q \in Nat : Above(p, q, f) => (c \div q) % f = 0
<1>1. PICK b \in Nat \ {0} : b = p * f
  OBVIOUS
<1>2. PICK m \in Nat : t = b * m
  BY <1>1 DEF Below
<1>3. PICK x \in Nat : x = f * m + k
  OBVIOUS
<1>4. c = p * x + 0
  BY <1>1, <1>2, <1>3 DEF Below
<1>5. Splits(c, p, x, 0) /\ Splits(x, f, m, k) /\ k \in Nat
  BY <1>3, <1>4 DEF Splits
<1>6. c \div p = x /\ x % f = k
  BY <1>5, DivMod
<1>7. PICK r \in 0..b-1 : r = k * p
  <2>1. PICK d \in Nat : f = k + 1 + d
    OBVIOUS
  <2>2. p * f = k * p + p + p * d /\ p * d >= 0 /\ k * p >= 0
    BY <2>1
  <2> QED
    BY <1>1, <2>2
<1>8. c % b = r
  <2>1. Splits(c, b, m, r) /\ r \in Nat
    BY <1>2, <1>7 DEF Splits, Below
  <2> QED
    BY <2>1, DivMod
<1>9. ASSUME NEW q \in Nat, Above(p, q, f)
      PROVE  (c \div q) % f = 0
  <2>0. PICK e \in Nat : p = (q * f) * e
    BY <1>9 DEF Above
  <2>1. PICK z \in Nat : z = e * x
    OBVIOUS
  <2>2. PICK y \in Nat : y = f * z
    OBVIOUS
  <2>3. q # 0
    BY <2>0
  <2>4. p * x = ((q * f) * e) * x
    BY <2>0
  <2>5. ((q * f) * e) * x = q * (f * (e * x))
    OBVIOUS
  <2>6. c = q * y + 0
    BY <1>4, <2>1, <2>2, <2>4, <2>5
  <2>7. Splits(c, q, y, 0) /\ Splits(y, f, z, 0)
    BY <2>2, <2>3, <2>6 DEF Splits
  <2> QED
    BY <2>3, <2>7, DivMod
<1>10. t = c - (c % b)
  <2>1. c = t + r
    BY <1>7 DEF Below
  <2>2. t = c - r
    BY <2>1
  <2> QED
    BY Zenon, <1>8, <2>2
<1> QED
  BY <1>1, <1>6, <1>9, <1>10

LEMMA PowersAre ==
  ASSUME NEW f \in Factors, NEW n \in 1..64, NEW p
  PROVE  p \in Powers(f, n) <=>
           p \in {1, f, f*f, f*f*f, f*f*f*f, f*f*f*f*f} /\ p < n
<1>1. f^0 = 1 /\ f^1 = f /\ f^2 = f*f /\ f^3 = f*f*f /\ f^4 = f*f*f*f /\ f^5 = f*f*f*f*f
  <2>1. CASE f = 2
    BY <2>1
  <2>2. CASE f = 4
    BY <2>2
  <2>3. CASE f = 8
    BY <2>3
  <2>4. CASE f = 16
    BY <2>4
  <2>5. CASE f = 32
    BY <2>5
  <2> QED
    BY <2>1, <2>2, <2>3, <2>4, <2>5 DEF Factors
<1>2. p \in Powers(f, n) <=> \E l \in 0..MaxLevels-1 : f^l < n /\ p = f^l
  BY Zenon DEF Powers
<1>3. 0..MaxLevels-1 = {0, 1, 2, 3, 4, 5}
  BY DEF MaxLevels
<1>4. ASSUME NEW l \in {0, 1, 2, 3, 4, 5}, f^l < n, p = f^l
      PROVE  p \in {1, f, f*f, f*f*f, f*f*f*f, f*f*f*f*f} /\ p < n
  BY <1>1, <1>4
<1>5. ASSUME p \in {1, f, f*f, f*f*f, f*f*f*f, f*f*f*f*f}, p < n
      PROVE  \E l \in {0, 1, 2, 3, 4, 5} : f^l < n /\ p = f^l
  BY <1>1, <1>5
<1> QED
  BY <1>2, <1>3, <1>4, <1>5

LEMMA Smallest ==
  ASSUME NEW S \in SUBSET Nat, NEW x \in S, \A y \in S : x <= y
  PROVE  Min(S) = x
<1>1. \A y \in S : (\A z \in S : y <= z) => y = x
  OBVIOUS
<1> QED
  BY <1>1 DEF Min

LEMMA PowersFacts ==
  ASSUME NEW f \in Factors, NEW n \in 1..64, NEW p \in Powers(f, n)
  PROVE  /\ p \in Nat \ {0} /\ p < n
         /\ \A q \in Powers(f, n) : q < p => Above(p, q, f)
<1> DEFINE S == {1, f, f*f, f*f*f, f*f*f*f, f*f*f*f*f}
<1>1. f \in Nat \ {0, 1}
  BY DEF Factors
<1>2. p \in S /\ p < n
  BY PowersAre
<1>3. p \in Nat \ {0}
  BY <1>1, <1>2
<1>4. ASSUME NEW q \in Powers(f, n), q < p
      PROVE  Above(p, q, f)
  <2>1. q \in S
    BY PowersAre
  <2>2. \E e \in {1, 2, 4, 8, 16} : p = (q * f) * e
    <3>1. CASE f = 2
      <4>1. p \in {1, 2, 4, 8, 16, 32} /\ q \in {1, 2, 4, 8, 16, 32}
        BY <1>2, <2>1, <3>1
      <4> QED
        BY <1>4, <3>1, <4>1
    <3>2. CASE f = 4
      <4>1. p \in {1, 4, 16} /\ q \in {1, 4, 16}
        BY <1>2, <1>4, <2>1, <3>2
      <4> QED
        BY <1>4, <3>2, <4>1
    <3>3. CASE f \in {8, 16, 32}
      <4>1. p \in {1, f} /\ q \in {1, f}
        BY <1>2, <1>4, <2>1, <3>3
      <4> QED
        BY <1>1, <1>4, <4>1
    <3> QED
      BY <3>1, <3>2, <3>3 DEF Factors
  <2> QED
    BY <2>2 DEF Above
<1> QED
  BY <1>2, <1>3, <1>4

LEMMA SomeDigit ==
  ASSUME NEW f \in Factors, NEW n \in 1..64, NEW c \in 1..n-1
  PROVE  \E p \in Powers(f, n) :
           /\ (c \div p) % f # 0
           /\ \A q \in Powers(f, n) : q < p => (c \div q) % f = 0
<1>1. CASE f = 2
  <2>1. \A p : p \in Powers(f, n) <=> p \in {1, 2, 4, 8, 16, 32} /\ p < n
    BY <1>1, PowersAre
  <2>2. PICK p \in {1, 2, 4, 8, 16, 32} :
          /\ p < n /\ (c \div p) % f # 0
          /\ \A q \in {1, 2, 4, 8, 16, 32} : q < p => (c \div q) % f = 0
    BY <1>1
  <2>3. p \in Powers(f, n) /\ \A q \in Powers(f, n) : q < p => (c \div q) % f = 0
    BY <2>1, <2>2
  <2> QED
    BY <2>2, <2>3
<1>2. CASE f = 4
  <2>1. \A p : p \in Powers(f, n) <=> p \in {1, 4, 16} /\ p < n
    BY <1>2, PowersAre
  <2>2. PICK p \in {1, 4, 16} :
          /\ p < n /\ (c \div p) % f # 0
          /\ \A q \in {1, 4, 16} : q < p => (c \div q) % f = 0
    BY <1>2
  <2>3. p \in Powers(f, n) /\ \A q \in Powers(f, n) : q < p => (c \div q) % f = 0
    BY <2>1, <2>2
  <2> QED
    BY <2>2, <2>3
<1>3. ASSUME f \in {8, 16, 32}
      PROVE  \E p \in Powers(f, n) :
               /\ (c \div p) % f # 0
               /\ \A q \in Powers(f, n) : q < p => (c \div q) % f = 0
  <2>1. \A p : p \in Powers(f, n) <=> p \in {1, f} /\ p < n
    BY <1>3, PowersAre
  <2>2. \E p \in {1, f} :
          /\ p < n /\ (c \div p) % f # 0
          /\ \A q \in {1, f} : q < p => (c \div q) % f = 0
    BY <1>3
  <2> QED
    BY <2>1, <2>2
<1> QED
  BY <1>1, <1>2, <1>3 DEF Factors

LEMMA NoLowerDigits ==
  ASSUME NEW f \in Factors, NEW n \in 1..64, NEW c \in Nat, NEW p \in Powers(f, n),
         \A q \in Powers(f, n) : q < p => (c \div q) % f = 0
  PROVE  c % p = 0
<1>1. f \in Nat \ {0} /\ n \in Nat /\ p \in Nat /\ p < n
  BY PowersFacts DEF Factors
<1>2. PICK a \in Nat \ {0} : a = f * f
  BY <1>1
<1>3. PICK b \in Nat \ {0} : b = a * f
  BY <1>1
<1>4. PICK d \in Nat \ {0} : d = b * f
  BY <1>1
<1>5. PICK e \in Nat \ {0} : e = d * f
  BY <1>1
<1>6. 1 < f /\ f < a /\ a < b /\ b < d /\ d < e
  BY <1>2, <1>3, <1>4, <1>5 DEF Factors
<1>7. \A q : q \in Powers(f, n) <=> q \in {1, f, a, b, d, e} /\ q < n
  BY <1>2, <1>3, <1>4, <1>5, PowersAre
<1>8. \A q \in {1, f, a, b, d, e} : q < p => (c \div q) % f = 0
  BY <1>1, <1>7
<1>9. ASSUME NEW q \in {1, f, a, b, d, e}, NEW r \in Nat, r = q * f, q < p, c % q = 0
      PROVE  c % r = 0
  <2>1. (c \div q) % f = 0 /\ q \in Nat \ {0}
    BY <1>1, <1>8, <1>9
  <2> QED
    BY <1>1, <1>9, <2>1, Chained
<1>10. c % 1 = 0 /\ f = 1 * f
  BY <1>1
<1>11. 1 < p => c % f = 0
  BY <1>1, <1>9, <1>10
<1>12. f < p => c % a = 0
  BY <1>1, <1>2, <1>6, <1>9, <1>11
<1>13. a < p => c % b = 0
  BY <1>1, <1>3, <1>6, <1>9, <1>12
<1>14. b < p => c % d = 0
  BY <1>1, <1>4, <1>6, <1>9, <1>13
<1>15. d < p => c % e = 0
  BY <1>1, <1>5, <1>6, <1>9, <1>14
<1> QED
  BY <1>6, <1>7, <1>10, <1>11, <1>12, <1>13, <1>14, <1>15

LEMMA HyperParent ==
  ASSUME NEW f \in Factors, NEW n \in 1..64, NEW c \in 1..n-1, NEW p \in Powers(f, n),
         (c \div p) % f # 0, \A q \in Powers(f, n) : q < p => (c \div q) % f = 0
  PROVE  Parent("hyper", c, n, f) = c - (c % (p * f))
<1> DEFINE S == {q \in Powers(f, n) : (c \div q) % f # 0}
<1>1. \A q \in Powers(f, n) : q \in Nat
  BY PowersFacts
<1>2. S \in SUBSET Nat /\ p \in S /\ \A q \in S : p <= q
  BY <1>1
<1>3. Min(S) = p
  <2> HIDE DEF S
  <2> QED
    BY <1>2, Smallest
<1> QED
  BY <1>3 DEF Parent

LEMMA HyperShape ==
  ASSUME NEW f \in Factors, NEW n \in 1..64, NEW c \in 1..n-1
  PROVE  \E p \in Powers(f, n), k \in 1..f-1, t \in 0..c-1 :
           Below(c, t, k, p, f) /\ Parent("hyper", c, n, f) = t
<1>1. PICK p \in Powers(f, n) :
        /\ (c \div p) % f # 0
        /\ \A q \in Powers(f, n) : q < p => (c \div q) % f = 0
  BY SomeDigit
<1>2. f \in Nat \ {0, 1} /\ p \in Nat \ {0} /\ c \in Nat
  BY PowersFacts DEF Factors
<1>3. PICK x \in Nat : x = c \div p /\ c = p * x
  <2>1. c % p = 0
    BY <1>1, <1>2, NoLowerDigits
  <2>2. c = p * (c \div p) + (c % p) /\ c \div p \in Nat
    BY <1>2, DivModIs
  <2> QED
    BY <1>2, <2>1, <2>2
<1>4. PICK y \in Nat, k \in 1..f-1 : x = f * y + k
  <2>1. x = f * (x \div f) + (x % f) /\ x \div f \in Nat /\ x % f \in 0..f-1
    BY <1>2, DivModIs
  <2>2. x % f # 0
    BY <1>1, <1>3
  <2> QED
    BY <1>2, <2>1, <2>2
<1>5. PICK b \in Nat \ {0} : b = p * f
  BY <1>2
<1>6. PICK t \in Nat : t = b * y
  BY <1>5
<1>7. c = t + k * p
  <2>1. p * (f * y + k) = (p * f) * y + k * p
    BY <1>2, <1>4
  <2> QED
    BY <1>3, <1>4, <1>5, <1>6, <2>1
<1>8. t % b = 0
  <2>1. Splits(t, b, y, 0)
    BY <1>5, <1>6 DEF Splits
  <2> QED
    BY <1>4, <2>1, DivMod
<1>9. t \in 0..c-1
  <2>1. k * p \in Nat \ {0}
    BY <1>2, <1>4
  <2> QED
    BY <1>2, <1>6, <1>7, <2>1
<1>10. Below(c, t, k, p, f)
  BY <1>5, <1>7, <1>8 DEF Below
<1>11. t = c - (c % (p * f))
  BY <1>2, <1>10, Digits
<1>12. Parent("hyper", c, n, f) = t
  BY <1>1, <1>11, HyperParent
<1> QED
  BY <1>9, <1>10, <1>12

LEMMA HyperKids ==
  ASSUME NEW f \in Factors, NEW n \in 1..64, NEW t \in 0..n-1, NEW c \in 1..n-1,
         NEW p \in Powers(f, n), NEW k \in 1..f-1, Below(c, t, k, p, f)
  PROVE  Parent("hyper", c, n, f) = t
<1>1. f \in Nat \ {0, 1} /\ p \in Nat \ {0} /\ c \in Nat /\ t \in Nat
  BY PowersFacts DEF Factors
<1>2. (c \div p) % f = k /\ t = c - (c % (p * f))
  BY <1>1, Digits
<1>3. ASSUME NEW q \in Powers(f, n), q < p
      PROVE  (c \div q) % f = 0
  <2>1. q \in Nat /\ Above(p, q, f)
    BY <1>3, PowersFacts
  <2> QED
    BY <1>1, <2>1, Digits
<1>4. (c \div p) % f # 0
  BY <1>1, <1>2
<1> QED
  BY Zenon, <1>2, <1>3, <1>4, HyperParent

(***************************************************************************)
(* The parents are below their children, and the threads that a thread      *)
(* waits for and releases are those that take it for their parent.          *)
(***************************************************************************)
LEMMA OneTree ==
  ASSUME NEW p \in Patterns, NEW f \in Factors, NEW n \in 1..64
  PROVE  /\ \A c \in 1..n-1 : Parent(p, c, n, f) \in 0..c-1
         /\ \A t \in 0..n-1 : Agree(p, t, n, f)
<1>1. f \in Nat \ {0, 1}
  BY DEF Factors
<1>2. CASE p = "linear"
  BY <1>2 DEF Agree, Parent, GatherKids, ReleaseKids
<1>3. CASE p = "tree"
  <2>1. ASSUME NEW c \in 1..n-1
        PROVE  /\ (c - 1) \div f \in 0..c-1
               /\ \A t \in 0..n-1 : (c - 1) \div f = t <=> \E k \in 1..f : c = t * f + k
    <3>1. PICK a \in Nat : c = a + 1
      OBVIOUS
    <3>2. a = f * (a \div f) + (a % f) /\ a \div f \in Nat /\ a % f \in 0..f-1
      BY <1>1, DivModIs
    <3>3. PICK q \in Nat, r \in 0..f-1 : a = f * q + r /\ q = a \div f
      BY <3>2
    <3>4. q <= a
      BY <1>1, <3>3
    <3>5. ASSUME NEW t \in 0..n-1, NEW k \in 1..f, c = t * f + k
          PROVE  q = t
      <4>1. PICK j \in 0..f-1 : k = j + 1
        BY <1>1
      <4>2. a = f * t + j
        BY <1>1, <3>1, <3>5, <4>1
      <4>3. Splits(a, f, t, j)
        BY <4>2 DEF Splits
      <4> QED
        BY <1>1, <3>3, <4>3, DivMod
    <3>6. c = q * f + (r + 1) /\ r + 1 \in 1..f
      BY <1>1, <3>1, <3>3
    <3>7. a = c - 1
      BY <3>1
    <3> QED
      BY <3>1, <3>3, <3>4, <3>5, <3>6, <3>7
  <2> QED
    BY <1>3, <2>1 DEF Agree, Parent, GatherKids, ReleaseKids
<1>4. CASE p = "hyper"
  <2>0. \A c \in 1..n-1 :
          \E q \in Powers(f, n), k \in 1..f-1, t \in 0..c-1 :
            Below(c, t, k, q, f) /\ Parent(p, c, n, f) = t
    BY <1>4, HyperShape
  <2>1. \A c \in 1..n-1 : Parent(p, c, n, f) \in 0..c-1
    BY <2>0
  <2>2. ASSUME NEW t \in 0..n-1
        PROVE  GatherKids(p, t, n, f) = {c \in 1..n-1 : Parent(p, c, n, f) = t}
    <3>1. ASSUME NEW c \in 1..n-1
          PROVE  Parent(p, c, n, f) = t <=>
                 \E q \in Levels(t, n, f), k \in 1..f-1 : c = t + k * q
      <4>1. ASSUME Parent(p, c, n, f) = t
            PROVE  \E q \in Levels(t, n, f), k \in 1..f-1 : c = t + k * q
        BY <2>0, <4>1 DEF Levels, Below
      <4>2. ASSUME NEW q \in Levels(t, n, f), NEW k \in 1..f-1, c = t + k * q
            PROVE  Parent(p, c, n, f) = t
        <5>1. q \in Powers(f, n) /\ Below(c, t, k, q, f)
          BY <4>2 DEF Levels, Below
        <5> QED
          BY <1>4, <4>2, <5>1, HyperKids
      <4> QED
        BY <4>1, <4>2
    <3> QED
      BY <1>4, <3>1 DEF GatherKids
  <2>3. ASSUME NEW t \in 0..n-1
        PROVE  ReleaseKids(p, t, n, f) = GatherKids(p, t, n, f)
    <3>1. ASSUME NEW q \in Levels(t, n, f)
          PROVE  /\ Highest(n, q, f) \in Nat /\ Highest(n, q, f) <= f - 1
                 /\ \A k \in 1..f-1 : t + k * q < n => k <= Highest(n, q, f)
      <4>1. q \in Nat \ {0}
        BY PowersFacts DEF Levels
      <4>2. PICK m \in Nat : /\ m = IF q = 1 THEN n ELSE n \div (q \div 2)
                             /\ \A k \in 1..f-1 : t + k * q < n => k <= m
        <5>1. CASE q = 1
          BY <5>1
        <5>2. CASE q # 1
          <6>1. PICK h \in Nat \ {0} : h = q \div 2 /\ h <= q
            BY <4>1, <5>2
          <6>2. PICK m \in Nat, r \in 0..h-1 : m = n \div h /\ n = h * m + r
            <7>0. n \in Nat
              OBVIOUS
            <7>1. n = h * (n \div h) + (n % h) /\ n \div h \in Nat /\ n % h \in 0..h-1
              BY <7>0, DivModIs
            <7> QED
              BY Zenon, <7>1
          <6>3. ASSUME NEW k \in 1..f-1, t + k * q < n, m < k PROVE FALSE
            <7>1. PICK d \in Nat : k = m + 1 + d
              BY <1>1, <6>3
            <7>2. PICK e \in Nat : q = h + e
              BY <4>1, <6>1
            <7>3. k * q = (h * m + h) + h * d + k * e
              BY <7>1, <7>2
            <7>4. h * d \in Nat /\ k * e \in Nat /\ h * m \in Nat /\ k * q \in Nat
              BY <1>1, <4>1, <7>1, <7>2
            <7> QED
              BY <6>2, <6>3, <7>3, <7>4
          <6>4. \A k \in 1..f-1 : t + k * q < n => k <= m
            BY <1>1, <6>3
          <6> QED
            BY <5>2, <6>1, <6>2, <6>4
        <5> QED
          BY <5>1, <5>2
      <4>3. \/ m <= f - 1 /\ Highest(n, q, f) = m
            \/ f - 1 <= m /\ Highest(n, q, f) = f - 1
        <5>1. {m, f - 1} \in SUBSET Nat /\ Highest(n, q, f) = Min({m, f - 1})
          BY <1>1, <4>2 DEF Highest
        <5>2. CASE m <= f - 1
          BY <5>1, <5>2, <1>1, Smallest
        <5>3. CASE f - 1 <= m
          BY <5>1, <5>3, <1>1, Smallest
        <5> QED
          BY <1>1, <5>2, <5>3
      <4> QED
        BY <1>1, <4>2, <4>3
    <3>2. ASSUME NEW c \in 1..n-1, NEW q \in Levels(t, n, f)
          PROVE  (\E k \in 1..Highest(n, q, f) : c = t + k * q) <=>
                 (\E k \in 1..f-1 : c = t + k * q)
      BY <1>1, <3>1, <3>2
    <3> QED
      BY <1>4, <3>2 DEF GatherKids, ReleaseKids
  <2> QED
    BY <2>1, <2>2, <2>3 DEF Agree
<1> QED
  BY <1>2, <1>3, <1>4 DEF Patterns
-----------------------------------------------------------------------------
(* The inductive invariant.  A thread is late while it has yet to leave the *)
(* barrier whose gather was the last to be complete.                        *)

GatherParent(t)  == Parent(pattern["gather"], t, N, 2^GatherBits)
ReleaseParent(t) == Parent(pattern["release"], t, N, 2^ReleaseBits)

PCs        == {"work", "gather", "arrived", "wait_go", "release", "released"}
Late(t)    == left[t] # team_arrived
Arrived(t) == pc[t] \in {"arrived", "wait_go"}
Here(t)    == ~Late(t) /\ pc[t] # "work"

(* What a thread and its flags hold where it is.                            *)
Control ==
  \A t \in Tids :
    /\ entered[t] = IF pc[t] = "work" THEN left[t] ELSE left[t] + 1
    /\ Late(t) => left[t] + 1 = team_arrived /\ pc[t] \notin {"work", "gather"}
    /\ ~Late(t) => pc[t] \notin {"release", "released"}
    /\ t = 0 => ~Arrived(t)
    /\ pc[t] \notin {"gather", "release", "released"} => kids[t] = {}
    /\ pc[t] = "gather" =>
         /\ new_state[t] = team_arrived + 1
         /\ \A c \in kids[t] : c # 0 /\ GatherParent(c) = t
    /\ pc[t] \in {"release", "released"} => \A c \in kids[t] : c # 0 /\ ReleaseParent(c) = t
    /\ pc[t] = "released" => kids[t] # {}
    /\ t # 0 => arrived[t].state = IF pc[t] \in {"work", "gather"} THEN left[t] ELSE left[t] + 1
    /\ go[t].state = 1 => Late(t) /\ Arrived(t)

(* A parent has passed its child only when that has arrived.                *)
Collected(c) == c # 0 /\ Here(GatherParent(c)) /\ c \notin kids[GatherParent(c)]

Gathers == \A c \in Tids : Collected(c) => ~Late(c) /\ Arrived(c)

(* A thread that its parent has yet to release waits for that.              *)
ToRelease(q, c) ==
  /\ Late(q)
  /\ Arrived(q) \/ (c \in kids[q] /\ ~(pc[q] = "released" /\ c = Target(q)))

Releases ==
  \A c \in Tids \ {0} :
    ToRelease(ReleaseParent(c), c) => Late(c) /\ Arrived(c) /\ go[c].state = 0

(* The data of every thread that is here is at exactly one thread that its  *)
(* parent has not passed, and there once.                                   *)
Holds(t, u) == reduce_data[t][u] = 1
Top(t)      == Here(t) /\ ~Collected(t)

Combined ==
  /\ \A t \in Tids : Here(t) =>
       \A u \in Tids : reduce_data[t][u] \in {0, 1} /\ (Holds(t, u) => Here(u))
  /\ \A u \in Tids : Here(u) => \E t \in Tids : Top(t) /\ Holds(t, u)
  /\ \A t, v \in Tids :
       t # v /\ Top(t) /\ Top(v) => \A u \in Tids : ~(Holds(t, u) /\ Holds(v, u))

(* Who sleeps has set the bit where its waker will find it.                 *)
WaitsBelow(t) ==
  /\ Gathering(t)
  /\ arrived[Child(t)].sleep
  /\ arrived[Child(t)].state = new_state[t] => pc[Child(t)] = "arrived"

WaitsForGo(t) ==
  /\ pc[t] = "wait_go"
  /\ go[t].sleep
  /\ go[t].state = 1 => \E u \in Tids : pc[u] = "released" /\ Target(u) = t

Sleepers == \A t \in asleep : WaitsBelow(t) \/ WaitsForGo(t)

IInv ==
  /\ TypeOK /\ Control /\ Gathers /\ Releases
  /\ Combined /\ ReductionComplete /\ Sleepers

-----------------------------------------------------------------------------
(* Threads, children and flags.                                             *)

LEMMA LeastNumber ==
  ASSUME NEW S \in SUBSET Nat, S # {}
  PROVE  \E x \in S : \A y \in S : x <= y
<1> DEFINE R == {ss \in Nat \X Nat : ss[1] < ss[2]}
<1>1. IsWellFoundedOn(R, Nat)
  BY NatLessThanWellFounded DEF OpToRel
<1>2. PICK x \in S : \A y \in S : ~(<<y, x>> \in R)
  <2> HIDE DEF R
  <2> QED
    BY <1>1, WFMin
<1>3. ASSUME NEW y \in S, y < x PROVE FALSE
  <2>1. <<y, x>> \in Nat \X Nat /\ <<y, x>>[1] < <<y, x>>[2]
    BY <1>3
  <2>2. <<y, x>> \in R
    BY <2>1
  <2> QED
    BY <2>2, <1>2
<1> QED
  BY <1>3

LEMMA EndsOfSets ==
  ASSUME NAssumption, NEW S \in SUBSET Tids, S # {}
  PROVE  Min(S) \in S /\ Max(S) \in S
<1>1. S \in SUBSET Nat /\ N \in Nat /\ \A x \in S : x <= N
  BY DEF NAssumption, Tids
<1>2. Min(S) \in S
  BY <1>1, LeastNumber DEF Min
<1>3. \E x \in S : \A y \in S : x >= y
  <2> DEFINE T == {y \in 0..N : N - y \in S}
  <2>1. T \in SUBSET Nat /\ \A x \in S : N - x \in T
    BY <1>1
  <2>2. T # {}
    BY <2>1
  <2>3. PICK y \in T : \A z \in T : y <= z
    BY <2>1, <2>2, LeastNumber
  <2>4. \A x \in S : y <= N - x
    BY <2>1, <2>3
  <2> QED
    BY <1>1, <2>3, <2>4
<1>4. Max(S) \in S
  BY <1>3 DEF Max
<1> QED
  BY <1>2, <1>4

LEMMA Family ==
  ASSUME NAssumption, BitsAssumption, TypeOK
  PROVE  /\ \A c \in Tids \ {0} :
              /\ GatherParent(c) \in Tids /\ GatherParent(c) < c
              /\ ReleaseParent(c) \in Tids /\ ReleaseParent(c) < c
         /\ \A t \in Tids :
              /\ GatherKids(pattern["gather"], t, N, 2^GatherBits)
                   = {c \in Tids \ {0} : GatherParent(c) = t}
              /\ ReleaseKids(pattern["release"], t, N, 2^ReleaseBits)
                   = {c \in Tids \ {0} : ReleaseParent(c) = t}
<1>1. \A b \in 1..5 : 2^b \in Factors
  <2>1. ASSUME NEW b \in {1, 2, 3, 4, 5} PROVE 2^b \in Factors
    <3>1. 2^1 = 2 /\ 2^2 = 4 /\ 2^3 = 8 /\ 2^4 = 16 /\ 2^5 = 32
      OBVIOUS
    <3> QED
      BY <3>1 DEF Factors
  <2>2. 1..5 = {1, 2, 3, 4, 5}
    OBVIOUS
  <2> QED
    BY Zenon, <2>1, <2>2
<1>2. 2^GatherBits \in Factors /\ 2^ReleaseBits \in Factors
  BY <1>1 DEF BitsAssumption
<1>3. /\ pattern["gather"] \in Patterns /\ pattern["release"] \in Patterns
      /\ N \in 1..64 /\ Tids = 0..N-1 /\ Tids \ {0} = 1..N-1
  <2>1. pattern \in [{"gather", "release"} -> Patterns]
    BY DEF TypeOK
  <2>2. N \in 1..64 /\ Tids = 0..N-1 /\ Tids \ {0} = 1..N-1
    BY DEF NAssumption, Tids
  <2> QED
    BY <2>1, <2>2
<1>4. ASSUME NEW p \in Patterns, NEW f \in Factors
      PROVE  /\ \A c \in Tids \ {0} : Parent(p, c, N, f) \in Tids /\ Parent(p, c, N, f) < c
             /\ \A t \in Tids :
                  /\ GatherKids(p, t, N, f) = {c \in Tids \ {0} : Parent(p, c, N, f) = t}
                  /\ ReleaseKids(p, t, N, f) = {c \in Tids \ {0} : Parent(p, c, N, f) = t}
  <2>1. /\ \A c \in 1..N-1 : Parent(p, c, N, f) \in 0..c-1
        /\ \A t \in 0..N-1 : Agree(p, t, N, f)
    BY <1>3, OneTree
  <2> QED
    BY <1>3, <2>1 DEF Agree
<1>5. PICK f \in Factors, g \in Factors : f = 2^GatherBits /\ g = 2^ReleaseBits
  BY <1>2
<1>6. PICK p \in Patterns, q \in Patterns : p = pattern["gather"] /\ q = pattern["release"]
  BY <1>3
<1> QED
  BY <1>4, <1>5, <1>6 DEF GatherParent, ReleaseParent

LEMMA FlagFacts ==
  ASSUME NEW S \in SUBSET Nat, NEW flag \in [state : S, sleep : BOOLEAN]
  PROVE  /\ flag.state \in S /\ flag.sleep \in BOOLEAN
         /\ Bump(flag) = [state |-> flag.state + 1, sleep |-> flag.sleep]
         /\ Clear(flag) = [state |-> flag.state, sleep |-> FALSE]
<1>1. PICK a \in S, b \in BOOLEAN : flag = [state |-> a, sleep |-> b]
  OBVIOUS
<1>2. flag.state = a /\ flag.sleep = b
  BY <1>1
<1>3. [flag EXCEPT !.state = @ + 1] = [state |-> a + 1, sleep |-> b]
  BY <1>1
<1>4. [flag EXCEPT !.sleep = FALSE] = [state |-> a, sleep |-> FALSE]
  <2>1. \A z \in BOOLEAN : [flag EXCEPT !.sleep = z] = [state |-> a, sleep |-> z]
    BY <1>1
  <2>2. PICK z \in BOOLEAN : z = FALSE
    OBVIOUS
  <2> QED
    BY <2>1, <2>2
<1> QED
  BY <1>2, <1>3, <1>4 DEF Bump, Clear

LEMMA Numbers ==
  ASSUME NAssumption, RoundsAssumption
  PROVE  0 \in Tids /\ Tids \subseteq Nat /\ MaxRounds \in Nat
BY DEF NAssumption, RoundsAssumption, Tids

LEMMA Steady ==
  ASSUME UNCHANGED <<pattern, left, team_arrived>>
  PROVE  \A t \in Tids :
           /\ Late(t)' <=> Late(t)
           /\ GatherParent(t)' = GatherParent(t)
           /\ ReleaseParent(t)' = ReleaseParent(t)
BY DEF Late, GatherParent, ReleaseParent

LEMMA CombinedSame ==
  ASSUME Combined, UNCHANGED reduce_data,
         \A t \in Tids : (Here(t)' <=> Here(t)) /\ (Collected(t)' <=> Collected(t))
  PROVE  Combined'
<1>1. \A t \in Tids : Top(t)' <=> Top(t)
  BY DEF Top
<1>2. \A t, u \in Tids : Holds(t, u)' <=> Holds(t, u)
  BY DEF Holds
<1> QED
  BY <1>1, <1>2 DEF Combined

LEMMA Kids ==
  ASSUME NAssumption, TypeOK, NEW t \in Tids, kids[t] # {}
  PROVE  Child(t) \in kids[t] /\ Target(t) \in kids[t]
<1>1. kids[t] \in SUBSET Tids
  BY DEF TypeOK
<1> QED
  BY <1>1, EndsOfSets DEF Child, Target

LEMMA TargetSame ==
  ASSUME NEW t \in Tids, UNCHANGED <<pattern, kids[t]>>
  PROVE  Target(t)' = Target(t) /\ Child(t)' = Child(t)
BY DEF Target, Child

LEMMA EnterStep ==
  ASSUME NAssumption, RoundsAssumption, BitsAssumption, IInv, NEW t \in Tids, Enter(t)
  PROVE  IInv'
<1> USE DEF flags
<1>0. TypeOK /\ Control
  BY DEF IInv
<1>1. /\ pc[t] = "work" /\ entered[t] < MaxRounds
      /\ UNCHANGED <<pattern, flags, asleep, left>>
  BY DEF Enter, Goto
<1>2. /\ pc' \in [Tids -> PCs]
      /\ \A u \in Tids : pc'[u] = IF u = t THEN "gather" ELSE pc[u]
  BY <1>0 DEF Enter, Goto, Set, TypeOK, PCs
<1>3. /\ ~Late(t) /\ left[t] = team_arrived /\ entered[t] = left[t]
      /\ team_arrived + 1 \in 0..MaxRounds /\ entered[t] + 1 \in 0..MaxRounds
      /\ team_arrived \in Nat
  <2>1. entered[t] \in 0..MaxRounds /\ MaxRounds \in Nat
    BY <1>0, Numbers DEF TypeOK
  <2>2. ~Late(t) /\ entered[t] = left[t]
    BY <1>0, <1>1 DEF Control
  <2>3. left[t] = team_arrived
    BY <2>2 DEF Late
  <2> QED
    BY <1>1, <2>1, <2>2, <2>3
<1>4. /\ entered' \in [Tids -> 0..MaxRounds]
      /\ \A u \in Tids : entered'[u] = IF u = t THEN entered[t] + 1 ELSE entered[u]
  BY <1>0, <1>3 DEF Enter, Set, TypeOK
<1>5. /\ new_state' \in [Tids -> 0..MaxRounds]
      /\ \A u \in Tids : new_state'[u] = IF u = t THEN team_arrived + 1 ELSE new_state[u]
  BY <1>0, <1>3 DEF Enter, Set, TypeOK
<1>6. /\ kids' \in [Tids -> SUBSET Tids]
      /\ \A u \in Tids : u # t => kids'[u] = kids[u]
      /\ kids'[t] = {c \in Tids \ {0} : GatherParent(c) = t}
  <2>1. kids' = Set(kids, t, {c \in Tids \ {0} : GatherParent(c) = t})
    BY <1>0, Family DEF Enter
  <2>2. {c \in Tids \ {0} : GatherParent(c) = t} \in SUBSET Tids
    OBVIOUS
  <2> QED
    BY <1>0, <2>1, <2>2 DEF Set, TypeOK
<1>7. /\ reduce_data' \in [Tids -> [Tids -> Nat]]
      /\ \A u \in Tids : u # t => reduce_data'[u] = reduce_data[u]
      /\ \A u \in Tids : reduce_data'[t][u] = IF u = t THEN 1 ELSE 0
  <2>1. [u \in Tids |-> IF u = t THEN 1 ELSE 0] \in [Tids -> Nat]
    OBVIOUS
  <2> QED
    BY <1>0, <2>1 DEF Enter, Set, TypeOK
<1>8. TypeOK'
  BY <1>0, <1>1, <1>2, <1>4, <1>5, <1>6, <1>7 DEF TypeOK, PCs
<1>9. \A u \in Tids : /\ Late(u)' <=> Late(u)
                      /\ GatherParent(u)' = GatherParent(u)
                      /\ ReleaseParent(u)' = ReleaseParent(u)
                      /\ Arrived(u)' <=> Arrived(u)
                      /\ Here(u)' <=> Here(u) \/ u = t
  <2>1. \A u \in Tids : Late(u)' <=> Late(u)
    BY <1>1, Steady
  <2>2. \A u \in Tids : Arrived(u)' <=> Arrived(u)
    BY <1>1, <1>2 DEF Arrived
  <2> QED
    BY <1>1, <1>2, <1>3, <2>1, <2>2, Steady DEF Here
<1>10. \A u \in Tids : Collected(u)' <=> Collected(u)
  <2>1. ~Here(t)
    BY <1>1 DEF Here
  <2>2. \A u \in Tids \ {0} : GatherParent(u) \in Tids
    BY <1>0, Family
  <2> QED
    BY <1>6, <1>9, <2>1, <2>2 DEF Collected
<1>11. Control'
  <2>1. \A u \in Tids : u # t => UNCHANGED <<pc[u], kids[u], entered[u], new_state[u]>>
    BY <1>2, <1>4, <1>5, <1>6
  <2>2. UNCHANGED <<arrived, go, left, team_arrived>>
    BY <1>1
  <2>3. \A u \in Tids : \A c \in kids[u] : c \in Tids
    BY <1>0 DEF TypeOK
  <2>4. \A c \in kids'[t] : c # 0 /\ GatherParent(c)' = t
    BY <1>6, <1>9
  <2>5. /\ pc'[t] = "gather" /\ entered'[t] = left[t] + 1 /\ new_state'[t] = team_arrived + 1
        /\ t # 0 => arrived[t].state = left[t]
        /\ go[t].state # 1
    BY <1>0, <1>1, <1>2, <1>3, <1>4, <1>5 DEF Control, Arrived
  <2> QED
    BY <1>0, <1>3, <1>9, <2>1, <2>2, <2>3, <2>4, <2>5 DEF Control
<1>12. Gathers'
  BY <1>9, <1>10 DEF IInv, Gathers
<1>13. Releases'
  <2>1. ASSUME NEW c \in Tids \ {0}, ToRelease(ReleaseParent(c), c)'
        PROVE  Late(c)' /\ Arrived(c)' /\ go'[c].state = 0
    <3>1. PICK q \in Tids : q = ReleaseParent(c)
      BY <1>0, Family
    <3>2. ToRelease(q, c)'
      BY <1>9, <2>1, <3>1
    <3>3. q # t
      BY <1>3, <1>9, <3>2 DEF ToRelease
    <3>4. Target(q)' = Target(q)
      BY <1>1, <1>6, <3>3, TargetSame
    <3>5. ToRelease(q, c)
      BY <1>2, <1>6, <1>9, <3>2, <3>3, <3>4 DEF ToRelease
    <3> QED
      BY <1>1, <1>9, <3>1, <3>5 DEF IInv, Releases
  <2> QED
    BY <2>1 DEF Releases
<1>14. Combined'
  <2>1. ~Collected(t) /\ ~Here(t)
    BY <1>1 DEF IInv, Gathers, Arrived, Here
  <2>2. \A u \in Tids : Top(u)' <=> Top(u) \/ u = t
    BY <1>9, <1>10, <2>1 DEF Top
  <2>3. \A v, u \in Tids : v # t => (Holds(v, u)' <=> Holds(v, u))
    BY <1>7 DEF Holds
  <2>4. \A u \in Tids : Holds(t, u)' <=> u = t
    BY <1>7 DEF Holds
  <2>5. \A v, u \in Tids : Here(v) /\ Holds(v, u) => u # t
    BY <2>1 DEF IInv, Combined
  <2>6. \A v \in Tids : Here(v)' =>
          \A u \in Tids : reduce_data'[v][u] \in {0, 1} /\ (Holds(v, u)' => Here(u)')
    BY <1>7, <1>9, <2>3, <2>4 DEF IInv, Combined
  <2>7. \A u \in Tids : Here(u)' => \E v \in Tids : Top(v)' /\ Holds(v, u)'
    <3>1. ~Top(t)
      BY <2>1 DEF Top
    <3> QED
      BY <1>9, <2>2, <2>3, <2>4, <3>1 DEF IInv, Combined
  <2>8. \A v, w \in Tids : v # w /\ Top(v)' /\ Top(w)' =>
          \A u \in Tids : ~(Holds(v, u)' /\ Holds(w, u)')
    BY <2>2, <2>3, <2>4, <2>5 DEF IInv, Combined, Top
  <2> QED
    BY <2>6, <2>7, <2>8 DEF Combined
<1>15. ReductionComplete'
  BY <1>1, <1>2, <1>7, Numbers DEF IInv, ReductionComplete
<1>16. Sleepers'
  <2>1. SUFFICES ASSUME NEW w \in asleep PROVE (WaitsBelow(w) \/ WaitsForGo(w))'
    BY <1>1 DEF Sleepers
  <2>2. w \in Tids /\ (WaitsBelow(w) \/ WaitsForGo(w))
    BY <1>0 DEF IInv, Sleepers, TypeOK
  <2>3. w # t
    BY <1>1, <2>2 DEF WaitsBelow, WaitsForGo, Gathering
  <2>4. UNCHANGED <<pc[w], kids[w], new_state[w], Child(w)>>
    BY <1>1, <1>2, <1>5, <1>6, <2>2, <2>3, TargetSame
  <2>5. CASE WaitsBelow(w)
    <3>1. Child(w) \in Tids
      BY <1>0, <2>2, <2>5, Kids DEF WaitsBelow, Gathering, TypeOK
    <3>2. pc[Child(w)] = "arrived" => pc'[Child(w)] = "arrived"
      BY <1>1, <1>2, <3>1
    <3>3. WaitsBelow(w)'
      BY <1>1, <2>4, <2>5, <3>2 DEF WaitsBelow, Gathering
    <3> QED
      BY <3>3
  <2>6. CASE WaitsForGo(w)
    <3>1. \A u \in Tids : pc[u] = "released" => pc'[u] = "released" /\ Target(u)' = Target(u)
      BY <1>1, <1>2, <1>6, TargetSame
    <3>2. WaitsForGo(w)'
      BY <1>1, <2>4, <2>6, <3>1 DEF WaitsForGo
    <3> QED
      BY <3>2
  <2> QED
    BY <2>2, <2>5, <2>6
<1> QED
  BY <1>8, <1>11, <1>12, <1>13, <1>14, <1>15, <1>16 DEF IInv

LEMMA GatherStep ==
  ASSUME NAssumption, RoundsAssumption, BitsAssumption, IInv, NEW t \in Tids, Gather(t)
  PROVE  IInv'
<1> USE DEF flags, counts
<1> DEFINE c == Child(t)
<1>0. TypeOK /\ Control
  BY DEF IInv
<1>1. /\ pc[t] = "gather" /\ kids[t] # {} /\ t \notin asleep
      /\ arrived[c] = Flag(new_state[t], FALSE)
      /\ UNCHANGED <<pattern, flags, pc, new_state, asleep, counts>>
  BY DEF Gather, Gathering
<1>2. c \in kids[t] /\ c \in Tids /\ c # 0 /\ GatherParent(c) = t /\ new_state[t] = team_arrived + 1
  <2>1. c \in kids[t] /\ c \in Tids
    BY <1>0, <1>1, Kids DEF TypeOK
  <2> QED
    BY <1>0, <1>1, <2>1 DEF Control
<1>3. /\ kids' \in [Tids -> SUBSET Tids]
      /\ \A u \in Tids : u # t => kids'[u] = kids[u]
      /\ kids'[t] = kids[t] \ {c}
  <2>1. kids' = Set(kids, t, kids[t] \ {c})
    BY DEF Gather
  <2> HIDE DEF c
  <2> QED
    BY <1>0, <2>1 DEF Set, TypeOK
<1>4. /\ reduce_data' \in [Tids -> [Tids -> Nat]]
      /\ \A u \in Tids : u # t => reduce_data'[u] = reduce_data[u]
      /\ \A u \in Tids : reduce_data'[t][u] = reduce_data[t][u] + reduce_data[c][u]
  <2>1. reduce_data' = Set(reduce_data, t, [u \in Tids |-> reduce_data[t][u] + reduce_data[c][u]])
    BY DEF Gather
  <2>2. reduce_data \in [Tids -> [Tids -> Nat]]
    BY <1>0 DEF TypeOK
  <2> HIDE DEF c
  <2>3. [u \in Tids |-> reduce_data[t][u] + reduce_data[c][u]] \in [Tids -> Nat]
    BY <1>2, <2>2
  <2> QED
    BY <2>1, <2>2, <2>3 DEF Set
<1> HIDE DEF c
<1>5. ~Late(t) /\ Here(t)
  BY <1>0, <1>1 DEF Control, Here
<1>6. ~Late(c) /\ Arrived(c) /\ Here(c) /\ c # t
  <2>1. arrived[c].state = team_arrived + 1
    BY <1>1, <1>2 DEF Flag
  <2>2. left[c] \in Nat /\ team_arrived \in Nat /\ pc[c] \in PCs
    BY <1>0, <1>2, Numbers DEF TypeOK, PCs
  <2>3. arrived[c].state = IF pc[c] \in {"work", "gather"} THEN left[c] ELSE left[c] + 1
    BY <1>0, <1>2 DEF Control
  <2>4. ~Late(c)
    BY <1>0, <1>2, <2>1, <2>2, <2>3 DEF Control
  <2>5. left[c] = team_arrived
    BY <2>4 DEF Late
  <2>6. pc[c] \notin {"work", "gather"}
    BY <2>1, <2>2, <2>3, <2>5
  <2>7. Arrived(c)
    BY <1>0, <1>2, <2>2, <2>4, <2>6 DEF Control, Arrived, PCs
  <2> QED
    BY <1>1, <2>4, <2>6, <2>7 DEF Here
<1>7. TypeOK'
  BY <1>0, <1>1, <1>3, <1>4 DEF TypeOK
<1>8. \A u \in Tids : /\ Late(u)' <=> Late(u)
                      /\ GatherParent(u)' = GatherParent(u)
                      /\ ReleaseParent(u)' = ReleaseParent(u)
                      /\ Arrived(u)' <=> Arrived(u)
                      /\ Here(u)' <=> Here(u)
  BY <1>1, Steady DEF Arrived, Here
<1>9. \A u \in Tids : Collected(u)' <=> Collected(u) \/ u = c
  <2>1. \A u \in Tids \ {0} : GatherParent(u) \in Tids
    BY <1>0, Family
  <2> QED
    BY <1>2, <1>3, <1>5, <1>8, <2>1 DEF Collected
<1>10. Control'
  <2>1. UNCHANGED <<arrived, go, left, team_arrived, entered, pc, new_state>>
    BY <1>1
  <2>2. \A u \in Tids : kids'[u] \subseteq kids[u] /\ (u # t => kids'[u] = kids[u])
    BY <1>3
  <2>3. \A u \in Tids : \A d \in kids[u] : d \in Tids
    BY <1>0 DEF TypeOK
  <2> QED
    BY <1>0, <1>1, <1>8, <2>1, <2>2, <2>3 DEF Control
<1>11. Gathers'
  BY <1>6, <1>8, <1>9 DEF IInv, Gathers
<1>12. Releases'
  <2>1. ASSUME NEW d \in Tids \ {0}, ToRelease(ReleaseParent(d), d)'
        PROVE  Late(d)' /\ Arrived(d)' /\ go'[d].state = 0
    <3>1. PICK q \in Tids : q = ReleaseParent(d)
      BY <1>0, Family
    <3>2. ToRelease(q, d)'
      BY <1>8, <2>1, <3>1
    <3>3. q # t
      BY <1>5, <1>8, <3>2 DEF ToRelease
    <3>4. Target(q)' = Target(q)
      BY <1>1, <1>3, <3>3, TargetSame
    <3>5. ToRelease(q, d)
      BY <1>1, <1>3, <1>8, <3>2, <3>3, <3>4 DEF ToRelease
    <3> QED
      BY <1>1, <1>8, <3>1, <3>5 DEF IInv, Releases
  <2> QED
    BY <2>1 DEF Releases
<1>13. Combined'
  <2>1. ~Collected(t) /\ ~Collected(c)
    BY <1>1, <1>2, <1>5 DEF IInv, Gathers, Arrived, Collected
  <2>2. /\ Top(t) /\ Top(c)
        /\ \A u \in Tids : Top(u)' <=> Top(u) /\ u # c
    BY <1>5, <1>6, <1>8, <1>9, <2>1 DEF Top
  <2>3. \A v, u \in Tids : v # t => (Holds(v, u)' <=> Holds(v, u))
    BY <1>4 DEF Holds
  <2>4. \A u \in Tids : /\ reduce_data[t][u] \in {0, 1} /\ reduce_data[c][u] \in {0, 1}
                        /\ Holds(t, u) \/ Holds(c, u) => Here(u)
                        /\ ~(Holds(t, u) /\ Holds(c, u))
    BY <1>2, <1>5, <1>6, <2>2 DEF IInv, Combined
  <2>5. \A u \in Tids : /\ reduce_data'[t][u] \in {0, 1}
                        /\ Holds(t, u)' <=> Holds(t, u) \/ Holds(c, u)
    BY <1>4, <2>4 DEF Holds
  <2>6. \A v \in Tids : Here(v)' =>
          \A u \in Tids : reduce_data'[v][u] \in {0, 1} /\ (Holds(v, u)' => Here(u)')
    BY <1>4, <1>8, <2>3, <2>4, <2>5 DEF IInv, Combined
  <2>7. \A u \in Tids : Here(u)' => \E v \in Tids : Top(v)' /\ Holds(v, u)'
    BY <1>6, <1>8, <2>2, <2>3, <2>5 DEF IInv, Combined
  <2>8. \A v, w \in Tids : v # w /\ Top(v)' /\ Top(w)' =>
          \A u \in Tids : ~(Holds(v, u)' /\ Holds(w, u)')
    BY <1>2, <1>6, <2>2, <2>3, <2>5 DEF IInv, Combined
  <2> QED
    BY <2>6, <2>7, <2>8 DEF Combined
<1>14. ReductionComplete'
  BY <1>1, <1>4, Numbers DEF IInv, ReductionComplete
<1>15. Sleepers'
  <2>1. SUFFICES ASSUME NEW w \in asleep PROVE (WaitsBelow(w) \/ WaitsForGo(w))'
    BY <1>1 DEF Sleepers
  <2>2. w \in Tids /\ (WaitsBelow(w) \/ WaitsForGo(w)) /\ w # t
    BY <1>0, <1>1 DEF IInv, Sleepers, TypeOK
  <2>3. UNCHANGED <<kids[w], Child(w)>>
    BY <1>1, <1>3, <2>2, TargetSame
  <2>4. \A u \in Tids : pc[u] = "released" => Target(u)' = Target(u)
    BY <1>1, <1>3, TargetSame
  <2>5. WaitsBelow(w) => WaitsBelow(w)'
    BY <1>1, <2>3 DEF WaitsBelow, Gathering
  <2>6. WaitsForGo(w) => WaitsForGo(w)'
    BY <1>1, <2>4 DEF WaitsForGo
  <2> QED
    BY <2>2, <2>5, <2>6
<1> QED
  BY <1>7, <1>10, <1>11, <1>12, <1>13, <1>14, <1>15 DEF IInv

LEMMA GatherSleepStep ==
  ASSUME NAssumption, RoundsAssumption, BitsAssumption, IInv, NEW t \in Tids, GatherSleep(t)
  PROVE  IInv'
<1> USE DEF locals, counts
<1>0. TypeOK /\ Control
  BY DEF IInv
<1>1. /\ Gathering(t) /\ arrived[Child(t)].state # new_state[t]
      /\ arrived' = [arrived EXCEPT ![Child(t)].sleep = TRUE]
      /\ asleep' = asleep \cup {t}
      /\ UNCHANGED <<pattern, go, team_arrived, reduce_data, pc, kids, new_state, entered, left>>
  BY DEF GatherSleep
<1>2. PICK c \in Tids : c = Child(t)
  BY <1>0, <1>1, Kids DEF TypeOK, Gathering
<1>3. /\ arrived' \in [Tids -> Flags]
      /\ \A u \in Tids : /\ arrived'[u].state = arrived[u].state
                         /\ arrived[u].sleep => arrived'[u].sleep
      /\ arrived'[c].sleep
  <2>1. PICK b \in BOOLEAN : b = TRUE
    OBVIOUS
  <2>2. arrived' = [arrived EXCEPT ![c] = [@ EXCEPT !.sleep = b]]
    BY <1>1, <1>2, <2>1
  <2>3. arrived \in [Tids -> [state : 0..MaxRounds, sleep : BOOLEAN]]
    BY <1>0 DEF TypeOK, Flags
  <2>4. \A u \in Tids : arrived'[u] = IF u = c THEN [arrived[u] EXCEPT !.sleep = b] ELSE arrived[u]
    BY <2>2, <2>3
  <2>5. \A u \in Tids : arrived[u] \in [state : 0..MaxRounds, sleep : BOOLEAN]
    BY <2>3
  <2>6. /\ [arrived[c] EXCEPT !.sleep = b] \in [state : 0..MaxRounds, sleep : BOOLEAN]
        /\ [arrived[c] EXCEPT !.sleep = b].state = arrived[c].state
        /\ [arrived[c] EXCEPT !.sleep = b].sleep = b
    BY <2>5
  <2>7. arrived' \in [Tids -> Flags]
    BY <2>2, <2>3, <2>6 DEF Flags
  <2> QED
    BY <2>1, <2>4, <2>6, <2>7
<1>4. TypeOK'
  BY <1>0, <1>1, <1>3 DEF TypeOK
<1>5. \A u \in Tids : /\ Late(u)' <=> Late(u)
                      /\ GatherParent(u)' = GatherParent(u)
                      /\ ReleaseParent(u)' = ReleaseParent(u)
                      /\ Target(u)' = Target(u) /\ Child(u)' = Child(u)
                      /\ Arrived(u)' <=> Arrived(u)
                      /\ Here(u)' <=> Here(u)
  BY <1>1, Steady, TargetSame DEF Arrived, Here
<1>6. \A u \in Tids : Collected(u)' <=> Collected(u)
  <2>1. \A u \in Tids \ {0} : GatherParent(u) \in Tids
    BY <1>0, Family
  <2> QED
    BY <1>1, <1>5, <2>1 DEF Collected
<1>7. Control'
  <2>1. \A u \in Tids : \A d \in kids[u] : d \in Tids
    BY <1>0 DEF TypeOK
  <2> QED
    BY <1>0, <1>1, <1>3, <1>5, <2>1 DEF Control
<1>8. Gathers'
  BY <1>5, <1>6 DEF IInv, Gathers
<1>9. Releases'
  <2>1. \A d \in Tids \ {0} : ReleaseParent(d) \in Tids
    BY <1>0, Family
  <2>2. \A d \in Tids \ {0} :
          ToRelease(ReleaseParent(d), d)' <=> ToRelease(ReleaseParent(d), d)
    BY <1>1, <1>5, <2>1 DEF ToRelease
  <2> QED
    BY <1>1, <1>5, <2>2 DEF IInv, Releases
<1>10. Combined'
  BY <1>1, <1>5, <1>6, CombinedSame DEF IInv
<1>11. ReductionComplete'
  BY <1>1 DEF IInv, ReductionComplete
<1>12. Sleepers'
  <2>1. WaitsBelow(t)'
    BY <1>1, <1>2, <1>3, <1>5 DEF WaitsBelow, Gathering
  <2>2. ASSUME NEW w \in asleep PROVE (WaitsBelow(w) \/ WaitsForGo(w))'
    <3>1. w \in Tids /\ (WaitsBelow(w) \/ WaitsForGo(w))
      BY <1>0 DEF IInv, Sleepers, TypeOK
    <3>2. ASSUME WaitsBelow(w) PROVE WaitsBelow(w)'
      <4>1. Child(w) \in Tids
        BY <1>0, <3>1, <3>2, Kids DEF WaitsBelow, Gathering, TypeOK
      <4> QED
        BY <1>1, <1>3, <1>5, <3>1, <3>2, <4>1 DEF WaitsBelow, Gathering
    <3>3. ASSUME WaitsForGo(w) PROVE WaitsForGo(w)'
      BY <1>1, <1>5, <3>1, <3>3 DEF WaitsForGo
    <3> QED
      BY <3>1, <3>2, <3>3
  <2> QED
    BY <1>1, <2>1, <2>2 DEF Sleepers
<1> QED
  BY <1>4, <1>7, <1>8, <1>9, <1>10, <1>11, <1>12 DEF IInv

LEMMA ArriveStep ==
  ASSUME NAssumption, RoundsAssumption, BitsAssumption, IInv, NEW t \in Tids, Arrive(t)
  PROVE  IInv'
<1> USE DEF counts
<1>0. TypeOK /\ Control
  BY DEF IInv
<1>1. /\ t # 0 /\ kids[t] = {} /\ pc[t] = "gather"
      /\ UNCHANGED <<pattern, go, team_arrived, reduce_data, kids, new_state, asleep, entered, left>>
  BY DEF Arrive, Goto
<1>2. /\ pc' \in [Tids -> PCs]
      /\ \A u \in Tids : pc'[u] = IF u = t THEN "arrived" ELSE pc[u]
  BY <1>0 DEF Arrive, Goto, Set, TypeOK, PCs
<1>3. /\ left[t] \in Nat /\ arrived[t].state = left[t] /\ left[t] + 1 \in 0..MaxRounds
      /\ left[t] + 1 = entered[t]
  <2>1. left[t] \in Nat /\ entered[t] \in 0..MaxRounds
    BY <1>0, Numbers DEF TypeOK
  <2> QED
    BY <1>0, <1>1, <2>1 DEF Control
<1>4. /\ arrived' \in [Tids -> Flags]
      /\ \A u \in Tids : u # t => arrived'[u] = arrived[u]
      /\ arrived'[t].state = left[t] + 1
      /\ arrived'[t].sleep = arrived[t].sleep
  <2>1. arrived \in [Tids -> [state : 0..MaxRounds, sleep : BOOLEAN]]
    BY <1>0 DEF TypeOK, Flags
  <2>2. arrived[t] \in [state : 0..MaxRounds, sleep : BOOLEAN] /\ 0..MaxRounds \in SUBSET Nat
    BY <2>1
  <2>3. /\ Bump(arrived[t]) = [state |-> left[t] + 1, sleep |-> arrived[t].sleep]
        /\ arrived[t].sleep \in BOOLEAN
    BY <1>3, <2>2, FlagFacts
  <2>4. PICK flag \in [state : 0..MaxRounds, sleep : BOOLEAN] :
          /\ flag = Bump(arrived[t])
          /\ flag.state = left[t] + 1 /\ flag.sleep = arrived[t].sleep
    BY <1>3, <2>3
  <2>5. arrived' = [arrived EXCEPT ![t] = flag]
    BY <2>4 DEF Arrive, Set
  <2> QED
    BY <2>1, <2>4, <2>5 DEF Flags
<1>5. TypeOK'
  BY <1>0, <1>1, <1>2, <1>4 DEF TypeOK, PCs
<1>6. ~Late(t) /\ left[t] = team_arrived
  BY <1>0, <1>1 DEF Control, Late
<1>7. \A u \in Tids : /\ Late(u)' <=> Late(u)
                      /\ GatherParent(u)' = GatherParent(u)
                      /\ ReleaseParent(u)' = ReleaseParent(u)
                      /\ Target(u)' = Target(u) /\ Child(u)' = Child(u)
                      /\ Arrived(u)' <=> Arrived(u) \/ u = t
                      /\ Here(u)' <=> Here(u)
  <2>1. \A u \in Tids : Arrived(u)' <=> Arrived(u) \/ u = t
    BY <1>2 DEF Arrived
  <2>2. \A u \in Tids : pc'[u] = "work" <=> pc[u] = "work"
    BY <1>1, <1>2
  <2> QED
    BY <1>1, <2>1, <2>2, Steady, TargetSame DEF Here
<1>8. \A u \in Tids : Collected(u)' <=> Collected(u)
  <2>1. \A u \in Tids \ {0} : GatherParent(u) \in Tids
    BY <1>0, Family
  <2> QED
    BY <1>1, <1>7, <2>1 DEF Collected
<1>9. Control'
  <2>1. \A u \in Tids : \A d \in kids[u] : d \in Tids
    BY <1>0 DEF TypeOK
  <2>2. \A u \in Tids : u # t => pc'[u] = pc[u] /\ arrived'[u] = arrived[u] /\ (Arrived(u)' <=> Arrived(u))
    BY <1>2, <1>4, <1>7
  <2>3. pc'[t] = "arrived" /\ arrived'[t].state = left[t] + 1 /\ Arrived(t)' /\ entered[t] = left[t] + 1
    BY <1>2, <1>3, <1>4, <1>7
  <2>4. go[t].state # 1
    BY <1>0, <1>6 DEF Control
  <2> QED
    BY <1>0, <1>1, <1>6, <1>7, <2>1, <2>2, <2>3, <2>4 DEF Control
<1>10. Gathers'
  BY <1>6, <1>7, <1>8 DEF IInv, Gathers
<1>11. Releases'
  <2>1. \A d \in Tids \ {0} : ReleaseParent(d) \in Tids
    BY <1>0, Family
  <2>2. \A q, d \in Tids : ToRelease(q, d)' => ToRelease(q, d)
    BY <1>1, <1>2, <1>6, <1>7 DEF ToRelease
  <2> QED
    BY <1>1, <1>7, <2>1, <2>2 DEF IInv, Releases
<1>12. Combined'
  BY <1>1, <1>7, <1>8, CombinedSame DEF IInv
<1>13. ReductionComplete'
  BY <1>1, <1>2, Numbers DEF IInv, ReductionComplete
<1>14. Sleepers'
  <2>1. SUFFICES ASSUME NEW w \in asleep PROVE (WaitsBelow(w) \/ WaitsForGo(w))'
    BY <1>1 DEF Sleepers
  <2>2. w \in Tids /\ (WaitsBelow(w) \/ WaitsForGo(w))
    BY <1>0 DEF IInv, Sleepers, TypeOK
  <2>3. w # t
    BY <1>1, <2>2 DEF WaitsBelow, WaitsForGo, Gathering
  <2>4. CASE WaitsBelow(w)
    <3>1. Child(w) \in Tids
      BY <1>0, <2>2, <2>4, Kids DEF WaitsBelow, Gathering, TypeOK
    <3>2. PICK c \in Tids : c = Child(w)
      BY <3>1
    <3>3. /\ pc[w] = "gather" /\ kids[w] # {} /\ arrived[c].sleep
          /\ arrived[c].state = new_state[w] => pc[c] = "arrived"
      BY <2>4, <3>2 DEF WaitsBelow, Gathering
    <3>4. arrived'[c].sleep /\ (arrived'[c].state = new_state[w] => pc'[c] = "arrived")
      BY <1>2, <1>4, <3>3
    <3> QED
      BY <1>1, <1>2, <1>7, <2>2, <2>3, <3>2, <3>3, <3>4 DEF WaitsBelow, Gathering
  <2>5. CASE WaitsForGo(w)
    <3>1. \A u \in Tids : pc[u] = "released" => pc'[u] = "released" /\ Target(u)' = Target(u)
      BY <1>1, <1>2, <1>7
    <3>2. WaitsForGo(w)'
      BY <1>1, <1>2, <2>2, <2>3, <2>5, <3>1 DEF WaitsForGo
    <3> QED
      BY <3>2
  <2> QED
    BY <2>2, <2>4, <2>5
<1> QED
  BY <1>5, <1>9, <1>10, <1>11, <1>12, <1>13, <1>14 DEF IInv

LEMMA ArriveWakeStep ==
  ASSUME NAssumption, RoundsAssumption, BitsAssumption, IInv, NEW t \in Tids, ArriveWake(t)
  PROVE  IInv'
<1> USE DEF counts
<1>0. TypeOK /\ Control
  BY DEF IInv
<1>1. /\ pc[t] = "arrived"
      /\ UNCHANGED <<pattern, go, team_arrived, reduce_data, kids, new_state, entered, left>>
  BY DEF ArriveWake, Goto
<1>2. /\ pc' \in [Tids -> PCs]
      /\ \A u \in Tids : pc'[u] = IF u = t THEN "wait_go" ELSE pc[u]
  BY <1>0 DEF ArriveWake, Goto, Set, TypeOK, PCs
<1>3. PICK w \in Tids :
        /\ w = GatherParent(t)
        /\ asleep' = IF arrived[t].sleep /\ Gathering(w) /\ Child(w) = t
                     THEN asleep \ {w} ELSE asleep
  <2>1. t # 0
    BY <1>0, <1>1 DEF Control, Arrived
  <2>2. GatherParent(t) \in Tids
    BY <1>0, <2>1, Family
  <2> QED
    BY <2>2 DEF ArriveWake, Resume, GatherParent
<1>4. /\ arrived' \in [Tids -> Flags]
      /\ \A u \in Tids : u # t => arrived'[u] = arrived[u]
      /\ \A u \in Tids : arrived'[u].state = arrived[u].state
  <2>1. arrived \in [Tids -> [state : 0..MaxRounds, sleep : BOOLEAN]]
    BY <1>0 DEF TypeOK, Flags
  <2>2. arrived[t] \in [state : 0..MaxRounds, sleep : BOOLEAN] /\ 0..MaxRounds \in SUBSET Nat
    BY <2>1
  <2>3. PICK no \in BOOLEAN : no = FALSE
    OBVIOUS
  <2>4. /\ Clear(arrived[t]) = [state |-> arrived[t].state, sleep |-> no]
        /\ arrived[t].state \in 0..MaxRounds
    BY <2>2, <2>3, FlagFacts
  <2>5. PICK flag \in [state : 0..MaxRounds, sleep : BOOLEAN] :
          flag = Clear(arrived[t]) /\ flag.state = arrived[t].state
    BY <2>4
  <2>6. arrived' = [arrived EXCEPT ![t] = flag]
    BY <2>5 DEF ArriveWake, Set
  <2> QED
    BY <2>1, <2>5, <2>6 DEF Flags
<1>5. TypeOK'
  BY <1>0, <1>1, <1>2, <1>3, <1>4 DEF TypeOK, PCs
<1>6. \A u \in Tids : /\ Late(u)' <=> Late(u)
                      /\ GatherParent(u)' = GatherParent(u)
                      /\ ReleaseParent(u)' = ReleaseParent(u)
                      /\ Target(u)' = Target(u) /\ Child(u)' = Child(u)
                      /\ Arrived(u)' <=> Arrived(u)
                      /\ Here(u)' <=> Here(u)
  <2>1. \A u \in Tids : Arrived(u)' <=> Arrived(u)
    BY <1>1, <1>2 DEF Arrived
  <2>2. \A u \in Tids : pc'[u] = "work" <=> pc[u] = "work"
    BY <1>1, <1>2
  <2> QED
    BY <1>1, <2>1, <2>2, Steady, TargetSame DEF Here
<1>7. \A u \in Tids : Collected(u)' <=> Collected(u)
  <2>1. \A u \in Tids \ {0} : GatherParent(u) \in Tids
    BY <1>0, Family
  <2> QED
    BY <1>1, <1>6, <2>1 DEF Collected
<1>8. Control'
  <2>1. \A u \in Tids : \A d \in kids[u] : d \in Tids
    BY <1>0 DEF TypeOK
  <2>2. \A u \in Tids : u # t => pc'[u] = pc[u]
    BY <1>2
  <2> QED
    BY <1>0, <1>1, <1>2, <1>4, <1>6, <2>1, <2>2 DEF Control
<1>9. Gathers'
  BY <1>6, <1>7 DEF IInv, Gathers
<1>10. Releases'
  <2>1. \A d \in Tids \ {0} : ReleaseParent(d) \in Tids
    BY <1>0, Family
  <2>2. \A q, d \in Tids : ToRelease(q, d)' <=> ToRelease(q, d)
    BY <1>1, <1>2, <1>6 DEF ToRelease
  <2> QED
    BY <1>1, <1>6, <2>1, <2>2 DEF IInv, Releases
<1>11. Combined'
  BY <1>1, <1>6, <1>7, CombinedSame DEF IInv
<1>12. ReductionComplete'
  BY <1>1, <1>2, Numbers DEF IInv, ReductionComplete
<1>13. Sleepers'
  <2>1. SUFFICES ASSUME NEW s \in asleep' PROVE (WaitsBelow(s) \/ WaitsForGo(s))'
    BY DEF Sleepers
  <2>2. s \in asleep /\ s \in Tids /\ (WaitsBelow(s) \/ WaitsForGo(s))
    BY <1>0, <1>3 DEF IInv, Sleepers, TypeOK
  <2>3. s # t
    BY <1>1, <2>2 DEF WaitsBelow, WaitsForGo, Gathering
  <2>4. CASE WaitsBelow(s)
    <3>1. Child(s) \in kids[s] /\ Child(s) \in Tids
      BY <1>0, <2>2, <2>4, Kids DEF WaitsBelow, Gathering, TypeOK
    <3>2. PICK c \in Tids : c = Child(s) /\ c \in kids[s]
      BY <3>1
    <3>3. /\ pc[s] = "gather" /\ kids[s] # {} /\ arrived[c].sleep /\ Gathering(s)
          /\ arrived[c].state = new_state[s] => pc[c] = "arrived"
      BY <2>4, <3>2 DEF WaitsBelow, Gathering
    <3>4. c # t
      <4>1. GatherParent(c) = s
        BY <1>0, <2>2, <3>2, <3>3 DEF Control
      <4>2. c = t => s = w /\ s \notin asleep'
        BY <1>3, <3>2, <3>3, <4>1
      <4> QED
        BY <2>1, <4>2
    <3>5. arrived'[c].sleep /\ (arrived'[c].state = new_state[s] => pc'[c] = "arrived")
      BY <1>2, <1>4, <3>3, <3>4
    <3> QED
      BY <1>1, <1>2, <1>6, <2>2, <2>3, <3>2, <3>3, <3>5 DEF WaitsBelow, Gathering
  <2>5. CASE WaitsForGo(s)
    <3>1. \A u \in Tids : pc[u] = "released" => pc'[u] = "released" /\ Target(u)' = Target(u)
      BY <1>1, <1>2, <1>6
    <3>2. WaitsForGo(s)'
      BY <1>1, <1>2, <2>2, <2>3, <2>5, <3>1 DEF WaitsForGo
    <3> QED
      BY <3>2
  <2> QED
    BY <2>2, <2>4, <2>5
<1> QED
  BY <1>5, <1>8, <1>9, <1>10, <1>11, <1>12, <1>13 DEF IInv

(***************************************************************************)
(* When the master has no child left to wait for, everybody has arrived:    *)
(* the least thread that has not would have a parent that waits for it.     *)
(***************************************************************************)
LEMMA Everybody ==
  ASSUME NAssumption, BitsAssumption, IInv, pc[0] = "gather", kids[0] = {}
  PROVE  \A t \in Tids : Here(t) /\ (t # 0 => Arrived(t) /\ Collected(t))
<1>0. TypeOK /\ Control /\ Gathers
  BY DEF IInv
<1> DEFINE S == {t \in Tids \ {0} : ~Collected(t)}
<1>1. 0 \in Tids /\ Tids \subseteq Nat
  BY DEF NAssumption, Tids
<1>2. Here(0)
  BY <1>0, <1>1 DEF Control, Here
<1>3. ASSUME S # {} PROVE FALSE
  <2>1. S \in SUBSET Nat
    BY <1>1
  <2>2. PICK t \in S : \A u \in S : t <= u
    BY <1>3, <2>1, LeastNumber
  <2>3. PICK p \in Tids : p = GatherParent(t) /\ p < t
    BY <1>0, <2>2, Family
  <2>4. p \notin S
    BY <1>1, <2>1, <2>2, <2>3
  <2>5. Here(p) /\ kids[p] = {}
    <3>1. CASE p = 0
      BY <1>2, <3>1
    <3>2. CASE p # 0
      <4>1. ~Late(p) /\ Arrived(p)
        BY <1>0, <2>4, <3>2 DEF Gathers
      <4> QED
        BY <1>0, <4>1 DEF Control, Arrived, Here
    <3> QED
      BY <3>1, <3>2
  <2> QED
    BY <2>2, <2>3, <2>5 DEF Collected
<1>4. \A t \in Tids : t # 0 => Collected(t) /\ Arrived(t) /\ ~Late(t)
  BY <1>0, <1>3 DEF Gathers
<1> QED
  BY <1>2, <1>4 DEF Here, Arrived

LEMMA GatheredStep ==
  ASSUME NAssumption, RoundsAssumption, BitsAssumption, IInv, Gathered
  PROVE  IInv'
<1> USE DEF counts
<1>0. TypeOK /\ Control
  BY DEF IInv
<1>1. /\ kids[0] = {} /\ pc[0] = "gather" /\ team_arrived' = new_state[0]
      /\ UNCHANGED <<pattern, arrived, go, reduce_data, asleep, entered, left>>
  BY DEF Gathered, Goto
<1>2. /\ pc' \in [Tids -> PCs]
      /\ \A u \in Tids : pc'[u] = IF u = 0 THEN "release" ELSE pc[u]
  BY <1>0 DEF Gathered, Goto, Set, TypeOK, PCs
<1>3. \A t \in Tids : Here(t) /\ (t # 0 => Arrived(t) /\ Collected(t))
  BY <1>1, Everybody
<1>4. 0 \in Tids /\ Tids \subseteq Nat /\ MaxRounds \in Nat
  BY Numbers
<1>5. /\ team_arrived \in Nat /\ team_arrived' = team_arrived + 1 /\ team_arrived' \in 0..MaxRounds
      /\ new_state' \in [Tids -> 0..MaxRounds]
      /\ \A u \in Tids : left[u] = team_arrived
  <2>1. new_state[0] = team_arrived + 1 /\ new_state[0] \in 0..MaxRounds /\ team_arrived \in Nat
    BY <1>0, <1>1, <1>4 DEF Control, TypeOK
  <2>2. new_state' \in [Tids -> 0..MaxRounds]
    BY <1>0, <1>4 DEF Gathered, Set, TypeOK
  <2> QED
    BY <1>1, <1>3, <2>1, <2>2 DEF Here, Late
<1>6. /\ kids' \in [Tids -> SUBSET Tids]
      /\ \A u \in Tids : u # 0 => kids'[u] = {}
      /\ kids'[0] = {c \in Tids \ {0} : ReleaseParent(c) = 0}
  <2>1. kids' = Set(kids, 0, {c \in Tids \ {0} : ReleaseParent(c) = 0})
    BY <1>0, <1>4, Family DEF Gathered, Released
  <2>2. {c \in Tids \ {0} : ReleaseParent(c) = 0} \in SUBSET Tids
    OBVIOUS
  <2>3. \A u \in Tids : u # 0 => kids[u] = {}
    BY <1>0, <1>3 DEF Control, Arrived
  <2> QED
    BY <1>0, <1>4, <2>1, <2>2, <2>3 DEF Set, TypeOK
<1>7. TypeOK'
  BY <1>0, <1>1, <1>2, <1>5, <1>6 DEF TypeOK, PCs
<1>8. \A u \in Tids : /\ Late(u)' /\ ~Here(u)'
                      /\ GatherParent(u)' = GatherParent(u)
                      /\ ReleaseParent(u)' = ReleaseParent(u)
                      /\ Arrived(u)' <=> u # 0
                      /\ go[u].state # 1
  <2>1. \A u \in Tids : Late(u)' /\ ~Here(u)'
    BY <1>1, <1>5 DEF Late, Here
  <2>2. \A u \in Tids : Arrived(u)' <=> u # 0
    BY <1>2, <1>3 DEF Arrived
  <2>3. \A u \in Tids : go[u].state # 1
    BY <1>0, <1>3 DEF Control, Here
  <2> QED
    BY <1>1, <2>1, <2>2, <2>3 DEF GatherParent, ReleaseParent
<1>9. Control'
  <2>1. ASSUME NEW u \in Tids, u # 0
        PROVE  /\ pc'[u] \in {"arrived", "wait_go"} /\ kids'[u] = {}
               /\ entered'[u] = left'[u] + 1 /\ left'[u] + 1 = team_arrived'
               /\ arrived'[u].state = left'[u] + 1
    BY <1>0, <1>1, <1>2, <1>3, <1>5, <1>6, <2>1 DEF Control, Arrived
  <2>2. entered'[0] = left'[0] + 1 /\ left'[0] + 1 = team_arrived' /\ pc'[0] = "release"
    BY <1>0, <1>1, <1>2, <1>4, <1>5 DEF Control
  <2>3. \A c \in kids'[0] : c # 0 /\ ReleaseParent(c)' = 0
    BY <1>6, <1>8
  <2> QED
    BY <1>1, <1>8, <2>1, <2>2, <2>3 DEF Control
<1>10. Gathers'
  <2>1. \A u \in Tids \ {0} : GatherParent(u) \in Tids
    BY <1>0, Family
  <2> QED
    BY <1>8, <2>1 DEF Gathers, Collected
<1>11. Releases'
  <2>1. \A u \in Tids : go[u].state \in {0, 1}
    BY <1>0 DEF TypeOK
  <2> QED
    BY <1>1, <1>8, <2>1 DEF Releases
<1>12. Combined'
  BY <1>8 DEF Combined, Top
<1>13. ReductionComplete'
  <2>1. Top(0) /\ \A t \in Tids : Top(t) => t = 0
    BY <1>3, <1>4 DEF Top, Collected
  <2>2. \A u \in Tids : Holds(0, u)
    BY <1>3, <2>1 DEF IInv, Combined
  <2> QED
    BY <1>1, <2>2 DEF ReductionComplete, Holds
<1>14. Sleepers'
  <2>1. SUFFICES ASSUME NEW w \in asleep PROVE WaitsForGo(w)'
    BY <1>1 DEF Sleepers
  <2>2. w \in Tids /\ (WaitsBelow(w) \/ WaitsForGo(w))
    BY <1>0 DEF IInv, Sleepers, TypeOK
  <2>3. WaitsForGo(w) /\ w # 0
    BY <1>1, <1>3, <2>2 DEF WaitsBelow, WaitsForGo, Gathering, Arrived
  <2> QED
    BY <1>1, <1>2, <1>8, <2>2, <2>3 DEF WaitsForGo
<1> QED
  BY <1>7, <1>9, <1>10, <1>11, <1>12, <1>13, <1>14 DEF IInv

LEMMA WaitGoStep ==
  ASSUME NAssumption, RoundsAssumption, BitsAssumption, IInv, NEW t \in Tids, WaitGo(t)
  PROVE  IInv'
<1> USE DEF counts
<1>0. TypeOK /\ Control
  BY DEF IInv
<1>1. /\ pc[t] = "wait_go" /\ t \notin asleep /\ go[t].state = 1
      /\ UNCHANGED <<pattern, arrived, team_arrived, reduce_data, asleep, entered, left>>
  BY DEF WaitGo, Goto, Flag
<1>2. /\ pc' \in [Tids -> PCs]
      /\ \A u \in Tids : pc'[u] = IF u = t THEN "release" ELSE pc[u]
  BY <1>0 DEF WaitGo, Goto, Set, TypeOK, PCs
<1>3. Late(t) /\ Arrived(t) /\ ~Here(t)
  BY <1>0, <1>1 DEF Control, Here
<1>4. 0 \in Tids /\ MaxRounds \in Nat
  BY Numbers
<1>5. new_state' \in [Tids -> 0..MaxRounds] /\ \A u \in Tids : u # t => new_state'[u] = new_state[u]
  BY <1>0, <1>4 DEF WaitGo, Set, TypeOK
<1>6. /\ kids' \in [Tids -> SUBSET Tids]
      /\ \A u \in Tids : u # t => kids'[u] = kids[u]
      /\ kids'[t] = {c \in Tids \ {0} : ReleaseParent(c) = t}
  <2>1. kids' = Set(kids, t, {c \in Tids \ {0} : ReleaseParent(c) = t})
    BY <1>0, Family DEF WaitGo, Released
  <2>2. {c \in Tids \ {0} : ReleaseParent(c) = t} \in SUBSET Tids
    OBVIOUS
  <2> QED
    BY <1>0, <2>1, <2>2 DEF Set, TypeOK
<1>7. /\ go' \in [Tids -> [state : {0, 1}, sleep : BOOLEAN]]
      /\ \A u \in Tids : u # t => go'[u] = go[u]
      /\ go'[t].state = 0
  <2>1. PICK no \in BOOLEAN : no = FALSE
    OBVIOUS
  <2>2. PICK flag \in [state : {0, 1}, sleep : BOOLEAN] : flag = [state |-> 0, sleep |-> no]
    OBVIOUS
  <2>3. go' = [go EXCEPT ![t] = flag]
    BY <2>1, <2>2 DEF WaitGo, Set, Flag
  <2>4. flag.state = 0
    BY <2>2
  <2> QED
    BY <1>0, <2>2, <2>3, <2>4 DEF TypeOK
<1>8. TypeOK'
  BY <1>0, <1>1, <1>2, <1>5, <1>6, <1>7 DEF TypeOK, PCs
<1>9. \A u \in Tids : /\ Late(u)' <=> Late(u)
                      /\ GatherParent(u)' = GatherParent(u)
                      /\ ReleaseParent(u)' = ReleaseParent(u)
                      /\ Arrived(u)' <=> Arrived(u) /\ u # t
                      /\ Here(u)' <=> Here(u)
                      /\ u # t => Target(u)' = Target(u) /\ Child(u)' = Child(u)
  <2>1. \A u \in Tids : Arrived(u)' <=> Arrived(u) /\ u # t
    BY <1>2 DEF Arrived
  <2>2. \A u \in Tids : pc'[u] = "work" <=> pc[u] = "work"
    BY <1>1, <1>2
  <2>3. \A u \in Tids : u # t => Target(u)' = Target(u) /\ Child(u)' = Child(u)
    BY <1>1, <1>6, TargetSame
  <2> QED
    BY <1>1, <2>1, <2>2, <2>3, Steady DEF Here
<1>10. \A u \in Tids : Collected(u)' <=> Collected(u)
  <2>1. \A u \in Tids \ {0} : GatherParent(u) \in Tids
    BY <1>0, Family
  <2> QED
    BY <1>3, <1>6, <1>9, <2>1 DEF Collected
<1>11. Control'
  <2>1. \A u \in Tids : u # t => UNCHANGED <<pc[u], kids[u], new_state[u], go[u]>> /\ (Arrived(u)' <=> Arrived(u))
    BY <1>2, <1>5, <1>6, <1>7, <1>9
  <2>2. \A u \in Tids : \A d \in kids[u] : d \in Tids
    BY <1>0 DEF TypeOK
  <2>3. \A c \in kids'[t] : c # 0 /\ ReleaseParent(c)' = t
    BY <1>6, <1>9
  <2>4. /\ pc'[t] = "release" /\ go'[t].state # 1 /\ ~Arrived(t)'
        /\ entered[t] = left[t] + 1 /\ left[t] + 1 = team_arrived
        /\ t # 0 => arrived[t].state = left[t] + 1
    BY <1>0, <1>1, <1>2, <1>3, <1>7, <1>9 DEF Control
  <2> QED
    BY <1>0, <1>1, <1>3, <1>9, <2>1, <2>2, <2>3, <2>4 DEF Control
<1>12. Gathers'
  BY <1>3, <1>9, <1>10 DEF IInv, Gathers
<1>13. Releases'
  <2>1. ASSUME NEW c \in Tids \ {0}, ToRelease(ReleaseParent(c), c)'
        PROVE  Late(c)' /\ Arrived(c)' /\ go'[c].state = 0
    <3>1. PICK q \in Tids : q = ReleaseParent(c) /\ q < c
      BY <1>0, Family
    <3>2. ToRelease(q, c)'
      BY <1>9, <2>1, <3>1
    <3>3. ToRelease(q, c)
      <4>1. CASE q = t
        BY <1>3, <4>1 DEF ToRelease
      <4>2. CASE q # t
        BY <1>2, <1>6, <1>9, <3>2, <4>2 DEF ToRelease
      <4> QED
        BY <4>1, <4>2
    <3>4. Late(c) /\ Arrived(c) /\ go[c].state = 0
      BY <3>1, <3>3 DEF IInv, Releases
    <3>5. c # t
      BY <1>1, <3>4
    <3> QED
      BY <1>7, <1>9, <3>4, <3>5
  <2> QED
    BY <2>1 DEF Releases
<1>14. Combined'
  BY <1>1, <1>9, <1>10, CombinedSame DEF IInv
<1>15. ReductionComplete'
  <2>1. t # 0
    BY <1>0, <1>3 DEF Control
  <2> QED
    BY <1>1, <1>2, <1>4, <2>1 DEF IInv, ReductionComplete
<1>16. Sleepers'
  <2>1. SUFFICES ASSUME NEW w \in asleep PROVE (WaitsBelow(w) \/ WaitsForGo(w))'
    BY <1>1 DEF Sleepers
  <2>2. w \in Tids /\ (WaitsBelow(w) \/ WaitsForGo(w)) /\ w # t
    BY <1>0, <1>1 DEF IInv, Sleepers, TypeOK
  <2>3. CASE WaitsBelow(w)
    <3>1. PICK c \in Tids : c = Child(w)
      BY <1>0, <2>2, <2>3, Kids DEF WaitsBelow, Gathering, TypeOK
    <3>2. /\ pc[w] = "gather" /\ kids[w] # {} /\ arrived[c].sleep
          /\ arrived[c].state = new_state[w] => pc[c] = "arrived"
      BY <2>3, <3>1 DEF WaitsBelow, Gathering
    <3>3. arrived[c].state = new_state[w] => pc'[c] = "arrived"
      BY <1>1, <1>2, <3>2
    <3> QED
      BY <1>1, <1>2, <1>5, <1>6, <1>9, <2>2, <3>1, <3>2, <3>3 DEF WaitsBelow, Gathering
  <2>4. CASE WaitsForGo(w)
    <3>1. \A u \in Tids : pc[u] = "released" => pc'[u] = "released" /\ Target(u)' = Target(u)
      BY <1>1, <1>2, <1>9
    <3>2. WaitsForGo(w)'
      BY <1>2, <1>7, <2>2, <2>4, <3>1 DEF WaitsForGo
    <3> QED
      BY <3>2
  <2> QED
    BY <2>2, <2>3, <2>4
<1> QED
  BY <1>8, <1>11, <1>12, <1>13, <1>14, <1>15, <1>16 DEF IInv

LEMMA GoSleepStep ==
  ASSUME NAssumption, RoundsAssumption, BitsAssumption, IInv, NEW t \in Tids, GoSleep(t)
  PROVE  IInv'
<1> USE DEF locals, counts
<1>0. TypeOK /\ Control
  BY DEF IInv
<1>1. /\ pc[t] = "wait_go" /\ go[t].state = 0
      /\ asleep' = asleep \cup {t}
      /\ UNCHANGED <<pattern, arrived, team_arrived, reduce_data, pc, kids, new_state, entered, left>>
  BY DEF GoSleep
<1>2. /\ go' \in [Tids -> [state : {0, 1}, sleep : BOOLEAN]]
      /\ \A u \in Tids : u # t => go'[u] = go[u]
      /\ go'[t].state = go[t].state /\ go'[t].sleep
  <2>1. PICK b \in BOOLEAN : b = TRUE
    OBVIOUS
  <2>2. go' = [go EXCEPT ![t] = [@ EXCEPT !.sleep = b]]
    BY <2>1 DEF GoSleep
  <2>3. go \in [Tids -> [state : {0, 1}, sleep : BOOLEAN]]
    BY <1>0 DEF TypeOK
  <2>4. \A u \in Tids : go'[u] = IF u = t THEN [go[u] EXCEPT !.sleep = b] ELSE go[u]
    BY <2>2, <2>3
  <2>5. go[t] \in [state : {0, 1}, sleep : BOOLEAN]
    BY <2>3
  <2>6. /\ [go[t] EXCEPT !.sleep = b] \in [state : {0, 1}, sleep : BOOLEAN]
        /\ [go[t] EXCEPT !.sleep = b].state = go[t].state
        /\ [go[t] EXCEPT !.sleep = b].sleep = b
    BY <2>5
  <2>7. go' \in [Tids -> [state : {0, 1}, sleep : BOOLEAN]]
    BY <2>2, <2>3, <2>6
  <2> QED
    BY <2>1, <2>4, <2>6, <2>7
<1>3. TypeOK'
  BY <1>0, <1>1, <1>2 DEF TypeOK
<1>4. \A u \in Tids : /\ Late(u)' <=> Late(u)
                      /\ GatherParent(u)' = GatherParent(u)
                      /\ ReleaseParent(u)' = ReleaseParent(u)
                      /\ Target(u)' = Target(u) /\ Child(u)' = Child(u)
                      /\ Arrived(u)' <=> Arrived(u)
                      /\ Here(u)' <=> Here(u)
                      /\ go'[u].state = go[u].state
  BY <1>1, <1>2, Steady, TargetSame DEF Arrived, Here
<1>5. \A u \in Tids : Collected(u)' <=> Collected(u)
  <2>1. \A u \in Tids \ {0} : GatherParent(u) \in Tids
    BY <1>0, Family
  <2> QED
    BY <1>1, <1>4, <2>1 DEF Collected
<1>6. Control'
  <2>1. \A u \in Tids : \A d \in kids[u] : d \in Tids
    BY <1>0 DEF TypeOK
  <2> QED
    BY <1>0, <1>1, <1>4, <2>1 DEF Control
<1>7. Gathers'
  BY <1>4, <1>5 DEF IInv, Gathers
<1>8. Releases'
  <2>1. \A d \in Tids \ {0} : ReleaseParent(d) \in Tids
    BY <1>0, Family
  <2>2. \A d \in Tids \ {0} :
          ToRelease(ReleaseParent(d), d)' <=> ToRelease(ReleaseParent(d), d)
    BY <1>1, <1>4, <2>1 DEF ToRelease
  <2> QED
    BY <1>1, <1>4, <2>2 DEF IInv, Releases
<1>9. Combined'
  BY <1>1, <1>4, <1>5, CombinedSame DEF IInv
<1>10. ReductionComplete'
  BY <1>1 DEF IInv, ReductionComplete
<1>11. Sleepers'
  <2>1. WaitsForGo(t)'
    BY <1>1, <1>2 DEF WaitsForGo
  <2>2. ASSUME NEW w \in asleep, w # t PROVE (WaitsBelow(w) \/ WaitsForGo(w))'
    <3>1. w \in Tids /\ (WaitsBelow(w) \/ WaitsForGo(w))
      BY <1>0 DEF IInv, Sleepers, TypeOK
    <3>2. WaitsBelow(w) => WaitsBelow(w)'
      BY <1>1, <1>4, <3>1 DEF WaitsBelow, Gathering
    <3>3. WaitsForGo(w) => WaitsForGo(w)'
      BY <1>1, <1>2, <1>4, <2>2, <3>1 DEF WaitsForGo
    <3> QED
      BY <3>1, <3>2, <3>3
  <2> QED
    BY <1>1, <2>1, <2>2 DEF Sleepers
<1> QED
  BY <1>3, <1>6, <1>7, <1>8, <1>9, <1>10, <1>11 DEF IInv

LEMMA ReleaseStep ==
  ASSUME NAssumption, RoundsAssumption, BitsAssumption, IInv, NEW t \in Tids, Release(t)
  PROVE  IInv'
<1> USE DEF counts
<1>0. TypeOK /\ Control
  BY DEF IInv
<1>1. /\ pc[t] = "release" /\ kids[t] # {}
      /\ UNCHANGED <<pattern, arrived, team_arrived, reduce_data, kids, new_state, asleep, entered, left>>
  BY DEF Release, Goto
<1>2. /\ pc' \in [Tids -> PCs]
      /\ \A u \in Tids : pc'[u] = IF u = t THEN "released" ELSE pc[u]
  BY <1>0 DEF Release, Goto, Set, TypeOK, PCs
<1>3. Late(t) /\ ~Arrived(t)
  BY <1>0, <1>1 DEF Control, Arrived
<1>4. PICK c \in Tids : c = Target(t) /\ c \in kids[t]
  BY <1>0, <1>1, Kids DEF TypeOK
<1>5. c # 0 /\ ReleaseParent(c) = t /\ Late(c) /\ Arrived(c) /\ go[c].state = 0 /\ c # t
  <2>1. c # 0 /\ ReleaseParent(c) = t
    BY <1>0, <1>1, <1>4 DEF Control
  <2>2. ToRelease(t, c)
    BY <1>1, <1>3, <1>4 DEF ToRelease
  <2> QED
    BY <1>3, <2>1, <2>2 DEF IInv, Releases
<1>6. /\ go' \in [Tids -> [state : {0, 1}, sleep : BOOLEAN]]
      /\ \A u \in Tids : u # c => go'[u] = go[u]
      /\ \A u \in Tids : go'[u].sleep = go[u].sleep
      /\ go'[c].state = 1
  <2>1. go \in [Tids -> [state : {0, 1}, sleep : BOOLEAN]]
    BY <1>0 DEF TypeOK
  <2>2. go[c] \in [state : {0, 1}, sleep : BOOLEAN] /\ {0, 1} \in SUBSET Nat
    BY <2>1
  <2>3. Bump(go[c]) = [state |-> go[c].state + 1, sleep |-> go[c].sleep] /\ go[c].sleep \in BOOLEAN
    BY <2>2, FlagFacts
  <2>4. PICK flag \in [state : {0, 1}, sleep : BOOLEAN] : flag = [state |-> 1, sleep |-> go[c].sleep]
    BY <2>3
  <2>5. go' = [go EXCEPT ![c] = flag]
    <3>1. Bump(go[c]) = flag
      BY <1>5, <2>3, <2>4
    <3> QED
      BY <1>4, <3>1 DEF Release, Set
  <2>6. flag.state = 1 /\ flag.sleep = go[c].sleep
    BY <2>4
  <2> QED
    BY <2>1, <2>4, <2>5, <2>6
<1>7. TypeOK'
  BY <1>0, <1>1, <1>2, <1>6 DEF TypeOK, PCs
<1>8. \A u \in Tids : /\ Late(u)' <=> Late(u)
                      /\ GatherParent(u)' = GatherParent(u)
                      /\ ReleaseParent(u)' = ReleaseParent(u)
                      /\ Target(u)' = Target(u) /\ Child(u)' = Child(u)
                      /\ Arrived(u)' <=> Arrived(u)
                      /\ Here(u)' <=> Here(u)
  <2>1. \A u \in Tids : Arrived(u)' <=> Arrived(u)
    BY <1>1, <1>2 DEF Arrived
  <2>2. \A u \in Tids : pc'[u] = "work" <=> pc[u] = "work"
    BY <1>1, <1>2
  <2> QED
    BY <1>1, <2>1, <2>2, Steady, TargetSame DEF Here
<1>9. \A u \in Tids : Collected(u)' <=> Collected(u)
  <2>1. \A u \in Tids \ {0} : GatherParent(u) \in Tids
    BY <1>0, Family
  <2> QED
    BY <1>1, <1>8, <2>1 DEF Collected
<1>10. Control'
  <2>1. \A u \in Tids : \A d \in kids[u] : d \in Tids
    BY <1>0 DEF TypeOK
  <2>2. \A u \in Tids : u # t => pc'[u] = pc[u]
    BY <1>2
  <2>3. \A u \in Tids : go'[u].state = 1 => Late(u) /\ Arrived(u)
    BY <1>0, <1>5, <1>6 DEF Control
  <2> QED
    BY <1>0, <1>1, <1>2, <1>3, <1>8, <2>1, <2>2, <2>3 DEF Control
<1>11. Gathers'
  BY <1>8, <1>9 DEF IInv, Gathers
<1>12. Releases'
  <2>1. ASSUME NEW d \in Tids \ {0}, ToRelease(ReleaseParent(d), d)'
        PROVE  Late(d)' /\ Arrived(d)' /\ go'[d].state = 0
    <3>1. PICK q \in Tids : q = ReleaseParent(d)
      BY <1>0, Family
    <3>2. ToRelease(q, d)'
      BY <1>8, <2>1, <3>1
    <3>3. d # c
      BY <1>2, <1>3, <1>4, <1>5, <1>8, <3>1, <3>2 DEF ToRelease
    <3>4. ToRelease(q, d)
      <4>1. CASE q = t
        BY <1>1, <1>2, <1>3, <1>8, <3>2, <4>1 DEF ToRelease
      <4>2. CASE q # t
        BY <1>1, <1>2, <1>8, <3>2, <4>2 DEF ToRelease
      <4> QED
        BY <4>1, <4>2
    <3>5. Late(d) /\ Arrived(d) /\ go[d].state = 0
      BY <3>1, <3>4 DEF IInv, Releases
    <3> QED
      BY <1>6, <1>8, <3>3, <3>5
  <2> QED
    BY <2>1 DEF Releases
<1>13. Combined'
  BY <1>1, <1>8, <1>9, CombinedSame DEF IInv
<1>14. ReductionComplete'
  BY <1>1, <1>2, Numbers DEF IInv, ReductionComplete
<1>15. Sleepers'
  <2>1. SUFFICES ASSUME NEW w \in asleep PROVE (WaitsBelow(w) \/ WaitsForGo(w))'
    BY <1>1 DEF Sleepers
  <2>2. w \in Tids /\ (WaitsBelow(w) \/ WaitsForGo(w))
    BY <1>0 DEF IInv, Sleepers, TypeOK
  <2>3. w # t
    BY <1>1, <2>2 DEF WaitsBelow, WaitsForGo, Gathering
  <2>4. CASE WaitsBelow(w)
    <3>1. PICK b \in Tids : b = Child(w)
      BY <1>0, <2>2, <2>4, Kids DEF WaitsBelow, Gathering, TypeOK
    <3>2. /\ pc[w] = "gather" /\ kids[w] # {} /\ arrived[b].sleep
          /\ arrived[b].state = new_state[w] => pc[b] = "arrived"
      BY <2>4, <3>1 DEF WaitsBelow, Gathering
    <3>3. arrived[b].state = new_state[w] => pc'[b] = "arrived"
      BY <1>1, <1>2, <3>2
    <3> QED
      BY <1>1, <1>2, <1>8, <2>2, <2>3, <3>1, <3>2, <3>3 DEF WaitsBelow, Gathering
  <2>5. CASE WaitsForGo(w)
    <3>1. pc'[w] = "wait_go" /\ go'[w].sleep
      BY <1>2, <1>6, <2>2, <2>3, <2>5 DEF WaitsForGo
    <3>2. go'[w].state = 1 => \E u \in Tids : pc'[u] = "released" /\ Target(u)' = w
      <4>1. CASE w = c
        <5>1. pc'[t] = "released" /\ Target(t)' = w
          BY <1>2, <1>4, <1>8, <4>1
        <5> QED
          BY <5>1
      <4>2. CASE w # c
        <5>1. \A u \in Tids : pc[u] = "released" => pc'[u] = "released" /\ Target(u)' = Target(u)
          BY <1>1, <1>2, <1>8
        <5>2. go'[w] = go[w]
          BY <1>6, <2>2, <4>2
        <5> QED
          BY <2>5, <5>1, <5>2 DEF WaitsForGo
      <4> QED
        BY <4>1, <4>2
    <3> QED
      BY <3>1, <3>2 DEF WaitsForGo
  <2> QED
    BY <2>2, <2>4, <2>5
<1> QED
  BY <1>7, <1>10, <1>11, <1>12, <1>13, <1>14, <1>15 DEF IInv

LEMMA ReleaseWakeStep ==
  ASSUME NAssumption, RoundsAssumption, BitsAssumption, IInv, NEW t \in Tids, ReleaseWake(t)
  PROVE  IInv'
<1> USE DEF counts
<1>0. TypeOK /\ Control
  BY DEF IInv
<1>1. /\ pc[t] = "released"
      /\ UNCHANGED <<pattern, arrived, team_arrived, reduce_data, new_state, entered, left>>
  BY DEF ReleaseWake, Goto
<1>2. /\ pc' \in [Tids -> PCs]
      /\ \A u \in Tids : pc'[u] = IF u = t THEN "release" ELSE pc[u]
  BY <1>0 DEF ReleaseWake, Goto, Set, TypeOK, PCs
<1>3. Late(t) /\ ~Arrived(t) /\ ~Here(t) /\ kids[t] # {}
  BY <1>0, <1>1 DEF Control, Arrived, Here
<1>4. PICK c \in Tids : c = Target(t) /\ c \in kids[t]
  BY <1>0, <1>3, Kids DEF TypeOK
<1>5. asleep' = IF go[c].sleep /\ pc[c] = "wait_go" THEN asleep \ {c} ELSE asleep
  BY <1>4 DEF ReleaseWake, Resume
<1>6. /\ kids' \in [Tids -> SUBSET Tids]
      /\ \A u \in Tids : u # t => kids'[u] = kids[u]
      /\ kids'[t] = kids[t] \ {c}
  <2>1. kids' = Set(kids, t, kids[t] \ {c})
    BY <1>4 DEF ReleaseWake
  <2>2. kids[t] \ {c} \in SUBSET Tids
    BY <1>0 DEF TypeOK
  <2> QED
    BY <1>0, <2>1, <2>2 DEF Set, TypeOK
<1>7. /\ go' \in [Tids -> [state : {0, 1}, sleep : BOOLEAN]]
      /\ \A u \in Tids : u # c => go'[u] = go[u]
      /\ \A u \in Tids : go'[u].state = go[u].state
  <2>1. go \in [Tids -> [state : {0, 1}, sleep : BOOLEAN]]
    BY <1>0 DEF TypeOK
  <2>2. go[c] \in [state : {0, 1}, sleep : BOOLEAN] /\ {0, 1} \in SUBSET Nat
    BY <2>1
  <2>3. PICK no \in BOOLEAN : no = FALSE
    OBVIOUS
  <2>4. Clear(go[c]) = [state |-> go[c].state, sleep |-> no] /\ go[c].state \in {0, 1}
    BY <2>2, <2>3, FlagFacts
  <2>5. PICK flag \in [state : {0, 1}, sleep : BOOLEAN] :
          flag = Clear(go[c]) /\ flag.state = go[c].state
    BY <2>4
  <2>6. go' = [go EXCEPT ![c] = flag]
    BY <1>4, <2>5 DEF ReleaseWake, Set
  <2> QED
    BY <2>1, <2>5, <2>6
<1>8. TypeOK'
  <2>1. asleep' \subseteq asleep
    BY <1>5
  <2> QED
    BY <1>0, <1>1, <1>2, <1>6, <1>7, <2>1 DEF TypeOK, PCs
<1>9. \A u \in Tids : /\ Late(u)' <=> Late(u)
                      /\ GatherParent(u)' = GatherParent(u)
                      /\ ReleaseParent(u)' = ReleaseParent(u)
                      /\ Arrived(u)' <=> Arrived(u)
                      /\ Here(u)' <=> Here(u)
                      /\ u # t => Target(u)' = Target(u) /\ Child(u)' = Child(u)
  <2>1. \A u \in Tids : Arrived(u)' <=> Arrived(u)
    BY <1>1, <1>2 DEF Arrived
  <2>2. \A u \in Tids : pc'[u] = "work" <=> pc[u] = "work"
    BY <1>1, <1>2
  <2>3. \A u \in Tids : u # t => Target(u)' = Target(u) /\ Child(u)' = Child(u)
    BY <1>1, <1>6, TargetSame
  <2> QED
    BY <1>1, <2>1, <2>2, <2>3, Steady DEF Here
<1>10. \A u \in Tids : Collected(u)' <=> Collected(u)
  <2>1. \A u \in Tids \ {0} : GatherParent(u) \in Tids
    BY <1>0, Family
  <2> QED
    BY <1>3, <1>6, <1>9, <2>1 DEF Collected
<1>11. Control'
  <2>1. \A u \in Tids : u # t => pc'[u] = pc[u] /\ kids'[u] = kids[u]
    BY <1>2, <1>6
  <2>2. \A u \in Tids : \A d \in kids[u] : d \in Tids
    BY <1>0 DEF TypeOK
  <2>3. \A d \in kids'[t] : d # 0 /\ ReleaseParent(d)' = t
    BY <1>0, <1>1, <1>6, <1>9, <2>2 DEF Control
  <2>4. /\ pc'[t] = "release"
        /\ entered[t] = left[t] + 1 /\ left[t] + 1 = team_arrived
        /\ t # 0 => arrived[t].state = left[t] + 1
    BY <1>0, <1>1, <1>2, <1>3 DEF Control
  <2> QED
    BY <1>0, <1>1, <1>3, <1>7, <1>9, <2>1, <2>2, <2>3, <2>4 DEF Control
<1>12. Gathers'
  BY <1>9, <1>10 DEF IInv, Gathers
<1>13. Releases'
  <2>1. ASSUME NEW d \in Tids \ {0}, ToRelease(ReleaseParent(d), d)'
        PROVE  Late(d)' /\ Arrived(d)' /\ go'[d].state = 0
    <3>1. PICK q \in Tids : q = ReleaseParent(d)
      BY <1>0, Family
    <3>2. ToRelease(q, d)'
      BY <1>9, <2>1, <3>1
    <3>3. ToRelease(q, d)
      <4>1. CASE q = t
        BY <1>3, <1>4, <1>6, <1>9, <3>2, <4>1 DEF ToRelease
      <4>2. CASE q # t
        BY <1>2, <1>6, <1>9, <3>2, <4>2 DEF ToRelease
      <4> QED
        BY <4>1, <4>2
    <3>4. Late(d) /\ Arrived(d) /\ go[d].state = 0
      BY <3>1, <3>3 DEF IInv, Releases
    <3> QED
      BY <1>7, <1>9, <3>4
  <2> QED
    BY <2>1 DEF Releases
<1>14. Combined'
  BY <1>1, <1>9, <1>10, CombinedSame DEF IInv, ReleaseWake
<1>15. ReductionComplete'
  BY <1>1, <1>2, Numbers DEF IInv, ReductionComplete
<1>16. Sleepers'
  <2>1. SUFFICES ASSUME NEW w \in asleep' PROVE (WaitsBelow(w) \/ WaitsForGo(w))'
    BY DEF Sleepers
  <2>2. w \in asleep /\ w \in Tids /\ (WaitsBelow(w) \/ WaitsForGo(w))
    BY <1>0, <1>5, <2>1 DEF IInv, Sleepers, TypeOK
  <2>3. w # t
    BY <1>1, <2>2 DEF WaitsBelow, WaitsForGo, Gathering
  <2>4. CASE WaitsBelow(w)
    <3>1. PICK b \in Tids : b = Child(w)
      BY <1>0, <2>2, <2>4, Kids DEF WaitsBelow, Gathering, TypeOK
    <3>2. /\ pc[w] = "gather" /\ kids[w] # {} /\ arrived[b].sleep
          /\ arrived[b].state = new_state[w] => pc[b] = "arrived"
      BY <2>4, <3>1 DEF WaitsBelow, Gathering
    <3>3. arrived[b].state = new_state[w] => pc'[b] = "arrived"
      BY <1>1, <1>2, <3>2
    <3> QED
      BY <1>1, <1>2, <1>6, <1>9, <2>2, <2>3, <3>1, <3>2, <3>3 DEF WaitsBelow, Gathering
  <2>5. CASE WaitsForGo(w)
    <3>1. w # c
      BY <1>5, <2>1, <2>5 DEF WaitsForGo
    <3>2. pc'[w] = "wait_go" /\ go'[w] = go[w]
      BY <1>2, <1>7, <2>2, <2>3, <2>5, <3>1 DEF WaitsForGo
    <3>3. \A u \in Tids : pc[u] = "released" /\ Target(u) = w =>
            pc'[u] = "released" /\ Target(u)' = w
      BY <1>2, <1>4, <1>9, <3>1
    <3>4. WaitsForGo(w)'
      BY <2>5, <3>2, <3>3 DEF WaitsForGo
    <3> QED
      BY <3>4
  <2> QED
    BY <2>2, <2>4, <2>5
<1> QED
  BY <1>8, <1>11, <1>12, <1>13, <1>14, <1>15, <1>16 DEF IInv

LEMMA LeaveStep ==
  ASSUME NAssumption, RoundsAssumption, BitsAssumption, IInv, NEW t \in Tids, Leave(t)
  PROVE  IInv'
<1> USE DEF flags
<1>0. TypeOK /\ Control
  BY DEF IInv
<1>1. /\ pc[t] = "release" /\ kids[t] = {}
      /\ UNCHANGED <<pattern, arrived, go, team_arrived, reduce_data, kids, new_state, asleep, entered>>
  BY DEF Leave, Goto
<1>2. /\ pc' \in [Tids -> PCs]
      /\ \A u \in Tids : pc'[u] = IF u = t THEN "work" ELSE pc[u]
  BY <1>0 DEF Leave, Goto, Set, TypeOK, PCs
<1>3. Late(t) /\ ~Arrived(t) /\ ~Here(t) /\ left[t] + 1 = team_arrived /\ entered[t] = left[t] + 1
  BY <1>0, <1>1 DEF Control, Arrived, Here
<1>4. /\ left' \in [Tids -> 0..MaxRounds]
      /\ \A u \in Tids : u # t => left'[u] = left[u]
      /\ left'[t] = team_arrived
  <2>1. left[t] + 1 \in 0..MaxRounds
    BY <1>0, <1>3 DEF TypeOK
  <2> QED
    BY <1>0, <1>3, <2>1 DEF Leave, Set, TypeOK
<1>5. TypeOK'
  BY <1>0, <1>1, <1>2, <1>4 DEF TypeOK, PCs
<1>6. \A u \in Tids : /\ Late(u)' <=> Late(u) /\ u # t
                      /\ GatherParent(u)' = GatherParent(u)
                      /\ ReleaseParent(u)' = ReleaseParent(u)
                      /\ Target(u)' = Target(u) /\ Child(u)' = Child(u)
                      /\ Arrived(u)' <=> Arrived(u)
                      /\ Here(u)' <=> Here(u)
  <2>1. \A u \in Tids : Late(u)' <=> Late(u) /\ u # t
    BY <1>1, <1>4 DEF Late
  <2>2. \A u \in Tids : GatherParent(u)' = GatherParent(u) /\ ReleaseParent(u)' = ReleaseParent(u)
    BY <1>1 DEF GatherParent, ReleaseParent
  <2>3. \A u \in Tids : Arrived(u)' <=> Arrived(u)
    BY <1>1, <1>2 DEF Arrived
  <2>4. \A u \in Tids : Here(u)' <=> Here(u)
    BY <1>2, <1>3, <2>1 DEF Here
  <2> QED
    BY <1>1, <2>1, <2>2, <2>3, <2>4, TargetSame
<1>7. \A u \in Tids : Collected(u)' <=> Collected(u)
  <2>1. \A u \in Tids \ {0} : GatherParent(u) \in Tids
    BY <1>0, Family
  <2> QED
    BY <1>1, <1>6, <2>1 DEF Collected
<1>8. Control'
  <2>1. \A u \in Tids : u # t => pc'[u] = pc[u] /\ left'[u] = left[u]
    BY <1>2, <1>4
  <2>2. \A u \in Tids : \A d \in kids[u] : d \in Tids
    BY <1>0 DEF TypeOK
  <2>3. /\ pc'[t] = "work" /\ entered[t] = left'[t] /\ go[t].state # 1
        /\ t # 0 => arrived[t].state = left'[t]
    BY <1>0, <1>1, <1>2, <1>3, <1>4 DEF Control
  <2> QED
    BY <1>0, <1>1, <1>3, <1>6, <2>1, <2>2, <2>3 DEF Control
<1>9. Gathers'
  BY <1>3, <1>6, <1>7 DEF IInv, Gathers
<1>10. Releases'
  <2>1. ASSUME NEW d \in Tids \ {0}, ToRelease(ReleaseParent(d), d)'
        PROVE  Late(d)' /\ Arrived(d)' /\ go'[d].state = 0
    <3>1. PICK q \in Tids : q = ReleaseParent(d)
      BY <1>0, Family
    <3>2. ToRelease(q, d)'
      BY <1>6, <2>1, <3>1
    <3>3. q # t
      BY <1>6, <3>2 DEF ToRelease
    <3>4. ToRelease(q, d)
      BY <1>1, <1>2, <1>6, <3>2, <3>3 DEF ToRelease
    <3>5. Late(d) /\ Arrived(d) /\ go[d].state = 0
      BY <3>1, <3>4 DEF IInv, Releases
    <3>6. d # t
      BY <1>3, <3>5
    <3> QED
      BY <1>1, <1>6, <3>5, <3>6
  <2> QED
    BY <2>1 DEF Releases
<1>11. Combined'
  BY <1>1, <1>6, <1>7, CombinedSame DEF IInv
<1>12. ReductionComplete'
  BY <1>1, <1>2, Numbers DEF IInv, ReductionComplete
<1>13. Sleepers'
  <2>1. SUFFICES ASSUME NEW w \in asleep PROVE (WaitsBelow(w) \/ WaitsForGo(w))'
    BY <1>1 DEF Sleepers
  <2>2. w \in Tids /\ (WaitsBelow(w) \/ WaitsForGo(w))
    BY <1>0 DEF IInv, Sleepers, TypeOK
  <2>3. w # t
    BY <1>1, <2>2 DEF WaitsBelow, WaitsForGo, Gathering
  <2>4. CASE WaitsBelow(w)
    <3>1. PICK b \in Tids : b = Child(w)
      BY <1>0, <2>2, <2>4, Kids DEF WaitsBelow, Gathering, TypeOK
    <3>2. /\ pc[w] = "gather" /\ kids[w] # {} /\ arrived[b].sleep
          /\ arrived[b].state = new_state[w] => pc[b] = "arrived"
      BY <2>4, <3>1 DEF WaitsBelow, Gathering
    <3>3. arrived[b].state = new_state[w] => pc'[b] = "arrived"
      BY <1>1, <1>2, <3>2
    <3> QED
      BY <1>1, <1>2, <1>6, <2>2, <2>3, <3>1, <3>2, <3>3 DEF WaitsBelow, Gathering
  <2>5. CASE WaitsForGo(w)
    <3>1. \A u \in Tids : pc[u] = "released" => pc'[u] = "released" /\ Target(u)' = Target(u)
      BY <1>1, <1>2, <1>6
    <3>2. WaitsForGo(w)'
      BY <1>1, <1>2, <2>2, <2>3, <2>5, <3>1 DEF WaitsForGo
    <3> QED
      BY <3>2
  <2> QED
    BY <2>2, <2>4, <2>5
<1> QED
  BY <1>5, <1>8, <1>9, <1>10, <1>11, <1>12, <1>13 DEF IInv

-----------------------------------------------------------------------------
(* The invariant holds always.                                              *)

LEMMA InitHolds ==
  ASSUME NAssumption, RoundsAssumption, BitsAssumption, Init
  PROVE  IInv
<1>1. 0 \in Tids /\ Tids \subseteq Nat /\ MaxRounds \in Nat /\ 0 \in 0..MaxRounds
  BY Numbers
<1>2. PICK no \in BOOLEAN : no = FALSE
  OBVIOUS
<1>3. /\ arrived = [t \in Tids |-> [state |-> 0, sleep |-> no]]
      /\ go = [t \in Tids |-> [state |-> 0, sleep |-> no]]
  BY <1>2 DEF Init, Flag
<1>4. TypeOK
  <2>1. arrived \in [Tids -> Flags] /\ go \in [Tids -> [state : {0, 1}, sleep : BOOLEAN]]
    BY <1>1, <1>3 DEF Flags
  <2>2. /\ pattern \in [{"gather", "release"} -> Patterns]
        /\ team_arrived \in 0..MaxRounds /\ asleep \subseteq Tids
        /\ reduce_data \in [Tids -> [Tids -> Nat]]
    BY <1>1 DEF Init
  <2>3. /\ pc \in [Tids -> {"work", "gather", "arrived", "wait_go", "release", "released"}]
        /\ kids \in [Tids -> SUBSET Tids]
    BY DEF Init
  <2>4. /\ new_state \in [Tids -> 0..MaxRounds]
        /\ entered \in [Tids -> 0..MaxRounds] /\ left \in [Tids -> 0..MaxRounds]
    BY <1>1 DEF Init
  <2> QED
    BY <2>1, <2>2, <2>3, <2>4 DEF TypeOK
<1>5. \A t \in Tids : /\ ~Late(t) /\ ~Arrived(t) /\ ~Here(t)
                      /\ pc[t] = "work" /\ kids[t] = {}
                      /\ entered[t] = 0 /\ left[t] = 0
                      /\ arrived[t].state = 0 /\ go[t].state = 0
  <2>1. \A t \in Tids : pc[t] = "work" /\ kids[t] = {} /\ entered[t] = 0 /\ left[t] = 0
    BY DEF Init
  <2>2. \A t \in Tids : arrived[t].state = 0 /\ go[t].state = 0
    BY <1>3
  <2>3. team_arrived = 0
    BY DEF Init
  <2> QED
    BY <2>1, <2>2, <2>3 DEF Late, Arrived, Here
<1>6. Control
  BY <1>5 DEF Control
<1>7. \A c \in Tids \ {0} : GatherParent(c) \in Tids /\ ReleaseParent(c) \in Tids
  BY <1>4, Family
<1>8. Gathers /\ \A t \in Tids : ~Top(t)
  BY <1>5, <1>7 DEF Gathers, Collected, Top
<1>9. Releases
  BY <1>5, <1>7 DEF Releases, ToRelease
<1>10. Combined
  BY <1>5, <1>8 DEF Combined
<1>11. ReductionComplete
  BY <1>1, <1>5 DEF ReductionComplete
<1>12. Sleepers
  BY DEF Init, Sleepers
<1> QED
  BY <1>4, <1>6, <1>8, <1>9, <1>10, <1>11, <1>12 DEF IInv

LEMMA StutterHolds ==
  ASSUME NAssumption, BitsAssumption, IInv, UNCHANGED vars
  PROVE  IInv'
<1> USE DEF vars, flags, locals, counts
<1>1. TypeOK'
  BY DEF IInv, TypeOK
<1>2. \A u \in Tids : /\ Late(u)' <=> Late(u)
                      /\ GatherParent(u)' = GatherParent(u)
                      /\ ReleaseParent(u)' = ReleaseParent(u)
                      /\ Target(u)' = Target(u) /\ Child(u)' = Child(u)
                      /\ Arrived(u)' <=> Arrived(u)
                      /\ Here(u)' <=> Here(u)
  BY Steady, TargetSame DEF Arrived, Here
<1>3. /\ \A c \in Tids \ {0} : GatherParent(c) \in Tids /\ ReleaseParent(c) \in Tids
      /\ \A u \in Tids : \A d \in kids[u] : d \in Tids
  BY Family DEF IInv, TypeOK
<1>4. \A u \in Tids : Collected(u)' <=> Collected(u)
  BY <1>2, <1>3 DEF Collected
<1>5. Control'
  BY <1>2, <1>3 DEF IInv, Control
<1>6. Gathers'
  BY <1>2, <1>4 DEF IInv, Gathers
<1>7. Releases'
  <2>1. \A d \in Tids \ {0} :
          ToRelease(ReleaseParent(d), d)' <=> ToRelease(ReleaseParent(d), d)
    BY <1>2, <1>3 DEF ToRelease
  <2> QED
    BY <1>2, <2>1 DEF IInv, Releases
<1>8. Combined'
  BY <1>2, <1>4, CombinedSame DEF IInv
<1>9. ReductionComplete'
  BY DEF IInv, ReductionComplete
<1>10. Sleepers'
  <2>1. SUFFICES ASSUME NEW w \in asleep PROVE (WaitsBelow(w) \/ WaitsForGo(w))'
    BY DEF Sleepers
  <2>2. w \in Tids /\ (WaitsBelow(w) \/ WaitsForGo(w))
    BY DEF IInv, Sleepers, TypeOK
  <2>3. WaitsBelow(w) => WaitsBelow(w)'
    BY <1>2, <2>2 DEF WaitsBelow, Gathering
  <2>4. WaitsForGo(w) => WaitsForGo(w)'
    BY <1>2, <2>2 DEF WaitsForGo
  <2> QED
    BY <2>2, <2>3, <2>4
<1> QED
  BY <1>1, <1>5, <1>6, <1>7, <1>8, <1>9, <1>10 DEF IInv

LEMMA StepHolds ==
  ASSUME NAssumption, RoundsAssumption, BitsAssumption, IInv, [Next]_vars
  PROVE  IInv'
<1>1. CASE UNCHANGED vars
  BY <1>1, StutterHolds
<1>2. ASSUME NEW t \in Tids, Enter(t) PROVE IInv'
  BY <1>2, EnterStep
<1>3. ASSUME NEW t \in Tids, Running(t) PROVE IInv'
  <2>1. CASE Gather(t)
    BY <2>1, GatherStep
  <2>2. CASE Arrive(t)
    BY <2>2, ArriveStep
  <2>3. CASE ArriveWake(t)
    BY <2>3, ArriveWakeStep
  <2>4. CASE t = 0 /\ Gathered
    BY <2>4, GatheredStep
  <2>5. CASE WaitGo(t)
    BY <2>5, WaitGoStep
  <2>6. CASE Release(t)
    BY <2>6, ReleaseStep
  <2>7. CASE ReleaseWake(t)
    BY <2>7, ReleaseWakeStep
  <2>8. CASE Leave(t)
    BY <2>8, LeaveStep
  <2> QED
    BY <1>3, <2>1, <2>2, <2>3, <2>4, <2>5, <2>6, <2>7, <2>8 DEF Running
<1>4. ASSUME NEW t \in Tids, Sleep(t) PROVE IInv'
  BY <1>4, GatherSleepStep, GoSleepStep DEF Sleep
<1> QED
  BY <1>1, <1>2, <1>3, <1>4 DEF Next

LEMMA Always == Spec => []IInv
<1>1. Init => IInv
  BY NAssumption, RoundsAssumption, BitsAssumption, InitHolds
<1>2. IInv /\ [Next]_vars => IInv'
  BY NAssumption, RoundsAssumption, BitsAssumption, StepHolds
<1> QED
  BY <1>1, <1>2, PTL DEF Spec

-----------------------------------------------------------------------------
(* What the barrier promises.                                               *)

(***************************************************************************)
(* Variables have their types; in particular b_go is set back before it is  *)
(* bumped again, so that a thread never finds it at more than one bump.     *)
(***************************************************************************)
THEOREM TypeCorrect == Spec => []TypeOK
<1>1. IInv => TypeOK
  BY DEF IInv
<1> QED
  BY <1>1, Always, PTL

(***************************************************************************)
(* When the gather is over the master's data holds that of every thread     *)
(* exactly once: in every pattern, for every number of branches, and when   *)
(* threads are still on their way out of the barrier before.                *)
(***************************************************************************)
THEOREM ReductionIsComplete == Spec => []ReductionComplete
<1>1. IInv => ReductionComplete
  BY DEF IInv
<1> QED
  BY <1>1, Always, PTL

(***************************************************************************)
(* No wake-up of a thread that sleeps in the barrier is lost, and in every  *)
(* pattern the threads that wait for each other take each other for parent  *)
(* and child.                                                               *)
(***************************************************************************)
THEOREM ParentsWakeUp == Spec => []ParentsAreWoken
<1>1. IInv => SleepersAreWoken
  <2>1. SUFFICES ASSUME IInv, NEW t \in asleep
                 PROVE  \/ /\ Gathering(t)
                           /\ LET c == Child(t) IN
                                /\ arrived[c].sleep
                                /\ Parent(pattern["gather"], c, N, 2^GatherBits) = t
                                /\ arrived[c].state = new_state[t] => pc[c] = "arrived"
                        \/ WaitsForGo(t)
    BY DEF SleepersAreWoken, WaitsForGo
  <2>2. t \in Tids /\ (WaitsBelow(t) \/ WaitsForGo(t))
    BY <2>1 DEF IInv, TypeOK, Sleepers
  <2>3. CASE WaitsBelow(t)
    <3>1. pc[t] = "gather" /\ kids[t] # {}
      BY <2>3 DEF WaitsBelow, Gathering
    <3>2. Child(t) \in kids[t]
      BY <2>1, <2>2, <3>1, NAssumption, Kids DEF IInv
    <3>3. GatherParent(Child(t)) = t
      BY <2>1, <2>2, <3>1, <3>2 DEF IInv, Control
    <3> QED
      BY <2>3, <3>3 DEF WaitsBelow, GatherParent
  <2> QED
    BY <2>2, <2>3
<1>2. ParentsAgree
  <2>1. SUFFICES ASSUME NEW p \in Patterns, NEW n \in 1..MaxTeam, NEW f \in {2, 4, 8},
                        NEW t \in 0..n-1
                 PROVE  Agree(p, t, n, f)
    BY DEF ParentsAgree
  <2>2. n \in 1..64 /\ f \in Factors
    BY <2>1 DEF MaxTeam, Factors
  <2> QED
    BY <2>1, <2>2, OneTree
<1>3. IInv => ParentsAreWoken
  BY <1>1, <1>2 DEF ParentsAreWoken
<1> QED
  BY <1>3, Always, PTL

(***************************************************************************)
(* Nobody leaves the barrier before everybody has entered it: each step of  *)
(* the gather and of the release is a step of BarrierSpec or changes        *)
(* nothing of it.  That everybody leaves is left to the runs.               *)
(***************************************************************************)
THEOREM NobodyLeavesEarly ==
  Spec => Abstract!Init /\ [][Abstract!Next]_Abstract!vars
<1>1. Init => Abstract!Init
  BY DEF Init, Abstract!Init
<1>2. ASSUME IInv, [Next]_vars PROVE [Abstract!Next]_Abstract!vars
  <2> USE DEF Abstract!vars
  <2>0. TypeOK /\ Control
    BY <1>2 DEF IInv
  <2>1. ASSUME NEW t \in Tids, Enter(t) PROVE Abstract!Enter(t)
    <3>1. pc[t] = "work"
      BY <2>1 DEF Enter, Goto
    <3>2. entered[t] = left[t]
      BY <2>0, <3>1 DEF Control
    <3> QED
      BY <2>0, <2>1, <3>2 DEF Enter, Set, TypeOK, Abstract!Enter
  <2>2. ASSUME NEW t \in Tids, Leave(t) PROVE Abstract!Leave(t)
    <3>1. pc[t] = "release"
      BY <2>2 DEF Leave, Goto
    <3>2. Late(t) /\ entered[t] = left[t] + 1 /\ left[t] + 1 = team_arrived
      BY <2>0, <3>1 DEF Control
    <3>3. ASSUME NEW u \in Tids PROVE entered[u] >= team_arrived
      <4>1. entered[u] \in Nat /\ left[u] \in Nat /\ team_arrived \in Nat
        BY <2>0, Numbers, NAssumption, RoundsAssumption DEF TypeOK
      <4>2. CASE Late(u)
        BY <2>0, <4>1, <4>2 DEF Control
      <4>3. CASE ~Late(u)
        BY <2>0, <4>1, <4>3 DEF Control, Late
      <4> QED
        BY <4>2, <4>3
    <3>4. left[t] \in Nat /\ entered[t] \in Nat
      BY <2>0, Numbers, NAssumption, RoundsAssumption DEF TypeOK
    <3> QED
      BY <2>0, <2>2, <3>2, <3>3, <3>4 DEF Leave, Set, TypeOK, Abstract!Leave
  <2>3. ASSUME NEW t \in Tids, Running(t) \/ Sleep(t), ~Leave(t) PROVE UNCHANGED <<entered, left>>
    BY <2>3 DEF Running, Sleep, Gather, Arrive, ArriveWake, Gathered, WaitGo, Release, ReleaseWake,
                GatherSleep, GoSleep, counts
  <2>4. CASE UNCHANGED vars
    BY <2>4 DEF vars, counts
  <2>5. CASE Next
    BY <2>1, <2>2, <2>3, <2>5 DEF Next, Running, Abstract!Next
  <2> QED
    BY <1>2, <2>4, <2>5
<1> QED
  BY <1>1, <1>2, Always, PTL DEF Spec
=============================================================================
