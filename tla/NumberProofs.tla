---------------------------- MODULE NumberProofs ----------------------------
(***************************************************************************)
(* Lemmas about numbers: quotients and remainders, the least element of a  *)
(* set, by which induction is done, recursive functions from the end of    *)
(* something back to its start, folds over finite sets, sums, powers of    *)
(* two, numbers put together from bits, least and greatest elements.       *)
(***************************************************************************)
EXTENDS Integers, FiniteSetsExt, TLAPS, WellFoundedInduction, FiniteSetTheorems

LEMMA DivMod ==
  ASSUME NEW a \in Int, NEW b \in Nat \ {0}
  PROVE  /\ a \div b \in Int /\ a % b \in 0 .. b - 1
         /\ a = b * (a \div b) + (a % b)
OBVIOUS

LEMMA TimesMonotone ==
  ASSUME NEW a \in Int, NEW b \in Int, NEW c \in Nat, a <= b
  PROVE  c * a <= c * b
OBVIOUS

LEMMA DivMonotone ==
  ASSUME NEW a \in Int, NEW c \in Int, NEW b \in Nat \ {0}, a <= c
  PROVE  a \div b <= c \div b
<1> DEFINE q == a \div b  r == c \div b
<1>1. /\ q \in Int /\ r \in Int /\ a % b \in 0 .. b-1 /\ c % b \in 0 .. b-1
      /\ a = b * q + (a % b) /\ c = b * r + (c % b)
  BY DivMod
<1>2. SUFFICES ASSUME r + 1 <= q PROVE FALSE
  BY <1>1
<1>3. b * (r + 1) <= b * q
  BY <1>1, <1>2, TimesMonotone
<1>4. b * (r + 1) = b * r + b
  BY <1>1
<1> QED BY <1>1, <1>3, <1>4

\* Quotient and remainder are the only ones there are.
LEMMA DivModUnique ==
  ASSUME NEW b \in Nat \ {0}, NEW q \in Int, NEW r \in 0 .. b - 1, NEW a \in Int,
         a = b * q + r
  PROVE  a \div b = q /\ a % b = r
<1> DEFINE d == a \div b  m == a % b
<1>1. d \in Int /\ m \in 0 .. b - 1 /\ a = b * d + m
  BY DivMod
<1> HIDE DEF d, m
<1>2. ASSUME NEW x \in Int, NEW y \in Int, x + 1 <= y,
             NEW u \in 0 .. b - 1, NEW w \in 0 .. b - 1, b * x + u = b * y + w
      PROVE  FALSE
  <2>1. b * (x + 1) <= b * y
    BY <1>2, TimesMonotone
  <2>2. b * (x + 1) = b * x + b
    BY <1>2
  <2>3. b * x \in Int /\ b * y \in Int
    BY <1>2
  <2> QED BY <1>2, <2>1, <2>2, <2>3
<1>3. ~(d + 1 <= q)
  BY <1>1, <1>2
<1>4. ~(q + 1 <= d)
  BY <1>1, <1>2
<1>5. d = q
  BY <1>1, <1>3, <1>4
<1>6. m = r
  <2>1. b * q \in Int
    OBVIOUS
  <2> QED BY <1>1, <1>5, <2>1
<1> QED BY <1>5, <1>6 DEF d, m

\* What is below n blocks of b lies in one of them.
LEMMA DivModRange ==
  ASSUME NEW b \in Nat \ {0}, NEW n \in Nat \ {0}, NEW a \in 0 .. n * b - 1
  PROVE  a \div b \in 0 .. n - 1 /\ a % b \in 0 .. b - 1
<1> DEFINE q == a \div b  top == n * b
<1>0. top \in Int /\ top = b * n /\ a \in Int /\ 0 <= a /\ a < top
  OBVIOUS
<1>1. q \in Int /\ a % b \in 0 .. b - 1 /\ a = b * q + (a % b)
  BY <1>0, DivMod
<1> HIDE DEF q, top
<1>2. 0 <= q
  <2> SUFFICES ASSUME q <= -1 PROVE FALSE
    BY <1>1
  <2>1. b * q <= b * (-1)
    BY <1>1, TimesMonotone
  <2> QED BY <1>0, <1>1, <2>1
<1>3. q < n
  <2> SUFFICES ASSUME n <= q PROVE FALSE
    BY <1>0, <1>1
  <2>1. b * n <= b * q
    BY <1>1, TimesMonotone
  <2> QED BY <1>0, <1>1, <2>1
<1> QED BY <1>1, <1>2, <1>3 DEF q

LEMMA QuotientNat ==
  ASSUME NEW a \in Nat, NEW b \in Nat \ {0}
  PROVE  a \div b \in Nat /\ \A c \in Nat \ {0} : (a \div b) % c \in Nat
<1>1. a \div b \in Nat
  <2>1. a \div b >= 0
    BY DivModRange
  <2> QED BY <2>1, DivMod
<1> DEFINE q == a \div b
<1>2. q \in Nat
  BY <1>1
<1> HIDE DEF q
<1>3. \A c \in Nat \ {0} : q % c \in Nat
  BY <1>2
<1> QED BY <1>2, <1>3 DEF q

LEMMA ModSmall ==
  ASSUME NEW n \in Nat \ {0}, NEW a \in 0 .. n - 1
  PROVE  a % n = a /\ a \div n = 0
<1>1. a = n * 0 + a /\ a \in Int /\ 0 \in Int
  OBVIOUS
<1> QED BY <1>1, DivModUnique

LEMMA ModShift ==
  ASSUME NEW n \in Nat \ {0}, NEW a \in Int, NEW k \in Int
  PROVE  (a + n * k) % n = a % n /\ (a + n * k) \div n = (a \div n) + k
<1> DEFINE q == a \div n  r == a % n
<1>1. q \in Int /\ r \in 0 .. n - 1 /\ a = n * q + r
  BY DivMod
<1> HIDE DEF q, r
<1>2. a + n * k = n * (q + k) + r /\ q + k \in Int /\ a + n * k \in Int
  BY <1>1
<1>3. (a + n * k) \div n = q + k /\ (a + n * k) % n = r
  BY <1>1, <1>2, DivModUnique
<1> QED BY <1>3 DEF q, r

LEMMA DivDiv ==
  ASSUME NEW a \in Int, NEW b \in Nat \ {0}, NEW c \in Nat \ {0}
  PROVE  a \div (b * c) = (a \div b) \div c
<1> DEFINE q == a \div b  r == a % b  s == q \div c  t == q % c
<1>1. q \in Int /\ r \in 0 .. b - 1 /\ a = b * q + r
  BY DivMod
<1> HIDE DEF q, r
<1>2. s \in Int /\ t \in 0 .. c - 1 /\ q = c * s + t
  BY <1>1, DivMod
<1> HIDE DEF s, t
<1>3. b * q = (b * c) * s + b * t
  <2>1. b * (c * s + t) = (b * c) * s + b * t
    BY <1>2
  <2> QED BY <1>2, <2>1
<1> DEFINE d == b * c  e == b * t + r
<1>4. d \in Nat \ {0} /\ b * t \in Nat /\ e \in 0 .. d - 1
  <2>1. b * t <= b * (c - 1) /\ b * (c - 1) = b * c - b /\ b * c \in Nat /\ b * t \in Nat
    <3>1. b * t <= b * (c - 1)
      BY <1>2, TimesMonotone
    <3>2. b * (c - 1) = b * c - b /\ b * c \in Nat /\ b * t \in Nat
      BY <1>2
    <3> QED BY <3>1, <3>2
  <2>2. d >= b
    <3>1. b * 1 <= b * c
      BY TimesMonotone
    <3> QED BY <3>1
  <2> QED BY <1>1, <2>1, <2>2
<1>5. a = d * s + e
  <2> DEFINE bt == b * t  ds == d * s  bq == b * q
  <2>1. bq = ds + bt /\ a = bq + r /\ e = bt + r /\ bt \in Nat /\ ds \in Int
    BY <1>1, <1>2, <1>3, <1>4
  <2> HIDE DEF bt, ds, bq, e
  <2>2. a = ds + e
    BY <1>1, <2>1
  <2> QED BY <2>2 DEF ds
<1> HIDE DEF d, e
<1>6. a \div d = s
  BY <1>2, <1>4, <1>5, DivModUnique
<1> QED BY <1>6 DEF d, s, q

-----------------------------------------------------------------------------
LEMMA LeastElement ==
  ASSUME NEW T, T \subseteq Nat, T # {}
  PROVE  \E x \in T : \A y \in T : x <= y
<1> DEFINE R == OpToRel(<, Nat)
<1>1. IsWellFoundedOn(R, Nat)
  BY NatLessThanWellFounded
<1>2. PICK x \in T : \A y \in T : ~(<<y, x>> \in R)
  <2> HIDE DEF R
  <2> QED BY <1>1, WFMin
<1>3. ASSUME NEW y \in T PROVE x <= y
  <2>1. ~(<<y, x>> \in {ss \in Nat \X Nat : ss[1] < ss[2]})
    BY <1>2 DEF OpToRel
  <2> QED BY <2>1
<1> QED BY <1>3

\* A function that is defined from the end of something back to its start.
IsRecursion(f, len, base, H, next) ==
  \A n \in 0 .. len : f[n] = IF n = len THEN base ELSE H[<<n, f[next[n]]>>]

LEMMA RecursionExists ==
  ASSUME NEW len \in Nat, NEW V, NEW base \in V, NEW H \in [(0 .. len - 1) \X V -> V],
         NEW next \in [0 .. len - 1 -> 0 .. len], \A n \in 0 .. len - 1 : n < next[n]
  PROVE  \E f \in [0 .. len -> V] : IsRecursion(f, len, base, H, next)
<1> DEFINE Is(f, n) == f[n] = IF n = len THEN base ELSE H[<<n, f[next[n]]>>]
           From(k) == \E f \in [0 .. len -> V] : \A n \in len - k .. len : Is(f, n)
           bad == {k \in 0 .. len : ~From(k)}
<1>1. SUFFICES ASSUME bad # {} PROVE FALSE
  <2>1. From(len)
    <3> HIDE DEF From
    <3> QED BY <1>1
  <2>2. PICK f \in [0 .. len -> V] : \A n \in len - len .. len : Is(f, n)
    BY <2>1
  <2>3. len - len = 0
    OBVIOUS
  <2> HIDE DEF Is
  <2>4. \A n \in 0 .. len : Is(f, n)
    BY <2>2, <2>3
  <2> QED BY <2>4 DEF IsRecursion, Is
<1>2. PICK k \in bad : \A j \in bad : k <= j
  <2> HIDE DEF bad
  <2>1. bad \subseteq Nat
    BY DEF bad
  <2> QED BY <1>1, <2>1, LeastElement
<1>3. CASE k = 0
  <2> DEFINE f == [n \in 0 .. len |-> base]
  <2>1. f \in [0 .. len -> V] /\ \A n \in len - 0 .. len : n = len /\ f[n] = base
    OBVIOUS
  <2> HIDE DEF f
  <2>2. From(0)
    BY <2>1
  <2> HIDE DEF From
  <2> QED BY <1>2, <1>3, <2>2
<1>4. CASE k # 0
  <2> HIDE DEF From
  <2>1. k - 1 \in 0 .. len /\ len - k \in 0 .. len - 1 /\ From(k - 1) /\ ~From(k)
    BY <1>2, <1>4
  <2>2. PICK g \in [0 .. len -> V] : \A n \in len - (k - 1) .. len : Is(g, n)
    BY <2>1 DEF From
  <2> DEFINE e == len - k
             v == H[<<e, g[next[e]]>>]
             h == [g EXCEPT ![e] = v]
  <2>3. next[e] \in 0 .. len /\ e < next[e] /\ v \in V /\ e \in 0 .. len - 1
    <3>1. e \in 0 .. len - 1
      BY <2>1
    <3> HIDE DEF e
    <3>2. next[e] \in 0 .. len /\ e < next[e]
      BY <3>1
    <3>3. g[next[e]] \in V
      BY <3>2
    <3> QED BY <3>1, <3>2, <3>3
  <2>4. h \in [0 .. len -> V]
    BY <2>3
  <2>5. ASSUME NEW n \in len - k .. len PROVE Is(h, n)
    <3>1. CASE n = e
      <4>1. h[next[e]] = g[next[e]] /\ h[e] = v /\ e # len
        BY <2>1, <2>3
      <4> HIDE DEF h, e
      <4> QED BY <3>1, <4>1
    <3>2. CASE n # e
      <4>1. n \in len - (k - 1) .. len /\ n \in 0 .. len /\ h[n] = g[n]
        BY <2>1, <3>2
      <4>2. Is(g, n)
        BY <2>2, <4>1
      <4>3. n # len => next[n] \in 0 .. len /\ n < next[n] /\ h[next[n]] = g[next[n]]
        BY <2>1, <3>2, <4>1
      <4> HIDE DEF h, e
      <4> QED BY <4>1, <4>2, <4>3
    <3> QED BY <3>1, <3>2
  <2> HIDE DEF Is, h
  <2>6. From(k)
    BY <2>4, <2>5 DEF From
  <2> QED BY <2>1, <2>6
<1> QED BY <1>3, <1>4


\* g[n] is the sum of the numbers w along the positions that next leads
\* through from n on, up to the end or a position in stop.
AreSums(g, len, stop, w, next) ==
  \A n \in 0 .. len : g[n] = IF n = len \/ n \in stop THEN 0 ELSE w[n] + g[next[n]]

\* There are such sums.
LEMMA SumsExist ==
  ASSUME NEW len \in Nat, NEW stop, NEW w \in [0 .. len - 1 -> Nat],
         NEW next \in [0 .. len - 1 -> 0 .. len], \A n \in 0 .. len - 1 : n < next[n]
  PROVE  \E g \in [0 .. len -> Nat] : AreSums(g, len, stop, w, next)
<1> DEFINE H == [p \in (0 .. len - 1) \X Nat |-> IF p[1] \in stop THEN 0 ELSE w[p[1]] + p[2]]
<1>1. /\ H \in [(0 .. len - 1) \X Nat -> Nat]
      /\ \A n \in 0 .. len - 1, x \in Nat : H[<<n, x>>] = IF n \in stop THEN 0 ELSE w[n] + x
  <2>1. \A n \in 0 .. len - 1, x \in Nat : w[n] + x \in Nat
    OBVIOUS
  <2> QED BY <2>1
<1> HIDE DEF H
<1>2. PICK g \in [0 .. len -> Nat] : IsRecursion(g, len, 0, H, next)
  <2> DEFINE V == Nat
  <2>1. 0 \in V /\ H \in [(0 .. len - 1) \X V -> V]
    BY <1>1
  <2> HIDE DEF V
  <2>2. \E g \in [0 .. len -> V] : IsRecursion(g, len, 0, H, next)
    BY <2>1, RecursionExists
  <2> QED BY <2>2 DEF V
<1>3. ASSUME NEW n \in 0 .. len
      PROVE  g[n] = IF n = len \/ n \in stop THEN 0 ELSE w[n] + g[next[n]]
  <2>1. n # len => n \in 0 .. len - 1 /\ g[next[n]] \in Nat
    <3>1. SUFFICES ASSUME n # len PROVE n \in 0 .. len - 1 /\ g[next[n]] \in Nat
      OBVIOUS
    <3>2. n \in 0 .. len - 1
      BY <3>1
    <3>3. next[n] \in 0 .. len
      BY <3>2
    <3> QED BY <3>2, <3>3
  <2> QED BY <1>1, <1>2, <2>1 DEF IsRecursion
<1> QED BY <1>3 DEF AreSums

\* What satisfies the equation of such a function has numbers for values.
LEMMA SumsAreNumbers ==
  ASSUME NEW len \in Nat, NEW stop, NEW w \in [0 .. len - 1 -> Nat],
         NEW next \in [0 .. len - 1 -> 0 .. len], \A n \in 0 .. len - 1 : n < next[n],
         NEW g, AreSums(g, len, stop, w, next)
  PROVE  \A n \in 0 .. len : g[n] \in Nat
<1> DEFINE bad == {k \in 0 .. len : g[len - k] \notin Nat}
<1>1. SUFFICES ASSUME bad # {} PROVE FALSE
  <2>1. ASSUME NEW n \in 0 .. len PROVE g[n] \in Nat
    <3>1. len - n \in 0 .. len /\ len - (len - n) = n
      OBVIOUS
    <3> QED BY <1>1, <3>1
  <2> QED BY <2>1
<1>2. PICK k \in bad : \A j \in bad : k <= j
  <2>1. bad \subseteq Nat
    OBVIOUS
  <2> HIDE DEF bad
  <2> QED BY <1>1, <2>1, LeastElement
<1> DEFINE n == len - k
<1>3. n \in 0 .. len /\ g[n] \notin Nat
  BY <1>2
<1>4. n \in 0 .. len - 1 /\ g[n] = w[n] + g[next[n]]
  BY <1>3 DEF AreSums
<1>5. next[n] \in 0 .. len /\ n < next[n] /\ w[n] \in Nat
  <2> HIDE DEF n
  <2> QED BY <1>4
<1>6. /\ len - next[n] \in 0 .. len /\ len - next[n] < k
      /\ len - (len - next[n]) = next[n]
  BY <1>2, <1>5
<1>7. g[next[n]] \in Nat
  BY <1>2, <1>6
<1> QED BY <1>3, <1>4, <1>5, <1>7

-----------------------------------------------------------------------------
(* Folds.  pick is the order in which the elements of a set are taken.     *)

IsFold(g, T, base, F, pick) ==
  \A s \in SUBSET T : g[s] = IF s = {} THEN base ELSE F[<<g[s \ {pick[s]}], pick[s]>>]

LEMMA FoldExists ==
  ASSUME NEW T, IsFiniteSet(T), NEW V, NEW base \in V, NEW F \in [V \X T -> V],
         NEW pick, \A s \in SUBSET T : s # {} => pick[s] \in s
  PROVE  \E g \in [SUBSET T -> V] : IsFold(g, T, base, F, pick)
<1> DEFINE Next1(g, s) == IF s = {} THEN base ELSE F[<<g[s \ {pick[s]}], pick[s]>>]
           Upto(k, g) == \A s \in SUBSET T : Cardinality(s) <= k => g[s] = Next1(g, s)
           bad == {k \in Nat : ~\E g \in [SUBSET T -> V] : Upto(k, g)}
<1>1. \A s \in SUBSET T : IsFiniteSet(s) /\ Cardinality(s) \in Nat /\ (Cardinality(s) = 0 <=> s = {})
  BY FS_Subset, FS_CardinalityType, FS_EmptySet
<1>2. ASSUME NEW s \in SUBSET T, s # {}
      PROVE  s \ {pick[s]} \in SUBSET T /\ Cardinality(s \ {pick[s]}) = Cardinality(s) - 1 /\ pick[s] \in T
  BY <1>1, <1>2, FS_RemoveElement
<1>3. ASSUME NEW g \in [SUBSET T -> V], NEW s \in SUBSET T
      PROVE  Next1(g, s) \in V
  <2>1. CASE s = {}
    BY <2>1
  <2>2. CASE s # {}
    <3>1. g[s \ {pick[s]}] \in V /\ pick[s] \in T
      BY <1>2, <2>2
    <3>2. F[<<g[s \ {pick[s]}], pick[s]>>] \in V
      BY <3>1
    <3> QED BY <2>2, <3>2
  <2> QED BY <2>1, <2>2
<1>4. bad = {}
  <2> SUFFICES ASSUME bad # {} PROVE FALSE
    OBVIOUS
  <2>1. PICK k \in bad : \A j \in bad : k <= j
    <3>1. bad \subseteq Nat
      OBVIOUS
    <3> HIDE DEF bad
    <3> QED BY <3>1, LeastElement
  <2>2. CASE k = 0
    <3> DEFINE g == [s \in SUBSET T |-> base]
    <3>1. g \in [SUBSET T -> V]
      OBVIOUS
    <3>2. ASSUME NEW s \in SUBSET T, Cardinality(s) <= k PROVE g[s] = Next1(g, s)
      <4>1. s = {}
        BY <1>1, <2>2, <3>2
      <4> QED BY <4>1
    <3> HIDE DEF g, Next1
    <3> QED BY <2>1, <3>1, <3>2
  <2>3. CASE k # 0
    <3> HIDE DEF Next1, Upto
    <3>0. k \in Nat
      BY <2>1
    <3> HIDE DEF bad
    <3>1. k \in Nat /\ k - 1 \in Nat /\ k - 1 \notin bad
      BY <2>1, <2>3, <3>0
    <3> USE DEF bad
    <3> USE DEF Upto
    <3>2. PICK f \in [SUBSET T -> V] : Upto(k - 1, f)
      BY <3>1
    <3> DEFINE g == [s \in SUBSET T |-> IF Cardinality(s) = k THEN Next1(f, s) ELSE f[s]]
    <3>3. g \in [SUBSET T -> V]
      BY <1>3
    <3>4. ASSUME NEW s \in SUBSET T, Cardinality(s) <= k PROVE g[s] = Next1(g, s)
      <4>1. Next1(g, s) = Next1(f, s)
        <5>1. CASE s = {}
          BY <5>1 DEF Next1
        <5>2. CASE s # {}
          <6>1. s \ {pick[s]} \in SUBSET T /\ Cardinality(s \ {pick[s]}) # k
            BY <1>1, <1>2, <3>1, <3>4, <5>2
          <6>2. g[s \ {pick[s]}] = f[s \ {pick[s]}]
            BY <6>1
          <6> HIDE DEF g
          <6> QED BY <6>2 DEF Next1
        <5> QED BY <5>1, <5>2
      <4>2. Cardinality(s) # k => Cardinality(s) <= k - 1
        BY <1>1, <3>1, <3>4
      <4>3. Cardinality(s) # k => f[s] = Next1(f, s)
        BY <3>2, <4>2
      <4> HIDE DEF Upto
      <4>4. g[s] = IF Cardinality(s) = k THEN Next1(f, s) ELSE f[s]
        OBVIOUS
      <4> HIDE DEF g
      <4> QED BY <4>1, <4>3, <4>4
    <3> HIDE DEF g
    <3> QED BY <2>1, <3>3, <3>4
  <2> QED BY <2>2, <2>3
<1> HIDE DEF Next1
<1>5. Cardinality(T) \in Nat /\ Cardinality(T) \notin bad
  <2>1. T \in SUBSET T
    OBVIOUS
  <2> QED BY <1>1, <1>4, <2>1
<1>6. PICK g \in [SUBSET T -> V] : Upto(Cardinality(T), g)
  BY <1>5
<1>7. ASSUME NEW s \in SUBSET T PROVE g[s] = Next1(g, s)
  <2>1. Cardinality(s) <= Cardinality(T)
    BY FS_Subset
  <2> QED BY <1>6, <2>1
<1> QED BY <1>7 DEF Next1, IsFold

-----------------------------------------------------------------------------
(* Sums over sets.                                                         *)

\* g sums the weights w of the elements of subsets of T, in the order of pick.
IsSetSum(g, T, w, pick) ==
  \A s \in SUBSET T : g[s] = IF s = {} THEN 0 ELSE w[pick[s]] + g[s \ {pick[s]}]

\* There is one sum for each set.
LEMMA SumUnique ==
  ASSUME NEW T, IsFiniteSet(T), NEW w,
         NEW pick, \A s \in SUBSET T : s # {} => pick[s] \in s,
         NEW g, IsSetSum(g, T, w, pick), NEW h, IsSetSum(h, T, w, pick)
  PROVE  \A s \in SUBSET T : g[s] = h[s]
<1> DEFINE bad == {s \in SUBSET T : g[s] # h[s]}
           sizes == {Cardinality(s) : s \in bad}
<1>1. SUFFICES ASSUME bad # {} PROVE FALSE
  OBVIOUS
<1>2. \A s \in SUBSET T : IsFiniteSet(s) /\ Cardinality(s) \in Nat
  BY FS_Subset, FS_CardinalityType
<1>3. PICK s \in bad : \A t \in bad : Cardinality(s) <= Cardinality(t)
  <2>1. sizes \subseteq Nat /\ sizes # {}
    BY <1>1, <1>2
  <2>2. PICK k \in sizes : \A j \in sizes : k <= j
    <3> HIDE DEF sizes
    <3> QED BY <2>1, LeastElement
  <2> QED BY <2>2
<1>4. s \in SUBSET T /\ g[s] # h[s]
  BY <1>3
<1>5. s # {}
  BY <1>4 DEF IsSetSum
<1>6. s \ {pick[s]} \in SUBSET T /\ Cardinality(s \ {pick[s]}) = Cardinality(s) - 1
  BY <1>2, <1>4, <1>5, FS_RemoveElement
<1>7. s \ {pick[s]} \notin bad
  <2>1. Cardinality(s) \in Nat
    BY <1>2, <1>4
  <2> HIDE DEF bad
  <2> QED BY <1>3, <1>6, <2>1
<1>8. g[s \ {pick[s]}] = h[s \ {pick[s]}]
  BY <1>6, <1>7
<1> QED BY <1>4, <1>5, <1>8 DEF IsSetSum

TakesAny(g, T, w) == \A s \in SUBSET T : \A e \in s : g[s] = w[e] + g[s \ {e}]

\* Whatever element is taken first, the sum is the same.
LEMMA SumTakesAny ==
  ASSUME NEW T, IsFiniteSet(T), NEW w \in [T -> Nat],
         NEW pick, \A s \in SUBSET T : s # {} => pick[s] \in s,
         NEW g \in [SUBSET T -> Nat], IsSetSum(g, T, w, pick)
  PROVE  TakesAny(g, T, w)
<1> DEFINE FromAny(s) == \A e \in s : g[s] = w[e] + g[s \ {e}]
           bad == {s \in SUBSET T : ~FromAny(s)}
           sizes == {Cardinality(s) : s \in bad}
<1>1. SUFFICES ASSUME bad # {} PROVE FALSE
  BY DEF TakesAny
<1>2. \A s \in SUBSET T : IsFiniteSet(s) /\ Cardinality(s) \in Nat
  BY FS_Subset, FS_CardinalityType
<1>3. PICK s \in bad : \A t \in bad : Cardinality(s) <= Cardinality(t)
  <2> HIDE DEF FromAny
  <2>1. sizes \subseteq Nat /\ sizes # {}
    BY <1>1, <1>2
  <2>2. PICK k \in sizes : \A j \in sizes : k <= j
    <3> HIDE DEF sizes
    <3> QED BY <2>1, LeastElement
  <2> QED BY <2>2
<1>4. s \in SUBSET T /\ ~FromAny(s)
  <2> HIDE DEF FromAny
  <2> QED BY <1>3
<1>5. PICK e \in s : g[s] # w[e] + g[s \ {e}]
  BY <1>4
<1> DEFINE c == pick[s]
<1>6. c \in s /\ g[s] = w[c] + g[s \ {c}]
  BY <1>4, <1>5 DEF IsSetSum
<1>7. c # e
  BY <1>5, <1>6
<1> HIDE DEF c
<1>8. ASSUME NEW d \in s PROVE FromAny(s \ {d}) /\ s \ {d} \in SUBSET T
  <2>1. s \ {d} \in SUBSET T /\ Cardinality(s \ {d}) = Cardinality(s) - 1 /\ Cardinality(s) \in Nat
    BY <1>2, <1>4, FS_RemoveElement
  <2>2. s \ {d} \notin bad
    <3> HIDE DEF bad
    <3> QED BY <1>3, <2>1
  <2> HIDE DEF FromAny
  <2> QED BY <2>1, <2>2
<1>9. g[s \ {c}] = w[e] + g[(s \ {c}) \ {e}]
  <2>1. e \in s \ {c}
    BY <1>7
  <2> QED BY <1>6, <1>8, <2>1
<1>10. g[s \ {e}] = w[c] + g[(s \ {e}) \ {c}]
  <2>1. c \in s \ {e}
    BY <1>6, <1>7
  <2> QED BY <1>8, <2>1
<1>11. (s \ {c}) \ {e} = (s \ {e}) \ {c} /\ (s \ {e}) \ {c} \in SUBSET T /\ c \in T /\ e \in T
  BY <1>4, <1>6
<1>12. g[(s \ {e}) \ {c}] \in Nat /\ w[c] \in Nat /\ w[e] \in Nat
  BY <1>11
<1>13. g[s] = w[c] + (w[e] + g[(s \ {e}) \ {c}]) /\ g[s] # w[e] + (w[c] + g[(s \ {e}) \ {c}])
  <2> HIDE DEF bad, sizes
  <2> QED BY <1>5, <1>6, <1>9, <1>10, <1>11
<1> DEFINE a == g[(s \ {e}) \ {c}]
<1>14. a \in Nat /\ g[s] = w[c] + (w[e] + a) /\ g[s] # w[e] + (w[c] + a)
  BY <1>12, <1>13
<1> HIDE DEF a, bad, sizes
<1> QED BY <1>12, <1>14

-----------------------------------------------------------------------------
(* Powers of two, which the provers only know as the number of subsets.    *)

LEMMA PowerFacts ==
  ASSUME NEW n \in Nat
  PROVE  2 ^ n \in Nat \ {0}
<1>1. IsFiniteSet(1 .. n) /\ Cardinality(1 .. n) = n
  BY FS_Interval
<1>2. IsFiniteSet(SUBSET (1 .. n)) /\ Cardinality(SUBSET (1 .. n)) = 2 ^ n
  BY <1>1, FS_SUBSET
<1>3. SUBSET (1 .. n) # {}
  OBVIOUS
<1> QED BY <1>2, <1>3, FS_CardinalityType, FS_EmptySet

LEMMA PowerAdds ==
  ASSUME NEW k \in Nat, NEW n \in Nat
  PROVE  2 ^ (k + n) = 2 ^ k * 2 ^ n
<1> DEFINE A == 1 .. k
           B == k + 1 .. k + n
           f == [s \in SUBSET (A \cup B) |-> <<s \cap A, s \cap B>>]
<1>1. IsFiniteSet(A) /\ Cardinality(A) = k
  BY FS_Interval
<1>2. IsFiniteSet(B) /\ Cardinality(B) = n
  BY FS_Interval
<1>3. IsFiniteSet(A \cup B) /\ Cardinality(A \cup B) = k + n
  <2>1. A \cup B = 1 .. k + n
    OBVIOUS
  <2>2. k + n \in Nat /\ IsFiniteSet(1 .. k + n) /\ Cardinality(1 .. k + n) = k + n
    BY FS_Interval
  <2> HIDE DEF A, B
  <2> QED BY <2>1, <2>2
<1>4. A \cap B = {}
  OBVIOUS
<1> HIDE DEF A, B
<1>5. /\ IsFiniteSet(SUBSET A) /\ Cardinality(SUBSET A) = 2 ^ k
      /\ IsFiniteSet(SUBSET B) /\ Cardinality(SUBSET B) = 2 ^ n
      /\ IsFiniteSet(SUBSET (A \cup B)) /\ Cardinality(SUBSET (A \cup B)) = 2 ^ (k + n)
  BY <1>1, <1>2, <1>3, FS_SUBSET
<1>6. f \in Bijection(SUBSET (A \cup B), (SUBSET A) \X (SUBSET B))
  <2>1. f \in [SUBSET (A \cup B) -> (SUBSET A) \X (SUBSET B)]
    OBVIOUS
  <2>2. ASSUME NEW s \in SUBSET (A \cup B), NEW t \in SUBSET (A \cup B), f[s] = f[t] PROVE s = t
    <3>1. s \cap A = t \cap A /\ s \cap B = t \cap B
      BY <2>2
    <3> QED BY <3>1
  <2>3. ASSUME NEW p \in (SUBSET A) \X (SUBSET B) PROVE \E s \in SUBSET (A \cup B) : f[s] = p
    <3> DEFINE s == p[1] \cup p[2]
    <3>1. p[1] \in SUBSET A /\ p[2] \in SUBSET B /\ p = <<p[1], p[2]>>
      OBVIOUS
    <3>2. s \in SUBSET (A \cup B) /\ s \cap A = p[1] /\ s \cap B = p[2]
      BY <1>4, <3>1
    <3>3. f[s] = p
      BY <3>1, <3>2
    <3> QED BY <3>2, <3>3
  <2> HIDE DEF f
  <2>4. f \in Injection(SUBSET (A \cup B), (SUBSET A) \X (SUBSET B))
    BY <2>1, <2>2 DEF Injection, IsInjective
  <2>5. f \in Surjection(SUBSET (A \cup B), (SUBSET A) \X (SUBSET B))
    BY <2>1, <2>3 DEF Surjection
  <2> QED BY <2>4, <2>5 DEF Bijection
<1>7. ExistsBijection(SUBSET (A \cup B), (SUBSET A) \X (SUBSET B))
  <2> HIDE DEF f
  <2> QED BY <1>6 DEF ExistsBijection
<1>8. Cardinality((SUBSET A) \X (SUBSET B)) = 2 ^ (k + n)
  BY <1>5, <1>7, FS_Bijection
<1>9. Cardinality((SUBSET A) \X (SUBSET B)) = 2 ^ k * 2 ^ n
  BY <1>5, FS_Product
<1> QED BY <1>8, <1>9

LEMMA PowerDoubles ==
  ASSUME NEW i \in Nat
  PROVE  2 ^ i \in Nat \ {0} /\ 2 ^ (i + 1) = 2 ^ i * 2
<1>1. 2 ^ i \in Nat \ {0} /\ 2 ^ (i + 1) = 2 ^ i * 2 ^ 1
  BY PowerFacts, PowerAdds
<1>2. 2 ^ 1 = 2
  OBVIOUS
<1> QED BY <1>1, <1>2

LEMMA PowerMonotone ==
  ASSUME NEW k \in Nat, NEW n \in Nat, k <= n
  PROVE  2 ^ k <= 2 ^ n /\ 2 ^ n = 2 ^ k * 2 ^ (n - k)
<1> DEFINE a == 2 ^ k  b == 2 ^ (n - k)  c == 2 ^ n
<1>1. n - k \in Nat /\ k + (n - k) = n
  OBVIOUS
<1>2. c = a * b
  <2>1. 2 ^ (k + (n - k)) = 2 ^ k * 2 ^ (n - k)
    BY <1>1, PowerAdds
  <2> QED BY <1>1, <2>1
<1>3. a \in Nat /\ b \in Nat /\ b >= 1
  BY <1>1, PowerFacts
<1> HIDE DEF a, b, c
<1>4. a * 1 <= a * b
  BY <1>3, TimesMonotone
<1> QED BY <1>2, <1>3, <1>4 DEF a, b, c

-----------------------------------------------------------------------------
(* Numbers by their bits.                                                  *)

\* The number with the bits b, added up from the highest.
IsBitSum(g, n, b) ==
  \A i \in 0 .. n : g[i] = IF i = n THEN 0 ELSE b[i] * 2 ^ i + g[i + 1]

LEMMA BitSumExists ==
  ASSUME NEW n \in Nat, NEW b \in [0 .. n - 1 -> {0, 1}]
  PROVE  \E g \in [0 .. n -> Nat] : IsBitSum(g, n, b)
<1> DEFINE w == [i \in 0 .. n - 1 |-> b[i] * 2 ^ i]
           next == [i \in 0 .. n - 1 |-> i + 1]
<1>1. w \in [0 .. n - 1 -> Nat] /\ \A i \in 0 .. n - 1 : w[i] = b[i] * 2 ^ i
  <2>1. ASSUME NEW i \in 0 .. n - 1 PROVE b[i] * 2 ^ i \in Nat
    <3> DEFINE p == 2 ^ i
    <3>1. p \in Nat /\ b[i] \in Nat
      BY PowerFacts
    <3> HIDE DEF p
    <3>2. b[i] * p \in Nat
      BY <3>1
    <3> QED BY <3>2 DEF p
  <2> QED BY <2>1
<1>2. /\ next \in [0 .. n - 1 -> 0 .. n] /\ \A i \in 0 .. n - 1 : i < next[i] /\ next[i] = i + 1
  OBVIOUS
<1> HIDE DEF w, next
<1>3. PICK g \in [0 .. n -> Nat] : AreSums(g, n, {}, w, next)
  BY <1>1, <1>2, SumsExist
<1>4. ASSUME NEW i \in 0 .. n PROVE g[i] = IF i = n THEN 0 ELSE b[i] * 2 ^ i + g[i + 1]
  <2>1. i # n => i \in 0 .. n - 1
    OBVIOUS
  <2> QED BY <1>1, <1>2, <1>3, <2>1 DEF AreSums
<1> QED BY <1>4 DEF IsBitSum

\* Its bits are those of b.
LEMMA BitSum ==
  ASSUME NEW n \in Nat, NEW b \in [0 .. n - 1 -> {0, 1}], NEW g, IsBitSum(g, n, b)
  PROVE  g[0] \in 0 .. 2 ^ n - 1 /\ \A i \in 0 .. n - 1 : (g[0] \div 2 ^ i) % 2 = b[i]
<1> DEFINE Q(i) == g[i] \div 2 ^ i
           T(i) == /\ g[i] = 2 ^ i * Q(i) /\ Q(i) \in 0 .. 2 ^ (n - i) - 1
                   /\ i # n => Q(i) = b[i] + 2 * Q(i + 1)
           bad == {k \in 0 .. n : ~T(n - k)}
<1>1. bad = {}
  <2> SUFFICES ASSUME bad # {} PROVE FALSE
    OBVIOUS
  <2> HIDE DEF T
  <2>1. PICK k \in bad : \A j \in bad : k <= j
    <3>1. bad \subseteq Nat
      OBVIOUS
    <3> HIDE DEF bad
    <3> QED BY <3>1, LeastElement
  <2> DEFINE i == n - k
  <2>2. k \in 0 .. n /\ ~T(i) /\ i \in 0 .. n /\ i \in Nat
    BY <2>1
  <2>3. CASE k = 0
    <3>1. i = n /\ n - n = 0 /\ 2 ^ 0 = 1
      BY <2>3
    <3>2. g[n] = 0
      BY DEF IsBitSum
    <3> DEFINE p == 2 ^ n
    <3>3. p \in Nat \ {0}
      BY PowerFacts
    <3> HIDE DEF p
    <3>4. 0 \div p = 0 /\ p * 0 = 0
      BY <3>3, ModSmall
    <3>5. 0 \in 0 .. 2 ^ (n - n) - 1
      BY <3>1
    <3>6. T(n)
      BY <3>2, <3>4, <3>5 DEF T, p
    <3> QED BY <2>2, <3>1, <3>6
  <2>4. CASE k # 0
    <3>1. /\ i \in 0 .. n - 1 /\ i + 1 \in 0 .. n /\ i + 1 \in Nat /\ k - 1 \in 0 .. n
          /\ n - (k - 1) = i + 1 /\ ~(k <= k - 1) /\ i # n /\ n - i = (n - (i + 1)) + 1
          /\ n - (i + 1) \in Nat
      BY <2>2, <2>4
    <3>2. T(i + 1)
      <4>1. k - 1 \notin bad
        <5> HIDE DEF bad, i
        <5> QED BY <2>1, <3>1
      <4> QED BY <3>1, <4>1
    <3> HIDE DEF i
    <3> DEFINE p == 2 ^ i  r == Q(i + 1)  m0 == 2 ^ (n - (i + 1))  s == b[i] + 2 * r
    <3>3. p \in Nat \ {0} /\ 2 ^ (i + 1) = p * 2 /\ m0 \in Nat \ {0} /\ 2 ^ (n - i) = m0 * 2
      <4>1. 2 ^ (n - i) = m0 * 2
        <5>1. 2 ^ ((n - (i + 1)) + 1) = m0 * 2
          BY <3>1, PowerDoubles
        <5> QED BY <3>1, <5>1
      <4>2. m0 \in Nat \ {0}
        BY <3>1, PowerFacts
      <4> QED BY <2>2, <4>1, <4>2, PowerDoubles
    <3>4. g[i + 1] = (p * 2) * r /\ r \in 0 .. m0 - 1
      BY <3>2, <3>3 DEF T
    <3>5. g[i] = b[i] * p + g[i + 1] /\ b[i] \in {0, 1}
      BY <3>1 DEF IsBitSum
    <3> HIDE DEF p, r, m0
    <3>6. g[i] = p * s /\ s \in 0 .. m0 * 2 - 1
      <4>1. b[i] \in Nat /\ r \in Nat
        BY <3>3, <3>4, <3>5
      <4>2. p * (b[i] + 2 * r) = b[i] * p + (p * 2) * r
        BY <3>3, <4>1
      <4>3. b[i] + 2 * r \in 0 .. m0 * 2 - 1
        BY <3>3, <3>4, <3>5
      <4> QED BY <3>4, <3>5, <4>2, <4>3
    <3> HIDE DEF s
    <3>7. (p * s) \div p = s
      <4> DEFINE c == p * s
      <4>1. c = p * s + 0 /\ c \in Int /\ 0 \in 0 .. p - 1 /\ s \in Int
        BY <3>3, <3>6
      <4> HIDE DEF c
      <4>2. c \div p = s
        BY <3>3, <4>1, DivModUnique
      <4> QED BY <4>2 DEF c
    <3>8. Q(i) = s
      BY <3>6, <3>7 DEF p
    <3>9. T(i)
      BY <3>3, <3>6, <3>8 DEF T, s, r, p
    <3> QED BY <2>2, <3>9
  <2> QED BY <2>3, <2>4
<1>2. \A i \in 0 .. n : T(i)
  <2>1. ASSUME NEW i \in 0 .. n PROVE T(i)
    <3>1. n - i \in 0 .. n /\ n - (n - i) = i
      OBVIOUS
    <3> HIDE DEF T
    <3>2. n - i \notin bad
      <4> HIDE DEF bad
      <4> QED BY <1>1
    <3> QED BY <3>1, <3>2
  <2> QED BY <2>1
<1>3. g[0] \in 0 .. 2 ^ n - 1 /\ g[0] = Q(0) /\ g[0] \in Nat
  <2>1. 0 \in 0 .. n /\ 2 ^ 0 = 1 /\ n - 0 = n
    OBVIOUS
  <2> DEFINE q == Q(0)
  <2>2. g[0] = 1 * q /\ q \in 0 .. 2 ^ n - 1
    BY <1>2, <2>1
  <2>3. 2 ^ n \in Nat
    BY PowerFacts
  <2> HIDE DEF q
  <2>4. q \in Nat /\ 1 * q = q
    BY <2>2, <2>3
  <2> QED BY <2>2, <2>4 DEF q
<1> DEFINE far == {i \in 0 .. n : g[0] \div 2 ^ i # Q(i)}
<1>4. far = {}
  <2> SUFFICES ASSUME far # {} PROVE FALSE
    OBVIOUS
  <2>1. PICK i \in far : \A j \in far : i <= j
    <3>1. far \subseteq Nat
      OBVIOUS
    <3> HIDE DEF far
    <3> QED BY <3>1, LeastElement
  <2>2. i \in 0 .. n /\ g[0] \div 2 ^ i # Q(i) /\ i \in Nat
    BY <2>1
  <2>3. i # 0
    BY <2>2
  <2>4. i - 1 \in 0 .. n /\ i - 1 \in Nat /\ ~(i <= i - 1) /\ (i - 1) + 1 = i /\ i - 1 # n
        /\ i - 1 \in 0 .. n - 1
    BY <2>2, <2>3
  <2>5. g[0] \div 2 ^ (i - 1) = Q(i - 1)
    <3>1. i - 1 \notin far
      <4> HIDE DEF far
      <4> QED BY <2>1, <2>4
    <3> QED BY <2>4, <3>1
  <2>6. Q(i - 1) = b[i - 1] + 2 * Q(i)
    BY <1>2, <2>4
  <2> DEFINE p == 2 ^ (i - 1)  r == Q(i)  s == Q(i - 1)
  <2>7. p \in Nat \ {0} /\ 2 ^ i = p * 2
    <3>1. 2 ^ ((i - 1) + 1) = p * 2 /\ p \in Nat \ {0}
      BY <2>4, PowerDoubles
    <3> QED BY <2>4, <3>1
  <2>8. r \in Int
    <3>1. n - i \in Nat /\ r \in 0 .. 2 ^ (n - i) - 1
      BY <1>2, <2>2
    <3>2. 2 ^ (n - i) \in Nat
      BY <3>1, PowerFacts
    <3> QED BY <3>1, <3>2
  <2>9. s = 2 * r + b[i - 1] /\ b[i - 1] \in 0 .. 2 - 1
    <3>1. b[i - 1] \in {0, 1}
      BY <2>4
    <3> HIDE DEF r
    <3> QED BY <2>6, <2>8, <3>1 DEF r
  <2>10. g[0] \div (p * 2) = (g[0] \div p) \div 2
    <3> HIDE DEF p
    <3>1. 2 \in Nat \ {0}
      OBVIOUS
    <3> QED BY <1>3, <2>7, <3>1, DivDiv
  <2> HIDE DEF p, r, s
  <2>11. s \div 2 = r
    <3>1. s \in Int /\ 2 \in Nat \ {0}
      BY <2>8, <2>9
    <3> QED BY <2>8, <2>9, <3>1, DivModUnique
  <2>12. g[0] \div p = s
    BY <2>5 DEF p, s
  <2>13. g[0] \div 2 ^ i = r
    BY <2>7, <2>10, <2>11, <2>12
  <2> QED BY <2>2, <2>13 DEF r
<1>5. ASSUME NEW i \in 0 .. n - 1 PROVE (g[0] \div 2 ^ i) % 2 = b[i]
  <2>1. i \in 0 .. n /\ i # n /\ i + 1 \in 0 .. n /\ n - (i + 1) \in Nat
    OBVIOUS
  <2>2. g[0] \div 2 ^ i = Q(i)
    BY <1>4, <2>1
  <2> DEFINE r == Q(i + 1)  s == Q(i)
  <2>3. s = b[i] + 2 * r /\ r \in 0 .. 2 ^ (n - (i + 1)) - 1
    BY <1>2, <2>1
  <2>4. r \in Int
    <3>1. 2 ^ (n - (i + 1)) \in Nat
      BY <2>1, PowerFacts
    <3> QED BY <2>3, <3>1
  <2> HIDE DEF r, s
  <2>5. b[i] \in 0 .. 2 - 1 /\ 2 \in Nat \ {0} /\ s = 2 * r + b[i] /\ s \in Int
    BY <2>3, <2>4
  <2>6. s % 2 = b[i]
    BY <2>4, <2>5, DivModUnique
  <2> QED BY <2>2, <2>6 DEF s
<1> QED BY <1>3, <1>5

\* Numbers with the same bits are the same.
LEMMA SameBits ==
  ASSUME NEW n \in Nat, NEW u \in 0 .. 2 ^ n - 1, NEW v \in 0 .. 2 ^ n - 1,
         \A i \in 0 .. n - 1 : (u \div 2 ^ i) % 2 = (v \div 2 ^ i) % 2
  PROVE  u = v
<1> DEFINE bad == {k \in 0 .. n : u \div 2 ^ (n - k) # v \div 2 ^ (n - k)}
<1>0. 2 ^ n \in Nat \ {0} /\ u \in Nat /\ v \in Nat
  <2>1. 2 ^ n \in Nat \ {0}
    BY PowerFacts
  <2> QED BY <2>1
<1>1. bad = {}
  <2> SUFFICES ASSUME bad # {} PROVE FALSE
    OBVIOUS
  <2>1. PICK k \in bad : \A j \in bad : k <= j
    <3>1. bad \subseteq Nat
      OBVIOUS
    <3> HIDE DEF bad
    <3> QED BY <3>1, LeastElement
  <2> DEFINE i == n - k
  <2>2. k \in 0 .. n /\ u \div 2 ^ i # v \div 2 ^ i /\ i \in 0 .. n /\ i \in Nat
    BY <2>1
  <2>3. k # 0
    <3>1. u \div 2 ^ n = 0 /\ v \div 2 ^ n = 0
      BY <1>0, ModSmall
    <3>2. SUFFICES ASSUME k = 0 PROVE FALSE
      OBVIOUS
    <3>3. i = n
      BY <3>2
    <3> QED BY <2>2, <3>1, <3>3
  <2>4. /\ i \in 0 .. n - 1 /\ k - 1 \in 0 .. n /\ n - (k - 1) = i + 1 /\ ~(k <= k - 1)
    BY <2>2, <2>3
  <2>5. u \div 2 ^ (i + 1) = v \div 2 ^ (i + 1)
    <3>1. k - 1 \notin bad
      <4> HIDE DEF bad, i
      <4> QED BY <2>1, <2>4
    <3> QED BY <2>4, <3>1
  <2> HIDE DEF i
  <2> DEFINE p == 2 ^ i  a == u \div p  b == v \div p
  <2>6. p \in Nat \ {0} /\ 2 ^ (i + 1) = p * 2
    BY <2>2, PowerDoubles
  <2>7. a % 2 = b % 2
    BY <2>4
  <2> HIDE DEF p
  <2>8. a \div 2 = b \div 2 /\ a \in Nat /\ b \in Nat
    <3>1. 2 \in Nat \ {0}
      OBVIOUS
    <3>2. u \div (p * 2) = (u \div p) \div 2 /\ v \div (p * 2) = (v \div p) \div 2
      BY <1>0, <2>6, <3>1, DivDiv
    <3>3. a \in Nat /\ b \in Nat
      BY <1>0, <2>6, QuotientNat
    <3> QED BY <2>5, <2>6, <3>2, <3>3
  <2> HIDE DEF a, b
  <2>9. a = b
    BY <2>7, <2>8
  <2> QED BY <2>2, <2>9 DEF a, b, p
<1>2. u \div 2 ^ 0 = v \div 2 ^ 0
  <2>1. n \in 0 .. n /\ n - n = 0
    OBVIOUS
  <2> QED BY <1>1, <2>1
<1>3. 2 ^ 0 = 1 /\ u = 1 * u + 0 /\ v = 1 * v + 0 /\ 1 \in Nat \ {0} /\ 0 \in 0 .. 1 - 1
  BY <1>0
<1>4. u \div 1 = u /\ v \div 1 = v
  BY <1>0, <1>3, DivModUnique
<1> QED BY <1>2, <1>3, <1>4

-----------------------------------------------------------------------------
(* Folds over 1 .. n.                                                      *)

\* The largest element is one that none exceeds.
LEMMA MaxIs ==
  ASSUME NEW s, s \subseteq Nat, NEW n \in s, \A i \in s : i <= n
  PROVE  Max(s) = n
<1> DEFINE x0 == CHOOSE z \in s : \A w \in s : z >= w
<1>1. \E z \in s : \A w \in s : z >= w
  OBVIOUS
<1>2. x0 \in s /\ \A w \in s : x0 >= w
  BY <1>1
<1>3. x0 = n
  <2> HIDE DEF x0
  <2>1. x0 \in Nat /\ n \in Nat /\ x0 >= n /\ x0 <= n
    BY <1>2
  <2> QED BY <2>1
<1> QED BY <1>3 DEF Max

LEMMA MaxExists ==
  ASSUME NEW n \in Nat, NEW s, s \subseteq 1 .. n, s # {}
  PROVE  Max(s) \in s
<1> DEFINE T == {n - i : i \in s}
<1>1. T \subseteq Nat /\ T # {}
  OBVIOUS
<1>2. PICK k \in T : \A j \in T : k <= j
  <2> HIDE DEF T
  <2> QED BY <1>1, LeastElement
<1>3. PICK i \in s : k = n - i
  BY <1>2
<1>4. ASSUME NEW j \in s PROVE j <= i
  <2>1. n - j \in T /\ j \in Nat /\ i \in Nat
    OBVIOUS
  <2>2. n - i <= n - j
    BY <1>2, <1>3, <2>1
  <2> QED BY <2>1, <2>2
<1>5. s \subseteq Nat
  OBVIOUS
<1> QED BY <1>3, <1>4, <1>5, MaxIs

\* A fold that takes the greatest element first is one along the numbers.
IsAlong(g, n, base, F) ==
  \A s \in SUBSET (1 .. n) : g[s] = IF s = {} THEN base ELSE F[<<g[s \ {Max(s)}], Max(s)>>]

LEMMA FoldAlong ==
  ASSUME NEW n \in Nat, NEW V, NEW base \in V, NEW F \in [V \X (1 .. n) -> V]
  PROVE  \E g \in [SUBSET (1 .. n) -> V] : IsAlong(g, n, base, F)
<1> DEFINE pick == [s \in SUBSET (1 .. n) |-> Max(s)]
<1>1. \A s \in SUBSET (1 .. n) : pick[s] = Max(s) /\ (s # {} => pick[s] \in s)
  BY MaxExists
<1>2. IsFiniteSet(1 .. n)
  BY FS_Interval
<1> HIDE DEF pick
<1>3. PICK g \in [SUBSET (1 .. n) -> V] : IsFold(g, 1 .. n, base, F, pick)
  BY <1>1, <1>2, FoldExists
<1>4. ASSUME NEW s \in SUBSET (1 .. n)
      PROVE  g[s] = IF s = {} THEN base ELSE F[<<g[s \ {Max(s)}], Max(s)>>]
  BY <1>1, <1>3 DEF IsFold
<1> QED BY <1>4 DEF IsAlong

LEMMA UpToGreatest ==
  ASSUME NEW i \in Nat \ {0}
  PROVE  1 .. i # {} /\ Max(1 .. i) = i /\ (1 .. i) \ {i} = 1 .. i - 1 /\ i \in 1 .. i
<1>1. i \in 1 .. i /\ 1 .. i \subseteq Nat /\ \A j \in 1 .. i : j <= i
  OBVIOUS
<1>2. (1 .. i) \ {i} = 1 .. i - 1
  OBVIOUS
<1>3. Max(1 .. i) = i
  BY <1>1, MaxIs
<1>4. 1 .. i # {}
  BY <1>1
<1> QED BY <1>1, <1>2, <1>3, <1>4

LEMMA MinIs ==
  ASSUME NEW s, s \subseteq Nat, NEW n \in s, \A i \in s : n <= i
  PROVE  Min(s) = n
<1> DEFINE x0 == CHOOSE z \in s : \A w \in s : z =< w
<1>1. x0 \in s /\ \A w \in s : x0 =< w
  OBVIOUS
<1>2. x0 = n
  <2> HIDE DEF x0
  <2>1. x0 \in Nat /\ n \in Nat /\ n <= x0 /\ x0 <= n
    BY <1>1
  <2> QED BY <2>1
<1> QED BY <1>2 DEF Min
=============================================================================
