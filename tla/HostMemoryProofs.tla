------------------------- MODULE HostMemoryProofs -------------------------
(***************************************************************************)
(* Proofs about HostMemory: what the host and the program get from and put *)
(* into the memory is, byte by byte, what the map says, for every page     *)
(* size, cache size, arena, range and set of layouts; and the memory       *)
(* implements AbstractMemory, step by step.                                *)
(***************************************************************************)
EXTENDS HostMemory, PageMemoryProofs

-----------------------------------------------------------------------------
(* Addresses of a range.                                                   *)

\* The byte i of a range at a is in the range's page of its distance from the
\* start of the first one.
LEMMA PageOfWrap ==
  ASSUME NEW a \in Addr, NEW i \in Nat
  PROVE  /\ Wrap(a, i) \in Addr
         /\ PageOf(Wrap(a, i)) = RangePage(a, (Rel(a) + i) \div PAGE_SIZE)
         /\ Rel(Wrap(a, i)) = (Rel(a) + i) % PAGE_SIZE
         /\ (Rel(a) + i) \div PAGE_SIZE \in Nat
<1> DEFINE P == PAGE_SIZE
           N == NUM_PAGES
           p == PageOf(a)
           j == Rel(a) + i
           k == j \div P
           r == j % P
           t == (p + k) \div N
           m == (p + k) % N
           x == P * m + r
<1>1. P \in Nat \ {0} /\ N \in Nat \ {0} /\ MEMORY_SIZE = P * N /\ MEMORY_SIZE \in Nat \ {0}
      /\ a \in Int
  BY SizesAssumption, PagesAssumption, MemorySize DEF MEMORY_SIZE, Addr
<1>2. p \in Int /\ Rel(a) \in 0 .. P - 1 /\ a = P * p + Rel(a)
  BY <1>1, DivMod DEF PageOf, Rel
<1>3. j \in Nat
  BY <1>1, <1>2
<1> HIDE DEF P, N, p, j
<1>4. k \in Int /\ r \in 0 .. P - 1 /\ j = P * k + r
  BY <1>1, <1>3, DivMod
<1>5. k \in Nat
  <2>1. 0 \div P = 0
    BY <1>1
  <2>2. 0 \div P <= j \div P
    BY <1>1, <1>3, DivMonotone
  <2> QED BY <1>4, <2>1, <2>2
<1> HIDE DEF k, r
<1>6. t \in Int /\ m \in 0 .. N - 1 /\ p + k = N * t + m
  <2>1. p + k \in Int
    BY <1>2, <1>4
  <2> QED BY <1>1, <2>1, DivMod
<1> HIDE DEF t, m
<1>7. a + i = MEMORY_SIZE * t + x
  <2>1. a + i = P * p + j
    BY <1>1, <1>2, <1>3 DEF j
  <2>2. a + i = P * p + (P * k + r)
    BY <2>1, <1>4
  <2>3. P * p + P * k = P * (p + k)
    BY <1>1, <1>2, <1>4
  <2>4. P * (p + k) = P * (N * t + m)
    BY <1>6
  <2>5. P * (N * t + m) = (P * N) * t + P * m
    BY <1>1, <1>6
  <2>6. P * p \in Int /\ P * k \in Int /\ P * m \in Int /\ (P * N) * t \in Int /\ r \in Int
    BY <1>1, <1>2, <1>4, <1>6
  <2>7. MEMORY_SIZE * t = (P * N) * t
    BY <1>1
  <2> QED BY <2>2, <2>3, <2>4, <2>5, <2>6, <2>7
<1>8. x \in 0 .. MEMORY_SIZE - 1
  <2>1. P * m <= P * (N - 1) /\ P * 0 <= P * m
    BY <1>1, <1>6, TimesMonotone
  <2>2. P * (N - 1) = P * N - P /\ P * 0 = 0 /\ P * m \in Int /\ P * N \in Int
    BY <1>1, <1>6
  <2> QED BY <1>1, <1>4, <2>1, <2>2
<1>9. (a + i) % MEMORY_SIZE = x
  <2> DEFINE z == a + i
  <2>1. z \in Int /\ z = MEMORY_SIZE * t + x
    BY <1>1, <1>7
  <2> HIDE DEF x, z
  <2>2. z % MEMORY_SIZE = x
    BY <1>1, <1>6, <1>8, <2>1, DivModUnique
  <2> QED BY <2>2 DEF z
<1>10. x \div P = m /\ x % P = r
  <2>1. x \in Int
    BY <1>1, <1>4, <1>6
  <2> QED BY <1>1, <1>4, <1>6, <2>1, DivModUnique
<1> HIDE DEF x
<1>11. Wrap(a, i) = x /\ PageOf(x) = m /\ Rel(x) = r
  BY <1>9, <1>10 DEF Wrap, PageOf, Rel, P
<1>12. RangePage(a, k) = m
  BY DEF RangePage, m, p, N
<1> QED BY <1>5, <1>8, <1>11, <1>12 DEF Addr, k, r, j, P

-----------------------------------------------------------------------------
(* How far an access gets.                                                 *)

\* What getPage makes of a page, whatever the cache holds.
LEMMA FaultOfPage ==
  ASSUME NEW c, CacheGood(c, pages), NEW p \in PageIdx, NEW access
  PROVE  /\ FaultOf(c, p, access) =
              IF Has(p) /\ Can(pages[p], access) THEN NoFault
              ELSE IF Has(p) THEN AccessFault(p) ELSE PageFault(p)
         /\ FaultOf(c, p, access).isFault <=> ~(Has(p) /\ Can(pages[p], access))
<1>1. FaultOf(c, p, access) =
        IF Has(p) /\ Can(pages[p], access) THEN NoFault
        ELSE IF Has(p) THEN AccessFault(p) ELSE PageFault(p)
  BY LookupGood
<1>2. ~NoFault.isFault /\ AccessFault(p).isFault /\ PageFault(p).isFault
  BY DEF NoFault, AccessFault, PageFault
<1> QED BY <1>1, <1>2

\* There is one first byte that may not be accessed.
LEMMA ReachIs ==
  ASSUME NEW access, NEW r, r.len \in Nat, NEW k \in 0 .. r.len,
         \A i \in 0 .. k - 1 : Accessible(access, Wrap(r.addr, i)),
         k < r.len => ~Accessible(access, Wrap(r.addr, k))
  PROVE  Reach(access, r) = k
<1> DEFINE First(n) == /\ \A i \in 0 .. n - 1 : Accessible(access, Wrap(r.addr, i))
                       /\ n < r.len => ~Accessible(access, Wrap(r.addr, n))
           h == CHOOSE n \in 0 .. r.len : First(n)
<1>1. First(k)
  OBVIOUS
<1>2. h \in 0 .. r.len /\ First(h)
  BY <1>1
<1>3. Reach(access, r) = h
  BY DEF Reach
<1> HIDE DEF h
<1>4. ~(h < k)
  <2> SUFFICES ASSUME h < k PROVE FALSE
    OBVIOUS
  <2>1. h \in 0 .. k - 1 /\ h < r.len
    BY <1>2
  <2> QED BY <1>1, <1>2, <2>1
<1>5. ~(k < h)
  <2> SUFFICES ASSUME k < h PROVE FALSE
    OBVIOUS
  <2>1. k \in 0 .. h - 1 /\ k < r.len
    BY <1>2
  <2> QED BY <1>1, <1>2, <2>1
<1> QED BY <1>2, <1>3, <1>4, <1>5

\* What r says of its first k bytes, and of the one after them, if any.
Reaches(access, r, k) ==
  /\ Reach(access, r) = k /\ k \in 0 .. r.len
  /\ \A i \in 0 .. k - 1 : Accessible(access, Wrap(r.addr, i))
  /\ k < r.len => ~Accessible(access, Wrap(r.addr, k))

\* The first page that may not be accessed decides how far a range gets, and
\* the fault is that page's.
LEMMA StopsAtPage ==
  ASSUME NEW access, NEW r, r.addr \in Addr, r.len \in Nat \ {0},
         NEW h \in 0 .. RangeEnd(r.addr, r.len),
         ~(Has(RangePage(r.addr, h)) /\ Can(pages[RangePage(r.addr, h)], access)),
         \A j \in 0 .. h - 1 : Has(RangePage(r.addr, j)) /\ Can(pages[RangePage(r.addr, j)], access)
  PROVE  LET n == IF h * PAGE_SIZE - Rel(r.addr) < 0 THEN 0 ELSE h * PAGE_SIZE - Rel(r.addr)
         IN /\ Reaches(access, r, n) /\ n < r.len
            /\ PageOf(Wrap(r.addr, n)) = RangePage(r.addr, h)
<1> DEFINE P == PAGE_SIZE
           R == Rel(r.addr)
           n == IF h * P - R < 0 THEN 0 ELSE h * P - R
<1>1. P \in Nat \ {0} /\ R \in 0 .. P - 1 /\ RangeEnd(r.addr, r.len) \in Nat /\ r.len \in Nat \ {0}
  BY SizesAssumption, PagesAssumption, AddrInPage, RangeEndNat DEF Offset
<1>2. h \in Nat /\ h * P \in Int /\ h * P = P * h
  BY <1>1
<1>3. h * P <= R + r.len - 1
  <2> DEFINE e == R + r.len - 1
  <2>1. e \in Int /\ RangeEnd(r.addr, r.len) = e \div P
    BY <1>1 DEF RangeEnd
  <2> HIDE DEF e, P
  <2>2. e \div P \in Int /\ e % P \in 0 .. P - 1 /\ e = P * (e \div P) + (e % P)
    BY <1>1, <2>1, DivMod
  <2>3. P * h <= P * (e \div P)
    BY <1>1, <1>2, <2>1, <2>2, TimesMonotone
  <2>4. P * (e \div P) \in Int
    BY <1>1, <2>2
  <2>5. h * P <= e
    BY <1>2, <2>1, <2>2, <2>3, <2>4
  <2> QED BY <2>5 DEF e
<1>4. n \in 0 .. r.len - 1
  BY <1>1, <1>2, <1>3
<1>5. (R + n) \div P = h
  <2>1. CASE h = 0
    <3>1. n = 0
      BY <1>1, <2>1
    <3>2. R = P * 0 + R /\ R \in Int
      BY <1>1
    <3> HIDE DEF n, P, R
    <3>3. R \div P = 0
      BY <1>1, <3>2, DivModUnique
    <3>4. R + n = R
      BY <1>1, <3>1
    <3> QED BY <2>1, <3>3, <3>4
  <2>2. CASE h # 0
    <3>1. P * 1 <= P * h
      BY <1>1, <1>2, <2>2, TimesMonotone
    <3>2. R + n = P * h + 0 /\ R + n \in Int
      BY <1>1, <1>2, <3>1
    <3> DEFINE z == R + n
    <3> HIDE DEF n, P, R, z
    <3>3. z \in Int /\ z = P * h + 0
      BY <3>2 DEF z
    <3>4. z \div P = h
      BY <1>1, <1>2, <3>3, DivModUnique
    <3> QED BY <3>4 DEF z
  <2> QED BY <2>1, <2>2
<1>6. ASSUME NEW i \in 0 .. n - 1 PROVE (R + i) \div P \in 0 .. h - 1
  <2>1. i \in Nat /\ R + i \in Int /\ R + i <= P * h - 1 /\ n # 0
    BY <1>1, <1>2, <1>4
  <2> DEFINE z == R + i  q == z \div P
  <2> HIDE DEF n, P, R, z
  <2>2. z \in Int /\ z <= P * h - 1
    BY <2>1 DEF z
  <2>3. q \in Int /\ z % P \in 0 .. P - 1 /\ z = P * q + (z % P)
    BY <1>1, <2>2, DivMod
  <2>4. q \in Nat
    BY <2>1, PageOfWrap DEF z, P, R
  <2>5. ~(h <= q)
    <3> SUFFICES ASSUME h <= q PROVE FALSE
      OBVIOUS
    <3>1. P * h <= P * q
      BY <1>1, <1>2, <2>3, TimesMonotone
    <3>2. P * q \in Int /\ P * h \in Int
      BY <1>1, <1>2, <2>3
    <3> QED BY <2>2, <2>3, <3>1, <3>2
  <2> HIDE DEF q
  <2>6. q \in 0 .. h - 1
    BY <1>2, <2>4, <2>5
  <2> QED BY <2>6 DEF q, z
<1> HIDE DEF n
<1>7. PageOf(Wrap(r.addr, n)) = RangePage(r.addr, h)
  BY <1>4, <1>5, PageOfWrap
<1>8. ~Accessible(access, Wrap(r.addr, n))
  BY <1>7 DEF Accessible
<1>9. \A i \in 0 .. n - 1 : Accessible(access, Wrap(r.addr, i))
  <2> SUFFICES ASSUME NEW i \in 0 .. n - 1 PROVE Accessible(access, Wrap(r.addr, i))
    OBVIOUS
  <2>1. i \in Nat /\ (R + i) \div P \in 0 .. h - 1
    BY <1>4, <1>6
  <2>2. PageOf(Wrap(r.addr, i)) = RangePage(r.addr, (R + i) \div P)
    BY <2>1, PageOfWrap
  <2> QED BY <2>1, <2>2 DEF Accessible
<1>10. Reach(access, r) = n
  BY <1>1, <1>4, <1>8, <1>9, ReachIs
<1>11. n < r.len /\ n \in 0 .. r.len
  BY <1>1, <1>4
<1> QED BY <1>7, <1>8, <1>9, <1>10, <1>11 DEF Reaches, n, R, P

\* A range none of whose pages faults is reached to its end.
LEMMA ReachesEnd ==
  ASSUME NEW access, NEW r, r.addr \in Addr, r.len \in Nat \ {0},
         \A j \in 0 .. RangeEnd(r.addr, r.len) :
           Has(RangePage(r.addr, j)) /\ Can(pages[RangePage(r.addr, j)], access)
  PROVE  Reaches(access, r, r.len)
<1> DEFINE P == PAGE_SIZE
           R == Rel(r.addr)
<1>1. P \in Nat \ {0} /\ R \in 0 .. P - 1 /\ r.len \in Nat \ {0}
  BY SizesAssumption, PagesAssumption, AddrInPage DEF Offset
<1>2. \A i \in 0 .. r.len - 1 : Accessible(access, Wrap(r.addr, i))
  <2> SUFFICES ASSUME NEW i \in 0 .. r.len - 1 PROVE Accessible(access, Wrap(r.addr, i))
    OBVIOUS
  <2>1. i \in Nat /\ R + i \in Int /\ R + r.len - 1 \in Int /\ R + i <= R + r.len - 1
    BY <1>1
  <2>2. (R + i) \div P \in Nat /\ PageOf(Wrap(r.addr, i)) = RangePage(r.addr, (R + i) \div P)
    BY <2>1, PageOfWrap
  <2> DEFINE z == R + i  e == R + r.len - 1
  <2> HIDE DEF z, e, P, R
  <2>3. z \div P <= e \div P
    <3>1. z \in Int /\ e \in Int /\ z <= e
      BY <2>1 DEF z, e
    <3> QED BY <1>1, <3>1, DivMonotone
  <2>4. e \div P \in Int
    BY <1>1, <2>1, DivMod DEF e
  <2>5. z \div P \in 0 .. e \div P
    BY <2>2, <2>3, <2>4 DEF z
  <2>6. z \div P \in 0 .. RangeEnd(r.addr, r.len)
    BY <2>5 DEF RangeEnd, e, R, P
  <2> QED BY <2>2, <2>6 DEF Accessible, z
<1>3. Reach(access, r) = r.len
  BY <1>1, <1>2, ReachIs
<1> QED BY <1>1, <1>2, <1>3 DEF Reaches

-----------------------------------------------------------------------------
(* What the calls of the memory do.                                        *)

\* A range is transferred up to its first byte that may not be accessed, and
\* faults at the page of that byte.
LEMMA RangeReach ==
  ASSUME CacheGood(cache, pages), NEW access, NEW r, r.addr \in Addr, r.len \in Nat \ {0}
  PROVE  /\ Reaches(access, r, RangeDone(access, r.addr, r.len))
         /\ RangeFault(access, r.addr, r.len) = FaultDecided(access, r)
         /\ RangeFault(access, r.addr, r.len).isFault <=> Reach(access, r) # r.len
<1> DEFINE E == RangeEnd(r.addr, r.len)
           pg(k) == RangePage(r.addr, k)
           Open(k) == Has(pg(k)) /\ Can(pages[pg(k)], access)
           First(k) == FirstFault(access, r.addr, r.len, k)
           h == CHOOSE k \in 0 .. E : First(k)
<1>1. E \in Nat /\ r.len \in Nat
  BY RangeEndNat
<1>2. \A k \in Int : pg(k) \in PageIdx
  BY RangePageIsPage
<1>3. \A k \in Int : FaultOf(cache, pg(k), access).isFault <=> ~Open(k)
  BY <1>2, FaultOfPage
<1>4. \A k \in 0 .. E : First(k) <=> ~Open(k) /\ \A j \in 0 .. k - 1 : Open(j)
  <2> SUFFICES ASSUME NEW k \in 0 .. E
               PROVE  First(k) <=> ~Open(k) /\ \A j \in 0 .. k - 1 : Open(j)
    OBVIOUS
  <2>1. k \in Int /\ \A j \in 0 .. k - 1 : j \in Int
    BY <1>1
  <2> HIDE DEF Open
  <2> QED BY <1>3, <2>1 DEF FirstFault
<1>5. CASE \E k \in 0 .. E : First(k)
  <2>1. h \in 0 .. E /\ First(h)
    BY <1>5
  <2>2. /\ RangeFault(access, r.addr, r.len) = FaultOf(cache, pg(h), access)
        /\ RangeLast(access, r.addr, r.len) = h
    BY <1>5 DEF RangeFault, RangeLast
  <2> HIDE DEF h, First, E
  <2>3. h \in Int /\ ~Open(h) /\ \A j \in 0 .. h - 1 : Open(j)
    BY <1>1, <1>4, <2>1
  <2> DEFINE n == IF h * PAGE_SIZE - Rel(r.addr) < 0 THEN 0 ELSE h * PAGE_SIZE - Rel(r.addr)
  <2>4. RangeDone(access, r.addr, r.len) = n
    <3>1. RangeFault(access, r.addr, r.len).isFault
      BY <1>3, <2>2, <2>3
    <3> QED BY <2>2, <3>1 DEF RangeDone
  <2>5. Reaches(access, r, n) /\ n < r.len /\ PageOf(Wrap(r.addr, n)) = pg(h)
    BY <2>1, <2>3, StopsAtPage DEF E
  <2> HIDE DEF n
  <2>6. Reach(access, r) = n /\ n # r.len
    BY <1>1, <2>5 DEF Reaches
  <2>7. FaultOf(cache, pg(h), access) = IF Has(pg(h)) THEN AccessFault(pg(h)) ELSE PageFault(pg(h))
    BY <1>2, <2>3, FaultOfPage
  <2>8. FaultDecided(access, r) = IF Has(pg(h)) THEN AccessFault(pg(h)) ELSE PageFault(pg(h))
    BY <2>5, <2>6 DEF FaultDecided
  <2> QED BY <1>3, <2>2, <2>3, <2>4, <2>5, <2>6, <2>7, <2>8
<1>6. CASE ~ \E k \in 0 .. E : First(k)
  <2>1. RangeFault(access, r.addr, r.len) = NoFault
    BY <1>6 DEF RangeFault
  <2>2. RangeDone(access, r.addr, r.len) = r.len
    BY <2>1 DEF RangeDone, NoFault
  <2> HIDE DEF First, E
  <2>3. \A k \in 0 .. E : Open(k)
    <3> SUFFICES ASSUME NEW k \in 0 .. E, ~Open(k) PROVE FALSE
      OBVIOUS
    <3> DEFINE T == {j \in 0 .. E : ~Open(j)}
    <3>1. T \subseteq Nat /\ T # {}
      BY <1>1
    <3>2. PICK x \in T : \A y \in T : x <= y
      BY <3>1, NatMinimum
    <3>3. x \in 0 .. E /\ ~Open(x)
      BY <3>2
    <3>4. \A j \in 0 .. x - 1 : Open(j)
      <4> SUFFICES ASSUME NEW j \in 0 .. x - 1, ~Open(j) PROVE FALSE
        OBVIOUS
      <4>1. j \in T
        BY <1>1, <3>3
      <4>2. x <= j
        BY <3>2, <4>1
      <4> QED BY <1>1, <3>3, <4>2
    <3> QED BY <1>4, <1>6, <3>3, <3>4
  <2>4. Reaches(access, r, r.len)
    BY <2>3, ReachesEnd DEF E
  <2>5. Reach(access, r) = r.len
    BY <2>4 DEF Reaches
  <2>6. FaultDecided(access, r) = NoFault
    BY <2>5 DEF FaultDecided
  <2> QED BY <2>1, <2>2, <2>4, <2>5, <2>6 DEF NoFault
<1> QED BY <1>5, <1>6

\* The pages a load or a store of n bytes runs into.
LEMMA ChunkPages ==
  ASSUME NEW a \in Addr, NEW n \in 1 .. PAGE_SIZE
  PROVE  /\ RangePage(a, 0) = PageOf(a)
         /\ RangeEnd(a, n) = IF Rel(a) + n > PAGE_SIZE THEN 1 ELSE 0
         /\ Rel(a) + n > PAGE_SIZE => PageOf((a + n) % MEMORY_SIZE) = RangePage(a, 1)
<1> DEFINE P == PAGE_SIZE  R == Rel(a)
<1>1. P \in Nat \ {0} /\ R \in 0 .. P - 1 /\ n \in Nat \ {0} /\ n <= P
  BY SizesAssumption, PagesAssumption, AddrInPage DEF Offset
<1>2. RangePage(a, 0) = PageOf(a)
  <2>1. NUM_PAGES \in Nat \ {0} /\ PageOf(a) \in 0 .. NUM_PAGES - 1
    BY PagesAssumption, AddrInPage DEF PageIdx
  <2>2. PageOf(a) = NUM_PAGES * 0 + PageOf(a) /\ PageOf(a) \in Int /\ PageOf(a) + 0 = PageOf(a)
    BY <2>1
  <2>3. PageOf(a) % NUM_PAGES = PageOf(a)
    BY <2>1, <2>2, DivModUnique
  <2> QED BY <2>2, <2>3 DEF RangePage
<1>3. ASSUME NEW z \in 0 .. 2 * P - 1
      PROVE  z \div P = IF z < P THEN 0 ELSE 1
  <2> HIDE DEF P
  <2>1. CASE z < P
    <3>1. z \in 0 .. P - 1 /\ z \in Int /\ z = P * 0 + z /\ 0 \in Int
      BY <1>1, <2>1
    <3>2. z \div P = 0
      BY <1>1, <3>1, DivModUnique
    <3> QED BY <2>1, <3>2
  <2>2. CASE ~(z < P)
    <3> DEFINE y == z - P
    <3>1. y \in 0 .. P - 1 /\ z \in Int /\ z = P * 1 + y
      BY <1>1, <2>2
    <3> HIDE DEF y
    <3> QED BY <1>1, <2>2, <3>1, DivModUnique
  <2> QED BY <2>1, <2>2
<1>4. RangeEnd(a, n) = IF R + n > P THEN 1 ELSE 0
  <2> DEFINE z == R + n - 1
  <2>1. z \in 0 .. 2 * P - 1 /\ (z < P <=> ~(R + n > P))
    BY <1>1
  <2>2. z \div P = IF z < P THEN 0 ELSE 1
    BY <1>3, <2>1
  <2> QED BY <2>1, <2>2 DEF RangeEnd
<1>5. R + n > P => PageOf((a + n) % MEMORY_SIZE) = RangePage(a, 1)
  <2> SUFFICES ASSUME R + n > P PROVE PageOf((a + n) % MEMORY_SIZE) = RangePage(a, 1)
    OBVIOUS
  <2> DEFINE z == R + n
  <2>1. z \in 0 .. 2 * P - 1 /\ ~(z < P)
    BY <1>1
  <2>2. z \div P = 1
    BY <1>3, <2>1
  <2>3. PageOf(Wrap(a, n)) = RangePage(a, z \div P)
    BY <1>1, PageOfWrap
  <2> QED BY <2>2, <2>3 DEF Wrap
<1> QED BY <1>2, <1>4, <1>5

\* So does an access through the two chunks: it faults at the first byte that
\* may not be accessed, and looks up the pages its bytes are in.
LEMMA ChunksReach ==
  ASSUME TypeOK, CacheGood(cache, pages), NEW access, NEW r, r.addr \in Addr,
         r.len \in 1 .. PAGE_SIZE
  PROVE  LET g == GetChunks(access, r.addr, r.len)
             two == Rel(r.addr) + r.len > PAGE_SIZE
         IN /\ g.fault = FaultDecided(access, r)
            /\ g.fault.isFault <=> Reach(access, r) # r.len
            /\ g.first = pages[PageOf(r.addr)].raw
            /\ two => g.second = [raw |-> pages[RangePage(r.addr, 1)].raw,
                                  end |-> Rel(r.addr) + r.len - PAGE_SIZE]
            /\ ~two => g.second = chunks
            /\ ~g.fault.isFault => Reaches(access, r, r.len)
<1> DEFINE a == r.addr
           n == r.len
           p1 == PageOf(a)
           p2 == PageOf((a + n) % MEMORY_SIZE)
           c1 == Touch(cache, p1)
           g == GetChunks(access, a, n)
           two == Rel(a) + n > PAGE_SIZE
           Open(p) == Has(p) /\ Can(pages[p], access)
<1>1. /\ r.len \in Nat \ {0} /\ PAGE_SIZE \in Nat \ {0} /\ Rel(a) \in 0 .. PAGE_SIZE - 1
      /\ n \in 1 .. PAGE_SIZE
  BY SizesAssumption, PagesAssumption, AddrInPage DEF Offset
<1>2. /\ RangePage(a, 0) = p1
      /\ RangeEnd(a, n) = IF two THEN 1 ELSE 0
      /\ two => p2 = RangePage(a, 1)
  BY <1>1, ChunkPages
<1>3. p1 \in PageIdx /\ p2 \in PageIdx /\ RangePage(a, 1) \in PageIdx
  <2>1. (a + n) % MEMORY_SIZE \in Addr
    BY <1>1, WrapIsAddr DEF Addr
  <2> QED BY <2>1, AddrInPage, RangePageIsPage
<1>4. CacheGood(c1, pages)
  BY <1>3, TouchGood, PageIdxInt
<1> HIDE DEF p1, p2, c1, two
<1>5. g = [fault |-> IF two /\ ~FaultOf(cache, p1, access).isFault
                     THEN FaultOf(c1, p2, access) ELSE FaultOf(cache, p1, access),
           cache |-> IF two /\ ~FaultOf(cache, p1, access).isFault
                     THEN Touch(c1, p2) ELSE c1,
           first |-> Lookup(cache, p1).raw,
           second |-> IF two
                      THEN [raw |-> Lookup(c1, p2).raw, end |-> Rel(a) + n - PAGE_SIZE]
                      ELSE chunks]
  BY DEF g, GetChunks, p1, p2, c1, two
<1> HIDE DEF g
<1>6. Lookup(cache, p1) = pages[p1] /\ Lookup(c1, p2) = pages[p2]
  BY <1>3, <1>4, LookupGood
<1>7. /\ FaultOf(cache, p1, access) = IF Open(p1) THEN NoFault
                                      ELSE IF Has(p1) THEN AccessFault(p1) ELSE PageFault(p1)
      /\ FaultOf(cache, p1, access).isFault <=> ~Open(p1)
      /\ FaultOf(c1, p2, access) = IF Open(p2) THEN NoFault
                                   ELSE IF Has(p2) THEN AccessFault(p2) ELSE PageFault(p2)
      /\ FaultOf(c1, p2, access).isFault <=> ~Open(p2)
  BY <1>3, <1>4, FaultOfPage
<1>8. ASSUME NEW h \in 0 .. RangeEnd(a, n), ~Open(RangePage(a, h)),
             \A j \in 0 .. h - 1 : Open(RangePage(a, j))
      PROVE  /\ FaultDecided(access, r) = IF Has(RangePage(a, h)) THEN AccessFault(RangePage(a, h))
                                          ELSE PageFault(RangePage(a, h))
             /\ Reach(access, r) # r.len
  <2> DEFINE k == IF h * PAGE_SIZE - Rel(a) < 0 THEN 0 ELSE h * PAGE_SIZE - Rel(a)
  <2>1. Reaches(access, r, k) /\ k < r.len /\ PageOf(Wrap(a, k)) = RangePage(a, h)
    BY <1>1, <1>8, StopsAtPage
  <2> HIDE DEF k
  <2>2. Reach(access, r) = k /\ k # r.len
    BY <1>1, <2>1 DEF Reaches
  <2> QED BY <2>1, <2>2 DEF FaultDecided
<1>9. CASE ~Open(p1)
  <2>1. 0 \in 0 .. RangeEnd(a, n) /\ \A j \in 0 .. 0 - 1 : Open(RangePage(a, j))
    BY <1>2
  <2>2. FaultDecided(access, r) = FaultOf(cache, p1, access) /\ Reach(access, r) # r.len
    BY <1>2, <1>7, <1>8, <1>9, <2>1
  <2>3. g.fault = FaultOf(cache, p1, access) /\ g.fault.isFault
    BY <1>5, <1>7, <1>9
  <2> QED BY <1>2, <1>5, <1>6, <2>2, <2>3 DEF g, p1, two
<1>10. CASE Open(p1) /\ two /\ ~Open(p2)
  <2>1. 1 \in 0 .. RangeEnd(a, n) /\ \A j \in 0 .. 1 - 1 : Open(RangePage(a, j))
    BY <1>2, <1>10
  <2>2. FaultDecided(access, r) = FaultOf(c1, p2, access) /\ Reach(access, r) # r.len
    BY <1>2, <1>7, <1>8, <1>10, <2>1
  <2>3. g.fault = FaultOf(c1, p2, access) /\ g.fault.isFault
    BY <1>5, <1>7, <1>10
  <2> QED BY <1>2, <1>5, <1>6, <2>2, <2>3 DEF g, p1, two
<1>11. CASE Open(p1) /\ (two => Open(p2))
  <2>1. \A j \in 0 .. RangeEnd(a, n) : Open(RangePage(a, j))
    BY <1>2, <1>11
  <2>2. Reaches(access, r, r.len)
    BY <1>1, <2>1, ReachesEnd
  <2>3. Reach(access, r) = r.len
    BY <2>2 DEF Reaches
  <2>4. FaultDecided(access, r) = NoFault
    BY <2>3 DEF FaultDecided
  <2>5. g.fault = NoFault /\ ~g.fault.isFault
    BY <1>5, <1>7, <1>11 DEF NoFault
  <2> QED BY <1>2, <1>5, <1>6, <2>2, <2>3, <2>4, <2>5 DEF g, p1, two
<1> QED BY <1>9, <1>10, <1>11

-----------------------------------------------------------------------------
(* The invariant.                                                          *)

\* How far r gets in the memory m: Reach of the pages m.
ReachIn(m, access, r) ==
  LET Open(x) == /\ PageOf(x) \in PageIdx /\ m[PageOf(x)] # EMPTY_PAGE
                 /\ Can(m[PageOf(x)], access)
  IN CHOOSE k \in 0 .. r.len :
       /\ \A i \in 0 .. k - 1 : Open(Wrap(r.addr, i))
       /\ k < r.len => ~Open(Wrap(r.addr, k))

LEMMA ReachOfPages ==
  /\ \A access, r : Reach(access, r) = ReachIn(pages, access, r)
  /\ Reach("Read", call)' = ReachIn(pages', "Read", call')
BY DEF Reach, ReachIn, Accessible, Has

CallOK ==
  /\ call \in [op : {"none", "pvmWrite", "setMemory"}, addr : Addr, len : 0 .. MaxRange,
               byte : Byte, done : 0 .. MaxRange]
  /\ call.op # "none" => call.len > 0
  /\ call.op = "pvmWrite" => Reach("Read", call) = call.len

LastOK ==
  last \in [op : {"none", "load", "store", "read", "hostWrite", "pvmWrite", "setMemory"},
            addr : Addr, len : Nat, bytes : Seq(Byte), ok : BOOLEAN]

\* A write in progress is of a range that was there when it was started, and
\* the memory beneath is consistent.
HostInv == IInv /\ CallOK /\ LastOK

LEMMA CopiesTyped ==
  ASSUME NEW b \in Byte, NEW len \in Nat
  PROVE  Copies(b, len) \in Seq(Byte) /\ Len(Copies(b, len)) = len
BY DEF Copies

LEMMA ConstantsTyped ==
  /\ 0 \in Addr /\ 0 \in Byte /\ MaxRange \in Nat
  /\ \A len \in Ranges : len \in Nat \ {0} /\ len \in 0 .. MaxRange /\ len \in 1 .. MaxRange
  /\ \A n \in Sizes : n \in Nat \ {0} /\ n \in 1 .. PAGE_SIZE
BY SizesAssumption, PagesAssumption, MemorySize DEF Addr, Byte, Ranges

LEMMA NoAnswerTyped ==
  ASSUME last' = NoAnswer
  PROVE  LastOK'
<1> DEFINE e == <<>>
<1>1. e \in Seq(Byte) /\ e = <<>> /\ 0 \in Addr
  BY ConstantsTyped
<1> HIDE DEF e
<1> QED BY <1>1 DEF LastOK, NoAnswer

\* What a call answers is an answer.
LEMMA AnswersTyped ==
  ASSUME NEW op \in {"load", "read", "store", "hostWrite", "pvmWrite", "setMemory"},
         NEW a \in Addr, NEW len \in Nat, NEW v \in Seq(Byte), NEW ok \in BOOLEAN
  PROVE  /\ last' = NoAnswer => LastOK'
         /\ last' = ReadAnswer(op, a, len, ok) => LastOK'
         /\ last' = WriteAnswer(op, a, v, ok) => LastOK'
<1>1. <<>> \in Seq(Byte) /\ Len(v) \in Nat /\ 0 \in Addr
  BY ConstantsTyped
<1> DEFINE e == <<>>
<1>2. e \in Seq(Byte) /\ e = <<>>
  BY <1>1
<1> HIDE DEF e
<1>3. ASSUME last' = NoAnswer PROVE LastOK'
  BY <1>1, <1>2, <1>3 DEF LastOK, NoAnswer
<1>4. ASSUME last' = ReadAnswer(op, a, len, ok) PROVE LastOK'
  <2>1. last' = [op |-> op, addr |-> a, len |-> len, bytes |-> e, ok |-> ok]
    BY <1>2, <1>4 DEF ReadAnswer
  <2> QED BY <1>2, <2>1 DEF LastOK
<1>5. ASSUME last' = WriteAnswer(op, a, v, ok) PROVE LastOK'
  BY <1>1, <1>5 DEF LastOK, WriteAnswer
<1> QED BY <1>3, <1>4, <1>5

LEMMA CallIdle ==
  ASSUME call' = NoCall
  PROVE  CallOK'
BY ConstantsTyped DEF CallOK, NoCall

LEMMA CallStays ==
  ASSUME CallOK, Idle, UNCHANGED call
  PROVE  CallOK'
BY CallIdle DEF Idle

LEMMA InitEstablishesHostInv == HostInit => HostInv
<1> SUFFICES ASSUME HostInit PROVE HostInv
  OBVIOUS
<1>1. IInv
  BY InitEstablishesInv DEF HostInit
<1>2. CallOK
  BY ConstantsTyped DEF HostInit, NoCall, CallOK
<1>3. LastOK
  <2>1. <<>> \in Seq(Byte) /\ 0 \in Addr
    BY ConstantsTyped
  <2> QED BY <2>1 DEF HostInit, NoAnswer, LastOK
<1> QED BY <1>1, <1>2, <1>3 DEF HostInv

\* The accesses of the calls that take one step.
LEMMA ReadsKeepHostInv ==
  ASSUME HostInv, NEW a \in Addr, NEW len \in Ranges, NEW b \in Byte,
         ReadMemory(a, len) \/ HostWriteMemory(a, len, b) \/ PvmWriteMemory(a, len, b)
  PROVE  HostInv'
<1>1. len \in Nat \ {0} /\ len \in 0 .. MaxRange /\ len \in 1 .. MaxRange
  BY ConstantsTyped
<1>2. /\ CacheGood(cache, pages)
      /\ RangeFault("Read", a, len).isFault \in BOOLEAN
      /\ RangeFault("Write", a, len).isFault \in BOOLEAN
  BY <1>1, InvCacheGood, RangeTyped DEF HostInv, IInv
<1>3. Copies(b, len) \in Seq(Byte)
  BY <1>1, CopiesTyped
<1>4. CASE ReadMemory(a, len)
  <2>1. IInv'
    BY <1>1, <1>4, RangesKeepInv DEF ReadMemory, HostInv
  <2>2. last' = ReadAnswer("read", a, len, ~faultRes'.isFault)
        /\ faultRes' = RangeFault("Read", a, len)
    BY <1>4 DEF ReadMemory, BytesRead
  <2>3. LastOK'
    BY <1>1, <1>2, <1>3, <2>2, AnswersTyped
  <2>4. CallOK'
    BY <1>4, CallStays DEF ReadMemory, HostInv
  <2> QED BY <2>1, <2>3, <2>4 DEF HostInv
<1>5. CASE HostWriteMemory(a, len, b)
  <2>1. IInv'
    BY <1>1, <1>5, RangesKeepInv DEF HostWriteMemory, HostInv
  <2>2. last' = WriteAnswer("hostWrite", a, Copies(b, len), ~faultRes'.isFault)
        /\ faultRes' = RangeFault("Write", a, len)
    BY <1>5 DEF HostWriteMemory, BytesWrite
  <2>3. LastOK'
    BY <1>1, <1>2, <1>3, <2>2, AnswersTyped
  <2>4. CallOK'
    BY <1>5, CallStays DEF HostWriteMemory, HostInv
  <2> QED BY <2>1, <2>3, <2>4 DEF HostInv
<1>6. CASE PvmWriteMemory(a, len, b)
  <2>1. IInv'
    BY <1>1, <1>6, RangesKeepInv DEF PvmWriteMemory, HostInv
  <2>2. /\ Idle /\ faultRes' = RangeFault("Read", a, len) /\ pages' = pages
        /\ IF faultRes'.isFault
           THEN last' = WriteAnswer("pvmWrite", a, Copies(b, len), FALSE) /\ UNCHANGED call
           ELSE last' = NoAnswer /\ call' = Started("pvmWrite", a, len, b)
    BY <1>6 DEF PvmWriteMemory, BytesRead
  <2>3. LastOK'
    BY <1>1, <1>2, <1>3, <2>2, AnswersTyped
  <2>4. CASE faultRes'.isFault
    BY <2>1, <2>2, <2>3, <2>4, CallStays DEF HostInv
  <2>5. CASE ~faultRes'.isFault
    <3>1. call' = [op |-> "pvmWrite", addr |-> a, len |-> len, byte |-> b, done |-> 0]
      BY <2>2, <2>5 DEF Started
    <3>2. call'.addr = a /\ call'.len = len /\ call'.op = "pvmWrite"
      BY <3>1
    <3>3. ASSUME NEW r, r.addr = a, r.len = len
          PROVE  Reach("Read", r) = len
      BY <1>1, <1>2, <2>2, <2>5, <3>3, RangeReach
    <3>4. Reach("Read", call)' = ReachIn(pages', "Read", call')
      BY ReachOfPages
    <3>5. ReachIn(pages', "Read", call') = Reach("Read", call')
      BY <2>2, ReachOfPages
    <3>6. Reach("Read", call)' = call'.len
      BY <3>2, <3>3, <3>4, <3>5
    <3>7. CallOK'
      <4>1. 0 \in 0 .. MaxRange /\ len > 0
        BY <1>1, ConstantsTyped
      <4> QED BY <1>1, <3>1, <3>6, <4>1 DEF CallOK
    <3> QED BY <2>1, <2>3, <3>7 DEF HostInv
  <2> QED BY <2>4, <2>5
<1> QED BY <1>4, <1>5, <1>6

\* The second half of pvmWriteMemory.
LEMMA WriteDataKeepsHostInv ==
  ASSUME HostInv, PvmWriteData
  PROVE  HostInv'
<1>1. /\ call.op = "pvmWrite" /\ call.addr \in Addr /\ call.byte \in Byte
      /\ call.len \in Nat \ {0} /\ call.len \in 1 .. MaxRange
  BY ConstantsTyped DEF HostInv, CallOK, PvmWriteData
<1>2. IInv'
  BY <1>1, RangesKeepInv DEF PvmWriteData, HostInv
<1>3. faultRes'.isFault \in BOOLEAN
  BY <1>2 DEF IInv, TypeOK
<1>4. Copies(call.byte, call.len) \in Seq(Byte)
  BY <1>1, CopiesTyped
<1>5. LastOK'
  BY <1>1, <1>3, <1>4, AnswersTyped DEF PvmWriteData
<1> QED BY <1>2, <1>5, CallIdle DEF HostInv, PvmWriteData

\* The part of the range of setMemory that is left to write is part of it.
LEMMA SetRange ==
  ASSUME HostInv, call.op = "setMemory"
  PROVE  /\ call.addr \in Addr /\ call.byte \in Byte /\ call.len \in Nat \ {0}
         /\ call.done \in Nat /\ SetEnd \in Addr
         /\ Copies(call.byte, call.len) \in Seq(Byte)
         /\ SetAt < SetEnd => /\ SetAt \in Addr /\ call.done + 1 \in 0 .. MaxRange
                              /\ call.done < call.len
<1>1. /\ call.addr \in Addr /\ call.byte \in Byte /\ call.len \in Nat \ {0}
      /\ call.done \in Nat /\ call.len <= MaxRange /\ MaxRange \in Nat
  BY ConstantsTyped DEF HostInv, CallOK
<1>2. call.addr \in Nat /\ MEMORY_SIZE \in Nat \ {0} /\ call.addr + call.len \in Nat
  BY <1>1, MemorySize DEF Addr
<1>3. SetEnd \in Addr /\ SetEnd <= call.addr + call.len
  <2> DEFINE z == call.addr + call.len
  <2>1. z \in Nat
    BY <1>2
  <2>2. SetEnd = z % MEMORY_SIZE
    BY DEF SetEnd
  <2> HIDE DEF z
  <2>3. z % MEMORY_SIZE \in Addr
    BY <2>1, WrapIsAddr
  <2>4. z % MEMORY_SIZE <= z
    <3> DEFINE q == z \div MEMORY_SIZE
    <3>1. /\ q \in Int /\ z % MEMORY_SIZE \in 0 .. MEMORY_SIZE - 1
          /\ z = MEMORY_SIZE * q + (z % MEMORY_SIZE)
      BY <1>2, <2>1, DivMod
    <3> HIDE DEF q
    <3>2. ~(q <= -1)
      <4> SUFFICES ASSUME q <= -1 PROVE FALSE
        OBVIOUS
      <4>1. MEMORY_SIZE * q <= MEMORY_SIZE * (-1)
        BY <1>2, <3>1, TimesMonotone
      <4>2. MEMORY_SIZE * (-1) = -MEMORY_SIZE /\ MEMORY_SIZE * q \in Int
        BY <1>2, <3>1
      <4> QED BY <1>2, <2>1, <3>1, <4>1, <4>2
    <3>3. MEMORY_SIZE * 0 <= MEMORY_SIZE * q
      BY <1>2, <3>1, <3>2, TimesMonotone
    <3>4. MEMORY_SIZE * q \in Int /\ MEMORY_SIZE * 0 = 0
      BY <1>2, <3>1
    <3> QED BY <2>1, <3>1, <3>3, <3>4
  <2> QED BY <2>2, <2>3, <2>4 DEF z
<1>4. ASSUME SetAt < SetEnd
      PROVE  SetAt \in Addr /\ call.done + 1 \in 0 .. MaxRange /\ call.done < call.len
  <2>1. SetEnd \in 0 .. MEMORY_SIZE - 1
    BY <1>3 DEF Addr
  <2>2. SetAt = call.addr + call.done
    BY DEF SetAt
  <2> QED BY <1>1, <1>2, <1>3, <1>4, <2>1, <2>2 DEF Addr
<1> QED BY <1>1, <1>3, <1>4, CopiesTyped

\* The three steps of setMemory.
LEMMA SetKeepsHostInv ==
  ASSUME HostInv, NEW a \in Addr, NEW len \in Ranges, NEW b \in Byte,
         SetMemory(a, len, b) \/ SetByte \/ SetMemoryDone
  PROVE  HostInv'
<1>1. len \in Nat \ {0} /\ len \in 0 .. MaxRange /\ 0 \in 0 .. MaxRange
  BY ConstantsTyped
<1>2. CASE SetMemory(a, len, b)
  <2>1. /\ call' = [op |-> "setMemory", addr |-> a, len |-> len, byte |-> b, done |-> 0]
        /\ last' = NoAnswer /\ UNCHANGED vars
    BY <1>2 DEF SetMemory, Started
  <2>2. IInv'
    BY <2>1, StepKeepsInv DEF HostInv
  <2>3. LastOK'
    BY <2>1, NoAnswerTyped
  <2>4. CallOK'
    <3>1. len > 0
      BY <1>1
    <3> QED BY <1>1, <2>1, <3>1 DEF CallOK
  <2> QED BY <2>2, <2>3, <2>4 DEF HostInv
<1>3. ASSUME call.op = "setMemory"
      PROVE  /\ call.addr \in Addr /\ call.byte \in Byte /\ call.len \in Nat \ {0}
             /\ call.done \in Nat /\ SetEnd \in Addr
             /\ Copies(call.byte, call.len) \in Seq(Byte)
             /\ SetAt < SetEnd => /\ SetAt \in Addr /\ call.done + 1 \in 0 .. MaxRange
                                  /\ call.done < call.len
  BY <1>3, SetRange
<1>4. CASE SetByte
  <2>1. /\ call.op = "setMemory" /\ SetAt < SetEnd /\ Store(SetAt, <<call.byte>>)
        /\ IF faultRes'.isFault
           THEN last' = SetAnswer(FALSE) /\ call' = NoCall
           ELSE last' = NoAnswer /\ call' = [call EXCEPT !.done = @ + 1]
    BY <1>4 DEF SetByte
  <2>2. IInv'
    <3>1. <<call.byte>> \in Values(1)
      BY <1>3, <2>1 DEF Values
    <3> QED BY <1>3, <2>1, <3>1, HostAssumption, StoreKeepsInv DEF HostInv
  <2>3. LastOK'
    BY <1>1, <1>3, <2>1, AnswersTyped, ConstantsTyped DEF SetAnswer
  <2>4. CallOK'
    <3>1. CASE faultRes'.isFault
      BY <2>1, <3>1, CallIdle
    <3>2. CASE ~faultRes'.isFault
      <4>1. call' = [call EXCEPT !.done = call.done + 1] /\ call.done + 1 \in 0 .. MaxRange
        BY <1>3, <2>1, <3>2
      <4>2. /\ call \in [op : {"none", "pvmWrite", "setMemory"}, addr : Addr, len : 0 .. MaxRange,
                         byte : Byte, done : 0 .. MaxRange]
            /\ call.op = "setMemory" /\ call.len > 0
        BY <2>1 DEF HostInv, CallOK
      <4>3. /\ call' \in [op : {"none", "pvmWrite", "setMemory"}, addr : Addr, len : 0 .. MaxRange,
                          byte : Byte, done : 0 .. MaxRange]
            /\ call'.op = "setMemory" /\ call'.len = call.len
        BY <4>1, <4>2
      <4> QED BY <4>2, <4>3 DEF CallOK
    <3> QED BY <3>1, <3>2
  <2> QED BY <2>2, <2>3, <2>4 DEF HostInv
<1>5. CASE SetMemoryDone
  <2>1. /\ call.op = "setMemory" /\ last' = SetAnswer(TRUE) /\ call' = NoCall /\ UNCHANGED vars
    BY <1>5 DEF SetMemoryDone
  <2>2. IInv'
    BY <2>1, StepKeepsInv DEF HostInv
  <2>3. LastOK'
    BY <1>3, <2>1, AnswersTyped DEF SetAnswer
  <2> QED BY <2>1, <2>2, <2>3, CallIdle DEF HostInv
<1> QED BY <1>2, <1>4, <1>5

\* The program between two calls of its host.
LEMMA ProgramKeepsHostInv ==
  ASSUME HostInv,
         \/ \E a \in Addr, n \in Sizes : ProgramLoads(a, n)
         \/ \E n \in Sizes : \E a \in Addr, v \in Values(n) : ProgramStores(a, v)
         \/ \E amount \in Addr : ProgramGrows(amount)
  PROVE  HostInv'
<1>1. ASSUME NEW a \in Addr, NEW n \in Sizes, ProgramLoads(a, n) PROVE HostInv'
  <2>1. IInv'
    BY <1>1, LoadKeepsInv DEF ProgramLoads, HostInv
  <2>2. faultRes'.isFault \in BOOLEAN /\ n \in Nat /\ <<>> \in Seq(Byte)
    BY <2>1, ConstantsTyped DEF IInv, TypeOK
  <2>3. LastOK'
    BY <1>1, <2>2, AnswersTyped DEF ProgramLoads
  <2> QED BY <1>1, <2>1, <2>3, CallStays DEF HostInv, ProgramLoads
<1>2. ASSUME NEW n \in Sizes, NEW a \in Addr, NEW v \in Values(n), ProgramStores(a, v)
      PROVE  HostInv'
  <2>1. IInv'
    BY <1>2, StoreKeepsInv DEF ProgramStores, HostInv
  <2>2. faultRes'.isFault \in BOOLEAN /\ n \in Nat
    BY <2>1, ConstantsTyped DEF IInv, TypeOK
  <2>3. v \in Seq(Byte)
    BY <2>2 DEF Values
  <2>4. LastOK'
    BY <1>2, <2>2, <2>3, AnswersTyped DEF ProgramStores
  <2> QED BY <1>2, <2>1, <2>4, CallStays DEF HostInv, ProgramStores
<1>3. ASSUME NEW amount \in Addr, ProgramGrows(amount) PROVE HostInv'
  <2>1. IInv'
    BY <1>3, SbrkKeepsInv DEF ProgramGrows, HostInv
  <2>2. LastOK'
    BY <1>3, NoAnswerTyped DEF ProgramGrows
  <2> QED BY <1>3, <2>1, <2>2, CallStays DEF HostInv, ProgramGrows
<1> QED BY <1>1, <1>2, <1>3

LEMMA HostStepKeepsInv == HostInv /\ [HostNext]_hostVars => HostInv'
<1> SUFFICES ASSUME HostInv, [HostNext]_hostVars PROVE HostInv'
  OBVIOUS
<1>1. CASE UNCHANGED hostVars
  <2>1. IInv'
    BY <1>1, StepKeepsInv DEF hostVars, HostInv
  <2>2. pages' = pages /\ call' = call /\ last' = last
    BY <1>1 DEF hostVars, vars
  <2>3. Reach("Read", call)' = Reach("Read", call)
    BY <2>2, ReachOfPages
  <2> QED BY <2>1, <2>2, <2>3 DEF HostInv, CallOK, LastOK
<1>2. ASSUME NEW a \in Addr, NEW len \in Ranges, ReadMemory(a, len) PROVE HostInv'
  <2>1. 0 \in Byte
    BY ConstantsTyped
  <2> QED BY <1>2, <2>1, ReadsKeepHostInv
<1>3. ASSUME NEW a \in Addr, NEW len \in Ranges, NEW b \in Byte,
             HostWriteMemory(a, len, b) \/ PvmWriteMemory(a, len, b) \/ SetMemory(a, len, b)
      PROVE  HostInv'
  BY <1>3, ReadsKeepHostInv, SetKeepsHostInv
<1>4. CASE PvmWriteData
  BY <1>4, WriteDataKeepsHostInv
<1>5. CASE SetByte \/ SetMemoryDone
  <2>1. call.op = "setMemory"
    BY <1>5 DEF SetByte, SetMemoryDone
  <2>2. call.addr \in Addr /\ call.byte \in Byte /\ call.len \in Ranges
    BY <2>1, ConstantsTyped DEF HostInv, CallOK, Ranges
  <2> QED BY <1>5, <2>2, SetKeepsHostInv
<1> QED BY <1>1, <1>2, <1>3, <1>4, <1>5, ProgramKeepsHostInv DEF HostNext

LEMMA HostInvHolds == HostSpec => []HostInv
BY InitEstablishesHostInv, HostStepKeepsInv, PTL DEF HostSpec

\* The types, and that the range of a write past its preflight stays readable
\* until it is written.
THEOREM HostTypeTheorem == HostSpec => []HostTypeOK
<1>1. HostInv => HostTypeOK
  BY DEF HostInv, IInv, CallOK, LastOK, HostTypeOK
<1> QED BY <1>1, HostInvHolds, PTL

-----------------------------------------------------------------------------
(* What the answers say of the memory.                                     *)

\* Which call an answer comes from.
LEMMA Answering ==
  ASSUME HostNext
  PROVE  \/ \E a \in Addr, len \in Ranges : ReadMemory(a, len) /\ last'.op = "read"
         \/ \E a \in Addr, n \in Sizes : ProgramLoads(a, n) /\ last'.op = "load"
         \/ \E n \in Sizes : \E a \in Addr, v \in Values(n) :
              ProgramStores(a, v) /\ last'.op = "store"
         \/ \E a \in Addr, len \in Ranges, b \in Byte :
              HostWriteMemory(a, len, b) /\ last'.op = "hostWrite"
         \/ \E a \in Addr, len \in Ranges, b \in Byte :
              PvmWriteMemory(a, len, b) /\ faultRes'.isFault /\ last'.op = "pvmWrite"
         \/ PvmWriteData /\ last'.op = "pvmWrite"
         \/ SetByte /\ faultRes'.isFault /\ last'.op = "setMemory"
         \/ SetMemoryDone /\ last'.op = "setMemory"
         \/ last'.op = "none"
<1>1. ASSUME NEW a \in Addr, NEW len \in Ranges, ReadMemory(a, len) PROVE last'.op = "read"
  BY <1>1 DEF ReadMemory, ReadAnswer
<1>2. ASSUME NEW a \in Addr, NEW len \in Ranges, NEW b \in Byte, HostWriteMemory(a, len, b)
      PROVE  last'.op = "hostWrite"
  BY <1>2 DEF HostWriteMemory, WriteAnswer
<1>3. ASSUME NEW a \in Addr, NEW len \in Ranges, NEW b \in Byte, PvmWriteMemory(a, len, b)
      PROVE  (faultRes'.isFault /\ last'.op = "pvmWrite") \/ last'.op = "none"
  BY <1>3 DEF PvmWriteMemory, WriteAnswer, NoAnswer
<1>4. ASSUME NEW a \in Addr, NEW len \in Ranges, NEW b \in Byte, SetMemory(a, len, b)
      PROVE  last'.op = "none"
  BY <1>4 DEF SetMemory, NoAnswer
<1>5. PvmWriteData => last'.op = "pvmWrite"
  BY DEF PvmWriteData, WriteAnswer
<1>6. /\ SetByte => (faultRes'.isFault /\ last'.op = "setMemory") \/ last'.op = "none"
      /\ SetMemoryDone => last'.op = "setMemory"
  BY DEF SetByte, SetMemoryDone, SetAnswer, WriteAnswer, NoAnswer
<1>7. ASSUME NEW a \in Addr, NEW n \in Sizes, ProgramLoads(a, n) PROVE last'.op = "load"
  BY <1>7 DEF ProgramLoads, ReadAnswer
<1>8. ASSUME NEW n \in Sizes, NEW a \in Addr, NEW v \in Values(n), ProgramStores(a, v)
      PROVE  last'.op = "store"
  BY <1>8 DEF ProgramStores, WriteAnswer
<1>9. ASSUME NEW amount \in Addr, ProgramGrows(amount) PROVE last'.op = "none"
  BY <1>9 DEF ProgramGrows, NoAnswer
<1> QED BY <1>1, <1>2, <1>3, <1>4, <1>5, <1>6, <1>7, <1>8, <1>9 DEF HostNext

\* A load or a store faults at the first of its bytes that may not be accessed.
LEMMA LoadFault ==
  ASSUME HostInv, NEW a \in Addr, NEW n \in Sizes, ProgramLoads(a, n)
  PROVE  faultRes' = FaultDecided("Read", last')
<1>1. TypeOK /\ CacheGood(cache, pages)
  BY InvCacheGood DEF HostInv, IInv
<1>2. last'.addr = a /\ last'.len = n /\ n \in 1 .. PAGE_SIZE
  BY ConstantsTyped DEF ProgramLoads, ReadAnswer
<1>3. faultRes' = GetChunks("Read", a, n).fault
  BY DEF ProgramLoads, Load
<1> QED BY <1>1, <1>2, <1>3, ChunksReach

LEMMA StoreFault ==
  ASSUME HostInv, NEW n \in Sizes, NEW a \in Addr, NEW v \in Values(n), ProgramStores(a, v)
  PROVE  faultRes' = FaultDecided("Write", last')
<1>1. TypeOK /\ CacheGood(cache, pages)
  BY InvCacheGood DEF HostInv, IInv
<1>2. n \in Nat /\ n \in 1 .. PAGE_SIZE
  BY ConstantsTyped
<1>3. Len(v) = n
  BY <1>2 DEF Values
<1>4. last'.addr = a /\ last'.len = n
  BY <1>3 DEF ProgramStores, WriteAnswer
<1>5. faultRes' = GetChunks("Write", a, n).fault
  BY <1>3 DEF ProgramStores, Store
<1> QED BY <1>1, <1>2, <1>4, <1>5, ChunksReach

\* The host's reads and writes of a range fault at its first byte that may not
\* be accessed.
LEMMA ReadFault ==
  ASSUME IInv, NEW a \in Addr, NEW len \in Ranges, BytesRead(a, len),
         NEW r, r.addr = a, r.len = len
  PROVE  /\ faultRes' = FaultDecided("Read", r)
         /\ faultRes'.isFault <=> Reach("Read", r) # len
         /\ Reaches("Read", r, RangeDone("Read", a, len))
<1>1. CacheGood(cache, pages) /\ len \in Nat \ {0}
  BY InvCacheGood, ConstantsTyped DEF IInv
<1>2. faultRes' = RangeFault("Read", a, len)
  BY DEF BytesRead
<1> QED BY <1>1, <1>2, RangeReach

LEMMA WriteFault ==
  ASSUME IInv, NEW a \in Addr, NEW len \in Ranges, NEW b, BytesWrite(a, len, b),
         NEW r, r.addr = a, r.len = len
  PROVE  /\ faultRes' = FaultDecided("Write", r)
         /\ faultRes'.isFault <=> Reach("Write", r) # len
         /\ Reaches("Write", r, RangeDone("Write", a, len))
<1>1. CacheGood(cache, pages) /\ len \in Nat \ {0}
  BY InvCacheGood, ConstantsTyped DEF IInv
<1>2. faultRes' = RangeFault("Write", a, len)
  BY DEF BytesWrite
<1> QED BY <1>1, <1>2, RangeReach

\* Every access of the program and the host faults exactly when, and at the
\* page where, one of its bytes may not be accessed, whatever the page cache
\* holds and however the access lies across pages and the top of memory.
THEOREM FaultsExactTheorem == HostSpec => FaultsExact
<1> DEFINE Exact == /\ last'.op \in {"load", "read"} => faultRes' = FaultDecided("Read", last')
                    /\ last'.op \in {"store", "hostWrite"} =>
                         faultRes' = FaultDecided("Write", last')
<1>1. HostInv /\ [HostNext]_hostVars => [Exact]_hostVars
  <2> SUFFICES ASSUME HostInv, HostNext PROVE Exact
    OBVIOUS
  <2>1. ASSUME NEW a \in Addr, NEW len \in Ranges, ReadMemory(a, len) PROVE Exact
    <3>1. last'.addr = a /\ last'.len = len /\ last'.op = "read" /\ BytesRead(a, len)
      BY <2>1 DEF ReadMemory, ReadAnswer
    <3> QED BY <3>1, ReadFault DEF HostInv
  <2>2. ASSUME NEW a \in Addr, NEW n \in Sizes, ProgramLoads(a, n), last'.op = "load"
        PROVE  Exact
    BY <2>2, LoadFault
  <2>3. ASSUME NEW n \in Sizes, NEW a \in Addr, NEW v \in Values(n), ProgramStores(a, v),
               last'.op = "store"
        PROVE  Exact
    BY <2>3, StoreFault
  <2>4. ASSUME NEW a \in Addr, NEW len \in Ranges, NEW b \in Byte, HostWriteMemory(a, len, b)
        PROVE  Exact
    <3>1. len \in Nat
      BY ConstantsTyped
    <3>2. last'.addr = a /\ last'.len = len /\ last'.op = "hostWrite" /\ BytesWrite(a, len, b)
      BY <2>4, <3>1, CopiesTyped DEF HostWriteMemory, WriteAnswer
    <3> QED BY <3>2, WriteFault DEF HostInv
  <2>5. CASE last'.op \in {"none", "setMemory", "pvmWrite"}
    BY <2>5
  <2> HIDE DEF Exact
  <2> QED BY <2>1, <2>2, <2>3, <2>4, <2>5, Answering
<1> QED BY <1>1, HostInvHolds, PTL DEF HostSpec, FaultsExact

\* The host gets all the bytes of a range, or none, and none exactly if it may
\* not read one of them.
THEOREM HostReadExactTheorem == HostSpec => HostReadExact
<1> DEFINE Exact == last'.op = "read" => /\ last'.ok <=> Reach("Read", last') = last'.len
                                         /\ last'.ok => Gets(last')
<1>1. HostInv /\ [HostNext]_hostVars => [Exact]_hostVars
  <2> SUFFICES ASSUME HostInv, NEW a \in Addr, NEW len \in Ranges, ReadMemory(a, len)
               PROVE  /\ last'.ok <=> Reach("Read", last') = last'.len
                      /\ last'.ok => Gets(last')
    BY Answering
  <2>1. /\ last'.addr = a /\ last'.len = len /\ last'.ok = ~faultRes'.isFault
        /\ BytesRead(a, len)
    BY DEF ReadMemory, ReadAnswer
  <2>2. len \in Nat /\ a \in Int
    BY ConstantsTyped DEF Addr
  <2>3. last'.ok <=> Reach("Read", last') = len
    BY <2>1, ReadFault DEF HostInv
  <2>4. ASSUME last'.ok PROVE Gets(last')
    <3>1. RangeDone("Read", a, len) = len
      <4>1. Reaches("Read", last', RangeDone("Read", a, len))
        BY <2>1, ReadFault DEF HostInv
      <4> QED BY <2>3, <2>4, <4>1 DEF Reaches
    <3>2. value' = [i \in 1 .. len |-> LET x == (a + i - 1) % MEMORY_SIZE
                                       IN data[Lookup(cache, PageOf(x)).raw][Rel(x)]]
      BY <2>1, <3>1 DEF BytesRead
    <3>3. ASSUME NEW i \in 1 .. len
          PROVE  LET x == (a + i - 1) % MEMORY_SIZE
                 IN data[Lookup(cache, PageOf(x)).raw][Rel(x)] = ByteAt(Wrap(a, i - 1))
      <4> DEFINE x == (a + i - 1) % MEMORY_SIZE
      <4>1. a + (i - 1) = a + i - 1 /\ i \in Int
        BY <2>2
      <4>2. x = Wrap(a, i - 1)
        BY <4>1 DEF Wrap
      <4>3. x \in Addr
        BY <2>2, <4>1, WrapIsAddr
      <4> HIDE DEF x
      <4>4. Lookup(cache, PageOf(x)) = pages[PageOf(x)]
        BY <4>3, AddrInPage, InvCacheGood, LookupGood DEF HostInv, IInv
      <4>5. data[Lookup(cache, PageOf(x)).raw][Rel(x)] = ByteAt(Wrap(a, i - 1))
        BY <4>2, <4>4 DEF ByteAt
      <4> QED BY <4>5 DEF x
    <3>4. value' = [i \in 1 .. len |-> ByteAt(Wrap(a, i - 1))]
      BY <3>2, <3>3
    <3> QED BY <2>1, <3>4 DEF Gets
  <2> QED BY <2>1, <2>3, <2>4
<1> QED BY <1>1, HostInvHolds, PTL DEF HostSpec, HostReadExact

-----------------------------------------------------------------------------
(* Writes of the host.                                                     *)

LEMMA SameAddress ==
  ASSUME NEW x \in Addr, NEW y \in Addr, PageOf(x) = PageOf(y), Rel(x) = Rel(y)
  PROVE  x = y
<1>1. PAGE_SIZE \in Nat \ {0} /\ x \in Int /\ y \in Int
  BY PagesAssumption, MemorySize DEF Addr
<1>2. /\ x = PAGE_SIZE * (x \div PAGE_SIZE) + (x % PAGE_SIZE)
      /\ y = PAGE_SIZE * (y \div PAGE_SIZE) + (y % PAGE_SIZE)
  BY <1>1, DivMod
<1> QED BY <1>2 DEF PageOf, Rel

\* A byte of a mapped page is where no other address of a mapped page is.
LEMMA OneByte ==
  ASSUME IInv, NEW x \in Addr, NEW y \in Addr, Has(PageOf(x)), Has(PageOf(y)),
         pages[PageOf(x)].raw = pages[PageOf(y)].raw, Rel(x) = Rel(y)
  PROVE  x = y
<1>1. PageOf(x) \in Mapped /\ PageOf(y) \in Mapped
  BY AddrInPage DEF Mapped
<1>2. PageOf(x) = PageOf(y)
  BY <1>1 DEF IInv, NoAliasing
<1> QED BY <1>2, SameAddress

LEMMA BytesStay ==
  ASSUME data' = data, pages' = pages, NEW r
  PROVE  Puts(r, 0) /\ \A x \in Addr : ByteAt(x)' = ByteAt(x)
<1>1. \A x \in Addr : ByteAt(x)' = ByteAt(x)
  BY DEF ByteAt
<1>2. \A x \in Addr : ~InRange(r, 0, x)
  BY DEF InRange
<1> QED BY <1>1, <1>2 DEF Puts

\* bytesWrite writes what it reaches and nothing else.
LEMMA RangePuts ==
  ASSUME IInv, NEW a \in Addr, NEW len \in Ranges, NEW b \in Byte, BytesWrite(a, len, b),
         NEW r, r.addr = a, r.len = len, r.bytes = Copies(b, len)
  PROVE  Puts(r, Reach("Write", r))
<1> DEFINE D == RangeDone("Write", a, len)
           W == {(a + i) % MEMORY_SIZE : i \in 0 .. D - 1}
           Raw(x) == pages[PageOf(x)].raw
<1>1. /\ Reach("Write", r) = D /\ D \in 0 .. len /\ len \in Nat
      /\ \A i \in 0 .. D - 1 : Accessible("Write", Wrap(a, i))
  BY WriteFault, ConstantsTyped DEF Reaches
<1>2. /\ pages' = pages
      /\ data' = [q \in RawId |-> [o \in Offset |->
                    IF \E y \in W : Rel(y) = o /\ Lookup(cache, PageOf(y)).raw = q
                    THEN b ELSE data[q][o]]]
  BY DEF BytesWrite
<1> HIDE DEF D
<1>3. ASSUME NEW y \in W
      PROVE  y \in Addr /\ Has(PageOf(y)) /\ Lookup(cache, PageOf(y)) = pages[PageOf(y)]
  <2>1. PICK i \in 0 .. D - 1 : y = (a + i) % MEMORY_SIZE
    OBVIOUS
  <2>2. i \in Nat /\ y = Wrap(a, i)
    BY <1>1, <2>1 DEF Wrap
  <2>3. y \in Addr
    BY <2>2, PageOfWrap
  <2>4. Has(PageOf(y))
    BY <1>1, <2>2 DEF Accessible
  <2> QED BY <2>3, <2>4, AddrInPage, InvCacheGood, LookupGood DEF IInv
<1>4. \A x : x \in W <=> InRange(r, D, x)
  BY DEF InRange, Wrap
<1> HIDE DEF W
<1>5. ASSUME NEW x \in Addr, Has(PageOf(x))
      PROVE  ByteAt(x)' = IF x \in W THEN b ELSE ByteAt(x)
  <2>1. Raw(x) \in RawId /\ Rel(x) \in Offset
    BY <1>5, AddrInPage DEF Has, IInv, TypeOK, Page
  <2>2. ByteAt(x)' = data'[Raw(x)][Rel(x)]
    BY <1>2 DEF ByteAt
  <2>3. ByteAt(x)' = IF \E y \in W : Rel(y) = Rel(x) /\ Lookup(cache, PageOf(y)).raw = Raw(x)
                     THEN b ELSE data[Raw(x)][Rel(x)]
    BY <1>2, <2>1, <2>2
  <2>4. (\E y \in W : Rel(y) = Rel(x) /\ Lookup(cache, PageOf(y)).raw = Raw(x)) <=> x \in W
    <3>1. ASSUME NEW y \in W, Rel(y) = Rel(x), Lookup(cache, PageOf(y)).raw = Raw(x)
          PROVE  x \in W
      <4>1. y \in Addr /\ Has(PageOf(y)) /\ pages[PageOf(y)].raw = pages[PageOf(x)].raw
        BY <1>3, <3>1
      <4>2. y = x
        BY <1>5, <3>1, <4>1, OneByte
      <4> QED BY <3>1, <4>2
    <3>2. ASSUME x \in W
          PROVE  Rel(x) = Rel(x) /\ Lookup(cache, PageOf(x)).raw = Raw(x)
      BY <1>3, <3>2
    <3> QED BY <3>1, <3>2
  <2> QED BY <2>3, <2>4 DEF ByteAt
<1>6. ASSUME NEW x, InRange(r, D, x)
      PROVE  r.bytes[CHOOSE i \in 1 .. D : Wrap(r.addr, i - 1) = x] = b
  <2> DEFINE c == CHOOSE i \in 1 .. D : Wrap(r.addr, i - 1) = x
  <2>1. PICK i \in 0 .. D - 1 : Wrap(r.addr, i) = x
    BY <1>6 DEF InRange
  <2>2. i + 1 \in 1 .. D /\ Wrap(r.addr, (i + 1) - 1) = x
    <3>1. i + 1 \in 1 .. D /\ (i + 1) - 1 = i
      BY <1>1
    <3> QED BY <2>1, <3>1
  <2>3. \E j \in 1 .. D : Wrap(r.addr, j - 1) = x
    BY <2>2
  <2>4. c \in 1 .. D
    BY <2>3
  <2> HIDE DEF c
  <2>5. c \in 1 .. len
    BY <1>1, <2>4
  <2>6. r.bytes[c] = b
    BY <2>5 DEF Copies
  <2> QED BY <2>6 DEF c
<1> QED BY <1>1, <1>4, <1>5, <1>6 DEF Puts

\* What may be written may be read.
LEMMA WritableReadable ==
  ASSUME NEW r, NEW j, NEW k, Reaches("Read", r, j), Reaches("Write", r, k), r.len \in Nat
  PROVE  k <= j
<1> SUFFICES ASSUME j < k PROVE FALSE
  BY DEF Reaches
<1>1. j \in 0 .. k - 1 /\ j < r.len
  BY DEF Reaches
<1> QED BY <1>1 DEF Reaches, Accessible, Can

\* A write of the host answers true exactly if all of its range is writable,
\* and has put exactly the bytes in front of the first that is not into the
\* memory; nothing if the preflight of pvmWriteMemory has failed.
THEOREM HostWriteExactTheorem == HostSpec => HostWriteExact
<1> DEFINE Put(r) == IF r.op = "pvmWrite" /\ Reach("Read", r) < r.len THEN 0 ELSE Reach("Write", r)
           Exact == last'.op \in {"hostWrite", "pvmWrite"} =>
                      /\ last'.ok <=> Reach("Write", last') = last'.len
                      /\ Puts(last', Put(last'))
<1>1. HostInv /\ [HostNext]_hostVars => [Exact]_hostVars
  <2> SUFFICES ASSUME HostInv, HostNext PROVE Exact
    OBVIOUS
  <2>1. ASSUME NEW a \in Addr, NEW len \in Ranges, NEW b \in Byte, HostWriteMemory(a, len, b)
        PROVE  Exact
    <3>1. len \in Nat
      BY ConstantsTyped
    <3>2. /\ last'.addr = a /\ last'.len = len /\ last'.op = "hostWrite"
          /\ last'.bytes = Copies(b, len) /\ last'.ok = ~faultRes'.isFault
          /\ BytesWrite(a, len, b)
      BY <2>1, <3>1, CopiesTyped DEF HostWriteMemory, WriteAnswer
    <3>3. last'.ok <=> Reach("Write", last') = last'.len
      BY <3>2, WriteFault DEF HostInv
    <3>4. Puts(last', Reach("Write", last'))
      BY <3>2, RangePuts DEF HostInv
    <3> QED BY <3>2, <3>3, <3>4
  <2>2. ASSUME NEW a \in Addr, NEW len \in Ranges, NEW b \in Byte,
               PvmWriteMemory(a, len, b), faultRes'.isFault
        PROVE  Exact
    <3>1. len \in Nat \ {0}
      BY ConstantsTyped
    <3>2. /\ last'.addr = a /\ last'.len = len /\ last'.op = "pvmWrite" /\ last'.ok = FALSE
          /\ BytesRead(a, len)
      BY <2>2, <3>1, CopiesTyped DEF PvmWriteMemory, WriteAnswer
    <3>3. /\ Reach("Read", last') # len
          /\ Reaches("Read", last', RangeDone("Read", a, len))
      BY <2>2, <3>2, ReadFault DEF HostInv
    <3>4. Reach("Read", last') < last'.len
      BY <3>1, <3>2, <3>3 DEF Reaches
    <3>5. CacheGood(cache, pages)
      BY InvCacheGood DEF HostInv, IInv
    <3>6. Reaches("Write", last', RangeDone("Write", a, len))
      BY <3>1, <3>2, <3>5, RangeReach
    <3>7. Reach("Write", last') # last'.len
      <4>1. RangeDone("Write", a, len) <= RangeDone("Read", a, len)
        BY <3>1, <3>2, <3>3, <3>6, WritableReadable
      <4> QED BY <3>1, <3>2, <3>3, <3>4, <3>6, <4>1 DEF Reaches
    <3>8. data' = data /\ pages' = pages
      BY <3>2 DEF BytesRead
    <3>9. Puts(last', 0)
      BY <3>8, BytesStay
    <3> QED BY <3>2, <3>4, <3>7, <3>9
  <2>3. CASE PvmWriteData
    <3>1. /\ call.op = "pvmWrite" /\ call.addr \in Addr /\ call.byte \in Byte
          /\ call.len \in Nat \ {0} /\ call.len \in Ranges
          /\ Reach("Read", call) = call.len
      BY <2>3, ConstantsTyped DEF HostInv, CallOK, PvmWriteData, Ranges
    <3>2. /\ last'.addr = call.addr /\ last'.len = call.len
          /\ last'.bytes = Copies(call.byte, call.len) /\ last'.ok = ~faultRes'.isFault
          /\ BytesWrite(call.addr, call.len, call.byte)
      BY <2>3, <3>1, CopiesTyped DEF PvmWriteData, WriteAnswer
    <3>3. last'.ok <=> Reach("Write", last') = last'.len
      BY <3>1, <3>2, WriteFault DEF HostInv
    <3>4. Puts(last', Reach("Write", last'))
      BY <3>1, <3>2, RangePuts DEF HostInv
    <3>5. CacheGood(cache, pages)
      BY InvCacheGood DEF HostInv, IInv
    <3>6. /\ Reaches("Read", call, RangeDone("Read", call.addr, call.len))
          /\ Reaches("Read", last', RangeDone("Read", call.addr, call.len))
      BY <3>1, <3>2, <3>5, RangeReach
    <3>7. Reach("Read", last') = last'.len
      BY <3>1, <3>2, <3>6 DEF Reaches
    <3>8. ~(Reach("Read", last') < last'.len)
      BY <3>1, <3>2, <3>7
    <3> QED BY <3>3, <3>4, <3>8
  <2>4. CASE last'.op \in {"none", "setMemory", "read", "load", "store"}
    BY <2>4
  <2> HIDE DEF Exact
  <2> QED BY <2>1, <2>2, <2>3, <2>4, Answering
<1> QED BY <1>1, HostInvHolds, PTL DEF HostSpec, HostWriteExact

-----------------------------------------------------------------------------
(* Loads and stores through the two chunks.                                *)

\* Where the bytes of an access of n bytes lie: in the first page up to its
\* end, and from the start of the second.
LEMMA BytePlaces ==
  ASSUME NEW a \in Addr, NEW n \in 1 .. PAGE_SIZE, NEW i \in 0 .. n - 1
  PROVE  /\ Wrap(a, i) \in Addr
         /\ Rel(a) + i < PAGE_SIZE =>
              PageOf(Wrap(a, i)) = PageOf(a) /\ Rel(Wrap(a, i)) = Rel(a) + i
         /\ Rel(a) + i >= PAGE_SIZE =>
              PageOf(Wrap(a, i)) = RangePage(a, 1) /\ Rel(Wrap(a, i)) = Rel(a) + i - PAGE_SIZE
<1> DEFINE P == PAGE_SIZE
           z == Rel(a) + i
<1>1. P \in Nat \ {0} /\ Rel(a) \in 0 .. P - 1 /\ i \in Nat /\ i < P
  BY SizesAssumption, PagesAssumption, AddrInPage DEF Offset
<1>2. z \in 0 .. 2 * P - 1
  BY <1>1
<1>3. /\ Wrap(a, i) \in Addr
      /\ PageOf(Wrap(a, i)) = RangePage(a, z \div P)
      /\ Rel(Wrap(a, i)) = z % P
  BY <1>1, PageOfWrap
<1>4. RangePage(a, 0) = PageOf(a)
  BY ChunkPages
<1> HIDE DEF P, z
<1>5. ASSUME z < P PROVE z \div P = 0 /\ z % P = z
  <2>1. z \in 0 .. P - 1 /\ z \in Int /\ z = P * 0 + z /\ 0 \in Int
    BY <1>1, <1>2, <1>5
  <2> QED BY <1>1, <2>1, DivModUnique
<1>6. ASSUME z >= P PROVE z \div P = 1 /\ z % P = z - P
  <2> DEFINE y == z - P
  <2>1. y \in 0 .. P - 1 /\ z \in Int /\ z = P * 1 + y /\ 1 \in Int
    BY <1>1, <1>2, <1>6
  <2> HIDE DEF y
  <2>2. z \div P = 1 /\ z % P = y
    BY <1>1, <2>1, DivModUnique
  <2> QED BY <2>2 DEF y
<1>7. z < P => PageOf(Wrap(a, i)) = PageOf(a) /\ Rel(Wrap(a, i)) = z
  BY <1>3, <1>4, <1>5
<1>8. z >= P => PageOf(Wrap(a, i)) = RangePage(a, 1) /\ Rel(Wrap(a, i)) = z - P
  BY <1>3, <1>6
<1>9. Wrap(a, i) \in Addr
  BY <1>3
<1> QED BY <1>1, <1>7, <1>8, <1>9 DEF z, P

\* Which of its n bytes the range r has at x.
ByteNo(r, n, x) == CHOOSE i \in 1 .. n : Wrap(r.addr, i - 1) = x

\* Each address of an access is one byte of it.
LEMMA ByteOfAccess ==
  ASSUME NEW a \in Addr, NEW n \in 1 .. PAGE_SIZE, NEW i \in 0 .. n - 1,
         NEW r, r.addr = a, NEW x, x = Wrap(a, i)
  PROVE  /\ InRange(r, n, x)
         /\ ByteNo(r, n, x) = i + 1
<1> DEFINE c == ByteNo(r, n, x)
<1>1. /\ n \in Nat \ {0} /\ n <= PAGE_SIZE /\ PAGE_SIZE \in Nat \ {0}
      /\ Rel(a) \in 0 .. PAGE_SIZE - 1 /\ i \in Nat
  BY SizesAssumption, PagesAssumption, AddrInPage DEF Offset
<1>2. i + 1 \in 1 .. n /\ (i + 1) - 1 = i
  BY <1>1
<1>3. c \in 1 .. n /\ Wrap(a, c - 1) = x
  <2>1. \E j \in 1 .. n : Wrap(r.addr, j - 1) = x
    BY <1>2
  <2> QED BY <2>1 DEF ByteNo
<1> HIDE DEF c
<1>4. c - 1 \in 0 .. n - 1 /\ c \in Int
  BY <1>1, <1>3
<1>5. c - 1 = i
  <2> DEFINE d == c - 1
  <2>1. d \in 0 .. n - 1 /\ Wrap(a, d) = Wrap(a, i)
    BY <1>3, <1>4
  <2> HIDE DEF d
  <2>2. /\ Rel(Wrap(a, d)) = IF Rel(a) + d < PAGE_SIZE THEN Rel(a) + d ELSE Rel(a) + d - PAGE_SIZE
        /\ Rel(Wrap(a, i)) = IF Rel(a) + i < PAGE_SIZE THEN Rel(a) + i ELSE Rel(a) + i - PAGE_SIZE
    <3>1. \A e \in 0 .. n - 1 : Rel(a) + e < PAGE_SIZE \/ Rel(a) + e >= PAGE_SIZE
      BY <1>1
    <3> QED BY <2>1, <3>1, BytePlaces
  <2>3. d = i
    BY <1>1, <2>1, <2>2
  <2> QED BY <2>3 DEF d
<1>6. c = i + 1
  BY <1>1, <1>4, <1>5
<1>7. InRange(r, n, x)
  BY DEF InRange
<1> QED BY <1>6, <1>7 DEF c

\* The chunks of an access that does not fault and finds no residue.
LEMMA ChunksExact ==
  ASSUME TypeOK, CacheGood(cache, pages), NEW access, NEW a \in Addr, NEW n \in 1 .. PAGE_SIZE,
         ~GetChunks(access, a, n).fault.isFault,
         chunks.end = 0 \/ Rel(a) + n > PAGE_SIZE
  PROVE  LET g == GetChunks(access, a, n)
             two == Rel(a) + n > PAGE_SIZE
         IN /\ Has(PageOf(a)) /\ g.first = pages[PageOf(a)].raw
            /\ two => /\ Has(RangePage(a, 1))
                      /\ g.second.raw = pages[RangePage(a, 1)].raw
                      /\ g.second.end = Rel(a) + n - PAGE_SIZE
            /\ ~two => g.second.end = 0
            /\ FirstLen(a, n) = IF two THEN PAGE_SIZE - Rel(a) ELSE n
            /\ FirstLen(a, n) + g.second.end = n
<1> DEFINE g == GetChunks(access, a, n)
           two == Rel(a) + n > PAGE_SIZE
           r == [addr |-> a, len |-> n]
<1>1. /\ n \in Nat \ {0} /\ n <= PAGE_SIZE /\ PAGE_SIZE \in Nat \ {0}
      /\ Rel(a) \in 0 .. PAGE_SIZE - 1
  BY SizesAssumption, PagesAssumption, AddrInPage DEF Offset
<1>2. r.addr = a /\ r.len = n
  OBVIOUS
<1> HIDE DEF r, g
<1>3. /\ g.first = pages[PageOf(a)].raw
      /\ two => g.second = [raw |-> pages[RangePage(a, 1)].raw, end |-> Rel(a) + n - PAGE_SIZE]
      /\ ~two => g.second = chunks
      /\ Reaches(access, r, n)
  BY <1>2, ChunksReach DEF g
<1>4. \A i \in 0 .. n - 1 : Has(PageOf(Wrap(a, i)))
  BY <1>2, <1>3 DEF Reaches, Accessible
<1>5. Has(PageOf(a))
  <2>1. 0 \in 0 .. n - 1 /\ Rel(a) + 0 < PAGE_SIZE
    BY <1>1
  <2> QED BY <1>4, <2>1, BytePlaces
<1>6. two => Has(RangePage(a, 1))
  <2> SUFFICES ASSUME two PROVE Has(RangePage(a, 1))
    OBVIOUS
  <2>1. n - 1 \in 0 .. n - 1 /\ Rel(a) + (n - 1) >= PAGE_SIZE
    BY <1>1
  <2> QED BY <1>4, <2>1, BytePlaces
<1>7. /\ FirstLen(a, n) = IF two THEN PAGE_SIZE - Rel(a) ELSE n
      /\ FirstLen(a, n) + g.second.end = n
  BY <1>1, <1>3 DEF FirstLen
<1>8. ~two => g.second.end = 0
  BY <1>3
<1> QED BY <1>3, <1>5, <1>6, <1>7, <1>8 DEF g

\* A load that finds no residue returns the bytes of its addresses, in order,
\* from one page or two.
LEMMA LoadGets ==
  ASSUME IInv, NEW a \in Addr, NEW n \in Sizes, Load(a, n),
         ~faultRes'.isFault, chunks.end = 0 \/ Rel(a) + n > PAGE_SIZE
  PROVE  value' = [i \in 1 .. n |-> ByteAt(Wrap(a, i - 1))]
<1> DEFINE g == GetChunks("Read", a, n)
           k == FirstLen(a, n)
           all == [i \in 1 .. k + g.second.end |->
                     IF i <= k THEN data[g.first][Rel(a) + i - 1]
                     ELSE data[g.second.raw][i - k - 1]]
<1>1. /\ faultRes' = g.fault
      /\ value' = IF g.fault.isFault THEN <<>> ELSE LoadedBytes(g, a, n)
  BY DEF Load
<1>2. /\ n \in 1 .. PAGE_SIZE /\ n \in Nat /\ PAGE_SIZE \in Nat \ {0}
      /\ Rel(a) \in 0 .. PAGE_SIZE - 1
  BY ConstantsTyped, PagesAssumption, AddrInPage DEF Offset
<1>3. /\ Has(PageOf(a)) /\ g.first = pages[PageOf(a)].raw
      /\ Rel(a) + n > PAGE_SIZE => /\ g.second.raw = pages[RangePage(a, 1)].raw
                                   /\ g.second.end = Rel(a) + n - PAGE_SIZE
      /\ k = IF Rel(a) + n > PAGE_SIZE THEN PAGE_SIZE - Rel(a) ELSE n
      /\ k + g.second.end = n
  <2>1. TypeOK /\ CacheGood(cache, pages)
    BY InvCacheGood DEF IInv
  <2>2. ~g.fault.isFault /\ (chunks.end = 0 \/ Rel(a) + n > PAGE_SIZE)
    BY <1>1
  <2> HIDE DEF g
  <2> QED BY <1>2, <2>1, <2>2, ChunksExact DEF g
<1>4. value' = SubSeq(all, Len(all) - n + 1, Len(all))
  BY <1>1 DEF LoadedBytes
<1> HIDE DEF g, k
<1>5. value' = [i \in 1 .. n |-> all[i]]
  <2>1. DOMAIN all = 1 .. n /\ Len(all) = n
    BY <1>2, <1>3
  <2> HIDE DEF all
  <2>2. Len(all) - n + 1 = 1
    BY <1>2, <2>1
  <2>3. value' = SubSeq(all, 1, n)
    BY <1>4, <2>1, <2>2
  <2> QED BY <1>2, <2>3
<1>6. ASSUME NEW i \in 1 .. n PROVE all[i] = ByteAt(Wrap(a, i - 1))
  <2> DEFINE j == i - 1
  <2>1. j \in 0 .. n - 1 /\ i \in Nat /\ i \in 1 .. k + g.second.end
    BY <1>2, <1>3
  <2> HIDE DEF j
  <2>2. CASE i <= k
    <3>1. Rel(a) + j < PAGE_SIZE /\ Rel(a) + i - 1 = Rel(a) + j
      BY <1>2, <1>3, <2>1, <2>2 DEF j
    <3>2. all[i] = data[g.first][Rel(a) + j]
      BY <2>1, <2>2, <3>1
    <3>3. PageOf(Wrap(a, j)) = PageOf(a) /\ Rel(Wrap(a, j)) = Rel(a) + j
      BY <1>2, <2>1, <3>1, BytePlaces
    <3>4. all[i] = ByteAt(Wrap(a, j))
      BY <1>3, <3>2, <3>3 DEF ByteAt
    <3> QED BY <3>4 DEF j
  <2>3. CASE ~(i <= k)
    <3>1. /\ Rel(a) + n > PAGE_SIZE /\ Rel(a) + j >= PAGE_SIZE
          /\ i - k - 1 = Rel(a) + j - PAGE_SIZE
      BY <1>2, <1>3, <2>1, <2>3 DEF j
    <3>2. all[i] = data[g.second.raw][Rel(a) + j - PAGE_SIZE]
      BY <2>1, <2>3, <3>1
    <3>3. PageOf(Wrap(a, j)) = RangePage(a, 1) /\ Rel(Wrap(a, j)) = Rel(a) + j - PAGE_SIZE
      BY <1>2, <2>1, <3>1, BytePlaces
    <3>4. all[i] = ByteAt(Wrap(a, j))
      BY <1>3, <3>1, <3>2, <3>3 DEF ByteAt
    <3> QED BY <3>4 DEF j
  <2> QED BY <2>2, <2>3
<1> HIDE DEF all
<1>7. value' = [i \in 1 .. n |-> ByteAt(Wrap(a, i - 1))]
  BY <1>5, <1>6
<1> QED BY <1>7

\* Every load that finds no residue does.
THEOREM LoadExactTheorem == HostSpec => LoadExact
<1> DEFINE Exact == last'.op = "load" /\ last'.ok /\ NoResidue(last') => Gets(last')
<1>1. HostInv /\ [HostNext]_hostVars => [Exact]_hostVars
  <2> SUFFICES ASSUME HostInv, NEW a \in Addr, NEW n \in Sizes, ProgramLoads(a, n),
                      last'.ok, NoResidue(last')
               PROVE  Gets(last')
    BY Answering
  <2>1. /\ last'.addr = a /\ last'.len = n /\ last'.ok = ~faultRes'.isFault
        /\ Load(a, n)
    BY DEF ProgramLoads, ReadAnswer
  <2>2. value' = [i \in 1 .. n |-> ByteAt(Wrap(a, i - 1))]
    BY <2>1, LoadGets DEF HostInv, NoResidue
  <2> QED BY <2>1, <2>2 DEF Gets
<1> QED BY <1>1, HostInvHolds, PTL DEF HostSpec, LoadExact

\* A store that finds no residue changes the bytes of its addresses to those
\* of its value, and no other byte of any mapped page.
LEMMA StorePuts ==
  ASSUME IInv, NEW a \in Addr, NEW n \in Sizes, NEW v \in Values(n), Store(a, v),
         ~faultRes'.isFault, chunks.end = 0 \/ Rel(a) + n > PAGE_SIZE,
         NEW r, r.addr = a, r.bytes = v
  PROVE  Puts(r, n)
<1> DEFINE g == GetChunks("Write", a, n)
           k == FirstLen(a, n)
           two == Rel(a) + n > PAGE_SIZE
           ByteFrom(i) == IF i <= n THEN v[i] ELSE 0
           d1 == [data EXCEPT ![g.first] =
                    [o \in Offset |-> IF o \in Rel(a) .. Rel(a) + k - 1
                                      THEN v[o - Rel(a) + 1] ELSE data[g.first][o]]]
           d2 == [d1 EXCEPT ![g.second.raw] =
                    [o \in Offset |-> IF o < g.second.end
                                      THEN ByteFrom(k + o + 1) ELSE d1[g.second.raw][o]]]
<1>1. /\ n \in 1 .. PAGE_SIZE /\ n \in Nat \ {0} /\ PAGE_SIZE \in Nat \ {0}
      /\ Rel(a) \in 0 .. PAGE_SIZE - 1 /\ PageOf(a) \in PageIdx
  BY ConstantsTyped, PagesAssumption, AddrInPage DEF Offset
<1>2. Len(v) = n
  BY <1>1 DEF Values
<1>3. /\ faultRes' = g.fault /\ pages' = pages
      /\ data' = IF g.fault.isFault THEN data ELSE StoredData(g, a, v)
  BY <1>2 DEF Store
<1>4. TypeOK /\ CacheGood(cache, pages)
  BY InvCacheGood DEF IInv
<1>5. /\ Has(PageOf(a)) /\ g.first = pages[PageOf(a)].raw
      /\ two => /\ Has(RangePage(a, 1))
                /\ g.second.raw = pages[RangePage(a, 1)].raw
                /\ g.second.end = Rel(a) + n - PAGE_SIZE
      /\ ~two => g.second.end = 0
      /\ k = IF two THEN PAGE_SIZE - Rel(a) ELSE n
      /\ k + g.second.end = n
  <2>1. ~g.fault.isFault
    BY <1>3
  <2> HIDE DEF g
  <2> QED BY <1>1, <1>4, <2>1, ChunksExact DEF g
<1>6. data' = IF g.second.end = 0 THEN d1 ELSE d2
  BY <1>2, <1>3 DEF StoredData
<1>7. /\ data \in [RawId -> [Offset -> Byte]]
      /\ \A p \in PageIdx : Has(p) => pages[p].raw \in RawId
      /\ \A p, q \in PageIdx : Has(p) /\ Has(q) /\ pages[p].raw = pages[q].raw => p = q
      /\ RangePage(a, 1) \in PageIdx
  BY <1>4, RangePageIsPage DEF IInv, TypeOK, Has, Page, NoAliasing, Mapped
<1> HIDE DEF g, k
<1>8. g.first \in RawId /\ (two => g.second.raw \in RawId)
  BY <1>1, <1>5, <1>7
<1>9. ASSUME NEW p \in PageIdx, Has(p), NEW o \in Offset
      PROVE  d1[pages[p].raw][o] = IF p = PageOf(a) /\ o \in Rel(a) .. Rel(a) + k - 1
                                   THEN v[o - Rel(a) + 1] ELSE data[pages[p].raw][o]
  <2>1. pages[p].raw \in RawId /\ (pages[p].raw = g.first <=> p = PageOf(a))
    BY <1>1, <1>5, <1>7, <1>9
  <2>2. CASE p = PageOf(a)
    <3>1. d1[pages[p].raw] = [q \in Offset |-> IF q \in Rel(a) .. Rel(a) + k - 1
                                               THEN v[q - Rel(a) + 1] ELSE data[pages[p].raw][q]]
      BY <1>7, <1>8, <2>1, <2>2
    <3> HIDE DEF d1
    <3> QED BY <2>2, <3>1
  <2>3. CASE p # PageOf(a)
    <3>1. d1[pages[p].raw] = data[pages[p].raw]
      BY <1>7, <1>8, <2>1, <2>3
    <3> HIDE DEF d1
    <3> QED BY <2>3, <3>1
  <2> QED BY <2>2, <2>3
<1>10. DOMAIN d1 = RawId
  BY <1>7
<1> HIDE DEF d1, ByteFrom
<1>11. ASSUME two, NEW p \in PageIdx, Has(p), NEW o \in Offset
       PROVE  d2[pages[p].raw][o] = IF p = RangePage(a, 1) /\ o < g.second.end
                                    THEN ByteFrom(k + o + 1) ELSE d1[pages[p].raw][o]
  <2>1. pages[p].raw \in RawId /\ (pages[p].raw = g.second.raw <=> p = RangePage(a, 1))
    BY <1>5, <1>7, <1>11
  <2>2. CASE p = RangePage(a, 1)
    <3>1. d2[pages[p].raw] = [q \in Offset |-> IF q < g.second.end
                                               THEN ByteFrom(k + q + 1) ELSE d1[pages[p].raw][q]]
      BY <1>8, <1>10, <1>11, <2>1, <2>2
    <3> HIDE DEF d2
    <3> QED BY <2>2, <3>1
  <2>3. CASE p # RangePage(a, 1)
    <3>1. d2[pages[p].raw] = d1[pages[p].raw]
      BY <1>8, <1>10, <1>11, <2>1, <2>3
    <3> HIDE DEF d2
    <3> QED BY <2>3, <3>1
  <2> QED BY <2>2, <2>3
<1> HIDE DEF d2
<1>12. SUFFICES ASSUME NEW x \in Addr, Has(PageOf(x))
                PROVE  ByteAt(x)' = IF InRange(r, n, x)
                                    THEN v[ByteNo(r, n, x)] ELSE ByteAt(x)
  BY DEF Puts, ByteNo
<1>13. PageOf(x) \in PageIdx /\ Rel(x) \in 0 .. PAGE_SIZE - 1 /\ Rel(x) \in Offset
  BY AddrInPage DEF Offset
<1>14. ByteAt(x)' = data'[pages[PageOf(x)].raw][Rel(x)] /\ ByteAt(x) = data[pages[PageOf(x)].raw][Rel(x)]
  BY <1>3 DEF ByteAt
<1> DEFINE first == PageOf(x) = PageOf(a) /\ Rel(x) \in Rel(a) .. Rel(a) + k - 1
           second == two /\ PageOf(x) = RangePage(a, 1) /\ Rel(x) < g.second.end
<1>15. ByteAt(x)' = IF second THEN v[k + Rel(x) + 1]
                    ELSE IF first THEN v[Rel(x) - Rel(a) + 1] ELSE ByteAt(x)
  <2>1. d1[pages[PageOf(x)].raw][Rel(x)] = IF first THEN v[Rel(x) - Rel(a) + 1] ELSE ByteAt(x)
    BY <1>9, <1>12, <1>13, <1>14
  <2>2. CASE two
    <3>1. g.second.end # 0 /\ g.second.end \in Nat /\ k \in Nat
      BY <1>1, <1>5, <2>2
    <3>2. data' = d2
      BY <1>6, <3>1
    <3>3. ByteAt(x)' = IF second THEN ByteFrom(k + Rel(x) + 1) ELSE d1[pages[PageOf(x)].raw][Rel(x)]
      BY <1>11, <1>12, <1>13, <1>14, <2>2, <3>2
    <3>4. second => ByteFrom(k + Rel(x) + 1) = v[k + Rel(x) + 1]
      <4>1. second => k + Rel(x) + 1 <= n
        BY <1>1, <1>5, <1>13, <3>1
      <4> QED BY <4>1 DEF ByteFrom
    <3> QED BY <2>1, <3>3, <3>4
  <2>3. CASE ~two
    BY <1>5, <1>6, <1>14, <2>1, <2>3
  <2> QED BY <2>2, <2>3
<1>16. ASSUME NEW i \in 0 .. n - 1, x = Wrap(a, i)
       PROVE  /\ InRange(r, n, x)
              /\ v[ByteNo(r, n, x)] = v[i + 1]
  BY <1>1, <1>16, ByteOfAccess
<1>17. CASE second
  <2> DEFINE i == k + Rel(x)
  <2>1. i \in 0 .. n - 1 /\ Rel(a) + i >= PAGE_SIZE /\ Rel(a) + i - PAGE_SIZE = Rel(x)
    BY <1>1, <1>5, <1>13, <1>17
  <2> HIDE DEF i
  <2>2. x = Wrap(a, i)
    <3>1. /\ Wrap(a, i) \in Addr /\ PageOf(Wrap(a, i)) = PageOf(x) /\ Rel(Wrap(a, i)) = Rel(x)
      BY <1>1, <1>17, <2>1, BytePlaces
    <3> QED BY <3>1, SameAddress
  <2>3. InRange(r, n, x) /\ v[ByteNo(r, n, x)] = v[i + 1]
    BY <1>16, <2>1, <2>2
  <2> HIDE DEF second, first
  <2> QED BY <1>15, <1>17, <2>3 DEF i
<1>18. CASE ~second /\ first
  <2> DEFINE i == Rel(x) - Rel(a)
  <2>1. i \in 0 .. n - 1 /\ Rel(a) + i < PAGE_SIZE /\ Rel(a) + i = Rel(x)
    BY <1>1, <1>5, <1>13, <1>18
  <2> HIDE DEF i
  <2>2. x = Wrap(a, i)
    <3>1. /\ Wrap(a, i) \in Addr /\ PageOf(Wrap(a, i)) = PageOf(x) /\ Rel(Wrap(a, i)) = Rel(x)
      BY <1>1, <1>18, <2>1, BytePlaces
    <3> QED BY <3>1, SameAddress
  <2>3. InRange(r, n, x) /\ v[ByteNo(r, n, x)] = v[i + 1]
    BY <1>16, <2>1, <2>2
  <2> HIDE DEF second, first
  <2> QED BY <1>15, <1>18, <2>3 DEF i
<1>19. CASE ~second /\ ~first
  <2>1. ASSUME InRange(r, n, x) PROVE FALSE
    <3>1. PICK i \in 0 .. n - 1 : Wrap(a, i) = x
      BY <2>1 DEF InRange
    <3>2. CASE Rel(a) + i < PAGE_SIZE
      <4>1. PageOf(x) = PageOf(a) /\ Rel(x) = Rel(a) + i
        BY <1>1, <3>1, <3>2, BytePlaces
      <4>2. first
        BY <1>1, <1>5, <3>2, <4>1
      <4> QED BY <1>19, <4>2
    <3>3. CASE Rel(a) + i >= PAGE_SIZE
      <4>1. PageOf(x) = RangePage(a, 1) /\ Rel(x) = Rel(a) + i - PAGE_SIZE
        BY <1>1, <3>1, <3>3, BytePlaces
      <4>2. second
        BY <1>1, <1>5, <3>3, <4>1
      <4> QED BY <1>19, <4>2
    <3> QED BY <1>1, <3>2, <3>3
  <2> HIDE DEF second, first
  <2> QED BY <1>15, <1>19, <2>1
<1> QED BY <1>17, <1>18, <1>19

\* A store that finds no residue puts its value, and nothing else, into the
\* memory.
THEOREM StoreExactTheorem == HostSpec => StoreExact
<1> DEFINE Exact == last'.op = "store" /\ last'.ok /\ NoResidue(last') => Puts(last', last'.len)
<1>1. HostInv /\ [HostNext]_hostVars => [Exact]_hostVars
  <2> SUFFICES ASSUME HostInv, NEW n \in Sizes, NEW a \in Addr, NEW v \in Values(n),
                      ProgramStores(a, v), last'.ok, NoResidue(last')
               PROVE  Puts(last', last'.len)
    BY Answering
  <2>1. n \in Nat
    BY ConstantsTyped
  <2>2. Len(v) = n
    BY <2>1 DEF Values
  <2>3. /\ last'.addr = a /\ last'.len = n /\ last'.bytes = v /\ last'.ok = ~faultRes'.isFault
        /\ Store(a, v)
    BY <2>2 DEF ProgramStores, WriteAnswer
  <2>4. Puts(last', n)
    BY <2>3, StorePuts DEF HostInv, NoResidue
  <2> QED BY <2>3, <2>4
<1> QED BY <1>1, HostInvHolds, PTL DEF HostSpec, StoreExact

-----------------------------------------------------------------------------
(* setMemory, byte by byte.                                                *)

LEMMA WrapIdentity == \A x \in Addr : x % MEMORY_SIZE = x
<1> SUFFICES ASSUME NEW x \in Addr PROVE x % MEMORY_SIZE = x
  OBVIOUS
<1>1. MEMORY_SIZE \in Nat \ {0} /\ x \in 0 .. MEMORY_SIZE - 1 /\ x \in Int
      /\ x = MEMORY_SIZE * 0 + x /\ 0 \in Int
  BY MemorySize DEF Addr
<1> QED BY <1>1, DivModUnique

\* One byte of setMemory: it faults exactly if the byte is not writable, and
\* otherwise changes that byte alone, unless there is a residue.
LEMMA SetByteStep ==
  ASSUME HostInv, SetByte
  PROVE  /\ call.op = "setMemory" /\ call.done < call.len
         /\ SetAt \in Addr /\ SetAt = Wrap(call.addr, call.done)
         /\ pages' = pages /\ chunks' = chunks
         /\ faultRes'.isFault <=> ~Accessible("Write", SetAt)
         /\ faultRes'.isFault => \A x \in Addr : ByteAt(x)' = ByteAt(x)
         /\ ~faultRes'.isFault /\ chunks.end = 0 =>
              \A x \in Addr : Has(PageOf(x)) =>
                ByteAt(x)' = IF x = SetAt THEN call.byte ELSE ByteAt(x)
<1> DEFINE a == SetAt
           v == <<call.byte>>
           g == GetChunks("Write", a, 1)
           r == [addr |-> a, len |-> 1, bytes |-> v]
<1>1. /\ call.op = "setMemory" /\ SetAt < SetEnd /\ Store(a, v)
      /\ call.addr \in Addr /\ call.byte \in Byte /\ call.done \in Nat
      /\ a \in Addr /\ call.done < call.len
  BY SetRange DEF SetByte
<1>2. a = Wrap(call.addr, call.done)
  BY <1>1, WrapIdentity DEF Wrap, SetAt
<1>3. Len(v) = 1 /\ v[1] = call.byte /\ v \in Values(1) /\ 1 \in Sizes /\ 1 \in 1 .. PAGE_SIZE
  BY <1>1, HostAssumption, PagesAssumption DEF Values
<1>4. /\ faultRes' = g.fault /\ pages' = pages
      /\ chunks' = IF g.fault.isFault THEN chunks ELSE g.second
      /\ data' = IF g.fault.isFault THEN data ELSE StoredData(g, a, v)
  BY <1>1, <1>3 DEF Store
<1>5. ~(Rel(a) + 1 > PAGE_SIZE)
  BY <1>1, PagesAssumption, AddrInPage DEF Offset
<1>6. r.addr = a /\ r.len = 1 /\ r.bytes = v
  OBVIOUS
<1> HIDE DEF a, v, g, r
<1>7. TypeOK /\ CacheGood(cache, pages)
  BY InvCacheGood DEF HostInv, IInv
<1>8. /\ g.fault.isFault <=> Reach("Write", r) # 1
      /\ g.second = chunks
      /\ ~g.fault.isFault => Reaches("Write", r, 1)
  BY <1>1, <1>3, <1>5, <1>6, <1>7, ChunksReach DEF g
<1>9. Wrap(a, 0) = a
  <2>1. a + 0 = a
    BY <1>1 DEF Addr
  <2> QED BY <1>1, <2>1, WrapIdentity DEF Wrap
<1>10. faultRes'.isFault <=> ~Accessible("Write", a)
  <2>1. ASSUME ~g.fault.isFault PROVE Accessible("Write", a)
    <3>1. 0 \in 0 .. 1 - 1
      OBVIOUS
    <3> QED BY <1>6, <1>8, <1>9, <2>1, <3>1 DEF Reaches
  <2>2. ASSUME Accessible("Write", a) PROVE ~g.fault.isFault
    <3>1. \A i \in 0 .. 1 - 1 : Accessible("Write", Wrap(a, i))
      BY <1>9, <2>2
    <3>2. Reach("Write", r) = 1
      BY <1>6, <3>1, ReachIs
    <3> QED BY <1>8, <3>2
  <2> QED BY <1>4, <2>1, <2>2
<1>11. ASSUME ~faultRes'.isFault, chunks.end = 0, NEW x \in Addr, Has(PageOf(x))
       PROVE  ByteAt(x)' = IF x = a THEN call.byte ELSE ByteAt(x)
  <2>1. Puts(r, 1)
    BY <1>1, <1>3, <1>6, <1>11, StorePuts DEF HostInv
  <2>2. ByteAt(x)' = IF InRange(r, 1, x) THEN v[ByteNo(r, 1, x)] ELSE ByteAt(x)
    BY <1>6, <1>11, <2>1 DEF Puts, ByteNo
  <2>3. InRange(r, 1, x) <=> x = a
    BY <1>6, <1>9 DEF InRange
  <2>4. ByteNo(r, 1, a) = 1
    <3>1. 0 \in 0 .. 1 - 1 /\ 0 + 1 = 1
      OBVIOUS
    <3> QED BY <1>1, <1>3, <1>6, <1>9, <3>1, ByteOfAccess
  <2> QED BY <1>3, <2>2, <2>3, <2>4
<1>12. faultRes'.isFault => \A x \in Addr : ByteAt(x)' = ByteAt(x)
  BY <1>4, BytesStay
<1> QED BY <1>1, <1>2, <1>4, <1>8, <1>10, <1>11, <1>12 DEF a

\* What setMemory has passed is writable and, if there was no residue, holds
\* the byte.
SetInv ==
  call.op = "setMemory" =>
    /\ call.done <= call.len
    /\ \A i \in 0 .. call.done - 1 : Accessible("Write", Wrap(call.addr, i))
    /\ chunks.end = 0 =>
         \A i \in 0 .. call.done - 1 : ByteAt(Wrap(call.addr, i)) = call.byte

LEMMA SetStepKeepsInv == HostInv /\ SetInv /\ [HostNext]_hostVars => SetInv'
<1> SUFFICES ASSUME HostInv, SetInv, [HostNext]_hostVars PROVE SetInv'
  OBVIOUS
<1>1. CASE UNCHANGED hostVars
  BY <1>1 DEF hostVars, vars, SetInv, Accessible, Has, ByteAt
<1>2. ASSUME call'.op # "setMemory" PROVE SetInv'
  BY <1>2 DEF SetInv
<1>3. ASSUME Idle, UNCHANGED call PROVE SetInv'
  BY <1>2, <1>3 DEF Idle, NoCall
<1>4. ASSUME NEW a \in Addr, NEW len \in Ranges, ReadMemory(a, len) PROVE SetInv'
  BY <1>3, <1>4 DEF ReadMemory
<1>5. ASSUME NEW a \in Addr, NEW len \in Ranges, NEW b \in Byte,
             HostWriteMemory(a, len, b) \/ PvmWriteMemory(a, len, b)
      PROVE  SetInv'
  <2>1. (Idle /\ UNCHANGED call) \/ call' = Started("pvmWrite", a, len, b)
    BY <1>5 DEF HostWriteMemory, PvmWriteMemory
  <2>2. Started("pvmWrite", a, len, b).op = "pvmWrite"
    BY DEF Started
  <2> QED BY <1>2, <1>3, <2>1, <2>2
<1>6. ASSUME NEW a \in Addr, NEW len \in Ranges, NEW b \in Byte, SetMemory(a, len, b)
      PROVE  SetInv'
  <2>1. call'.done = 0 /\ call'.len = len /\ 0 <= len
    BY <1>6, ConstantsTyped DEF SetMemory, Started
  <2>2. 0 .. 0 - 1 = {}
    OBVIOUS
  <2> QED BY <2>1, <2>2 DEF SetInv
<1>7. CASE PvmWriteData \/ SetMemoryDone
  <2>1. call' = NoCall
    BY <1>7 DEF PvmWriteData, SetMemoryDone
  <2> QED BY <1>2, <2>1 DEF NoCall
<1>8. CASE SetByte
  <2>1. CASE faultRes'.isFault
    BY <1>2, <1>8, <2>1 DEF SetByte, NoCall
  <2>2. CASE ~faultRes'.isFault
    <3>1. call' = [call EXCEPT !.done = call.done + 1]
      BY <1>8, <2>2 DEF SetByte
    <3>2. PICK A, d, b : A = call.addr /\ d = call.done /\ b = call.byte
      OBVIOUS
    <3>3. /\ call.op = "setMemory" /\ d < call.len
          /\ SetAt \in Addr /\ SetAt = Wrap(A, d)
          /\ pages' = pages /\ chunks' = chunks /\ Accessible("Write", Wrap(A, d))
          /\ chunks.end = 0 => \A x \in Addr : Has(PageOf(x)) =>
               ByteAt(x)' = IF x = Wrap(A, d) THEN b ELSE ByteAt(x)
      BY <1>8, <2>2, <3>2, SetByteStep
    <3>4. A \in Addr /\ d \in Nat /\ call.len \in Nat
      BY <3>2, <3>3, SetRange
    <3>5. call'.addr = A /\ call'.done = d + 1 /\ call'.len = call.len /\ call'.byte = b
      BY <3>1, <3>2 DEF HostInv, CallOK
    <3>6. call'.done <= call'.len
      BY <3>3, <3>4, <3>5
    <3>7. ASSUME NEW i \in 0 .. d
          PROVE  /\ Accessible("Write", Wrap(A, i))
                 /\ chunks.end = 0 => ByteAt(Wrap(A, i))' = b
      <4>1. i \in Nat /\ (i = d \/ i \in 0 .. d - 1)
        BY <3>4
      <4>2. Accessible("Write", Wrap(A, i))
        BY <3>2, <3>3, <4>1 DEF SetInv
      <4>3. ASSUME chunks.end = 0 PROVE ByteAt(Wrap(A, i))' = b
        <5> DEFINE x == Wrap(A, i)
        <5>1. x \in Addr /\ Has(PageOf(x))
          BY <3>4, <4>1, <4>2, PageOfWrap DEF Accessible
        <5>2. x # Wrap(A, d) => ByteAt(x) = b
          BY <3>2, <3>3, <4>1, <4>3 DEF SetInv
        <5> HIDE DEF x
        <5>3. ByteAt(x)' = IF x = Wrap(A, d) THEN b ELSE ByteAt(x)
          BY <3>3, <4>3, <5>1
        <5>4. ByteAt(x)' = b
          BY <5>2, <5>3
        <5> QED BY <5>4 DEF x
      <4> QED BY <4>2, <4>3
    <3>8. \A i \in 0 .. d : Accessible("Write", Wrap(A, i))'
      BY <3>3, <3>7 DEF Accessible, Has
    <3>9. 0 .. call'.done - 1 = 0 .. d
      BY <3>4, <3>5
    <3> QED BY <3>3, <3>5, <3>6, <3>7, <3>8, <3>9 DEF SetInv
  <2> QED BY <2>1, <2>2
<1>9. ASSUME \/ \E a \in Addr, n \in Sizes : ProgramLoads(a, n)
             \/ \E n \in Sizes : \E a \in Addr, v \in Values(n) : ProgramStores(a, v)
             \/ \E amount \in Addr : ProgramGrows(amount)
      PROVE  SetInv'
  BY <1>3, <1>9 DEF ProgramLoads, ProgramStores, ProgramGrows
<1> QED BY <1>1, <1>4, <1>5, <1>6, <1>7, <1>8, <1>9 DEF HostNext

LEMMA SetInvHolds == HostSpec => [](HostInv /\ SetInv)
<1>1. HostInit => SetInv
  BY DEF HostInit, NoCall, SetInv
<1> QED BY <1>1, InitEstablishesHostInv, HostStepKeepsInv, SetStepKeepsInv, PTL DEF HostSpec

LEMMA OnlySetMemory ==
  ASSUME HostNext, call.op = "setMemory"
  PROVE  SetByte \/ SetMemoryDone
<1>1. ~Idle
  BY DEF Idle, NoCall
<1>2. ~PvmWriteData
  BY DEF PvmWriteData
<1> QED BY <1>1, <1>2 DEF HostNext, ReadMemory, HostWriteMemory, PvmWriteMemory, SetMemory,
             ProgramLoads, ProgramStores, ProgramGrows

\* setMemory answers true exactly if its range is writable, as long as the
\* range does not reach the top of the address space, has then written it, and
\* otherwise the bytes before the one that faulted; it never changes another
\* byte, if no access of the program has left a residue.
THEOREM SetMemoryExactTheorem == HostSpec => SetMemoryExact
<1> DEFINE Answers == last'.op = "setMemory" /\ last'.addr + last'.len < MEMORY_SIZE /\ chunks.end = 0 =>
                        LET k == Reach("Write", last')
                        IN /\ last'.ok <=> k = last'.len
                           /\ \A x \in Addr : InRange(last', k, x) => ByteAt(x)' = call.byte
           Keeps == call.op = "setMemory" /\ chunks.end = 0 =>
                      \A x \in Addr : Has(PageOf(x)) /\ ~InRange(call, Reach("Write", call), x) =>
                        ByteAt(x)' = ByteAt(x)
           Exact == Answers /\ Keeps
<1>1. HostInv /\ SetInv /\ [HostNext]_hostVars => [Exact]_hostVars
  <2> SUFFICES ASSUME HostInv, SetInv, HostNext PROVE Exact
    OBVIOUS
  <2>1. Keeps
    <3> SUFFICES ASSUME call.op = "setMemory", chunks.end = 0,
                        NEW x \in Addr, Has(PageOf(x)), ~InRange(call, Reach("Write", call), x)
                 PROVE  ByteAt(x)' = ByteAt(x)
      OBVIOUS
    <3>1. CASE SetMemoryDone
      <4>1. data' = data /\ pages' = pages
        BY <3>1 DEF SetMemoryDone, vars
      <4> QED BY <4>1, BytesStay
    <3>2. CASE SetByte
      <4>1. /\ call.done < call.len /\ SetAt = Wrap(call.addr, call.done)
            /\ faultRes'.isFault <=> ~Accessible("Write", SetAt)
            /\ faultRes'.isFault => ByteAt(x)' = ByteAt(x)
            /\ ~faultRes'.isFault => ByteAt(x)' = IF x = SetAt THEN call.byte ELSE ByteAt(x)
        BY <3>2, SetByteStep
      <4>2. ASSUME ~faultRes'.isFault, x = SetAt PROVE FALSE
        <5> DEFINE k == RangeDone("Write", call.addr, call.len)
        <5>1. /\ call.addr \in Addr /\ call.len \in Nat \ {0} /\ call.done \in Nat
              /\ CacheGood(cache, pages)
          BY SetRange, InvCacheGood DEF HostInv, IInv
        <5>2. Reaches("Write", call, k)
          BY <5>1, RangeReach
        <5> HIDE DEF k
        <5>3. \A i \in 0 .. call.done : Accessible("Write", Wrap(call.addr, i))
          <6>1. \A i \in 0 .. call.done : i = call.done \/ i \in 0 .. call.done - 1
            BY <5>1
          <6> QED BY <4>1, <4>2, <6>1 DEF SetInv
        <5>4. Reach("Write", call) = k /\ k \in 0 .. call.len
              /\ (k < call.len => ~Accessible("Write", Wrap(call.addr, k)))
          BY <5>2 DEF Reaches
        <5>5. call.done < k
          <6> SUFFICES ASSUME k <= call.done PROVE FALSE
            BY <5>1, <5>4
          <6>1. k \in 0 .. call.done /\ k < call.len
            BY <4>1, <5>1, <5>4
          <6> QED BY <5>3, <5>4, <6>1
        <5>6. call.done \in 0 .. Reach("Write", call) - 1
          BY <5>1, <5>4, <5>5
        <5>7. InRange(call, Reach("Write", call), x)
          BY <4>1, <4>2, <5>6 DEF InRange
        <5> QED BY <5>7
      <4> QED BY <4>1, <4>2
    <3> QED BY <3>1, <3>2, OnlySetMemory
  <2>2. Answers
    <3> SUFFICES ASSUME last'.op = "setMemory", last'.addr + last'.len < MEMORY_SIZE, chunks.end = 0
                 PROVE  LET k == Reach("Write", last')
                        IN /\ last'.ok <=> k = last'.len
                           /\ \A x \in Addr : InRange(last', k, x) => ByteAt(x)' = call.byte
      OBVIOUS
    <3>1. call.op = "setMemory" /\ ((SetByte /\ faultRes'.isFault) \/ SetMemoryDone)
      BY Answering DEF SetByte, SetMemoryDone
    <3>2. /\ call.addr \in Addr /\ call.len \in Nat \ {0} /\ call.done \in Nat
          /\ Len(Copies(call.byte, call.len)) = call.len
          /\ call.done <= call.len
          /\ \A i \in 0 .. call.done - 1 : /\ Accessible("Write", Wrap(call.addr, i))
                                           /\ ByteAt(Wrap(call.addr, i)) = call.byte
      BY <3>1, SetRange, CopiesTyped DEF SetInv
    <3>3. last'.addr = call.addr /\ last'.len = call.len
      BY <3>1, <3>2 DEF SetByte, SetMemoryDone, SetAnswer, WriteAnswer
    <3>4. \A x \in Addr : ByteAt(x)' = ByteAt(x)
      <4>1. CASE SetByte /\ faultRes'.isFault
        BY <4>1, SetByteStep
      <4>2. CASE SetMemoryDone
        <5>1. data' = data /\ pages' = pages
          BY <4>2 DEF SetMemoryDone, vars
        <5> QED BY <5>1, BytesStay
      <4> QED BY <3>1, <4>1, <4>2
    <3>5. Reach("Write", last') = call.done /\ (last'.ok <=> call.done = call.len)
      <4>1. CASE SetByte /\ faultRes'.isFault
        <5>1. last'.ok = FALSE
          BY <4>1 DEF SetByte, SetAnswer, WriteAnswer
        <5>2. call.done < call.len /\ ~Accessible("Write", Wrap(call.addr, call.done))
          BY <4>1, SetByteStep
        <5>3. call.done \in 0 .. call.len
          BY <3>2, <5>2
        <5>4. Reach("Write", last') = call.done
          BY <3>2, <3>3, <5>2, <5>3, ReachIs
        <5> QED BY <3>2, <5>1, <5>2, <5>4
      <4>2. CASE SetMemoryDone
        <5>1. last'.ok = TRUE /\ SetAt >= SetEnd
          BY <4>2 DEF SetMemoryDone, SetAnswer, WriteAnswer
        <5>2. call.addr + call.len \in Addr
          <6>1. call.addr + call.len < MEMORY_SIZE
            BY <3>3
          <6>2. call.addr \in 0 .. MEMORY_SIZE - 1
            BY <3>2 DEF Addr
          <6>3. call.addr + call.len \in 0 .. MEMORY_SIZE - 1
            BY <3>2, <6>1, <6>2, MemorySize
          <6> QED BY <6>3 DEF Addr
        <5>3. SetEnd = call.addr + call.len
          BY <5>2, WrapIdentity DEF SetEnd
        <5>4. call.done = call.len
          BY <3>2, <5>1, <5>3 DEF SetAt, Addr
        <5>5. call.done \in 0 .. call.len
          BY <3>2, <5>4
        <5>6. Reach("Write", last') = call.done
          BY <3>2, <3>3, <5>4, <5>5, ReachIs
        <5> QED BY <5>1, <5>4, <5>6
      <4> QED BY <3>1, <4>1, <4>2
    <3>6. ASSUME NEW x \in Addr, InRange(last', call.done, x) PROVE ByteAt(x)' = call.byte
      <4>1. PICK i \in 0 .. call.done - 1 : Wrap(call.addr, i) = x
        BY <3>3, <3>6 DEF InRange
      <4>2. ByteAt(x) = call.byte
        BY <3>2, <4>1
      <4> QED BY <3>4, <3>6, <4>2
    <3> QED BY <3>3, <3>5, <3>6
  <2> QED BY <2>1, <2>2
<1> QED BY <1>1, SetInvHolds, PTL DEF HostSpec, SetMemoryExact

-----------------------------------------------------------------------------
(* The paged memory implements AbstractMemory, step by step.               *)

Accesses == {"Read", "Write"}

-----------------------------------------------------------------------------
(* The terms of AbstractMemory.                                            *)

LEMMA AbstractTerms ==
  /\ Abstract!AllAddr = Addr /\ Abstract!AllPages = PageIdx /\ Abstract!AllBytes = Byte
  /\ \A a, i : Abstract!At(a, i) = Wrap(a, i)
  /\ \A a : Abstract!Home(a) = PageOf(a)
BY DEF Abstract!AllAddr, Abstract!AllPages, Abstract!AllBytes, Abstract!At, Abstract!Home,
       Addr, PageIdx, Byte, Wrap, PageOf, MEMORY_SIZE

LEMMA AbstractRight ==
  ASSUME IInv, NEW p \in PageIdx
  PROVE  /\ Abstract!Right(p) = IF Has(p) THEN pages[p].access ELSE "Unmapped"
         /\ Has(p) <=> Abstract!Right(p) # "Unmapped"
         /\ \A access \in Accesses :
              Abstract!May(p, access) <=> Has(p) /\ Can(pages[p], access)
<1>1. Abstract!Right(p) = IF Has(p) THEN pages[p].access ELSE "Unmapped"
  BY AbstractTerms DEF Abstract!Right, Permissions
<1>2. Has(p) => pages[p].access \in {"None", "Read", "Write"}
  BY DEF IInv, TypeOK, Has, Page, AccessKind
<1> QED BY <1>1, <1>2 DEF Abstract!May, Can, Accesses

LEMMA AbstractByte ==
  ASSUME NEW x \in Addr
  PROVE  Contained[x] = IF Has(PageOf(x)) THEN ByteAt(x) ELSE 0
BY DEF Contained

\* What a range reaches is what AbstractMemory finds good of it.
LEMMA AbstractReach ==
  ASSUME IInv, NEW access \in Accesses, NEW a \in Addr, NEW n \in Nat \ {0},
         NEW r, r.addr = a, r.len = n, NEW k, Reaches(access, r, k)
  PROVE  /\ Abstract!OutcomeOf(access, a, n) = FaultDecided(access, r)
         /\ Abstract!Good(access, a, n) = k
<1> DEFINE p(i) == PageOf(Wrap(a, i))
           B(i) == Abstract!Bad(access, a, n, i)
<1>1. ASSUME NEW i \in Nat
      PROVE  /\ Abstract!Home(Abstract!At(a, i)) = p(i) /\ p(i) \in PageIdx
             /\ Abstract!May(p(i), access) <=> Accessible(access, Wrap(a, i))
  <2>1. p(i) \in PageIdx
    BY PageOfWrap, AddrInPage
  <2> QED BY <2>1, AbstractTerms, AbstractRight DEF Accessible
<1>2. /\ Reach(access, r) = k /\ k \in 0 .. n
      /\ \A i \in 0 .. k - 1 : Accessible(access, Wrap(a, i))
      /\ k < n => ~Accessible(access, Wrap(a, k))
  BY DEF Reaches
<1>3. ASSUME NEW i \in 0 .. n - 1 PROVE B(i) <=> i = k
  <2>1. i \in Nat /\ \A j \in 0 .. i - 1 : j \in Nat
    OBVIOUS
  <2>2. B(i) <=> /\ ~Accessible(access, Wrap(a, i))
                 /\ \A j \in 0 .. i - 1 : Accessible(access, Wrap(a, j))
    BY <1>1, <2>1 DEF Abstract!Bad
  <2>3. CASE i < k
    BY <1>2, <2>2, <2>3
  <2>4. CASE i = k
    BY <1>2, <2>2, <2>4
  <2>5. CASE i > k
    <3>1. k \in 0 .. i - 1 /\ k < n
      BY <1>2, <2>5
    <3> QED BY <1>2, <2>2, <2>5, <3>1
  <2> QED BY <1>2, <2>3, <2>4, <2>5
<1> HIDE DEF B, p
<1>4. CASE k = n
  <2>1. ~\E i \in 0 .. n - 1 : B(i)
    BY <1>3, <1>4
  <2>2. Abstract!Good(access, a, n) = n
    BY <2>1 DEF Abstract!Good, B
  <2>3. Abstract!OutcomeOf(access, a, n) = NoFault
    BY <2>1 DEF Abstract!OutcomeOf, NoFault, B
  <2> QED BY <1>2, <1>4, <2>2, <2>3 DEF FaultDecided
<1>5. CASE k # n
  <2> DEFINE c == CHOOSE i \in 0 .. n - 1 : B(i)
  <2>1. k \in 0 .. n - 1 /\ k \in Nat /\ B(k)
    BY <1>2, <1>3, <1>5
  <2>2. c = k
    BY <1>3, <2>1
  <2>3. Abstract!Good(access, a, n) = c
    BY <2>1 DEF Abstract!Good, B
  <2>4. LET q == Abstract!Home(Abstract!At(a, c))
        IN Abstract!OutcomeOf(access, a, n) =
             [isFault |-> TRUE, isAccess |-> Abstract!Right(q) # "Unmapped", fault |-> q * PAGE_SIZE]
    BY <2>1 DEF Abstract!OutcomeOf, B
  <2> HIDE DEF c
  <2>5. Abstract!OutcomeOf(access, a, n) =
          [isFault |-> TRUE, isAccess |-> Has(p(k)), fault |-> p(k) * PAGE_SIZE]
    <3>1. /\ p(k) \in PageIdx /\ p(k) = Abstract!Home(Abstract!At(a, k))
          /\ (Abstract!Right(p(k)) # "Unmapped") = Has(p(k))
      BY <1>1, <2>1, AbstractRight DEF Has
    <3> QED BY <2>2, <2>4, <3>1
  <2>6. FaultDecided(access, r) = IF Has(p(k)) THEN AccessFault(p(k)) ELSE PageFault(p(k))
    BY <1>2, <1>5 DEF FaultDecided, p
  <2>7. Has(p(k)) \in BOOLEAN
    BY DEF Has
  <2> QED BY <2>2, <2>3, <2>5, <2>6, <2>7 DEF AccessFault, PageFault
<1> QED BY <1>4, <1>5

\* The bytes of what may be read.
LEMMA AbstractRead ==
  ASSUME NEW a \in Addr, NEW k \in Nat,
         \A i \in 0 .. k - 1 : Accessible("Read", Wrap(a, i))
  PROVE  Abstract!Read(a, k) = [i \in 1 .. k |-> ByteAt(Wrap(a, i - 1))]
<1>1. ASSUME NEW i \in 1 .. k
      PROVE  Contained[Abstract!At(a, i - 1)] = ByteAt(Wrap(a, i - 1))
  <2>1. i - 1 \in 0 .. k - 1 /\ i - 1 \in Nat
    OBVIOUS
  <2>2. Wrap(a, i - 1) \in Addr /\ Has(PageOf(Wrap(a, i - 1)))
    BY <2>1, PageOfWrap DEF Accessible
  <2> QED BY <2>2, AbstractTerms, AbstractByte
<1> QED BY <1>1 DEF Abstract!Read

-----------------------------------------------------------------------------
(* Steps that map nothing.                                                 *)

LEMMA AbstractRightsStay ==
  ASSUME pages' = pages
  PROVE  Permissions' = Permissions
BY DEF Permissions, Has

LEMMA AbstractBytesStay ==
  ASSUME pages' = pages, data' = data
  PROVE  Contained' = Contained
BY DEF Contained, Has, ByteAt

\* A write that puts k bytes writes k bytes of the memory of the program.
LEMMA AbstractWritten ==
  ASSUME pages' = pages, NEW a \in Addr, NEW k \in Nat, NEW r, r.addr = a, Puts(r, k),
         \A i \in 0 .. k - 1 : Accessible("Write", Wrap(a, i)),
         NEW v, \A i \in 1 .. k : v[i] = r.bytes[i]
  PROVE  Contained' = Abstract!Written(a, k, v)
<1> DEFINE In(x) == \E i \in 1 .. k : Wrap(a, i - 1) = x
           no(x) == CHOOSE i \in 1 .. k : Wrap(a, i - 1) = x
<1>1. Abstract!Written(a, k, v) = [x \in Addr |-> IF In(x) THEN v[no(x)] ELSE Contained[x]]
  BY AbstractTerms DEF Abstract!Written
<1>2. ASSUME NEW x \in Addr PROVE InRange(r, k, x) <=> In(x)
  <2>1. ASSUME NEW i \in 0 .. k - 1, Wrap(a, i) = x PROVE In(x)
    <3>1. i + 1 \in 1 .. k /\ (i + 1) - 1 = i
      OBVIOUS
    <3> QED BY <2>1, <3>1
  <2>2. ASSUME NEW i \in 1 .. k, Wrap(a, i - 1) = x PROVE InRange(r, k, x)
    <3>1. i - 1 \in 0 .. k - 1
      OBVIOUS
    <3> QED BY <2>2, <3>1 DEF InRange
  <2> QED BY <2>1, <2>2 DEF InRange
<1>3. ASSUME NEW x \in Addr
      PROVE  (IF Has(PageOf(x)) THEN ByteAt(x) ELSE 0)' = IF In(x) THEN v[no(x)] ELSE Contained[x]
  <2>1. Has(PageOf(x))' <=> Has(PageOf(x))
    BY DEF Has
  <2>2. CASE Has(PageOf(x))
    <3>1. ByteAt(x)' = IF In(x) THEN r.bytes[no(x)] ELSE ByteAt(x)
      BY <1>2, <2>2 DEF Puts
    <3>2. In(x) => no(x) \in 1 .. k
      OBVIOUS
    <3> QED BY <2>1, <2>2, <3>1, <3>2, AbstractByte
  <2>3. CASE ~Has(PageOf(x))
    <3>1. ~In(x)
      <4> SUFFICES ASSUME NEW i \in 0 .. k - 1, Wrap(a, i) = x PROVE FALSE
        BY <1>2 DEF InRange
      <4> QED BY <2>3 DEF Accessible
    <3> QED BY <2>1, <2>3, <3>1, AbstractByte
  <2> QED BY <2>2, <2>3
<1> HIDE DEF In, no
<1>4. Contained' = [x \in Addr |-> (IF Has(PageOf(x)) THEN ByteAt(x) ELSE 0)']
  BY DEF Contained
<1> QED BY <1>1, <1>3, <1>4

-----------------------------------------------------------------------------
(* Each call is one of AbstractMemory.                                     *)

LEMMA FaultFlag ==
  ASSUME NEW access, NEW r
  PROVE  FaultDecided(access, r).isFault <=> Reach(access, r) # r.len
BY DEF FaultDecided, NoFault, AccessFault, PageFault

\* How far an access of one or two pages gets.
LEMMA ChunksReaches ==
  ASSUME IInv, NEW access, NEW a \in Addr, NEW n \in Sizes, NEW r, r.addr = a, r.len = n
  PROVE  /\ GetChunks(access, a, n).fault = FaultDecided(access, r)
         /\ GetChunks(access, a, n).fault.isFault <=> Reach(access, r) # n
         /\ \E k \in 0 .. n : Reaches(access, r, k)
<1>1. TypeOK /\ CacheGood(cache, pages) /\ n \in 1 .. PAGE_SIZE /\ n \in Nat \ {0}
  BY InvCacheGood, ConstantsTyped DEF IInv
<1>2. Reaches(access, r, RangeDone(access, a, n))
  BY <1>1, RangeReach
<1>3. RangeDone(access, a, n) \in 0 .. n
  BY <1>2 DEF Reaches
<1> QED BY <1>1, <1>2, <1>3, ChunksReach

LEMMA LoadRefines ==
  ASSUME IInv, NEW a \in Addr, NEW n \in Sizes, Apt(a, n), Load(a, n)
  PROVE  Abstract!ALoad(a, n)
<1> DEFINE r == [addr |-> a, len |-> n]
<1>1. n \in Nat \ {0} /\ r.addr = a /\ r.len = n
  BY ConstantsTyped
<1> HIDE DEF r
<1>2. PICK k \in 0 .. n : Reaches("Read", r, k)
  BY <1>1, ChunksReaches
<1>3. /\ faultRes' = FaultDecided("Read", r) /\ (faultRes'.isFault <=> k # n)
      /\ (faultRes'.isFault => value' = <<>>) /\ UNCHANGED <<pages, data, sbrkAddress, layout, freed>>
  BY <1>1, <1>2, ChunksReaches DEF Load, Reaches
<1>4. faultRes' = Abstract!OutcomeOf("Read", a, n)
  BY <1>1, <1>2, <1>3, AbstractReach DEF Accesses
<1>5. ASSUME ~faultRes'.isFault PROVE value' = Abstract!Read(a, n)
  <2>1. \A i \in 0 .. n - 1 : Accessible("Read", Wrap(a, i))
    BY <1>1, <1>2, <1>3, <1>5 DEF Reaches
  <2>2. value' = [i \in 1 .. n |-> ByteAt(Wrap(a, i - 1))]
    BY <1>5, LoadGets DEF Apt
  <2>3. Abstract!Read(a, n) = [i \in 1 .. n |-> ByteAt(Wrap(a, i - 1))]
    BY <1>1, <2>1, AbstractRead
  <2> QED BY <2>2, <2>3
<1> QED BY <1>3, <1>4, <1>5, AbstractRightsStay, AbstractBytesStay DEF Abstract!ALoad

LEMMA StoreRefines ==
  ASSUME IInv, NEW n \in Sizes, NEW a \in Addr, NEW v \in Values(n), Apt(a, n), Store(a, v)
  PROVE  Abstract!AStore(a, v)
<1> DEFINE r == [addr |-> a, len |-> n, bytes |-> v]
<1>1. n \in Nat \ {0} /\ r.addr = a /\ r.len = n /\ r.bytes = v
  BY ConstantsTyped
<1>2. Len(v) = n
  BY <1>1 DEF Values
<1> HIDE DEF r
<1>3. PICK k \in 0 .. n : Reaches("Write", r, k)
  BY <1>1, ChunksReaches
<1>4. /\ faultRes' = FaultDecided("Write", r) /\ (faultRes'.isFault <=> k # n)
      /\ (faultRes'.isFault => data' = data)
      /\ value' = <<>> /\ UNCHANGED <<pages, sbrkAddress, layout, freed>>
  BY <1>1, <1>2, <1>3, ChunksReaches DEF Store, Reaches
<1>5. faultRes' = Abstract!OutcomeOf("Write", a, n)
  BY <1>1, <1>3, <1>4, AbstractReach DEF Accesses
<1>6. ASSUME ~faultRes'.isFault PROVE Contained' = Abstract!Written(a, n, v)
  <2>1. \A i \in 0 .. n - 1 : Accessible("Write", Wrap(a, i))
    BY <1>1, <1>3, <1>4, <1>6 DEF Reaches
  <2>2. Puts(r, n)
    BY <1>1, <1>6, StorePuts DEF Apt
  <2> QED BY <1>1, <1>4, <2>1, <2>2, AbstractWritten
<1> QED BY <1>2, <1>4, <1>5, <1>6, AbstractRightsStay, AbstractBytesStay DEF Abstract!AStore

LEMMA ReadRangeRefines ==
  ASSUME IInv, NEW a \in Addr, NEW len \in 1 .. MaxRange, BytesRead(a, len)
  PROVE  Abstract!AReadRange(a, len)
<1> DEFINE r == [addr |-> a, len |-> len]
           k == RangeDone("Read", a, len)
<1>1. len \in Nat \ {0} /\ len \in Ranges /\ r.addr = a /\ r.len = len
  BY SizesAssumption DEF Ranges
<1> HIDE DEF r, k
<1>2. faultRes' = FaultDecided("Read", r) /\ Reaches("Read", r, k)
  BY <1>1, ReadFault DEF k
<1>3. k \in Nat /\ \A i \in 0 .. k - 1 : Accessible("Read", Wrap(a, i))
  BY <1>1, <1>2 DEF Reaches
<1>4. /\ faultRes' = Abstract!OutcomeOf("Read", a, len)
      /\ Abstract!Good("Read", a, len) = k
  BY <1>1, <1>2, AbstractReach DEF Accesses
<1>5. value' = [i \in 1 .. k |-> ByteAt(Wrap(a, i - 1))]
  <2>1. value' = [i \in 1 .. k |->
                    data[Lookup(cache, PageOf((a + i - 1) % MEMORY_SIZE)).raw]
                        [Rel((a + i - 1) % MEMORY_SIZE)]]
    BY DEF BytesRead, k
  <2>2. ASSUME NEW i \in 1 .. k
        PROVE  data[Lookup(cache, PageOf((a + i - 1) % MEMORY_SIZE)).raw]
                   [Rel((a + i - 1) % MEMORY_SIZE)] = ByteAt(Wrap(a, i - 1))
    <3>1. i - 1 \in Nat /\ a + i - 1 = a + (i - 1)
      BY <1>3, MemorySize DEF Addr
    <3>2. (a + i - 1) % MEMORY_SIZE = Wrap(a, i - 1) /\ Wrap(a, i - 1) \in Addr
      BY <3>1, PageOfWrap DEF Wrap
    <3>3. CacheGood(cache, pages) /\ PageOf(Wrap(a, i - 1)) \in PageIdx
      BY <3>2, InvCacheGood, AddrInPage DEF IInv
    <3> QED BY <3>2, <3>3, LookupGood DEF ByteAt
  <2> QED BY <2>1, <2>2
<1>6. UNCHANGED <<pages, data, sbrkAddress, layout, freed>>
  BY DEF BytesRead
<1> QED BY <1>3, <1>4, <1>5, <1>6, AbstractRead, AbstractRightsStay, AbstractBytesStay
        DEF Abstract!AReadRange

LEMMA WriteRangeRefines ==
  ASSUME IInv, NEW a \in Addr, NEW len \in 1 .. MaxRange, NEW b \in Byte, BytesWrite(a, len, b)
  PROVE  Abstract!AWriteRange(a, len, b)
<1> DEFINE r == [addr |-> a, len |-> len, bytes |-> Copies(b, len)]
           k == RangeDone("Write", a, len)
           v == [i \in 1 .. k |-> b]
<1>1. len \in Nat \ {0} /\ len \in Ranges /\ r.addr = a /\ r.len = len /\ r.bytes = Copies(b, len)
  BY SizesAssumption DEF Ranges
<1> HIDE DEF r, k
<1>2. faultRes' = FaultDecided("Write", r) /\ Reaches("Write", r, k)
  BY <1>1, WriteFault DEF k
<1>3. /\ k \in Nat /\ k <= len /\ Reach("Write", r) = k
      /\ \A i \in 0 .. k - 1 : Accessible("Write", Wrap(a, i))
  BY <1>1, <1>2 DEF Reaches
<1>4. /\ faultRes' = Abstract!OutcomeOf("Write", a, len)
      /\ Abstract!Good("Write", a, len) = k
  BY <1>1, <1>2, AbstractReach DEF Accesses
<1>5. value' = <<>> /\ UNCHANGED <<pages, sbrkAddress, layout, freed>>
  BY DEF BytesWrite
<1>6. Contained' = Abstract!Written(a, k, v)
  <2>1. Puts(r, k)
    BY <1>1, <1>3, RangePuts
  <2>2. \A i \in 1 .. k : v[i] = r.bytes[i]
    BY <1>1, <1>3 DEF Copies
  <2> QED BY <1>1, <1>3, <1>5, <2>1, <2>2, AbstractWritten
<1> QED BY <1>4, <1>5, <1>6, AbstractRightsStay DEF Abstract!AWriteRange

\* A mapped page is the read of its bytes.
LEMMA PageBytes ==
  ASSUME IInv, NEW p \in PageIdx, Has(p)
  PROVE  Contents(pages[p].raw) = Abstract!Read(p * PAGE_SIZE, PAGE_SIZE)
<1> DEFINE a == p * PAGE_SIZE
<1>1. /\ PAGE_SIZE \in Nat \ {0} /\ PAGE_SIZE \in 1 .. PAGE_SIZE /\ p \in Int /\ p \in Nat
      /\ NUM_PAGES \in Nat
  BY PagesAssumption, PageIdxInt DEF PageIdx
<1>2. a \in Addr
  <2>1. PAGE_SIZE * p <= PAGE_SIZE * (NUM_PAGES - 1)
    BY <1>1, TimesMonotone DEF PageIdx
  <2>2. a \in Nat /\ a = PAGE_SIZE * p
        /\ PAGE_SIZE * (NUM_PAGES - 1) = NUM_PAGES * PAGE_SIZE - PAGE_SIZE
    BY <1>1
  <2> HIDE DEF a
  <2> QED BY <1>1, <2>1, <2>2 DEF Addr, MEMORY_SIZE
<1>3. PageOf(a) = p /\ Rel(a) = 0
  <2>1. a \in Int /\ a = PAGE_SIZE * p + 0 /\ 0 \in 0 .. PAGE_SIZE - 1
    BY <1>1
  <2> HIDE DEF a
  <2> QED BY <1>1, <2>1, DivModUnique DEF PageOf, Rel
<1> HIDE DEF a
<1>4. ASSUME NEW i \in 0 .. PAGE_SIZE - 1
      PROVE  /\ PageOf(Wrap(a, i)) = p /\ Rel(Wrap(a, i)) = i
             /\ Wrap(a, i) \in Addr /\ Has(PageOf(Wrap(a, i)))
             /\ ByteAt(Wrap(a, i)) = data[pages[p].raw][i]
  <2>1. Rel(a) + i < PAGE_SIZE /\ Rel(a) + i = i
    BY <1>1, <1>3
  <2>2. PageOf(Wrap(a, i)) = p /\ Rel(Wrap(a, i)) = i /\ Wrap(a, i) \in Addr
    BY <1>1, <1>2, <1>3, <2>1, BytePlaces
  <2> QED BY <2>2 DEF ByteAt
<1>5. ASSUME NEW i \in 1 .. PAGE_SIZE
      PROVE  Contained[Abstract!At(a, i - 1)] = data[pages[p].raw][i - 1]
  <2>1. i - 1 \in 0 .. PAGE_SIZE - 1
    BY <1>1
  <2> QED BY <1>4, <2>1, AbstractTerms, AbstractByte
<1>6. pages[p].raw # EMPTY_RAW
  <2>1. pages[p].raw \in Nat
    BY MappedIssued, SizesAssumption, PagesAssumption DEF RawId
  <2> QED BY <2>1 DEF EMPTY_RAW
<1>7. Abstract!Read(a, PAGE_SIZE) = [i \in 1 .. PAGE_SIZE |-> data[pages[p].raw][i - 1]]
  BY <1>5 DEF Abstract!Read
<1> QED BY <1>6, <1>7 DEF Contents, a

LEMMA ViewRefines ==
  ASSUME IInv, NEW i \in Addr, NEW mustRead \in BOOLEAN, ViewPage(i, mustRead)
  PROVE  Abstract!AView(i, mustRead)
<1>1. /\ value' = View(i, mustRead) /\ faultRes' = NoFault
      /\ UNCHANGED <<pages, data, sbrkAddress, layout, freed>>
  BY DEF ViewPage
<1>2. CacheGood(cache, pages)
  BY InvCacheGood DEF IInv
<1>3. CASE i \in PageIdx
  <2>1. Lookup(cache, i) = pages[i] /\ (cache[Slot(i)].tag = i => Has(i))
    <3>1. /\ Lookup(cache, i) = pages[i]
          /\ FaultOf(cache, i, "Read") =
               IF ~Has(i) THEN PageFault(i)
               ELSE IF ~Can(pages[i], "Read") THEN AccessFault(i) ELSE NoFault
      BY <1>2, <1>3, LookupGood
    <3>2. FaultOf(cache, i, "Read") = PageFault(i) => cache[Slot(i)].tag # i
      BY DEF FaultOf, PageFault, AccessFault, NoFault
    <3> QED BY <3>1, <3>2
  <2>2. View(i, mustRead) = IF ~Has(i) \/ (mustRead /\ ~Can(pages[i], "Read"))
                            THEN <<-1>> ELSE Contents(pages[i].raw)
    BY <2>1 DEF View, Lookup, NO_VIEW
  <2>3. /\ Has(i) <=> Abstract!Right(i) # "Unmapped"
        /\ Has(i) => (Abstract!May(i, "Read") <=> Can(pages[i], "Read"))
    BY <1>3, AbstractRight DEF Accesses
  <2>4. value' \in IF Abstract!Right(i) = "Unmapped" \/ (mustRead /\ ~Abstract!May(i, "Read"))
                   THEN {<<-1>>} ELSE {Abstract!Read(i * PAGE_SIZE, PAGE_SIZE)}
    BY <1>1, <1>3, <2>2, <2>3, PageBytes
  <2> QED BY <1>1, <1>3, <2>4, AbstractTerms, AbstractRightsStay, AbstractBytesStay
          DEF Abstract!AView, NoFault
<1>4. CASE i \notin PageIdx
  <2>1. ~Has(i) /\ Abstract!Right(i) = "Unmapped" /\ i \notin Abstract!AllPages
    BY <1>4, AbstractTerms DEF Has, Abstract!Right
  <2>2. cache[Slot(i)].tag = i => cache[Slot(i)].page = EMPTY_PAGE
    <3>1. Slot(i) \in Slots
      BY SlotInCache, MemorySize DEF Addr
    <3> QED BY <1>2, <1>4, <3>1 DEF CacheGood, EMPTY_SLOT
  <2>3. ~Can(EMPTY_PAGE, "Read") /\ Contents(EMPTY_PAGE.raw) = <<>>
    BY DEF Can, EMPTY_PAGE, Contents
  <2>4. View(i, mustRead) \in {<<-1>>} \cup (IF mustRead THEN {} ELSE {<<>>})
    BY <2>1, <2>2, <2>3 DEF View, NO_VIEW
  <2> QED BY <1>1, <2>1, <2>4, AbstractRightsStay, AbstractBytesStay DEF Abstract!AView, NoFault
<1> QED BY <1>3, <1>4

LEMMA FreeRefines ==
  ASSUME IInv, Free
  PROVE  Abstract!AFree
<1>1. /\ pages' = [p \in PageIdx |-> EMPTY_PAGE] /\ freed' = TRUE
      /\ faultRes' = NoFault /\ value' = <<>> /\ UNCHANGED <<sbrkAddress, layout>>
  BY DEF Free
<1>2. \A p \in PageIdx : ~Has(p)'
  BY <1>1 DEF Has
<1>3. Permissions' = [p \in PageIdx |-> "Unmapped"]
  BY <1>2 DEF Permissions
<1>4. Contained' = [x \in Addr |-> 0]
  BY <1>2, AddrInPage DEF Contained
<1> QED BY <1>1, <1>3, <1>4, AbstractTerms DEF Abstract!AFree, NoFault

\* sbrk, grown or refused, as far as the map does not matter.
LEMMA SbrkOutcome ==
  ASSUME IInv, NEW amount \in Addr, Sbrk(amount)
  PROVE  LET refused == amount > 0 /\ sbrkAddress + amount > layout.maxHeap
             grown == amount > 0 /\ ~refused
         IN /\ faultRes' = [isFault |-> refused, isAccess |-> FALSE, fault |-> 0]
            /\ value' = <<sbrkAddress>>
            /\ sbrkAddress' = IF grown THEN sbrkAddress + amount ELSE sbrkAddress
            /\ UNCHANGED <<layout, data, freed>>
            /\ ~grown => pages' = pages
            /\ grown => sbrkAddress' # sbrkAddress
<1> DEFINE refused == amount > 0 /\ sbrkAddress + amount > layout.maxHeap
           grown == amount > 0 /\ ~refused
           exhausted == amount # 0 /\ (sbrkAddress + amount) > layout.maxHeap
           moves == amount # 0 /\ ~exhausted
<1>1. /\ faultRes' = IF exhausted THEN SbrkFault ELSE NoFault
      /\ value' = <<sbrkAddress>>
      /\ sbrkAddress' = IF moves THEN sbrkAddress + amount ELSE sbrkAddress
      /\ UNCHANGED <<layout, data, freed>>
      /\ ~moves => pages' = pages
  BY DEF Sbrk
<1>2. amount \in Nat /\ sbrkAddress \in Nat
  BY MemorySize DEF IInv, TypeOK, Addr
<1>3. (exhausted <=> refused) /\ (moves <=> grown)
  BY <1>2
<1>4. faultRes' = [isFault |-> refused, isAccess |-> FALSE, fault |-> 0]
  BY <1>1, <1>3 DEF SbrkFault, NoFault
<1>5. grown => sbrkAddress + amount # sbrkAddress
  BY <1>2
<1> HIDE DEF exhausted, moves
<1> QED BY <1>1, <1>3, <1>4, <1>5

\* A call of sbrk that moves the pointer: what it maps lies on the pages
\* between the old pointer and the last byte it grants.
LEMMA SbrkGrows ==
  ASSUME IInv, NEW amount \in Addr, Sbrk(amount), sbrkAddress' # sbrkAddress,
         NEW p \in PageIdx
  PROVE  LET top == PageOf((sbrkAddress + amount) - 1)
             fresh == lastAllocatedPage + 1 .. top
         IN /\ p \in fresh => p \in PageOf(sbrkAddress) .. top /\ Has(p)' /\ pages'[p].access = "Write"
            /\ p \notin fresh => pages'[p] = pages[p]
            /\ p <= top => p * PAGE_SIZE < layout.maxHeap
            /\ sbrkAddress' = sbrkAddress + amount /\ sbrkAddress' <= layout.maxHeap
            /\ top \in Int /\ PageOf(sbrkAddress) \in Int /\ lastAllocatedPage \in Int /\ p \in Int
            /\ PageOf(sbrkAddress) \in {lastAllocatedPage, lastAllocatedPage + 1}
<1> DEFINE top == PageOf((sbrkAddress + amount) - 1)
<1>1. sbrkAddress' = sbrkAddress + amount
  BY SbrkOutcome
<1>2. /\ lastAllocatedPage' = top /\ top \in PageIdx /\ lastAllocatedPage \in PageIdx
      /\ sbrkAddress' - 1 \in Addr /\ sbrkAddress' <= layout.maxHeap
      /\ p \in lastAllocatedPage + 1 .. top => pages'[p].access = "Write"
      /\ p \notin lastAllocatedPage + 1 .. top => pages'[p] = pages[p]
  BY <1>1, SbrkMoves
<1>3. PageOf(sbrkAddress) \in PageIdx
  BY AddrInPage DEF IInv, TypeOK
<1>4. top = PageOf(sbrkAddress' - 1)
  BY <1>1
<1> HIDE DEF top
<1>5. top \in Int /\ PageOf(sbrkAddress) \in Int /\ lastAllocatedPage \in Int /\ p \in Int
  BY <1>2, <1>3, PageIdxInt
<1>6. PageOf(sbrkAddress) \in {lastAllocatedPage, lastAllocatedPage + 1}
  BY <1>5 DEF IInv, HeapPointer
<1>7. p <= top => p * PAGE_SIZE < layout.maxHeap
  <2> SUFFICES ASSUME p <= top PROVE p * PAGE_SIZE < layout.maxHeap
    OBVIOUS
  <2>1. p * PAGE_SIZE <= sbrkAddress' - 1
    BY <1>2, <1>4, <1>5, PageStart
  <2>2. /\ p * PAGE_SIZE \in Int /\ sbrkAddress' - 1 \in Addr /\ layout.maxHeap \in Int
        /\ sbrkAddress' \in Int
    BY <1>1, <1>2, <1>5, PagesAssumption, HeapPages, MemorySize DEF IInv, TypeOK, Addr
  <2> QED BY <1>2, <2>1, <2>2, MemorySize DEF Addr
<1>8. p \in lastAllocatedPage + 1 .. top => Has(p)'
  BY <1>2 DEF Has, EMPTY_PAGE
<1> QED BY <1>1, <1>2, <1>5, <1>6, <1>7, <1>8 DEF top

\* Until the memory is freed and in a clear heap, the pages that sbrk maps are
\* the missing ones on its way.
LEMMA SbrkRefines ==
  ASSUME IInv, HeapInv, HeapClear(layout), NEW amount \in Addr, Sbrk(amount), ~freed
  PROVE  Abstract!ASbrk(amount)
<1> DEFINE refused == amount > 0 /\ sbrkAddress + amount > layout.maxHeap
           grown == amount > 0 /\ ~refused
           top == PageOf((sbrkAddress + amount) - 1)
           New(p) == grown /\ Abstract!Right(p) = "Unmapped" /\ p \in PageOf(sbrkAddress) .. top
<1>1. /\ faultRes' = [isFault |-> refused, isAccess |-> FALSE, fault |-> 0]
      /\ value' = <<sbrkAddress>>
      /\ sbrkAddress' = IF grown THEN sbrkAddress + amount ELSE sbrkAddress
      /\ UNCHANGED <<layout, data, freed>>
      /\ ~grown => pages' = pages
      /\ grown => sbrkAddress' # sbrkAddress
  BY SbrkOutcome
<1>2. ASSUME NEW p \in PageIdx
      PROVE  /\ New(p) => ~Has(p) /\ Has(p)' /\ pages'[p].access = "Write"
             /\ ~New(p) => pages'[p] = pages[p]
             /\ pages'[p] # pages[p] => \A o \in Offset : data'[pages'[p].raw][o] = 0
  <2>1. CASE ~grown
    BY <1>1, <2>1
  <2>2. CASE grown
    <3> DEFINE high == lastAllocatedPage
               fresh == high + 1 .. top
    <3>1. /\ p \in fresh => p \in PageOf(sbrkAddress) .. top /\ Has(p)' /\ pages'[p].access = "Write"
          /\ p \notin fresh => pages'[p] = pages[p]
          /\ p <= top => p * PAGE_SIZE < layout.maxHeap
          /\ top \in Int /\ PageOf(sbrkAddress) \in Int /\ high \in Int /\ p \in Int
          /\ PageOf(sbrkAddress) \in {high, high + 1}
      BY <1>1, <2>2, SbrkGrows
    <3> HIDE DEF top
    <3>2. p * PAGE_SIZE \in Int /\ layout.maxHeap \in Int
      BY <3>1, PagesAssumption, HeapPages, MemorySize DEF Addr
    <3>3. ASSUME p \in fresh PROVE ~Has(p)
      <4>1. p > high /\ p <= top
        BY <3>1, <3>3
      <4> QED BY <3>1, <3>2, <4>1 DEF HeapInv, Mapped
    <3>4. ASSUME ~Has(p), p \in PageOf(sbrkAddress) .. top PROVE p \in fresh
      <4> SUFFICES ASSUME p = high, PageOf(sbrkAddress) = high PROVE FALSE
        BY <3>1, <3>4
      <4>1. p \in PageOf(layout.sbrk) .. high
        <5>1. PageOf(layout.sbrk) <= high /\ PageOf(layout.sbrk) \in Int
          BY HeapPages, LayoutFacts, AddrInPage, PageIdxInt DEF IInv, TypeOK
        <5> QED BY <3>1, <5>1
      <4>2. p * PAGE_SIZE < layout.maxHeap
        BY <3>1, <3>4
      <4>3. pages[p].access = "Write"
        BY <4>1, <4>2 DEF HeapInv
      <4> QED BY <3>4, <4>3 DEF Has, EMPTY_PAGE
    <3>5. New(p) <=> p \in fresh
      BY <2>2, <3>1, <3>3, <3>4, AbstractRight
    <3>6. pages'[p] # pages[p] => \A o \in Offset : data'[pages'[p].raw][o] = 0
      BY SbrkMapsClean
    <3> QED BY <3>1, <3>3, <3>5, <3>6
  <2> QED BY <2>1, <2>2
<1> HIDE DEF New
<1>3. Permissions' = [p \in PageIdx |-> IF New(p) THEN "Write" ELSE Permissions[p]]
  <2>1. Permissions' = [p \in PageIdx |-> IF Has(p)' THEN pages'[p].access ELSE "Unmapped"]
    BY DEF Permissions
  <2>2. ASSUME NEW p \in PageIdx
        PROVE  (IF Has(p)' THEN pages'[p].access ELSE "Unmapped")
                 = IF New(p) THEN "Write" ELSE Permissions[p]
    BY <1>2 DEF Permissions, Has
  <2> QED BY <2>1, <2>2
<1>4. Contained' = Contained
  <2>1. ASSUME NEW x \in Addr
        PROVE  (IF Has(PageOf(x)) THEN ByteAt(x) ELSE 0)' = Contained[x]
    <3>1. PageOf(x) \in PageIdx /\ Rel(x) \in Offset
      BY AddrInPage
    <3>2. CASE New(PageOf(x))
      <4>1. ~Has(PageOf(x)) /\ pages'[PageOf(x)] # pages[PageOf(x)]
        BY <1>2, <3>1, <3>2 DEF Has
      <4>2. data'[pages'[PageOf(x)].raw][Rel(x)] = 0
        BY <1>2, <3>1, <4>1
      <4> QED BY <4>1, <4>2 DEF Contained, ByteAt
    <3>3. CASE ~New(PageOf(x))
      BY <1>1, <1>2, <3>1, <3>3 DEF Contained, ByteAt, Has
    <3> QED BY <3>2, <3>3
  <2>2. Contained' = [x \in Addr |-> (IF Has(PageOf(x)) THEN ByteAt(x) ELSE 0)']
    BY DEF Contained
  <2>3. Contained = [x \in Addr |-> Contained[x]]
    BY DEF Contained
  <2> QED BY <2>1, <2>2, <2>3
<1>5. top = PageOf(sbrkAddress + (amount - 1)) /\ top = PageOf(sbrkAddress + amount - 1)
  <2>1. sbrkAddress \in Int /\ amount \in Int
    BY MemorySize DEF IInv, TypeOK, Addr
  <2> QED BY <2>1
<1>6. \A p \in PageIdx : New(p) <=>
        /\ grown /\ Abstract!Right(p) = "Unmapped"
        /\ p \in Abstract!Home(sbrkAddress) .. Abstract!Home(sbrkAddress + amount - 1)
  BY <1>5, AbstractTerms DEF New
<1> HIDE DEF top
<1> QED BY <1>1, <1>3, <1>4, <1>6, AbstractTerms DEF Abstract!ASbrk

\* A freed memory: the pages sbrk maps are still on its way.
LEMMA SbrkFreedRefines ==
  ASSUME IInv, NEW amount \in Addr, Sbrk(amount), freed
  PROVE  Abstract!ASbrkFreed(amount)
<1> DEFINE refused == amount > 0 /\ sbrkAddress + amount > layout.maxHeap
           grown == amount > 0 /\ ~refused
           top == PageOf((sbrkAddress + amount) - 1)
           Near(p) == grown /\ p \in PageOf(sbrkAddress) .. top
<1>1. /\ faultRes' = [isFault |-> refused, isAccess |-> FALSE, fault |-> 0]
      /\ value' = <<sbrkAddress>>
      /\ sbrkAddress' = IF grown THEN sbrkAddress + amount ELSE sbrkAddress
      /\ UNCHANGED <<layout, data, freed>>
      /\ ~grown => pages' = pages
      /\ grown => sbrkAddress' # sbrkAddress
  BY SbrkOutcome
<1>2. ASSUME NEW p \in PageIdx
      PROVE  /\ ~Near(p) => pages'[p] = pages[p]
             /\ pages'[p] # pages[p] => Has(p)' /\ pages'[p].access = "Write"
  <2>1. CASE ~grown
    BY <1>1, <2>1
  <2>2. CASE grown
    BY <1>1, <2>2, SbrkGrows
  <2> QED BY <2>1, <2>2
<1> HIDE DEF Near
<1>3. ASSUME NEW p \in PageIdx
      PROVE  Permissions'[p] \in IF Near(p) THEN {Permissions[p], "Write"} ELSE {Permissions[p]}
  BY <1>2 DEF Permissions, Has
<1>4. ASSUME NEW x \in Addr, ~Near(PageOf(x)) PROVE Contained'[x] = Contained[x]
  BY <1>1, <1>2, <1>4, AddrInPage DEF Contained, ByteAt, Has
<1>5. top = PageOf(sbrkAddress + amount - 1)
  <2>1. sbrkAddress \in Int /\ amount \in Int
    BY MemorySize DEF IInv, TypeOK, Addr
  <2> QED BY <2>1
<1>6. \A p : Near(p) <=>
        /\ grown
        /\ p \in Abstract!Home(sbrkAddress) .. Abstract!Home(sbrkAddress + amount - 1)
  BY <1>5, AbstractTerms DEF Near
<1> HIDE DEF top
<1> QED BY <1>1, <1>3, <1>4, <1>6, AbstractTerms DEF Abstract!ASbrkFreed

-----------------------------------------------------------------------------
(* The refinement.                                                         *)

LEMMA InitRefines == Init => Abstract!AInit
BY DEF Init, Abstract!AInit, NoFault

LEMMA StepRefines ==
  IInv /\ HeapInv /\ HeapClear(layout) /\ [Next]_vars
    => [Abstract!ANext \/ AccessOnResidue]_(Abstract!avars)
<1> SUFFICES ASSUME IInv, HeapInv, HeapClear(layout), [Next]_vars
             PROVE  Abstract!ANext \/ AccessOnResidue \/ UNCHANGED Abstract!avars
  OBVIOUS
<1>1. CASE UNCHANGED vars
  BY <1>1, AbstractRightsStay, AbstractBytesStay DEF vars, Abstract!avars
<1>2. ASSUME NEW a \in Addr, NEW n \in Sizes, Load(a, n)
      PROVE  Abstract!ANext \/ AccessOnResidue
  <2>1. CASE Apt(a, n)
    BY <1>2, <2>1, LoadRefines, AbstractTerms DEF Abstract!ANext
  <2>2. CASE ~Apt(a, n)
    BY <1>2, <2>2 DEF AccessOnResidue
  <2> QED BY <2>1, <2>2
<1>3. ASSUME NEW n \in Sizes, NEW a \in Addr, NEW v \in Values(n), Store(a, v)
      PROVE  Abstract!ANext \/ AccessOnResidue
  <2>1. CASE Apt(a, n)
    BY <1>3, <2>1, StoreRefines, AbstractTerms DEF Abstract!ANext, Values
  <2>2. CASE ~Apt(a, n)
    BY <1>3, <2>2 DEF AccessOnResidue
  <2> QED BY <2>1, <2>2
<1>4. ASSUME NEW a \in Addr, NEW len \in 1 .. MaxRange, BytesRead(a, len) PROVE Abstract!ANext
  BY <1>4, ReadRangeRefines, AbstractTerms DEF Abstract!ANext
<1>5. ASSUME NEW a \in Addr, NEW len \in 1 .. MaxRange, NEW b \in Byte, BytesWrite(a, len, b)
      PROVE  Abstract!ANext
  BY <1>5, WriteRangeRefines, AbstractTerms DEF Abstract!ANext
<1>6. ASSUME NEW i \in Addr, NEW mustRead \in BOOLEAN, ViewPage(i, mustRead) PROVE Abstract!ANext
  BY <1>6, ViewRefines, AbstractTerms DEF Abstract!ANext
<1>7. ASSUME NEW amount \in Addr, Sbrk(amount) PROVE Abstract!ANext
  BY <1>7, SbrkRefines, SbrkFreedRefines, AbstractTerms DEF Abstract!ANext
<1>8. CASE Free
  BY <1>8, FreeRefines DEF Abstract!ANext
<1> QED BY <1>1, <1>2, <1>3, <1>4, <1>5, <1>6, <1>7, <1>8 DEF Next

LEMMA LayoutStays == [Next]_vars => layout' = layout
BY DEF Next, vars, Load, Store, BytesRead, BytesWrite, ViewPage, Sbrk, Free

\* Whether the heap is clear is settled by the layout, and IInv and HeapInv
\* hold along every behaviour in which it is.
LEMMA ClearHeapStep ==
  /\ Init => IInv /\ (HeapClear(layout) => HeapInv)
  /\ IInv /\ (HeapClear(layout) => HeapInv) /\ [Next]_vars
       => (IInv /\ (HeapClear(layout) => HeapInv))'
<1>1. Init => IInv /\ (HeapClear(layout) => HeapInv)
  BY InitEstablishesInv, InitHeapInv
<1>2. [Next]_vars => (HeapClear(layout)' <=> HeapClear(layout))
  BY LayoutStays DEF HeapClear
<1> QED BY <1>1, <1>2, StepKeepsInv, StepKeepsHeapInv

\* The memory implements what its program is promised, if its heap is clear, in
\* every call but a one-page access that finds bytes of an earlier access in
\* the scratch.
THEOREM AbstractTheorem == Spec => ImplementsAbstract
<1>1. Init => Abstract!AInit
  BY InitRefines
<1>2. IInv /\ (HeapClear(layout) => HeapInv) /\ [Next]_vars
        => [HeapClear(layout) => Abstract!ANext \/ AccessOnResidue]_(Abstract!avars)
  BY StepRefines
<1> QED BY <1>1, <1>2, ClearHeapStep, PTL DEF Spec, ImplementsAbstract

\* In particular, it is the abstract memory and nothing else until the first
\* access that lies in two pages.
THEOREM OnePageTheorem ==
  Spec /\ [](chunks.end = 0) /\ HeapClear(layout) => Abstract!ASpec
<1>1. Init /\ HeapClear(layout) => IInv /\ HeapInv /\ HeapClear(layout) /\ Abstract!AInit
  BY InitEstablishesInv, InitHeapInv, InitRefines
<1>2. IInv /\ HeapInv /\ HeapClear(layout) /\ [Next]_vars
        => (IInv /\ HeapInv /\ HeapClear(layout))'
  BY StepKeepsInv, StepKeepsHeapInv, LayoutStays DEF HeapClear
<1>3. chunks.end = 0 => ~AccessOnResidue
  BY DEF AccessOnResidue, Apt
<1>4. IInv /\ HeapInv /\ HeapClear(layout) /\ [Next]_vars /\ chunks.end = 0
        => [Abstract!ANext]_(Abstract!avars)
  BY <1>3, StepRefines
<1> QED BY <1>1, <1>2, <1>4, PTL DEF Spec, Abstract!ASpec
=============================================================================
