------------------------- MODULE PageMemoryProofs -------------------------
(***************************************************************************)
(* Proofs about PageMemory for every page size, number of pages, cache     *)
(* size, arena and set of layouts.                                         *)
(***************************************************************************)
EXTENDS PageMemory, NumberProofs, FiniteSetTheorems, SequenceTheorems

\* An address lies in a page, at an offset of it.
LEMMA AddrInPage ==
  ASSUME NEW a \in Addr
  PROVE  PageOf(a) \in PageIdx /\ Rel(a) \in Offset
BY DivModRange, PagesAssumption DEF Addr, MEMORY_SIZE, PageOf, Rel, PageIdx, Offset

LEMMA PageMonotone == \A a, c \in Int : a <= c => PageOf(a) <= PageOf(c)
BY DivMonotone, PagesAssumption DEF PageOf

-----------------------------------------------------------------------------
(* Arithmetic of addresses.                                                *)

\* Every index has a slot, and wrapping an address gives an address.
LEMMA SlotInCache == \A i \in Int : Slot(i) \in Slots
BY SizesAssumption, PagesAssumption, DivMod DEF Slot, Slots

LEMMA MemorySize == MEMORY_SIZE \in Nat \ {0} /\ NUM_PAGES < MEMORY_SIZE
<1>1. PAGE_SIZE \in Nat /\ NUM_PAGES \in Nat \ {0} /\ 2 <= PAGE_SIZE
  BY SizesAssumption, PagesAssumption
<1>2. NUM_PAGES * 2 <= NUM_PAGES * PAGE_SIZE
  BY <1>1, TimesMonotone
<1> QED BY <1>1, <1>2 DEF MEMORY_SIZE

LEMMA WrapIsAddr == \A i \in Int : i % MEMORY_SIZE \in Addr
BY MemorySize, DivMod DEF Addr

LEMMA PageIdxInt == PageIdx \subseteq Int /\ PageIdx \subseteq Addr /\ EMPTY_TAG \notin PageIdx
BY MemorySize, SizesAssumption, PagesAssumption DEF PageIdx, Addr, EMPTY_TAG

LEMMA RangePageIsPage ==
  ASSUME NEW a \in Addr, NEW k \in Int
  PROVE  RangePage(a, k) \in PageIdx
<1>1. PageOf(a) + k \in Int
  <2>1. PageOf(a) \in Int
    BY AddrInPage, PageIdxInt
  <2> QED BY <2>1
<1>2. NUM_PAGES \in Nat \ {0}
  BY SizesAssumption, PagesAssumption
<1> QED BY <1>1, <1>2, DivMod DEF RangePage, PageIdx

LEMMA RangeEndNat ==
  ASSUME NEW a \in Addr, NEW len \in Nat \ {0}
  PROVE  RangeEnd(a, len) \in Nat
<1>1. Rel(a) + len - 1 \in Nat /\ PAGE_SIZE \in Nat \ {0}
  BY AddrInPage, SizesAssumption, PagesAssumption DEF Offset
<1>2. 0 \div PAGE_SIZE = 0
  BY <1>1
<1>3. 0 \div PAGE_SIZE <= (Rel(a) + len - 1) \div PAGE_SIZE
  BY <1>1, DivMonotone
<1>4. (Rel(a) + len - 1) \div PAGE_SIZE \in Int
  BY <1>1, DivMod
<1> QED BY <1>2, <1>3, <1>4 DEF RangeEnd

\* The page of the last byte below a is the page of a, or the one before.
LEMMA PageBefore ==
  ASSUME NEW a \in Addr, a > 0
  PROVE  PageOf(a - 1) \in {PageOf(a) - 1, PageOf(a)}
<1> DEFINE q == a \div PAGE_SIZE  r == (a - 1) \div PAGE_SIZE
<1>0. PAGE_SIZE \in Nat \ {0} /\ a \in Int /\ a - 1 \in Int
  BY SizesAssumption, PagesAssumption DEF Addr
<1>1. /\ q \in Int /\ r \in Int
      /\ a % PAGE_SIZE \in 0 .. PAGE_SIZE - 1 /\ (a - 1) % PAGE_SIZE \in 0 .. PAGE_SIZE - 1
      /\ a = PAGE_SIZE * q + (a % PAGE_SIZE)
      /\ a - 1 = PAGE_SIZE * r + ((a - 1) % PAGE_SIZE)
  BY <1>0, DivMod
<1>2. r <= q
  BY <1>0, DivMonotone
<1>3. ASSUME r <= q - 2 PROVE FALSE
  <2>1. PAGE_SIZE * r <= PAGE_SIZE * (q - 2)
    BY <1>0, <1>1, <1>3, TimesMonotone
  <2>2. PAGE_SIZE * (q - 2) = PAGE_SIZE * q - 2 * PAGE_SIZE
    BY <1>0, <1>1
  <2> HIDE DEF q, r
  <2> QED BY <1>0, <1>1, <2>1, <2>2
<1>4. r \in {q - 1, q}
  BY <1>1, <1>2, <1>3
<1> QED BY <1>4 DEF PageOf

-----------------------------------------------------------------------------
(* The cache.                                                              *)

\* Every slot of c is empty or holds a mapped page of m, under its own index.
CacheGood(c, m) ==
  /\ c \in [Slots -> [tag : PageIdx \cup {EMPTY_TAG}, page : Page \cup {EMPTY_PAGE}]]
  /\ \A s \in Slots :
       \/ c[s] = EMPTY_SLOT
       \/ \E p \in PageIdx : /\ m[p] # EMPTY_PAGE /\ Slot(p) = s
                             /\ c[s] = [tag |-> p, page |-> m[p]]

LEMMA InvCacheGood ==
  ASSUME TypeOK, CacheCoherent
  PROVE  CacheGood(cache, pages)
<1> SUFFICES ASSUME NEW s \in Slots, cache[s] # EMPTY_SLOT
             PROVE  \E p \in PageIdx : /\ pages[p] # EMPTY_PAGE /\ Slot(p) = s
                                       /\ cache[s] = [tag |-> p, page |-> pages[p]]
  BY DEF TypeOK, CacheGood
<1>1. /\ cache[s].tag \in PageIdx /\ Slot(cache[s].tag) = s
      /\ pages[cache[s].tag] # EMPTY_PAGE /\ cache[s].page = pages[cache[s].tag]
  BY DEF CacheCoherent, Has
<1>2. cache[s] = [tag |-> cache[s].tag, page |-> cache[s].page]
  BY DEF TypeOK
<1> QED BY <1>1, <1>2

LEMMA CacheGoodCoherent ==
  ASSUME CacheGood(cache, pages)
  PROVE  CacheCoherent
BY DEF CacheGood, CacheCoherent, Has

\* Looking a page up in a good cache gives the page of the map; it faults
\* exactly when the map's page is missing or does not permit the access.
LEMMA LookupGood ==
  ASSUME NEW c, CacheGood(c, pages), NEW p \in PageIdx, NEW access
  PROVE  /\ Lookup(c, p) = pages[p]
         /\ FaultOf(c, p, access) =
              IF ~Has(p) THEN PageFault(p)
              ELSE IF ~Can(pages[p], access) THEN AccessFault(p) ELSE NoFault
<1>1. Slot(p) \in Slots
  BY SlotInCache, PageIdxInt
<1>2. ASSUME c[Slot(p)].tag = p
      PROVE  c[Slot(p)].page = pages[p] /\ Has(p)
  <2>1. c[Slot(p)] # EMPTY_SLOT
    BY <1>2, PageIdxInt DEF EMPTY_SLOT
  <2>2. PICK q \in PageIdx : /\ pages[q] # EMPTY_PAGE
                             /\ c[Slot(p)] = [tag |-> q, page |-> pages[q]]
    BY <1>1, <2>1 DEF CacheGood
  <2> QED BY <1>2, <2>2 DEF Has
<1> QED BY <1>2 DEF Lookup, FaultOf

LEMMA TouchGood ==
  ASSUME TypeOK, NEW c, CacheGood(c, pages), NEW i \in Addr
  PROVE  CacheGood(Touch(c, i), pages)
<1> CASE c[Slot(i)].tag # i /\ Has(i)
  <2>1. i \in PageIdx /\ pages[i] # EMPTY_PAGE /\ pages[i] \in Page
    BY DEF Has, TypeOK
  <2>2. Slot(i) \in Slots
    BY <2>1, SlotInCache, PageIdxInt
  <2>3. Touch(c, i) = [c EXCEPT ![Slot(i)] = [tag |-> i, page |-> pages[i]]]
    BY DEF Touch
  <2> QED BY <2>1, <2>2, <2>3 DEF CacheGood
<1> CASE ~(c[Slot(i)].tag # i /\ Has(i))
  BY DEF Touch
<1> QED OBVIOUS

LEMMA EmptyCacheGood == ASSUME NEW m PROVE CacheGood(EmptyCache, m)
BY DEF CacheGood, EmptyCache, EMPTY_SLOT

\* A fault names an address.
LEMMA FaultTyped ==
  ASSUME NEW c, NEW p \in PageIdx, NEW access
  PROVE  FaultOf(c, p, access) \in [isFault : BOOLEAN, isAccess : BOOLEAN, fault : Addr]
<1>1. p * PAGE_SIZE \in Addr
  <2>1. p \in Nat /\ p <= NUM_PAGES - 1 /\ NUM_PAGES \in Nat /\ PAGE_SIZE \in Nat \ {0}
    BY SizesAssumption, PagesAssumption DEF PageIdx
  <2>2. PAGE_SIZE * p <= PAGE_SIZE * (NUM_PAGES - 1) /\ PAGE_SIZE * 0 <= PAGE_SIZE * p
    BY <2>1, TimesMonotone
  <2>3. PAGE_SIZE * (NUM_PAGES - 1) = MEMORY_SIZE - PAGE_SIZE
    BY <2>1 DEF MEMORY_SIZE
  <2>4. PAGE_SIZE * p = p * PAGE_SIZE /\ PAGE_SIZE * 0 = 0
    BY <2>1
  <2> QED BY <2>1, <2>2, <2>3, <2>4, MemorySize DEF Addr
<1>2. 0 \in Addr
  BY MemorySize DEF Addr
<1> QED BY <1>1, <1>2 DEF FaultOf, PageFault, AccessFault, NoFault

-----------------------------------------------------------------------------
(* Accesses keep the invariant.                                            *)

\* A page in use has been issued.
LEMMA MappedIssued ==
  ASSUME IInv, NEW p \in PageIdx, Has(p)
  PROVE  pages[p].raw \in RawId /\ ~Unissued(pages[p].raw)
<1>1. pages[p].raw \in RawId /\ p \in Mapped
  BY DEF IInv, TypeOK, Page, Has, Mapped
<1>2. pages[p].raw <= extraPageIndex /\ \A i \in 1 .. Len(free) : free[i] # pages[p].raw
  BY <1>1 DEF IInv, ArenaBudget, NoAliasing
<1>3. pages[p].raw \in Int /\ extraPageIndex \in Int
  BY <1>1, SizesAssumption, PagesAssumption DEF IInv, TypeOK, RawId
<1> QED BY <1>1, <1>2, <1>3 DEF Unissued

\* The step writes to no page the arena may still hand out, and leaves none in
\* the scratch.
SparesUnissued ==
  ~freed => /\ \A r \in RawId : Unissued(r) => data'[r] = data[r]
            /\ ~Unissued(chunks'.raw)

LEMMA AccessKeepsZeros ==
  ASSUME IInv, SparesUnissued, UNCHANGED <<free, extraPageIndex, freed>>
  PROVE  ArenaZeroed'
<1>1. \A r : (r > extraPageIndex' \/ \E i \in 1 .. Len(free') : free'[i] = r) <=> Unissued(r)
  BY DEF Unissued
<1> QED BY <1>1 DEF IInv, ArenaZeroed, SparesUnissued, Unissued

\* A call that does not touch the contents or the scratch spares them.
LEMMA QuietSpares ==
  ASSUME IInv, UNCHANGED <<data, chunks>>
  PROVE  SparesUnissued
BY DEF IInv, ArenaZeroed, SparesUnissued

\* A call that leaves the map, the arena and the heap pointer alone keeps the
\* invariant if it keeps the cache good, the rest typed and the unissued pages
\* zero.
LEMMA AccessKeepsInv ==
  ASSUME IInv, CacheGood(cache', pages),
         UNCHANGED <<layout, pages, free, extraPageIndex, sbrkAddress,
                     lastAllocatedPage, freed>>,
         data' \in [RawId -> [Offset -> Byte]],
         chunks' \in [raw : RawId \cup {EMPTY_RAW}, end : Offset],
         chunks'.end > 0 => chunks'.raw \in RawId,
         faultRes' \in [isFault : BOOLEAN, isAccess : BOOLEAN, fault : Addr],
         SparesUnissued
  PROVE  IInv'
<1>1. TypeOK'
  BY DEF IInv, TypeOK, CacheGood
<1>2. CacheCoherent'
  BY DEF CacheGood, CacheCoherent, Has
<1>3. NoAliasing' /\ ReservedUnmapped' /\ HeapPointer' /\ ArenaBudget'
  BY DEF IInv, NoAliasing, ReservedUnmapped, HeapPointer, ArenaBudget, Mapped, Has
<1>4. ArenaZeroed'
  BY AccessKeepsZeros
<1> QED BY <1>1, <1>2, <1>3, <1>4 DEF IInv

\* What a load or a store gets from getChunks.
LEMMA ChunksTyped ==
  ASSUME IInv, NEW a \in Addr, NEW n \in Sizes, NEW access \in {"Read", "Write"}
  PROVE  LET g == GetChunks(access, a, n)
         IN /\ CacheGood(g.cache, pages)
            /\ g.fault \in [isFault : BOOLEAN, isAccess : BOOLEAN, fault : Addr]
            /\ ~g.fault.isFault =>
                 /\ g.first \in RawId /\ ~Unissued(g.first)
                 /\ g.second \in [raw : RawId \cup {EMPTY_RAW}, end : Offset]
                 /\ g.second.end > 0 => g.second.raw \in RawId
                 /\ freed \/ ~Unissued(g.second.raw)
<1> DEFINE p1 == PageOf(a)
           p2 == PageOf((a + n) % MEMORY_SIZE)
           c1 == Touch(cache, p1)
           g == GetChunks(access, a, n)
           needSecondPage == Rel(a) + n > PAGE_SIZE
<1>1. n \in Nat \ {0} /\ n <= PAGE_SIZE /\ PAGE_SIZE \in Nat
  BY SizesAssumption, PagesAssumption
<1>2. p1 \in PageIdx /\ p2 \in PageIdx /\ Rel(a) \in Offset
  <2>1. (a + n) % MEMORY_SIZE \in Addr
    BY <1>1, WrapIsAddr DEF Addr
  <2> QED BY <2>1, AddrInPage
<1>3. CacheGood(cache, pages) /\ TypeOK
  BY InvCacheGood DEF IInv
<1>4. CacheGood(c1, pages) /\ CacheGood(Touch(c1, p2), pages)
  BY <1>2, <1>3, TouchGood, PageIdxInt
<1>5. ASSUME NEW c, NEW p \in PageIdx, CacheGood(c, pages), ~FaultOf(c, p, access).isFault
      PROVE  Lookup(c, p).raw \in RawId /\ ~Unissued(Lookup(c, p).raw)
  <2>1. Has(p) /\ Lookup(c, p) = pages[p]
    BY <1>5, LookupGood DEF PageFault
  <2> QED BY <2>1, MappedIssued
<1> HIDE DEF p1, p2, c1, needSecondPage
<1>6. g = [fault |-> IF needSecondPage /\ ~FaultOf(cache, p1, access).isFault
                     THEN FaultOf(c1, p2, access) ELSE FaultOf(cache, p1, access),
           cache |-> IF needSecondPage /\ ~FaultOf(cache, p1, access).isFault
                     THEN Touch(c1, p2) ELSE c1,
           first |-> Lookup(cache, p1).raw,
           second |-> IF needSecondPage
                      THEN [raw |-> Lookup(c1, p2).raw, end |-> Rel(a) + n - PAGE_SIZE]
                      ELSE chunks]
  BY DEF g, GetChunks, p1, p2, c1, needSecondPage
<1> HIDE DEF g
<1>7. CacheGood(g.cache, pages)
  BY <1>3, <1>4, <1>6
<1>8. g.fault \in [isFault : BOOLEAN, isAccess : BOOLEAN, fault : Addr]
  BY <1>2, <1>6, FaultTyped
<1>9. ASSUME ~g.fault.isFault
      PROVE  /\ g.first \in RawId /\ ~Unissued(g.first)
             /\ g.second \in [raw : RawId \cup {EMPTY_RAW}, end : Offset]
             /\ g.second.end > 0 => g.second.raw \in RawId
             /\ freed \/ ~Unissued(g.second.raw)
  <2>1. ~FaultOf(cache, p1, access).isFault
    BY <1>6, <1>9
  <2>2. g.first \in RawId /\ ~Unissued(g.first)
    BY <1>2, <1>3, <1>5, <1>6, <2>1
  <2>3. CASE needSecondPage
    <3>1. Lookup(c1, p2).raw \in RawId /\ ~Unissued(Lookup(c1, p2).raw)
      BY <1>2, <1>4, <1>5, <1>6, <1>9, <2>1, <2>3
    <3>2. Rel(a) + n - PAGE_SIZE \in Offset
      BY <1>1, <1>2, <2>3 DEF needSecondPage, Offset
    <3> QED BY <1>6, <2>2, <2>3, <3>1, <3>2
  <2>4. CASE ~needSecondPage
    <3>1. g.second = chunks
      BY <1>6, <2>4
    <3>2. freed \/ ~Unissued(chunks.raw)
      BY DEF IInv, ArenaZeroed
    <3> QED BY <1>3, <2>2, <3>1, <3>2 DEF TypeOK
  <2> QED BY <2>3, <2>4
<1> QED BY <1>7, <1>8, <1>9 DEF g

LEMMA StoredTyped ==
  ASSUME IInv, NEW a \in Addr, NEW n \in Sizes, NEW v \in Values(n),
         NEW g, g.first \in RawId, g.second.end \in Offset,
         g.second.end > 0 => g.second.raw \in RawId
  PROVE  /\ StoredData(g, a, v) \in [RawId -> [Offset -> Byte]]
         /\ \A r \in RawId : r # g.first /\ (r # g.second.raw \/ g.second.end = 0) =>
              StoredData(g, a, v)[r] = data[r]
<1> DEFINE k == FirstLen(a, n)
           ByteFrom(i) == IF i <= n THEN v[i] ELSE 0
           d1 == [data EXCEPT ![g.first] =
                    [o \in Offset |-> IF o \in Rel(a) .. Rel(a) + k - 1
                                      THEN v[o - Rel(a) + 1] ELSE data[g.first][o]]]
           d2 == [d1 EXCEPT ![g.second.raw] =
                    [o \in Offset |-> IF o < g.second.end
                                      THEN ByteFrom(k + o + 1) ELSE d1[g.second.raw][o]]]
<1>1. n \in Nat \ {0} /\ n <= PAGE_SIZE /\ PAGE_SIZE \in Nat /\ Rel(a) \in Offset
  BY AddrInPage, SizesAssumption, PagesAssumption
<1>2. v \in [1 .. n -> Byte] /\ Len(v) = n
  BY <1>1 DEF Values
<1>3. k \in 1 .. n
  BY <1>1 DEF FirstLen, Offset
<1>4. data \in [RawId -> [Offset -> Byte]] /\ 0 \in Byte
  BY SizesAssumption, PagesAssumption DEF IInv, TypeOK, Byte
<1>5. StoredData(g, a, v) = IF g.second.end = 0 THEN d1 ELSE d2
  BY <1>2 DEF StoredData
<1> HIDE DEF k
<1>6. d1 \in [RawId -> [Offset -> Byte]]
  <2>1. ASSUME NEW o \in Offset, o \in Rel(a) .. Rel(a) + k - 1
        PROVE  v[o - Rel(a) + 1] \in Byte
    <3>1. o - Rel(a) + 1 \in 1 .. n
      BY <1>1, <1>3, <2>1 DEF Offset
    <3> QED BY <1>2, <3>1
  <2>2. data[g.first] \in [Offset -> Byte]
    BY <1>4
  <2> QED BY <1>4, <2>1, <2>2
<1>9. \A r \in RawId : r # g.first => d1[r] = data[r]
  BY <1>4
<1> HIDE DEF d1
<1>7. CASE g.second.end = 0
  BY <1>5, <1>6, <1>7, <1>9
<1>8. CASE g.second.end # 0
  <2>1. g.second.raw \in RawId
    BY <1>8 DEF Offset
  <2>2. ASSUME NEW o \in Offset PROVE ByteFrom(k + o + 1) \in Byte
    <3>1. k + o + 1 \in Nat \ {0}
      BY <1>1, <1>3 DEF Offset
    <3> QED BY <1>1, <1>2, <1>4, <3>1
  <2> HIDE DEF ByteFrom
  <2>3. d2 \in [RawId -> [Offset -> Byte]]
    BY <1>6, <2>1, <2>2
  <2>4. \A r \in RawId : r # g.second.raw => d2[r] = d1[r]
    BY <1>6
  <2> QED BY <1>5, <1>8, <1>9, <2>3, <2>4
<1> QED BY <1>7, <1>8

LEMMA LoadKeepsInv ==
  ASSUME IInv, NEW a \in Addr, NEW n \in Sizes, Load(a, n)
  PROVE  IInv'
<1> DEFINE g == GetChunks("Read", a, n)
<1>1. /\ CacheGood(g.cache, pages)
      /\ g.fault \in [isFault : BOOLEAN, isAccess : BOOLEAN, fault : Addr]
      /\ ~g.fault.isFault =>
           /\ g.second \in [raw : RawId \cup {EMPTY_RAW}, end : Offset]
           /\ g.second.end > 0 => g.second.raw \in RawId
           /\ freed \/ ~Unissued(g.second.raw)
  BY ChunksTyped
<1>2. /\ faultRes' = g.fault /\ cache' = g.cache
      /\ chunks' = IF g.fault.isFault THEN chunks ELSE g.second
      /\ UNCHANGED <<layout, pages, free, extraPageIndex, data, sbrkAddress,
                     lastAllocatedPage, freed>>
  BY DEF Load
<1> HIDE DEF g
<1>3. SparesUnissued
  BY <1>1, <1>2 DEF IInv, ArenaZeroed, SparesUnissued
<1> QED BY <1>1, <1>2, <1>3, AccessKeepsInv DEF IInv, TypeOK

LEMMA StoreKeepsInv ==
  ASSUME IInv, NEW a \in Addr, NEW n \in Sizes, NEW v \in Values(n), Store(a, v)
  PROVE  IInv'
<1> DEFINE g == GetChunks("Write", a, n)
<1>0. Len(v) = n
  BY SizesAssumption, PagesAssumption DEF Values
<1>1. /\ CacheGood(g.cache, pages)
      /\ g.fault \in [isFault : BOOLEAN, isAccess : BOOLEAN, fault : Addr]
      /\ ~g.fault.isFault =>
           /\ g.first \in RawId /\ ~Unissued(g.first)
           /\ g.second \in [raw : RawId \cup {EMPTY_RAW}, end : Offset]
           /\ g.second.end > 0 => g.second.raw \in RawId
           /\ freed \/ ~Unissued(g.second.raw)
  BY ChunksTyped
<1>2. /\ faultRes' = g.fault /\ cache' = g.cache
      /\ chunks' = IF g.fault.isFault THEN chunks ELSE g.second
      /\ data' = IF g.fault.isFault THEN data ELSE StoredData(g, a, v)
      /\ UNCHANGED <<layout, pages, free, extraPageIndex, sbrkAddress,
                     lastAllocatedPage, freed>>
  BY <1>0 DEF Store
<1> HIDE DEF g
<1>3. data' \in [RawId -> [Offset -> Byte]] /\ SparesUnissued
  <2>1. CASE g.fault.isFault
    BY <1>2, <2>1, QuietSpares DEF IInv, TypeOK
  <2>2. CASE ~g.fault.isFault
    <3>1. g.second.end \in Offset
      BY <1>1, <2>2
    <3>2. /\ data' \in [RawId -> [Offset -> Byte]]
          /\ \A r \in RawId : r # g.first /\ r # g.second.raw => data'[r] = data[r]
      BY <1>1, <1>2, <2>2, <3>1, StoredTyped
    <3>3. SparesUnissued
      BY <1>1, <1>2, <2>2, <3>2 DEF SparesUnissued
    <3> QED BY <3>2, <3>3
  <2> QED BY <2>1, <2>2
<1> QED BY <1>1, <1>2, <1>3, AccessKeepsInv DEF IInv, TypeOK

\* A range leaves the cache good, and faults at an address if it does.
LEMMA RangeTyped ==
  ASSUME IInv, NEW a \in Addr, NEW len \in Nat \ {0}, NEW access
  PROVE  /\ CacheGood(RangeCache(access, a, len), pages)
         /\ RangeFault(access, a, len) \in [isFault : BOOLEAN, isAccess : BOOLEAN, fault : Addr]
<1>1. CacheGood(cache, pages) /\ TypeOK
  BY InvCacheGood DEF IInv
<1>2. RangeEnd(a, len) \in Nat
  BY RangeEndNat
<1>3. RangeLast(access, a, len) \in Nat
  BY <1>2 DEF RangeLast
<1>4. \A k \in Int : RangePage(a, k) \in PageIdx
  BY RangePageIsPage
<1>5. CacheGood(RangeCache(access, a, len), pages)
  <2> SUFFICES ASSUME NEW s \in Slots
               PROVE  \/ RangeCache(access, a, len)[s] = cache[s]
                      \/ \E p \in PageIdx :
                           /\ pages[p] # EMPTY_PAGE /\ Slot(p) = s
                           /\ RangeCache(access, a, len)[s] = [tag |-> p, page |-> pages[p]]
    <3>1. RangeCache(access, a, len) = [s \in Slots |-> RangeCache(access, a, len)[s]]
      BY DEF RangeCache
    <3> HIDE DEF RangeCache
    <3> QED BY <1>1, <3>1 DEF CacheGood, TypeOK
  <2> DEFINE Hit(k) == Slot(RangePage(a, k)) = s /\ Has(RangePage(a, k))
             LastHit(k) == Hit(k) /\ \A j \in k + 1 .. RangeLast(access, a, len) : ~Hit(j)
             steps == 0 .. RangeLast(access, a, len)
             h == CHOOSE k \in steps : LastHit(k)
  <2>1. RangeCache(access, a, len)[s] =
          IF \E k \in steps : LastHit(k)
          THEN [tag |-> RangePage(a, h), page |-> pages[RangePage(a, h)]]
          ELSE cache[s]
    BY DEF RangeCache
  <2>2. ASSUME \E k \in steps : LastHit(k)
        PROVE  h \in steps /\ Hit(h)
    BY <2>2
  <2>3. CASE \E k \in steps : LastHit(k)
    <3>1. RangePage(a, h) \in PageIdx
      BY <1>3, <1>4, <2>2, <2>3
    <3> QED BY <2>1, <2>2, <2>3, <3>1 DEF Has
  <2>4. CASE ~ \E k \in steps : LastHit(k)
    BY <2>1, <2>4
  <2> QED BY <2>3, <2>4
<1>6. RangeFault(access, a, len) \in [isFault : BOOLEAN, isAccess : BOOLEAN, fault : Addr]
  <2>1. NoFault \in [isFault : BOOLEAN, isAccess : BOOLEAN, fault : Addr]
    BY MemorySize DEF NoFault, Addr
  <2>2. CASE \E k \in 0 .. RangeEnd(a, len) : FirstFault(access, a, len, k)
    <3> DEFINE k == CHOOSE k \in 0 .. RangeEnd(a, len) : FirstFault(access, a, len, k)
    <3>1. k \in 0 .. RangeEnd(a, len)
      BY <2>2
    <3>2. RangePage(a, k) \in PageIdx
      BY <1>2, <1>4, <3>1
    <3>3. RangeFault(access, a, len) = FaultOf(cache, RangePage(a, k), access)
      BY <2>2 DEF RangeFault
    <3> HIDE DEF k
    <3> QED BY <3>2, <3>3, FaultTyped
  <2>3. CASE ~ \E k \in 0 .. RangeEnd(a, len) : FirstFault(access, a, len, k)
    BY <2>1, <2>3 DEF RangeFault
  <2> QED BY <2>2, <2>3
<1> QED BY <1>5, <1>6

LEMMA RangesKeepInv ==
  ASSUME IInv, NEW a \in Addr, NEW len \in 1 .. MaxRange,
         BytesRead(a, len) \/ \E b \in Byte : BytesWrite(a, len, b)
  PROVE  IInv'
<1>1. len \in Nat \ {0} /\ TypeOK
  BY SizesAssumption, PagesAssumption DEF IInv
<1>2. /\ CacheGood(cache', pages)
      /\ faultRes' \in [isFault : BOOLEAN, isAccess : BOOLEAN, fault : Addr]
  BY <1>1, RangeTyped DEF BytesRead, BytesWrite
<1>3. data' \in [RawId -> [Offset -> Byte]] /\ SparesUnissued
  <2>1. CASE BytesRead(a, len)
    BY <1>1, <2>1, QuietSpares DEF BytesRead, TypeOK
  <2>2. ASSUME NEW b \in Byte, BytesWrite(a, len, b)
        PROVE  data' \in [RawId -> [Offset -> Byte]] /\ SparesUnissued
    <3> DEFINE Hit(r, o) == \E x \in {(a + i) % MEMORY_SIZE :
                                        i \in 0 .. RangeDone("Write", a, len) - 1} :
                              Rel(x) = o /\ Lookup(cache, PageOf(x)).raw = r
    <3>1. data' = [r \in RawId |-> [o \in Offset |-> IF Hit(r, o) THEN b ELSE data[r][o]]]
      BY <2>2 DEF BytesWrite
    <3>2. data \in [RawId -> [Offset -> Byte]]
      BY <1>1 DEF TypeOK
    <3>3. ASSUME NEW r \in RawId, NEW o \in Offset, Hit(r, o) PROVE ~Unissued(r)
      <4>1. PICK i \in 0 .. RangeDone("Write", a, len) - 1 :
              Lookup(cache, PageOf((a + i) % MEMORY_SIZE)).raw = r
        BY <3>3
      <4> DEFINE p == PageOf((a + i) % MEMORY_SIZE)
      <4>2. (a + i) % MEMORY_SIZE \in Addr
        <5>1. a + i \in Int
          BY MemorySize DEF Addr
        <5> QED BY <5>1, WrapIsAddr
      <4>3. p \in PageIdx
        BY <4>2, AddrInPage
      <4>4. CacheGood(cache, pages)
        BY <1>1, InvCacheGood DEF IInv
      <4> HIDE DEF p
      <4>5. pages[p].raw = r
        BY <4>1, <4>3, <4>4, LookupGood DEF p
      <4>6. Has(p)
        BY <4>3, <4>5, SizesAssumption, PagesAssumption DEF Has, EMPTY_PAGE, EMPTY_RAW, RawId
      <4> QED BY <4>3, <4>5, <4>6, MappedIssued
    <3> HIDE DEF Hit
    <3>4. data' \in [RawId -> [Offset -> Byte]]
      BY <2>2, <3>1, <3>2
    <3>5. ASSUME NEW r \in RawId, Unissued(r) PROVE data'[r] = data[r]
      <4>1. \A o \in Offset : data'[r][o] = data[r][o]
        BY <3>1, <3>3, <3>5
      <4> QED BY <3>2, <3>4, <4>1
    <3>6. chunks' = chunks
      BY <2>2 DEF BytesWrite
    <3> QED BY <3>4, <3>5, <3>6 DEF SparesUnissued, IInv, ArenaZeroed
  <2> QED BY <2>1, <2>2
<1>4. UNCHANGED <<layout, pages, free, extraPageIndex, sbrkAddress,
                  lastAllocatedPage, chunks, freed>>
  BY DEF BytesRead, BytesWrite
<1> QED BY <1>1, <1>2, <1>3, <1>4, AccessKeepsInv DEF TypeOK

LEMMA ViewKeepsInv ==
  ASSUME IInv, NEW i \in Addr, NEW mustRead \in BOOLEAN, ViewPage(i, mustRead)
  PROVE  IInv'
<1>1. CacheGood(cache, pages) /\ TypeOK
  BY InvCacheGood DEF IInv
<1>2. CacheGood(cache', pages)
  BY <1>1, TouchGood DEF ViewPage
<1>3. faultRes' \in [isFault : BOOLEAN, isAccess : BOOLEAN, fault : Addr]
  BY MemorySize DEF ViewPage, NoFault, Addr
<1>4. UNCHANGED <<layout, pages, free, extraPageIndex, data, sbrkAddress,
                  lastAllocatedPage, chunks, freed>>
  BY DEF ViewPage
<1> QED BY <1>1, <1>2, <1>3, <1>4, AccessKeepsInv, QuietSpares DEF TypeOK

-----------------------------------------------------------------------------
(* sbrk keeps the invariant.                                               *)

LEMMA NatMinimum ==
  ASSUME NEW T, T \subseteq Nat, T # {}
  PROVE  \E x \in T : \A y \in T : x <= y
<1>1. PICK x \in T : \A y \in T : ~(<<y, x>> \in OpToRel(<, Nat))
  BY WFMin, NatLessThanWellFounded
<1>2. ASSUME NEW y \in T PROVE x <= y
  <2>1. ~(y < x)
    BY <1>1 DEF OpToRel
  <2> QED BY <2>1
<1> QED BY <1>2

LEMMA IntervalMaximum ==
  ASSUME NEW l \in Int, NEW h \in Int, NEW T, T \subseteq l .. h, T # {}
  PROVE  \E x \in T : \A y \in T : y <= x
<1> DEFINE U == {h - x : x \in T}
<1>1. U \subseteq Nat /\ U # {}
  OBVIOUS
<1>2. PICK u \in U : \A w \in U : u <= w
  BY <1>1, NatMinimum
<1>3. PICK x \in T : u = h - x
  BY <1>2
<1>4. ASSUME NEW y \in T PROVE y <= x
  BY <1>2, <1>3
<1> QED BY <1>4

\* Where the heap pointer may be, and what sbrk's page index is then.
LEMMA HeapPages ==
  ASSUME IInv
  PROVE  /\ RESERVED_PAGES <= PageOf(layout.sbrk)
         /\ PageOf(layout.sbrk) <= PageOf(sbrkAddress)
         /\ RESERVED_PAGES - 1 <= lastAllocatedPage
         /\ layout.maxHeap \in Addr
<1>1. layout.sbrk \in RESERVED_PAGES * PAGE_SIZE .. MEMORY_SIZE - 1 /\ layout.maxHeap \in layout.sbrk .. MEMORY_SIZE - 1
  BY LayoutsAssumption DEF IInv, TypeOK, IsLayout
<1>2. /\ PAGE_SIZE \in Nat \ {0} /\ RESERVED_PAGES \in Nat \ {0} /\ MEMORY_SIZE \in Nat
      /\ RESERVED_PAGES * PAGE_SIZE \in Nat /\ layout.sbrk \in Nat
      /\ RESERVED_PAGES * PAGE_SIZE <= layout.sbrk
  <2>1. /\ PAGE_SIZE \in Nat \ {0} /\ RESERVED_PAGES \in Nat \ {0} /\ MEMORY_SIZE \in Nat
    BY SizesAssumption, PagesAssumption, MemorySize
  <2>2. RESERVED_PAGES * PAGE_SIZE \in Nat
    BY <2>1
  <2> QED BY <1>1, <2>1, <2>2
<1>3. RESERVED_PAGES <= PageOf(layout.sbrk)
  <2>1. (RESERVED_PAGES * PAGE_SIZE) \div PAGE_SIZE = RESERVED_PAGES
    BY <1>2
  <2>2. (RESERVED_PAGES * PAGE_SIZE) \div PAGE_SIZE <= layout.sbrk \div PAGE_SIZE
    <3> DEFINE base == RESERVED_PAGES * PAGE_SIZE
    <3>1. base \in Int /\ layout.sbrk \in Int /\ base <= layout.sbrk
      BY <1>2
    <3> HIDE DEF base
    <3>2. base \div PAGE_SIZE <= layout.sbrk \div PAGE_SIZE
      BY <1>2, <3>1, DivMonotone
    <3> QED BY <3>2 DEF base
  <2> QED BY <2>1, <2>2 DEF PageOf
<1>4. PageOf(layout.sbrk) <= PageOf(sbrkAddress)
  BY <1>1, <1>2, DivMonotone DEF IInv, HeapPointer, PageOf
<1>5. PageOf(sbrkAddress) \in Int /\ PageOf(layout.sbrk) \in Int /\ lastAllocatedPage \in Int
  <2>1. layout.sbrk \in Addr /\ sbrkAddress \in Addr
    BY <1>1, <1>2 DEF IInv, TypeOK, Addr
  <2> QED BY <2>1, AddrInPage, PageIdxInt DEF IInv, TypeOK
<1>6. RESERVED_PAGES - 1 <= lastAllocatedPage
  BY <1>2, <1>3, <1>4, <1>5 DEF IInv, HeapPointer
<1>7. layout.maxHeap \in Addr
  BY <1>1, <1>2 DEF Addr
<1> QED BY <1>3, <1>4, <1>6, <1>7

\* The raw pages sbrk takes are in use nowhere, and differ from each other.
LEMMA AcquiredFresh ==
  ASSUME IInv, NEW n \in Nat, lastAllocatedPage + n \in PageIdx
  PROVE  /\ \A k \in 1 .. n : /\ Acquired(k) \in RawId
                              /\ \A p \in Mapped : pages[p].raw # Acquired(k)
                              /\ Acquired(k) <= extraPageIndex + (IF n > Len(free) THEN n - Len(free) ELSE 0)
                              /\ \A i \in 1 .. Len(free) : i <= Len(free) - n => free[i] # Acquired(k)
         /\ \A j, k \in 1 .. n : Acquired(j) = Acquired(k) => j = k
<1> DEFINE L == Len(free)
<1>1. /\ L \in Nat /\ \A i \in 1 .. L : free[i] \in RawId
      /\ extraPageIndex \in Nat /\ lastAllocatedPage \in Nat
      /\ PREALLOC \in Nat /\ NUM_PAGES \in Nat
      /\ extraPageIndex <= PREALLOC + NUM_PAGES + lastAllocatedPage
      /\ lastAllocatedPage + n <= NUM_PAGES - 1
  BY SizesAssumption, PagesAssumption DEF IInv, TypeOK, RawId, ArenaBudget, PageIdx
<1>2. /\ \A i, j \in 1 .. L : free[i] = free[j] => i = j
      /\ \A p \in Mapped, i \in 1 .. L : pages[p].raw # free[i]
      /\ \A p \in Mapped : pages[p].raw <= extraPageIndex
      /\ \A i \in 1 .. L : free[i] <= extraPageIndex
  BY DEF IInv, NoAliasing, ArenaBudget
<1>3. \A k \in 1 .. n : Acquired(k) = IF k <= L THEN free[L + 1 - k] ELSE extraPageIndex + (k - L)
  BY DEF Acquired
<1>4. \A r \in RawId : r \in Int
  BY <1>1 DEF RawId
<1>5. \A p \in Mapped : pages[p].raw \in Int
  BY <1>1 DEF IInv, TypeOK, Mapped, Has, Page, RawId
<1> HIDE DEF L
<1>6. ASSUME NEW k \in 1 .. n
      PROVE  /\ Acquired(k) \in RawId
             /\ \A p \in Mapped : pages[p].raw # Acquired(k)
             /\ Acquired(k) <= extraPageIndex + (IF n > L THEN n - L ELSE 0)
             /\ \A i \in 1 .. L : i <= L - n => free[i] # Acquired(k)
  <2>1. CASE k <= L
    <3>1. L + 1 - k \in 1 .. L /\ Acquired(k) = free[L + 1 - k]
      BY <1>1, <1>3, <2>1
    <3>2. Acquired(k) \in RawId /\ Acquired(k) <= extraPageIndex
      BY <1>1, <1>2, <3>1
    <3>3. Acquired(k) <= extraPageIndex + (IF n > L THEN n - L ELSE 0)
      BY <1>1, <1>4, <3>2
    <3>4. \A i \in 1 .. L : i <= L - n => free[i] # Acquired(k)
      BY <1>1, <1>2, <3>1
    <3> QED BY <1>2, <3>1, <3>2, <3>3, <3>4
  <2>2. CASE ~(k <= L)
    <3>1. Acquired(k) = extraPageIndex + (k - L) /\ k - L >= 1
      BY <1>1, <1>3, <2>2
    <3>2. Acquired(k) \in RawId
      BY <1>1, <3>1 DEF RawId
    <3>3. \A p \in Mapped : pages[p].raw # Acquired(k)
      BY <1>1, <1>2, <1>5, <3>1
    <3>4. \A i \in 1 .. L : free[i] # Acquired(k)
      BY <1>1, <1>2, <1>4, <3>1
    <3>5. Acquired(k) <= extraPageIndex + (IF n > L THEN n - L ELSE 0)
      BY <1>1, <2>2, <3>1
    <3> QED BY <3>2, <3>3, <3>4, <3>5
  <2> QED BY <2>1, <2>2
<1>7. ASSUME NEW j \in 1 .. n, NEW k \in 1 .. n, Acquired(j) = Acquired(k)
      PROVE  j = k
  <2>1. CASE j <= L /\ k <= L
    <3>1. L + 1 - j \in 1 .. L /\ L + 1 - k \in 1 .. L /\ free[L + 1 - j] = free[L + 1 - k]
      BY <1>1, <1>3, <1>7, <2>1
    <3>2. L + 1 - j = L + 1 - k
      BY <1>2, <3>1
    <3> QED BY <1>1, <3>2
  <2>2. CASE ~(j <= L) /\ ~(k <= L)
    BY <1>1, <1>3, <1>7, <2>2
  <2>3. CASE j <= L /\ ~(k <= L)
    <3>1. /\ L + 1 - j \in 1 .. L /\ Acquired(j) = free[L + 1 - j]
          /\ Acquired(k) = extraPageIndex + (k - L) /\ k - L >= 1
      BY <1>1, <1>3, <2>3
    <3>2. free[L + 1 - j] <= extraPageIndex /\ free[L + 1 - j] \in Int
      BY <1>1, <1>2, <1>4, <3>1
    <3>3. extraPageIndex + (k - L) <= extraPageIndex
      BY <1>7, <3>1, <3>2
    <3> QED BY <1>1, <3>1, <3>3
  <2>4. CASE ~(j <= L) /\ k <= L
    <3>1. L + 1 - k \in 1 .. L /\ Acquired(k) = free[L + 1 - k] /\ Acquired(j) = extraPageIndex + (j - L)
      BY <1>1, <1>3, <2>4
    <3>2. free[L + 1 - k] <= extraPageIndex /\ free[L + 1 - k] \in Int
      BY <1>1, <1>2, <1>4, <3>1
    <3> QED BY <1>1, <1>7, <2>4, <3>1, <3>2
  <2> QED BY <2>1, <2>2, <2>3, <2>4
<1> QED BY <1>6, <1>7 DEF L

\* The step of sbrk that maps pages last+1 .. top.
LEMMA MapFreshKeeps ==
  ASSUME IInv, NEW top \in PageIdx, top > lastAllocatedPage, MapFresh(top),
         UNCHANGED <<layout, data, chunks, freed>>,
         lastAllocatedPage' = top
  PROVE  /\ pages' \in [PageIdx -> Page \cup {EMPTY_PAGE}]
         /\ CacheGood(cache', pages')
         /\ free' \in Seq(RawId) /\ extraPageIndex' \in RawId
         /\ NoAliasing' /\ ReservedUnmapped' /\ ArenaBudget' /\ ArenaZeroed'
<1> DEFINE last == lastAllocatedPage
           n == top - last
           L == Len(free)
           fresh == last + 1 .. top
           NewPage(p) == [access |-> "Write", raw |-> Acquired(p - last)]
<1>1. /\ last \in Nat /\ top \in Nat /\ n \in Nat \ {0} /\ last + n = top
      /\ fresh \subseteq PageIdx /\ PageIdx \subseteq Int
      /\ \A p \in fresh : p - last \in 1 .. n
  BY SizesAssumption, PagesAssumption DEF IInv, TypeOK, PageIdx
<1>2. /\ \A k \in 1 .. n : /\ Acquired(k) \in RawId
                           /\ \A p \in Mapped : pages[p].raw # Acquired(k)
                           /\ Acquired(k) <= extraPageIndex + (IF n > L THEN n - L ELSE 0)
                           /\ \A i \in 1 .. L : i <= L - n => free[i] # Acquired(k)
      /\ \A j, k \in 1 .. n : Acquired(j) = Acquired(k) => j = k
  BY <1>1, AcquiredFresh
<1>3. /\ pages' = [p \in PageIdx |-> IF p \in fresh THEN NewPage(p) ELSE pages[p]]
      /\ free' = SubSeq(free, 1, IF n < L THEN L - n ELSE 0)
      /\ extraPageIndex' = IF n > L THEN extraPageIndex + (n - L) ELSE extraPageIndex
      /\ cache' = [s \in Slots |->
                    LET LastIn(p) == /\ p \in fresh /\ Slot(p) = s
                                     /\ \A q \in p + 1 .. top : Slot(q) # s
                    IN IF \E p \in PageIdx : LastIn(p)
                       THEN LET p == CHOOSE p \in PageIdx : LastIn(p)
                            IN [tag |-> p, page |-> NewPage(p)]
                       ELSE cache[s]]
  BY DEF MapFresh
<1>4. pages \in [PageIdx -> Page \cup {EMPTY_PAGE}] /\ free \in Seq(RawId) /\ L \in Nat
      /\ extraPageIndex \in Nat /\ extraPageIndex <= PREALLOC + NUM_PAGES + last
      /\ PREALLOC \in Nat /\ NUM_PAGES \in Nat /\ top <= NUM_PAGES - 1
  BY SizesAssumption, PagesAssumption DEF IInv, TypeOK, RawId, ArenaBudget, PageIdx
<1> HIDE DEF last, n, L, fresh
<1>5. \A p \in fresh : NewPage(p) \in Page /\ NewPage(p) # EMPTY_PAGE
  BY <1>1, <1>2 DEF Page, AccessKind, EMPTY_PAGE
<1>6. pages' \in [PageIdx -> Page \cup {EMPTY_PAGE}]
  BY <1>3, <1>4, <1>5
<1>7. CacheGood(cache', pages')
  <2> SUFFICES ASSUME NEW s \in Slots
               PROVE  /\ cache'[s] \in [tag : PageIdx \cup {EMPTY_TAG}, page : Page \cup {EMPTY_PAGE}]
                      /\ \/ cache'[s] = EMPTY_SLOT
                         \/ \E p \in PageIdx : /\ pages'[p] # EMPTY_PAGE /\ Slot(p) = s
                                               /\ cache'[s] = [tag |-> p, page |-> pages'[p]]
    <3>1. cache' = [s \in Slots |-> cache'[s]]
      BY <1>3
    <3> QED BY <3>1 DEF CacheGood
  <2> DEFINE LastIn(p) == /\ p \in fresh /\ Slot(p) = s
                          /\ \A q \in p + 1 .. top : Slot(q) # s
             h == CHOOSE p \in PageIdx : LastIn(p)
  <2>1. cache'[s] = IF \E p \in PageIdx : LastIn(p)
                    THEN [tag |-> h, page |-> NewPage(h)] ELSE cache[s]
    BY <1>3
  <2>2. CASE \E p \in PageIdx : LastIn(p)
    <3>1. h \in PageIdx /\ h \in fresh /\ Slot(h) = s
      BY <2>2
    <3>2. pages'[h] = NewPage(h) /\ pages'[h] \in Page /\ pages'[h] # EMPTY_PAGE
      BY <1>3, <1>5, <3>1
    <3>3. cache'[s] = [tag |-> h, page |-> pages'[h]]
      BY <2>1, <2>2, <3>2
    <3> HIDE DEF h
    <3> QED BY <3>1, <3>2, <3>3
  <2>3. CASE ~ \E p \in PageIdx : LastIn(p)
    <3>1. \A p \in fresh : Slot(p) # s
      <4> SUFFICES ASSUME NEW p0 \in fresh, Slot(p0) = s PROVE FALSE
        OBVIOUS
      <4> DEFINE T == {p \in fresh : Slot(p) = s}
      <4>1. T \subseteq last + 1 .. top /\ T # {} /\ last + 1 \in Int /\ top \in Int
        BY <1>1 DEF fresh
      <4>2. PICK x \in T : \A y \in T : y <= x
        BY <4>1, IntervalMaximum
      <4>3. \A q \in x + 1 .. top : Slot(q) # s
        <5> SUFFICES ASSUME NEW q \in x + 1 .. top, Slot(q) = s PROVE FALSE
          OBVIOUS
        <5>1. q \in T /\ q > x
          BY <1>1, <4>1 DEF fresh
        <5> QED BY <1>1, <4>1, <4>2, <5>1
      <4>4. LastIn(x) /\ x \in PageIdx
        BY <1>1, <4>2, <4>3
      <4> QED BY <2>3, <4>4
    <3>2. cache'[s] = cache[s]
      BY <2>1, <2>3
    <3>3. CacheGood(cache, pages)
      BY InvCacheGood DEF IInv
    <3>4. CASE cache[s] = EMPTY_SLOT
      BY <3>2, <3>3, <3>4 DEF CacheGood
    <3>5. CASE cache[s] # EMPTY_SLOT
      <4>1. PICK p \in PageIdx : /\ pages[p] # EMPTY_PAGE /\ Slot(p) = s
                                 /\ cache[s] = [tag |-> p, page |-> pages[p]]
        BY <3>3, <3>5 DEF CacheGood
      <4>2. pages'[p] = pages[p]
        BY <1>3, <3>1, <4>1
      <4> QED BY <3>2, <3>3, <4>1, <4>2 DEF CacheGood
    <3> QED BY <3>4, <3>5
  <2> QED BY <2>2, <2>3
<1>8. /\ free' \in Seq(RawId) /\ Len(free') = (IF n < L THEN L - n ELSE 0)
      /\ \A i \in 1 .. Len(free') : free'[i] = free[i] /\ i \in 1 .. L /\ i <= L - n
  <2> DEFINE m == IF n < L THEN L - n ELSE 0
  <2>1. m \in 0 .. L /\ (m > 0 => m = L - n)
    BY <1>1, <1>4
  <2>2. free' = SubSeq(free, 1, m) /\ L = Len(free)
    BY <1>3 DEF L
  <2> HIDE DEF m
  <2>3. free' \in Seq(RawId) /\ Len(free') = m /\ \A i \in 1 .. m : free'[i] = free[i]
    BY <1>4, <2>1, <2>2
  <2>4. \A i \in 1 .. m : i \in 1 .. L /\ i <= L - n
    BY <1>1, <1>4, <2>1
  <2> QED BY <2>3, <2>4 DEF m
<1>9. extraPageIndex' \in RawId /\ extraPageIndex' <= PREALLOC + NUM_PAGES + top
      /\ extraPageIndex <= extraPageIndex'
      /\ extraPageIndex' = extraPageIndex + (IF n > L THEN n - L ELSE 0)
  <2>1. extraPageIndex' = extraPageIndex + (IF n > L THEN n - L ELSE 0)
    BY <1>3, <1>4
  <2>2. extraPageIndex' <= extraPageIndex + n /\ extraPageIndex <= extraPageIndex' /\ extraPageIndex' \in Nat
    BY <1>1, <1>4, <2>1
  <2>3. extraPageIndex' <= PREALLOC + NUM_PAGES + top
    BY <1>1, <1>4, <2>2
  <2> QED BY <1>1, <1>4, <2>1, <2>2, <2>3 DEF RawId
<1>10. \A p \in PageIdx : /\ p \in fresh => pages'[p].raw = Acquired(p - last)
                          /\ p \notin fresh => pages'[p] = pages[p]
                          /\ p \in Mapped' /\ p \notin fresh => p \in Mapped
  BY <1>3 DEF Mapped, Has
<1>11. NoAliasing'
  <2>1. ASSUME NEW p \in Mapped', NEW q \in Mapped', pages'[p].raw = pages'[q].raw
        PROVE  p = q
    <3>0. p \in PageIdx /\ q \in PageIdx
      BY DEF Mapped
    <3>1. CASE p \in fresh /\ q \in fresh
      <4>1. p - last = q - last
        BY <1>1, <1>2, <1>10, <2>1, <3>0, <3>1
      <4> QED BY <1>1, <3>0, <4>1
    <3>2. CASE p \in fresh /\ q \notin fresh
      BY <1>1, <1>2, <1>10, <2>1, <3>0, <3>2
    <3>3. CASE p \notin fresh /\ q \in fresh
      BY <1>1, <1>2, <1>10, <2>1, <3>0, <3>3
    <3>4. CASE p \notin fresh /\ q \notin fresh
      BY <1>10, <2>1, <3>0, <3>4 DEF IInv, NoAliasing
    <3> QED BY <3>1, <3>2, <3>3, <3>4
  <2>2. \A i, j \in 1 .. Len(free') : free'[i] = free'[j] => i = j
    BY <1>8 DEF IInv, NoAliasing, L
  <2>3. ASSUME NEW p \in Mapped', NEW i \in 1 .. Len(free')
        PROVE  pages'[p].raw # free'[i]
    <3>0. p \in PageIdx
      BY DEF Mapped
    <3>1. CASE p \in fresh
      BY <1>1, <1>2, <1>8, <1>10, <3>0, <3>1
    <3>2. CASE p \notin fresh
      BY <1>8, <1>10, <3>0, <3>2 DEF IInv, NoAliasing, L
    <3> QED BY <3>1, <3>2
  <2> QED BY <2>1, <2>2, <2>3 DEF NoAliasing
<1>12. ReservedUnmapped'
  <2> SUFFICES ASSUME NEW p \in 0 .. RESERVED_PAGES - 1, Has(p)' PROVE FALSE
    BY DEF ReservedUnmapped
  <2>1. RESERVED_PAGES - 1 <= last
    BY HeapPages DEF last
  <2>2. p \notin fresh /\ p \in PageIdx
    BY <1>1, <2>1, SizesAssumption, PagesAssumption DEF fresh, PageIdx
  <2>3. pages'[p] = pages[p]
    BY <1>10, <2>2
  <2> QED BY <2>2, <2>3 DEF IInv, ReservedUnmapped, Has
<1>13. ArenaBudget'
  <2>1. ASSUME NEW p \in Mapped' PROVE pages'[p].raw <= extraPageIndex'
    <3>0. p \in PageIdx
      BY DEF Mapped
    <3>1. CASE p \in fresh
      BY <1>1, <1>2, <1>9, <1>10, <3>0, <3>1
    <3>2. CASE p \notin fresh
      <4>1. p \in Mapped /\ pages'[p] = pages[p]
        BY <1>10, <3>0, <3>2
      <4>2. pages[p].raw <= extraPageIndex /\ pages[p].raw \in RawId
        BY <1>4, <4>1 DEF IInv, ArenaBudget, Mapped, Has, Page
      <4>3. pages[p].raw \in Int
        BY <4>2 DEF RawId
      <4> QED BY <1>4, <1>9, <4>1, <4>2, <4>3 DEF RawId
    <3> QED BY <3>1, <3>2
  <2>2. ASSUME NEW i \in 1 .. Len(free') PROVE free'[i] <= extraPageIndex'
    <3>1. free'[i] = free[i] /\ free[i] <= extraPageIndex /\ free[i] \in RawId
      BY <1>4, <1>8 DEF IInv, ArenaBudget, L
    <3> QED BY <1>4, <1>9, <3>1 DEF RawId
  <2>3. extraPageIndex' <= PREALLOC + NUM_PAGES + lastAllocatedPage'
    BY <1>9
  <2> QED BY <2>1, <2>2, <2>3 DEF ArenaBudget
<1>14. ArenaZeroed'
  <2>1. ASSUME NEW r \in RawId \cup {EMPTY_RAW},
               r > extraPageIndex' \/ \E i \in 1 .. Len(free') : free'[i] = r
        PROVE  Unissued(r)
    <3>1. r \in Int /\ extraPageIndex' \in Int /\ extraPageIndex \in Int
      BY <1>4, <1>9 DEF RawId, EMPTY_RAW
    <3>2. CASE r > extraPageIndex'
      <4>1. r > extraPageIndex
        BY <1>9, <3>1, <3>2
      <4> QED BY <4>1 DEF Unissued
    <3>3. CASE \E i \in 1 .. Len(free') : free'[i] = r
      BY <1>8, <3>3 DEF Unissued, L
    <3> QED BY <2>1, <3>2, <3>3
  <2>2. chunks.raw \in RawId \cup {EMPTY_RAW}
    BY DEF IInv, TypeOK
  <2> QED BY <2>1, <2>2 DEF IInv, ArenaZeroed, Unissued
<1> QED BY <1>6, <1>7, <1>8, <1>9, <1>11, <1>12, <1>13, <1>14

LEMMA SbrkKeepsInv ==
  ASSUME IInv, NEW amount \in Addr, Sbrk(amount)
  PROVE  IInv'
<1> DEFINE new == sbrkAddress + amount
           top == PageOf(new - 1)
           moves == amount # 0 /\ ~(new > layout.maxHeap)
<1>1. /\ faultRes' = IF amount # 0 /\ new > layout.maxHeap THEN SbrkFault ELSE NoFault
      /\ sbrkAddress' = IF moves THEN new ELSE sbrkAddress
      /\ lastAllocatedPage' = IF moves THEN top ELSE lastAllocatedPage
      /\ IF moves /\ top # lastAllocatedPage
         THEN MapFresh(top) ELSE UNCHANGED <<pages, cache, free, extraPageIndex>>
      /\ UNCHANGED <<layout, data, chunks, freed>>
  BY DEF Sbrk
<1>2. faultRes' \in [isFault : BOOLEAN, isAccess : BOOLEAN, fault : Addr]
  BY <1>1, MemorySize DEF SbrkFault, NoFault, Addr
<1>3. TypeOK /\ CacheGood(cache, pages)
  BY InvCacheGood DEF IInv
<1> HIDE DEF moves
<1>4. CASE ~moves
  <2>1. UNCHANGED <<layout, pages, cache, free, extraPageIndex, data, sbrkAddress,
                    lastAllocatedPage, chunks, freed>>
    BY <1>1, <1>4
  <2> QED BY <1>2, <1>3, <2>1, AccessKeepsInv, QuietSpares DEF TypeOK
<1>5. CASE moves
  <2>0. /\ sbrkAddress \in Nat /\ amount \in Nat \ {0} /\ new <= layout.maxHeap
        /\ layout.maxHeap \in Int /\ layout.maxHeap \in Addr /\ new > 0
        /\ layout.sbrk \in Int /\ layout.sbrk <= sbrkAddress
        /\ new \in Addr /\ new - 1 \in Addr /\ sbrkAddress <= new - 1
    <3>1. layout.maxHeap \in Addr
      BY HeapPages
    <3>2. sbrkAddress \in Nat /\ layout.maxHeap \in Nat /\ layout.maxHeap <= MEMORY_SIZE - 1
      BY <1>3, <3>1, MemorySize DEF TypeOK, Addr
    <3>3. layout.sbrk \in Int /\ layout.sbrk <= sbrkAddress
      BY LayoutsAssumption, MemorySize, SizesAssumption, PagesAssumption DEF IInv, TypeOK, HeapPointer, IsLayout
    <3>4. amount \in Nat \ {0} /\ new <= layout.maxHeap
      BY <1>5, <3>2 DEF moves, Addr
    <3> QED BY <3>1, <3>2, <3>3, <3>4, MemorySize DEF Addr
  <2>1. /\ top \in PageIdx /\ PageOf(new) \in PageIdx /\ PageOf(sbrkAddress) \in PageIdx
        /\ top \in {PageOf(new) - 1, PageOf(new)}
        /\ PageOf(sbrkAddress) <= top /\ PageOf(layout.sbrk) <= top
    <3>1. new \in Addr /\ new - 1 \in Addr /\ sbrkAddress \in Addr /\ new > 0
      BY <1>3, <2>0 DEF TypeOK
    <3> HIDE DEF new
    <3>2. layout.sbrk <= new - 1 /\ new - 1 \in Int /\ sbrkAddress \in Int
      BY <2>0, <3>1, PageIdxInt DEF Addr
    <3>4. PageOf(sbrkAddress) <= top /\ PageOf(layout.sbrk) <= top
      BY <2>0, <3>2, PageMonotone
    <3> QED BY <3>1, <3>2, <3>4, AddrInPage, PageBefore
  <2> HIDE DEF top, new
  <2>2. lastAllocatedPage <= top
    <3>1. /\ lastAllocatedPage \in {PageOf(sbrkAddress) - 1, PageOf(sbrkAddress)}
      BY DEF IInv, HeapPointer
    <3>2. PageOf(sbrkAddress) \in Int /\ top \in Int
      BY <2>1, PageIdxInt
    <3> QED BY <2>1, <3>1, <3>2
  <2>3. HeapPointer'
    <3>1. sbrkAddress' = new /\ lastAllocatedPage' = top /\ layout' = layout
      BY <1>1, <1>5
    <3>2. new \in layout.sbrk .. layout.maxHeap
      BY <2>0 DEF new
    <3> QED BY <2>1, <3>1, <3>2 DEF HeapPointer
  <2>4. CASE top = lastAllocatedPage
    <3>1. /\ UNCHANGED <<layout, pages, cache, free, extraPageIndex, data,
                         lastAllocatedPage, chunks, freed>>
          /\ sbrkAddress' = new
      BY <1>1, <1>5, <2>4
    <3>2. TypeOK'
      BY <1>2, <1>3, <2>0, <3>1 DEF TypeOK
    <3>3. CacheCoherent' /\ NoAliasing' /\ ReservedUnmapped' /\ ArenaBudget'
      BY <3>1 DEF IInv, CacheCoherent, NoAliasing, ReservedUnmapped, ArenaBudget, Mapped, Has
    <3>4. ArenaZeroed'
      BY <3>1, QuietSpares, AccessKeepsZeros
    <3> QED BY <2>3, <3>2, <3>3, <3>4 DEF IInv
  <2>5. CASE top # lastAllocatedPage
    <3>1. /\ MapFresh(top) /\ UNCHANGED <<layout, data, chunks, freed>>
          /\ lastAllocatedPage' = top /\ sbrkAddress' = new
      BY <1>1, <1>5, <2>5
    <3>2. top > lastAllocatedPage
      BY <1>3, <2>1, <2>2, <2>5, PageIdxInt DEF TypeOK
    <3>3. /\ pages' \in [PageIdx -> Page \cup {EMPTY_PAGE}]
          /\ CacheGood(cache', pages')
          /\ free' \in Seq(RawId) /\ extraPageIndex' \in RawId
          /\ NoAliasing' /\ ReservedUnmapped' /\ ArenaBudget' /\ ArenaZeroed'
      BY <2>1, <3>1, <3>2, MapFreshKeeps
    <3>4. TypeOK'
      BY <1>2, <1>3, <2>0, <2>1, <3>1, <3>3 DEF TypeOK, CacheGood
    <3>5. CacheCoherent'
      BY <3>3 DEF CacheGood, CacheCoherent, Has
    <3> QED BY <2>3, <3>3, <3>4, <3>5 DEF IInv
  <2> QED BY <2>4, <2>5
<1> QED BY <1>4, <1>5

-----------------------------------------------------------------------------
(* free keeps the invariant.                                               *)

LEMMA FreeKeepsInv ==
  ASSUME IInv, Free
  PROVE  IInv'
<1> DEFINE c == Cardinality(Mapped)
           L == Len(free)
<1>1. c \in Nat
  <2>1. IsFiniteSet(PageIdx)
    BY FS_Interval, SizesAssumption, PagesAssumption DEF PageIdx
  <2>2. Mapped \in SUBSET PageIdx
    BY DEF Mapped
  <2> QED BY <2>1, <2>2, FS_Subset, FS_CardinalityType
<1>2. PICK order \in [1 .. c -> Mapped] :
        /\ \A i, j \in 1 .. c : order[i] = order[j] => i = j
        /\ free' = free \o [i \in 1 .. c |-> pages[order[i]].raw]
  BY DEF Free
<1>3. /\ pages' = [p \in PageIdx |-> EMPTY_PAGE] /\ cache' = EmptyCache
      /\ freed' = TRUE /\ faultRes' = NoFault
      /\ UNCHANGED <<layout, extraPageIndex, data, sbrkAddress, lastAllocatedPage, chunks>>
  BY DEF Free
<1> HIDE DEF c, L
<1>4. \A i \in 1 .. c : order[i] \in Mapped /\ pages[order[i]].raw \in RawId
  BY <1>2 DEF IInv, TypeOK, Mapped, Has, Page
<1>5. /\ free \in Seq(RawId) /\ L = Len(free) /\ L \in Nat
      /\ [i \in 1 .. c |-> pages[order[i]].raw] \in Seq(RawId)
      /\ Len([i \in 1 .. c |-> pages[order[i]].raw]) = c
  BY <1>1, <1>4 DEF IInv, TypeOK, L
<1>6. /\ free' \in Seq(RawId) /\ Len(free') = L + c
      /\ \A i \in 1 .. L : free'[i] = free[i]
      /\ \A i \in L + 1 .. L + c : i - L \in 1 .. c /\ free'[i] = pages[order[i - L]].raw
  <2> DEFINE released == [i \in 1 .. c |-> pages[order[i]].raw]
  <2>1. \A i \in 1 .. c : released[i] = pages[order[i]].raw
    OBVIOUS
  <2>2. released \in Seq(RawId) /\ Len(released) = c /\ free' = free \o released
    BY <1>2, <1>5
  <2> HIDE DEF released
  <2>3. /\ free' \in Seq(RawId) /\ Len(free') = L + c
        /\ \A i \in 1 .. L : free'[i] = free[i]
        /\ \A i \in L + 1 .. L + c : free'[i] = released[i - L]
    <3>1. /\ free \o released \in Seq(RawId) /\ Len(free \o released) = L + c
          /\ \A i \in 1 .. L + c : (free \o released)[i] =
                                    IF i <= L THEN free[i] ELSE released[i - L]
      BY <1>5, <2>2, ConcatProperties
    <3>2. /\ \A i \in 1 .. L : i \in 1 .. L + c /\ i <= L
          /\ \A i \in L + 1 .. L + c : i \in 1 .. L + c /\ ~(i <= L)
      BY <1>1, <1>5
    <3> QED BY <2>2, <3>1, <3>2
  <2>4. \A i \in L + 1 .. L + c : i - L \in 1 .. c
    BY <1>1, <1>5
  <2> QED BY <2>1, <2>3, <2>4
<1>7. ~Has(0)' /\ Mapped' = {} /\ \A p : ~Has(p)'
  BY <1>3 DEF Mapped, Has
<1>8. TypeOK'
  <2>1. CacheGood(EmptyCache, pages)
    BY EmptyCacheGood
  <2>2. NoFault \in [isFault : BOOLEAN, isAccess : BOOLEAN, fault : Addr]
    BY MemorySize DEF NoFault, Addr
  <2> QED BY <1>3, <1>6, <2>1, <2>2 DEF IInv, TypeOK, CacheGood
<1>9. CacheCoherent'
  BY <1>3 DEF CacheCoherent, EmptyCache
<1>10. NoAliasing'
  <2>1. ASSUME NEW i \in 1 .. L + c, NEW j \in 1 .. L + c, free'[i] = free'[j]
        PROVE  i = j
    <3>1. CASE i <= L /\ j <= L
      <4>1. i \in 1 .. L /\ j \in 1 .. L /\ free[i] = free[j]
        BY <1>1, <1>5, <1>6, <2>1, <3>1
      <4> QED BY <4>1 DEF IInv, NoAliasing, L
    <3>2. CASE i <= L /\ ~(j <= L)
      <4>1. i \in 1 .. L /\ j \in L + 1 .. L + c
        BY <1>1, <1>5, <3>2
      <4>2. free[i] = pages[order[j - L]].raw /\ order[j - L] \in Mapped
        BY <1>4, <1>6, <2>1, <4>1
      <4> QED BY <4>1, <4>2 DEF IInv, NoAliasing, L
    <3>3. CASE ~(i <= L) /\ j <= L
      <4>1. j \in 1 .. L /\ i \in L + 1 .. L + c
        BY <1>1, <1>5, <3>3
      <4>2. free[j] = pages[order[i - L]].raw /\ order[i - L] \in Mapped
        BY <1>4, <1>6, <2>1, <4>1
      <4> QED BY <4>1, <4>2 DEF IInv, NoAliasing, L
    <3>4. CASE ~(i <= L) /\ ~(j <= L)
      <4>1. i \in L + 1 .. L + c /\ j \in L + 1 .. L + c
        BY <1>1, <1>5, <3>4
      <4>2. /\ i - L \in 1 .. c /\ j - L \in 1 .. c
            /\ pages[order[i - L]].raw = pages[order[j - L]].raw
            /\ order[i - L] \in Mapped /\ order[j - L] \in Mapped
        BY <1>4, <1>6, <2>1, <4>1
      <4>3. order[i - L] = order[j - L]
        BY <4>2 DEF IInv, NoAliasing
      <4>4. i - L = j - L
        BY <1>2, <4>2, <4>3
      <4> QED BY <1>1, <1>5, <4>4
    <3> QED BY <3>1, <3>2, <3>3, <3>4
  <2> QED BY <1>6, <1>7, <2>1 DEF NoAliasing
<1>11. ReservedUnmapped'
  BY <1>7 DEF ReservedUnmapped
<1>12. HeapPointer'
  BY <1>3 DEF IInv, HeapPointer
<1>13. ArenaBudget'
  <2>1. ASSUME NEW i \in 1 .. L + c PROVE free'[i] <= extraPageIndex
    <3>1. CASE i <= L
      <4>1. i \in 1 .. L /\ free'[i] = free[i]
        BY <1>1, <1>5, <1>6, <3>1
      <4> QED BY <4>1 DEF IInv, ArenaBudget, L
    <3>2. CASE ~(i <= L)
      <4>1. i \in L + 1 .. L + c
        BY <1>1, <1>5, <3>2
      <4>2. free'[i] = pages[order[i - L]].raw /\ order[i - L] \in Mapped
        BY <1>4, <1>6, <4>1
      <4> QED BY <4>2 DEF IInv, ArenaBudget
    <3> QED BY <3>1, <3>2
  <2> QED BY <1>3, <1>6, <1>7, <2>1 DEF IInv, ArenaBudget
<1>14. ArenaZeroed'
  BY <1>3 DEF ArenaZeroed
<1> QED BY <1>8, <1>9, <1>10, <1>11, <1>12, <1>13, <1>14 DEF IInv

-----------------------------------------------------------------------------
(* The constructor establishes the invariant.                              *)

\* The facts of a layout the proofs use.
LEMMA LayoutFacts ==
  ASSUME NEW l \in Layouts
  PROVE  /\ Len(l.pages) \in Nat /\ Len(l.pages) <= NUM_PAGES
         /\ \A i \in 1 .. Len(l.pages) : /\ l.pages[i].idx \in PageIdx
                                         /\ l.pages[i].idx >= RESERVED_PAGES
                                         /\ l.pages[i].access \in AccessKind
                                         /\ l.pages[i].fill \in Byte
         /\ \A i, j \in 1 .. Len(l.pages) : l.pages[i].idx = l.pages[j].idx => i = j
         /\ l.sbrk \in Addr /\ l.maxHeap \in Addr /\ l.sbrk <= l.maxHeap
<1>1. IsLayout(l)
  BY LayoutsAssumption
<1>2. l.pages \in Seq([idx : RESERVED_PAGES .. NUM_PAGES - 1, access : AccessKind, fill : Byte])
  BY <1>1 DEF IsLayout
<1>3. \A i \in 1 .. Len(l.pages) :
        l.pages[i] \in [idx : RESERVED_PAGES .. NUM_PAGES - 1, access : AccessKind, fill : Byte]
  BY <1>2, ElementOfSeq
<1>4. \A i \in 1 .. Len(l.pages) : /\ l.pages[i].idx \in RESERVED_PAGES .. NUM_PAGES - 1
                                   /\ l.pages[i].access \in AccessKind
                                   /\ l.pages[i].fill \in Byte
  BY <1>3
<1>5. RESERVED_PAGES \in Nat \ {0} /\ NUM_PAGES \in Nat
  BY SizesAssumption, PagesAssumption
<1>6. l.sbrk \in Addr /\ l.maxHeap \in Addr /\ l.sbrk <= l.maxHeap
  <2>1. RESERVED_PAGES * PAGE_SIZE \in Nat
    BY SizesAssumption, PagesAssumption
  <2> QED BY <1>1, <2>1, MemorySize DEF IsLayout, Addr
<1> QED BY <1>1, <1>2, <1>4, <1>5, <1>6 DEF IsLayout, PageIdx

\* Built pages get raw pages of their own.
LEMMA BuiltRawInjective ==
  \A i, j \in Nat \ {0} : BuiltRaw(i) \in Nat /\ (BuiltRaw(i) = BuiltRaw(j) => i = j)
BY SizesAssumption, PagesAssumption DEF BuiltRaw

LEMMA BuiltPagesFacts ==
  ASSUME NEW l \in Layouts
  PROVE  /\ BuiltPages(l) \in [PageIdx -> Page \cup {EMPTY_PAGE}]
         /\ \A p \in PageIdx : BuiltPages(l)[p] # EMPTY_PAGE =>
              \E i \in 1 .. Len(l.pages) : /\ l.pages[i].idx = p
                                           /\ BuiltPages(l)[p].raw = BuiltRaw(i)
                                           /\ BuiltPages(l)[p].access = l.pages[i].access
         /\ \A i \in 1 .. Len(l.pages) : BuiltPages(l)[l.pages[i].idx] # EMPTY_PAGE
<1> DEFINE N == Len(l.pages)
           Idx(p) == CHOOSE i \in 1 .. N : l.pages[i].idx = p
<1>1. /\ N \in Nat /\ N <= NUM_PAGES /\ PREALLOC \in Nat /\ NUM_PAGES \in Nat
      /\ \A i \in 1 .. N : l.pages[i].idx \in PageIdx /\ l.pages[i].access \in AccessKind
  BY LayoutFacts, SizesAssumption, PagesAssumption
<1> HIDE DEF N
<1>2. \A p \in PageIdx : (\E i \in 1 .. N : l.pages[i].idx = p) =>
        Idx(p) \in 1 .. N /\ l.pages[Idx(p)].idx = p
  OBVIOUS
<1>3. \A p \in PageIdx :
        BuiltPages(l)[p] = IF \E i \in 1 .. N : l.pages[i].idx = p
                           THEN [access |-> l.pages[Idx(p)].access, raw |-> BuiltRaw(Idx(p))]
                           ELSE EMPTY_PAGE
  BY DEF BuiltPages, N
<1> HIDE DEF Idx
<1>4. \A i \in 1 .. N : BuiltRaw(i) \in RawId
  BY <1>1 DEF BuiltRaw, RawId
<1>5. \A r \in RawId : r # EMPTY_RAW
  BY <1>1 DEF RawId, EMPTY_RAW
<1>6. \A p \in PageIdx : (\E i \in 1 .. N : l.pages[i].idx = p) =>
        BuiltPages(l)[p] \in Page /\ BuiltPages(l)[p] # EMPTY_PAGE
  <2> SUFFICES ASSUME NEW p \in PageIdx, \E i \in 1 .. N : l.pages[i].idx = p
               PROVE  BuiltPages(l)[p] \in Page /\ BuiltPages(l)[p] # EMPTY_PAGE
    OBVIOUS
  <2>1. BuiltPages(l)[p] = [access |-> l.pages[Idx(p)].access, raw |-> BuiltRaw(Idx(p))]
    BY <1>3
  <2>2. l.pages[Idx(p)].access \in AccessKind /\ BuiltRaw(Idx(p)) \in RawId
    BY <1>1, <1>2, <1>4
  <2> QED BY <1>5, <2>1, <2>2 DEF Page, EMPTY_PAGE
<1>7. BuiltPages(l) \in [PageIdx -> Page \cup {EMPTY_PAGE}]
  <2>1. BuiltPages(l) = [p \in PageIdx |-> BuiltPages(l)[p]]
    BY DEF BuiltPages
  <2> QED BY <1>3, <1>6, <2>1
<1> QED BY <1>1, <1>2, <1>3, <1>6, <1>7 DEF N

LEMMA FilledCacheGood ==
  ASSUME NEW l \in Layouts
  PROVE  CacheGood(FilledCache(l), BuiltPages(l))
<1> DEFINE N == Len(l.pages)
<1> SUFFICES ASSUME NEW s \in Slots
             PROVE  /\ FilledCache(l)[s] \in [tag : PageIdx \cup {EMPTY_TAG}, page : Page \cup {EMPTY_PAGE}]
                    /\ \/ FilledCache(l)[s] = EMPTY_SLOT
                       \/ \E p \in PageIdx :
                            /\ BuiltPages(l)[p] # EMPTY_PAGE /\ Slot(p) = s
                            /\ FilledCache(l)[s] = [tag |-> p, page |-> BuiltPages(l)[p]]
  <2>1. FilledCache(l) = [s \in Slots |-> FilledCache(l)[s]]
    BY DEF FilledCache
  <2> QED BY <2>1 DEF CacheGood
<1> DEFINE Last(i) == /\ Slot(l.pages[i].idx) = s
                      /\ \A j \in i + 1 .. N : Slot(l.pages[j].idx) # s
           h == CHOOSE i \in 1 .. N : Last(i)
<1>1. FilledCache(l)[s] = IF \E i \in 1 .. N : Last(i)
                          THEN [tag |-> l.pages[h].idx, page |-> BuiltPages(l)[l.pages[h].idx]]
                          ELSE EMPTY_SLOT
  BY DEF FilledCache
<1>2. CASE \E i \in 1 .. N : Last(i)
  <2>1. h \in 1 .. N /\ Slot(l.pages[h].idx) = s
    BY <1>2
  <2>2. /\ l.pages[h].idx \in PageIdx
        /\ BuiltPages(l)[l.pages[h].idx] # EMPTY_PAGE
        /\ BuiltPages(l)[l.pages[h].idx] \in Page \cup {EMPTY_PAGE}
    <3> HIDE DEF h
    <3>1. l.pages[h].idx \in PageIdx
      BY <2>1, LayoutFacts
    <3>2. BuiltPages(l)[l.pages[h].idx] # EMPTY_PAGE
      BY <2>1, BuiltPagesFacts
    <3>3. BuiltPages(l) \in [PageIdx -> Page \cup {EMPTY_PAGE}]
      BY BuiltPagesFacts
    <3> QED BY <3>1, <3>2, <3>3
  <2> HIDE DEF h
  <2> QED BY <1>1, <1>2, <2>1, <2>2
<1>3. CASE ~ \E i \in 1 .. N : Last(i)
  BY <1>1, <1>3 DEF EMPTY_SLOT
<1> QED BY <1>2, <1>3

LEMMA InitEstablishesInv == Init => IInv
<1> SUFFICES ASSUME Init PROVE IInv
  OBVIOUS
<1> DEFINE l == layout
           N == Len(l.pages)
<1>1. /\ l \in Layouts /\ pages = BuiltPages(l)
      /\ cache \in {FilledCache(l), EmptyCache}
      /\ free = IF N < PREALLOC THEN [j \in 1 .. PREALLOC - N |-> PREALLOC - j] ELSE <<>>
      /\ extraPageIndex = IF N > PREALLOC THEN N ELSE PREALLOC
      /\ data = BuiltData(l) /\ sbrkAddress = l.sbrk
      /\ lastAllocatedPage = IF BuiltPages(l)[PageOf(l.sbrk)] # EMPTY_PAGE
                             THEN PageOf(l.sbrk) ELSE PageOf(l.sbrk) - 1
      /\ chunks = NoChunk /\ faultRes = NoFault /\ freed = FALSE
  BY DEF Init
<1>2. /\ N \in Nat /\ N <= NUM_PAGES /\ PREALLOC \in Nat /\ NUM_PAGES \in Nat \ {0}
      /\ RESERVED_PAGES \in Nat \ {0} /\ l.sbrk \in Addr /\ l.maxHeap \in Addr /\ l.sbrk <= l.maxHeap
  BY <1>1, LayoutFacts, SizesAssumption, PagesAssumption
<1>3. CacheGood(cache, pages)
  BY <1>1, FilledCacheGood, EmptyCacheGood
<1>4. /\ pages \in [PageIdx -> Page \cup {EMPTY_PAGE}]
      /\ \A p \in Mapped : \E i \in 1 .. N : l.pages[i].idx = p /\ pages[p].raw = BuiltRaw(i)
  BY <1>1, BuiltPagesFacts DEF Mapped, Has
<1>5. /\ free \in Seq(RawId)
      /\ Len(free) = (IF N < PREALLOC THEN PREALLOC - N ELSE 0)
      /\ \A i \in 1 .. Len(free) : free[i] = PREALLOC - i /\ N < PREALLOC /\ i <= PREALLOC - N
  <2>1. CASE N < PREALLOC
    <3>1. free = [j \in 1 .. PREALLOC - N |-> PREALLOC - j] /\ PREALLOC - N \in Nat
      BY <1>1, <1>2, <2>1
    <3>2. \A j \in 1 .. PREALLOC - N : PREALLOC - j \in RawId
      BY <1>2 DEF RawId
    <3>3. free \in Seq(RawId) /\ Len(free) = PREALLOC - N
      BY <3>1, <3>2
    <3> QED BY <2>1, <3>1, <3>3
  <2>2. CASE ~(N < PREALLOC)
    BY <1>1, <1>2, <2>2
  <2> QED BY <2>1, <2>2
<1>6. /\ PageOf(l.sbrk) \in PageIdx /\ PageOf(l.sbrk) >= RESERVED_PAGES
      /\ lastAllocatedPage \in {PageOf(l.sbrk), PageOf(l.sbrk) - 1}
  <2>1. PageOf(l.sbrk) \in PageIdx
    BY <1>2, AddrInPage
  <2>2. (RESERVED_PAGES * PAGE_SIZE) \div PAGE_SIZE = RESERVED_PAGES
        /\ RESERVED_PAGES * PAGE_SIZE \in Int
    BY SizesAssumption, PagesAssumption
  <2>3. l.sbrk \in RESERVED_PAGES * PAGE_SIZE .. MEMORY_SIZE - 1
    BY <1>1, LayoutsAssumption DEF IsLayout
  <2>4. PageOf(RESERVED_PAGES * PAGE_SIZE) <= PageOf(l.sbrk)
    <3> DEFINE base == RESERVED_PAGES * PAGE_SIZE
    <3>1. base \in Int /\ l.sbrk \in Int /\ base <= l.sbrk
      BY <2>2, <2>3, MemorySize
    <3> HIDE DEF base
    <3>2. PageOf(base) <= PageOf(l.sbrk)
      BY <3>1, PageMonotone
    <3> QED BY <3>2 DEF base
  <2>5. PageOf(RESERVED_PAGES * PAGE_SIZE) = RESERVED_PAGES
    BY <2>2 DEF PageOf
  <2>6. PageOf(l.sbrk) \in Int
    BY <2>1, PageIdxInt
  <2> QED BY <1>1, <1>2, <2>1, <2>4, <2>5, <2>6
<1> HIDE DEF N, l
<1>7. TypeOK
  <2>1. data \in [RawId -> [Offset -> Byte]]
    <3>1. 0 \in Byte
      BY SizesAssumption, PagesAssumption DEF Byte
    <3>2. \A r \in RawId : (\E i \in 1 .. N : BuiltRaw(i) = r) =>
            l.pages[CHOOSE i \in 1 .. N : BuiltRaw(i) = r].fill \in Byte
      BY <1>1, LayoutFacts DEF N
    <3>3. data = [r \in RawId |-> IF \E i \in 1 .. N : BuiltRaw(i) = r
                    THEN [o \in Offset |-> l.pages[CHOOSE i \in 1 .. N : BuiltRaw(i) = r].fill]
                    ELSE [o \in Offset |-> 0]]
      BY <1>1 DEF BuiltData, N
    <3> QED BY <3>1, <3>2, <3>3
  <2>2. extraPageIndex \in RawId
    BY <1>1, <1>2 DEF RawId
  <2>3. lastAllocatedPage \in PageIdx
    BY <1>2, <1>6 DEF PageIdx
  <2>4. /\ chunks \in [raw : RawId \cup {EMPTY_RAW}, end : Offset]
        /\ chunks.end = 0
    BY <1>1, SizesAssumption, PagesAssumption DEF NoChunk, Offset
  <2>5. faultRes \in [isFault : BOOLEAN, isAccess : BOOLEAN, fault : Addr]
    BY <1>1, MemorySize DEF NoFault, Addr
  <2>6. layout \in Layouts /\ sbrkAddress \in Addr /\ freed \in BOOLEAN
    BY <1>1, <1>2 DEF l
  <2>7. cache \in [Slots -> [tag : PageIdx \cup {EMPTY_TAG}, page : Page \cup {EMPTY_PAGE}]]
    BY <1>3 DEF CacheGood
  <2>8. chunks.end > 0 => chunks.raw \in RawId
    BY <2>4
  <2> QED BY <1>4, <1>5, <2>1, <2>2, <2>3, <2>4, <2>5, <2>6, <2>7, <2>8 DEF TypeOK
<1>8. CacheCoherent
  BY <1>3, CacheGoodCoherent
<1>9. \A i \in 1 .. N : i \in Nat \ {0} /\ BuiltRaw(i) \in Nat
  BY <1>2, BuiltRawInjective
<1>10. NoAliasing
  <2>1. \A p, q \in Mapped : pages[p].raw = pages[q].raw => p = q
    BY <1>4, <1>9, BuiltRawInjective
  <2>2. \A i, j \in 1 .. Len(free) : free[i] = free[j] => i = j
    BY <1>2, <1>5
  <2>3. \A p \in Mapped, i \in 1 .. Len(free) : pages[p].raw # free[i]
    BY <1>2, <1>4, <1>5, <1>9 DEF BuiltRaw
  <2> QED BY <2>1, <2>2, <2>3 DEF NoAliasing
<1>11. ReservedUnmapped
  <2>1. \A p \in Mapped : p >= RESERVED_PAGES
    BY <1>1, <1>4, LayoutFacts DEF N
  <2> QED BY <1>2, <2>1 DEF ReservedUnmapped, Mapped, Has
<1>12. HeapPointer
  <2>1. sbrkAddress \in layout.sbrk .. layout.maxHeap
    BY <1>1, <1>2 DEF l, Addr
  <2>2. PageOf(layout.sbrk) \in Int
    BY <1>6, PageIdxInt DEF l
  <2> QED BY <1>1, <1>6, <2>1, <2>2 DEF HeapPointer, l
<1>13. ArenaBudget
  <2>1. \A p \in Mapped : pages[p].raw <= extraPageIndex
    BY <1>1, <1>2, <1>4, <1>9 DEF BuiltRaw
  <2>2. \A i \in 1 .. Len(free) : free[i] <= extraPageIndex
    BY <1>1, <1>2, <1>5
  <2>3. extraPageIndex <= PREALLOC + NUM_PAGES + lastAllocatedPage
    <3>1. lastAllocatedPage \in Nat
      BY <1>2, <1>6 DEF PageIdx
    <3> QED BY <1>1, <1>2, <3>1
  <2> QED BY <2>1, <2>2, <2>3 DEF ArenaBudget
<1>14. ArenaZeroed
  <2>1. ASSUME NEW r \in RawId, Unissued(r), NEW i \in 1 .. N PROVE BuiltRaw(i) # r
    <3>1. CASE r > extraPageIndex
      BY <1>1, <1>2, <3>1 DEF BuiltRaw, RawId
    <3>2. CASE \E j \in 1 .. Len(free) : free[j] = r
      BY <1>2, <1>5, <3>2 DEF BuiltRaw, RawId
    <3> QED BY <2>1, <3>1, <3>2 DEF Unissued
  <2>2. data = [r \in RawId |-> IF \E i \in 1 .. N : BuiltRaw(i) = r
                  THEN [o \in Offset |-> l.pages[CHOOSE i \in 1 .. N : BuiltRaw(i) = r].fill]
                  ELSE [o \in Offset |-> 0]]
    BY <1>1 DEF BuiltData, N
  <2>3. ~Unissued(chunks.raw)
    <3>1. chunks.raw = -1
      BY <1>1 DEF NoChunk, EMPTY_RAW
    <3>2. ~(-1 > extraPageIndex)
      BY <1>1, <1>2
    <3>3. \A i \in 1 .. Len(free) : free[i] # -1
      BY <1>2, <1>5
    <3> QED BY <3>1, <3>2, <3>3 DEF Unissued
  <2> QED BY <2>1, <2>2, <2>3 DEF ArenaZeroed
<1> QED BY <1>7, <1>8, <1>10, <1>11, <1>12, <1>13, <1>14 DEF IInv

-----------------------------------------------------------------------------

LEMMA StepKeepsInv == IInv /\ [Next]_vars => IInv'
<1> SUFFICES ASSUME IInv, [Next]_vars PROVE IInv'
  OBVIOUS
<1>1. CASE UNCHANGED vars
  BY <1>1 DEF vars, IInv, TypeOK, CacheCoherent, NoAliasing, ReservedUnmapped, HeapPointer,
              ArenaBudget, ArenaZeroed, Unissued, Mapped, Has
<1>2. ASSUME NEW a \in Addr, NEW n \in Sizes, Load(a, n) PROVE IInv'
  BY <1>2, LoadKeepsInv
<1>3. ASSUME NEW n \in Sizes, NEW a \in Addr, NEW v \in Values(n), Store(a, v) PROVE IInv'
  BY <1>3, StoreKeepsInv
<1>4. ASSUME NEW a \in Addr, NEW len \in 1 .. MaxRange, BytesRead(a, len) PROVE IInv'
  BY <1>4, RangesKeepInv
<1>5. ASSUME NEW a \in Addr, NEW len \in 1 .. MaxRange, NEW b \in Byte, BytesWrite(a, len, b)
      PROVE IInv'
  BY <1>5, RangesKeepInv
<1>6. ASSUME NEW i \in Addr, NEW mustRead \in BOOLEAN, ViewPage(i, mustRead) PROVE IInv'
  BY <1>6, ViewKeepsInv
<1>7. ASSUME NEW amount \in Addr, Sbrk(amount) PROVE IInv'
  BY <1>7, SbrkKeepsInv
<1>8. CASE Free
  BY <1>8, FreeKeepsInv
<1> QED BY <1>1, <1>2, <1>3, <1>4, <1>5, <1>6, <1>7, <1>8 DEF Next

\* The type invariant, the coherence of the page cache, the separation of raw
\* pages, the reserved pages and the heap's bookkeeping hold in every state of
\* every memory, after any sequence of calls.
THEOREM InvariantTheorem == Spec => []IInv
BY InitEstablishesInv, StepKeepsInv, PTL DEF Spec

\* The variables stay in their types.
THEOREM TypeTheorem == Spec => []TypeOK
<1>1. IInv => TypeOK
  BY DEF IInv
<1> QED BY <1>1, InvariantTheorem, PTL

\* No slot of the page cache ever outlives the page it was filled from.
THEOREM CacheCoherentTheorem == Spec => []CacheCoherent
<1>1. IInv => CacheCoherent
  BY DEF IInv
<1> QED BY <1>1, InvariantTheorem, PTL

\* Two mapped pages never share a raw page, and the arena never hands out one
\* that is in use.
THEOREM NoAliasingTheorem == Spec => []NoAliasing
<1>1. IInv => NoAliasing
  BY DEF IInv
<1> QED BY <1>1, InvariantTheorem, PTL

-----------------------------------------------------------------------------
(* The heap of a memory whose heap is clear.                               *)

\* sbrk has mapped pages up to the last byte it granted; in a clear heap what
\* is mapped beyond lies past the limit, and what it reached is writable.
HeapInv ==
  /\ sbrkAddress = layout.sbrk \/ PageOf(sbrkAddress - 1) <= lastAllocatedPage
  /\ HeapClear(layout) /\ ~freed =>
       /\ \A p \in Mapped : p > lastAllocatedPage => p * PAGE_SIZE >= layout.maxHeap
       /\ \A p \in PageOf(layout.sbrk) .. lastAllocatedPage :
            p * PAGE_SIZE < layout.maxHeap => pages[p].access = "Write"

\* A page starts at or below each of its addresses.
LEMMA PageStart ==
  ASSUME NEW a \in Addr, NEW p \in Int, p <= PageOf(a)
  PROVE  p * PAGE_SIZE <= a
<1>1. /\ PAGE_SIZE \in Nat \ {0} /\ a \in Int
  BY SizesAssumption, PagesAssumption, MemorySize DEF Addr
<1>2. PageOf(a) \in Int /\ a % PAGE_SIZE \in 0 .. PAGE_SIZE - 1
      /\ a = PAGE_SIZE * PageOf(a) + (a % PAGE_SIZE)
  BY <1>1, DivMod DEF PageOf
<1>3. PAGE_SIZE * p <= PAGE_SIZE * PageOf(a)
  BY <1>1, <1>2, TimesMonotone
<1>4. PAGE_SIZE * p = p * PAGE_SIZE
  BY <1>1
<1> QED BY <1>1, <1>2, <1>3, <1>4

LEMMA InitHeapInv == Init => HeapInv
<1> SUFFICES ASSUME Init PROVE HeapInv
  OBVIOUS
<1>1. /\ layout \in Layouts /\ pages = BuiltPages(layout) /\ sbrkAddress = layout.sbrk
      /\ lastAllocatedPage = IF BuiltPages(layout)[PageOf(layout.sbrk)] # EMPTY_PAGE
                             THEN PageOf(layout.sbrk) ELSE PageOf(layout.sbrk) - 1
  BY DEF Init
<1>2. PageOf(layout.sbrk) \in PageIdx /\ PageOf(layout.sbrk) \in Int
  BY <1>1, LayoutFacts, AddrInPage, PageIdxInt
<1>3. \A p \in Mapped : p \in Int /\ \E i \in 1 .. Len(layout.pages) :
        /\ layout.pages[i].idx = p /\ pages[p].access = layout.pages[i].access
  BY <1>1, BuiltPagesFacts, PageIdxInt DEF Mapped, Has
<1>4. ASSUME HeapClear(layout), NEW p \in Mapped, p > lastAllocatedPage
      PROVE  p * PAGE_SIZE >= layout.maxHeap
  <2>1. PICK i \in 1 .. Len(layout.pages) : layout.pages[i].idx = p
    BY <1>3
  <2>2. p # PageOf(layout.sbrk)
    BY <1>1, <1>2, <1>4 DEF Mapped, Has
  <2>3. ~(p < PageOf(layout.sbrk))
    BY <1>1, <1>2, <1>3, <1>4
  <2> QED BY <1>4, <2>1, <2>2, <2>3 DEF HeapClear
<1>5. ASSUME HeapClear(layout), NEW p \in PageOf(layout.sbrk) .. lastAllocatedPage,
             p * PAGE_SIZE < layout.maxHeap
      PROVE  pages[p].access = "Write"
  <2>1. p = PageOf(layout.sbrk) /\ p \in Mapped
    BY <1>1, <1>2 DEF Mapped, Has
  <2>2. PICK i \in 1 .. Len(layout.pages) :
          layout.pages[i].idx = p /\ pages[p].access = layout.pages[i].access
    BY <1>3, <2>1
  <2>3. ~(p * PAGE_SIZE >= layout.maxHeap)
    <3>1. p * PAGE_SIZE \in Int /\ layout.maxHeap \in Int
      BY <1>1, <1>2, <2>1, LayoutFacts, SizesAssumption, PagesAssumption, MemorySize DEF Addr
    <3> QED BY <1>5, <3>1
  <2> QED BY <1>2, <1>5, <2>1, <2>2, <2>3 DEF HeapClear
<1> QED BY <1>1, <1>4, <1>5 DEF HeapInv

\* What a call of sbrk that moves the pointer does to the map.
LEMMA SbrkMoves ==
  ASSUME IInv, NEW amount \in Addr, Sbrk(amount), sbrkAddress' # sbrkAddress
  PROVE  LET top == PageOf(sbrkAddress' - 1)
         IN /\ lastAllocatedPage' = top /\ top \in PageIdx /\ lastAllocatedPage \in PageIdx
            /\ lastAllocatedPage <= top /\ sbrkAddress' - 1 \in Addr
            /\ sbrkAddress' <= layout.maxHeap
            /\ layout' = layout /\ freed' = freed
            /\ \A p \in PageIdx :
                 /\ p \in lastAllocatedPage + 1 .. top => pages'[p].access = "Write"
                 /\ p \notin lastAllocatedPage + 1 .. top => pages'[p] = pages[p]
<1> DEFINE new == sbrkAddress + amount
           top == PageOf(new - 1)
<1>1. /\ amount # 0 /\ ~(new > layout.maxHeap) /\ sbrkAddress' = new
      /\ lastAllocatedPage' = top /\ UNCHANGED <<layout, freed>>
      /\ IF top # lastAllocatedPage THEN MapFresh(top) ELSE pages' = pages
  BY DEF Sbrk
<1>2. sbrkAddress \in Nat /\ amount \in Nat \ {0} /\ layout.maxHeap \in Addr
      /\ layout.maxHeap \in Nat
  BY <1>1, HeapPages, MemorySize DEF IInv, TypeOK, Addr
<1>3. new - 1 \in Addr /\ new <= layout.maxHeap /\ sbrkAddress <= new - 1 /\ new - 1 \in Int
  <2>1. layout.maxHeap <= MEMORY_SIZE - 1 /\ MEMORY_SIZE \in Int
    BY <1>2, MemorySize DEF Addr
  <2>2. new <= layout.maxHeap /\ new \in Int /\ sbrkAddress <= new - 1 /\ new - 1 >= 0
    BY <1>1, <1>2
  <2> HIDE DEF new
  <2> QED BY <1>2, <2>1, <2>2 DEF Addr
<1>4. top \in PageIdx /\ lastAllocatedPage \in PageIdx
  BY <1>3, AddrInPage DEF IInv, TypeOK
<1>5. lastAllocatedPage <= top
  <2> HIDE DEF new
  <2>1. PageOf(sbrkAddress) <= top
    BY <1>2, <1>3, PageMonotone
  <2>2. PageOf(sbrkAddress) \in Int /\ top \in Int /\ lastAllocatedPage \in Int
    BY <1>4, AddrInPage, PageIdxInt DEF IInv, TypeOK
  <2> QED BY <2>1, <2>2 DEF IInv, HeapPointer
<1>6. \A p \in PageIdx :
        /\ p \in lastAllocatedPage + 1 .. top => pages'[p].access = "Write"
        /\ p \notin lastAllocatedPage + 1 .. top => pages'[p] = pages[p]
  <2> HIDE DEF top
  <2>1. CASE top = lastAllocatedPage
    BY <1>1, <1>4, <2>1, PageIdxInt
  <2>2. CASE top # lastAllocatedPage
    BY <1>1, <2>2 DEF MapFresh
  <2> QED BY <2>1, <2>2
<1> QED BY <1>1, <1>3, <1>4, <1>5, <1>6

LEMMA StepKeepsHeapInv == IInv /\ HeapInv /\ [Next]_vars => HeapInv'
<1> SUFFICES ASSUME IInv, HeapInv, [Next]_vars PROVE HeapInv'
  OBVIOUS
<1>1. ASSUME UNCHANGED <<layout, pages, sbrkAddress, lastAllocatedPage>>, freed' = freed
      PROVE  HeapInv'
  BY <1>1 DEF HeapInv, HeapClear, Mapped, Has
<1>2. CASE UNCHANGED vars
  BY <1>1, <1>2 DEF vars
<1>3. ASSUME NEW a \in Addr, NEW n \in Sizes, Load(a, n) PROVE HeapInv'
  BY <1>1, <1>3 DEF Load
<1>4. ASSUME NEW n \in Sizes, NEW a \in Addr, NEW v \in Values(n), Store(a, v) PROVE HeapInv'
  BY <1>1, <1>4 DEF Store
<1>5. ASSUME NEW a \in Addr, NEW len \in 1 .. MaxRange, BytesRead(a, len) PROVE HeapInv'
  BY <1>1, <1>5 DEF BytesRead
<1>6. ASSUME NEW a \in Addr, NEW len \in 1 .. MaxRange, NEW b \in Byte, BytesWrite(a, len, b)
      PROVE HeapInv'
  BY <1>1, <1>6 DEF BytesWrite
<1>7. ASSUME NEW i \in Addr, NEW mustRead \in BOOLEAN, ViewPage(i, mustRead) PROVE HeapInv'
  BY <1>1, <1>7 DEF ViewPage
<1>8. CASE Free
  BY <1>8 DEF Free, HeapInv
<1>9. ASSUME NEW amount \in Addr, Sbrk(amount) PROVE HeapInv'
  <2>1. CASE sbrkAddress' = sbrkAddress
    <3>1. ~(amount # 0 /\ ~(sbrkAddress + amount > layout.maxHeap))
      BY <1>9, <2>1, MemorySize DEF Sbrk, IInv, TypeOK, Addr
    <3> QED BY <1>1, <1>9, <3>1 DEF Sbrk
  <2>2. CASE sbrkAddress' # sbrkAddress
    <3> DEFINE top == PageOf(sbrkAddress' - 1)
    <3>1. /\ lastAllocatedPage' = top /\ top \in PageIdx /\ lastAllocatedPage \in PageIdx
          /\ lastAllocatedPage <= top /\ layout' = layout /\ freed' = freed
          /\ \A p \in PageIdx :
               /\ p \in lastAllocatedPage + 1 .. top => pages'[p].access = "Write"
               /\ p \notin lastAllocatedPage + 1 .. top => pages'[p] = pages[p]
      BY <1>9, <2>2, SbrkMoves
    <3>2. sbrkAddress' = layout'.sbrk \/ PageOf(sbrkAddress' - 1) <= lastAllocatedPage'
      <4>1. top \in Int /\ PageOf(sbrkAddress' - 1) = top /\ lastAllocatedPage' = top
        BY <3>1, PageIdxInt
      <4> HIDE DEF top
      <4> QED BY <4>1
    <3> HIDE DEF top
    <3>3. top \in Int /\ lastAllocatedPage \in Int /\ PageIdx \subseteq Int
      BY <3>1, PageIdxInt
    <3>4. ASSUME HeapClear(layout), ~freed, NEW p \in Mapped', p > top
          PROVE  p * PAGE_SIZE >= layout.maxHeap
      <4>1. p \in PageIdx /\ p \notin lastAllocatedPage + 1 .. top /\ p > lastAllocatedPage
        BY <3>1, <3>3, <3>4 DEF Mapped
      <4>2. p \in Mapped
        BY <3>1, <4>1 DEF Mapped, Has
      <4> QED BY <3>4, <4>1, <4>2 DEF HeapInv
    <3>5. ASSUME HeapClear(layout), ~freed, NEW p \in PageOf(layout.sbrk) .. top,
                 p * PAGE_SIZE < layout.maxHeap
          PROVE  pages'[p].access = "Write"
      <4>1. PageOf(layout.sbrk) \in Int /\ p \in PageIdx
        <5>1. PageOf(layout.sbrk) \in PageIdx
          BY LayoutFacts, AddrInPage DEF IInv, TypeOK
        <5>2. /\ PageOf(layout.sbrk) \in Int /\ 0 <= PageOf(layout.sbrk)
              /\ NUM_PAGES \in Int /\ top <= NUM_PAGES - 1
          BY <3>1, <5>1, SizesAssumption, PagesAssumption DEF PageIdx
        <5> QED BY <3>3, <5>2 DEF PageIdx
      <4>2. CASE p \in lastAllocatedPage + 1 .. top
        BY <3>1, <4>1, <4>2
      <4>3. CASE p \notin lastAllocatedPage + 1 .. top
        <5>1. p \in PageOf(layout.sbrk) .. lastAllocatedPage
          BY <3>3, <4>1, <4>3
        <5> QED BY <3>1, <3>5, <4>1, <4>3, <5>1 DEF HeapInv
      <4> QED BY <4>2, <4>3
    <3> QED BY <3>1, <3>2, <3>4, <3>5 DEF HeapInv
  <2> QED BY <2>1, <2>2
<1> QED BY <1>2, <1>3, <1>4, <1>5, <1>6, <1>7, <1>8, <1>9 DEF Next

LEMMA HeapInvHolds == Spec => [](IInv /\ HeapInv)
<1>1. Init => IInv /\ HeapInv
  BY InitEstablishesInv, InitHeapInv
<1>2. IInv /\ HeapInv /\ [Next]_vars => (IInv /\ HeapInv)'
  BY StepKeepsInv, StepKeepsHeapInv
<1> QED BY <1>1, <1>2, PTL DEF Spec

\* Every byte sbrk has granted can be written, in a memory with a clear heap.
THEOREM GrantedWritableTheorem == Spec => []GrantedWritable
<1>1. IInv /\ HeapInv => GrantedWritable
  <2> SUFFICES ASSUME IInv, HeapInv, ~freed, HeapClear(layout),
                      NEW x \in layout.sbrk .. sbrkAddress - 1
               PROVE  Can(pages[PageOf(x)], "Write")
    BY DEF GrantedWritable
  <2>1. /\ layout.sbrk \in Addr /\ sbrkAddress \in Addr /\ layout.maxHeap \in Addr
        /\ sbrkAddress <= layout.maxHeap /\ lastAllocatedPage \in PageIdx
    BY LayoutFacts DEF IInv, TypeOK, HeapPointer
  <2>2. /\ x \in Addr /\ x \in Int /\ x <= sbrkAddress - 1 /\ sbrkAddress - 1 \in Addr
        /\ sbrkAddress - 1 \in Int /\ layout.sbrk \in Int /\ layout.sbrk <= x
        /\ sbrkAddress # layout.sbrk /\ x < layout.maxHeap
    BY <2>1, MemorySize DEF Addr
  <2>3. /\ PageOf(x) \in PageIdx /\ PageOf(sbrkAddress - 1) \in PageIdx
        /\ PageOf(layout.sbrk) \in PageIdx
    BY <2>1, <2>2, AddrInPage
  <2>4. PageOf(x) <= PageOf(sbrkAddress - 1) /\ PageOf(layout.sbrk) <= PageOf(x)
    BY <2>2, PageMonotone
  <2>5. PageOf(sbrkAddress - 1) <= lastAllocatedPage
    BY <2>2 DEF HeapInv
  <2>6. PageOf(x) \in PageOf(layout.sbrk) .. lastAllocatedPage
    <3>1. /\ PageOf(x) \in Int /\ PageOf(layout.sbrk) \in Int
          /\ PageOf(sbrkAddress - 1) \in Int /\ lastAllocatedPage \in Int
      BY <2>1, <2>3, PageIdxInt
    <3> QED BY <2>4, <2>5, <3>1
  <2>7. PageOf(x) * PAGE_SIZE < layout.maxHeap
    <3>1. PageOf(x) \in Int
      BY <2>3, PageIdxInt
    <3>2. PageOf(x) * PAGE_SIZE <= x
      <4> DEFINE p == PageOf(x)
      <4>1. p \in Int /\ p = PageOf(x)
        BY <3>1
      <4> HIDE DEF p
      <4>2. p <= PageOf(x)
        BY <3>1, <4>1
      <4>3. p * PAGE_SIZE <= x
        BY <2>2, <4>1, <4>2, PageStart
      <4> QED BY <4>1, <4>3
    <3>3. PageOf(x) * PAGE_SIZE \in Int /\ layout.maxHeap \in Int
      BY <2>1, <3>1, SizesAssumption, PagesAssumption, MemorySize DEF Addr
    <3> QED BY <2>2, <3>2, <3>3
  <2> QED BY <2>6, <2>7 DEF HeapInv, Can
<1> QED BY <1>1, HeapInvHolds, PTL

\* In a memory with a clear heap, sbrk never replaces a page that is mapped.
THEOREM MappedPagesStayTheorem == Spec => MappedPagesStay
<1> DEFINE Stay == HeapClear(layout) /\ ~freed' =>
                     \A p \in PageIdx : Has(p) => pages'[p] = pages[p]
<1>1. IInv /\ HeapInv /\ [Next]_vars => [Stay]_vars
  <2> SUFFICES ASSUME IInv, HeapInv, Next PROVE Stay
    OBVIOUS
  <2>1. ASSUME pages' = pages PROVE Stay
    BY <2>1
  <2>2. ASSUME NEW a \in Addr, NEW n \in Sizes, Load(a, n) PROVE Stay
    BY <2>2 DEF Load
  <2>3. ASSUME NEW n \in Sizes, NEW a \in Addr, NEW v \in Values(n), Store(a, v) PROVE Stay
    BY <2>3 DEF Store
  <2>4. ASSUME NEW a \in Addr, NEW len \in 1 .. MaxRange, BytesRead(a, len) PROVE Stay
    BY <2>4 DEF BytesRead
  <2>5. ASSUME NEW a \in Addr, NEW len \in 1 .. MaxRange, NEW b \in Byte, BytesWrite(a, len, b)
        PROVE Stay
    BY <2>5 DEF BytesWrite
  <2>6. ASSUME NEW i \in Addr, NEW mustRead \in BOOLEAN, ViewPage(i, mustRead) PROVE Stay
    BY <2>6 DEF ViewPage
  <2>7. CASE Free
    BY <2>7 DEF Free
  <2>8. ASSUME NEW amount \in Addr, Sbrk(amount) PROVE Stay
    <3>1. CASE sbrkAddress' = sbrkAddress
      <4>1. ~(amount # 0 /\ ~(sbrkAddress + amount > layout.maxHeap))
        BY <2>8, <3>1, MemorySize DEF Sbrk, IInv, TypeOK, Addr
      <4> QED BY <2>1, <2>8, <4>1 DEF Sbrk
    <3>2. ASSUME sbrkAddress' # sbrkAddress, HeapClear(layout), ~freed',
                 NEW p \in PageIdx, Has(p)
          PROVE  pages'[p] = pages[p]
      <4> DEFINE top == PageOf(sbrkAddress' - 1)
      <4>1. /\ top \in PageIdx /\ lastAllocatedPage \in PageIdx /\ freed' = freed
            /\ sbrkAddress' - 1 \in Addr /\ sbrkAddress' <= layout.maxHeap
            /\ p \notin lastAllocatedPage + 1 .. top => pages'[p] = pages[p]
        BY <2>8, <3>2, SbrkMoves
      <4>2. sbrkAddress' \in Int /\ layout.maxHeap \in Int /\ p \in Int
            /\ lastAllocatedPage \in Int
        BY <2>8, <4>1, HeapPages, PageIdxInt DEF Sbrk, IInv, TypeOK, Addr
      <4>3. ASSUME p \in lastAllocatedPage + 1 .. top PROVE FALSE
        <5>1. p > lastAllocatedPage /\ p <= top
          BY <4>2, <4>3
        <5>2. p * PAGE_SIZE >= layout.maxHeap
          BY <3>2, <4>1, <5>1 DEF HeapInv, Mapped
        <5>3. p * PAGE_SIZE <= sbrkAddress' - 1
          BY <4>1, <4>2, <5>1, PageStart
        <5>4. p * PAGE_SIZE \in Int
          BY <4>2, SizesAssumption, PagesAssumption
        <5> QED BY <4>1, <4>2, <5>2, <5>3, <5>4
      <4> QED BY <4>1, <4>3
    <3> QED BY <3>1, <3>2
  <2> QED BY <2>2, <2>3, <2>4, <2>5, <2>6, <2>7, <2>8 DEF Next
<1> QED BY <1>1, HeapInvHolds, PTL DEF Spec, MappedPagesStay

-----------------------------------------------------------------------------
(* The pages sbrk maps are clean.                                          *)

\* The pages sbrk takes from the arena are those it may still hand out.
LEMMA AcquiredUnissued ==
  ASSUME IInv, NEW k \in Nat \ {0}
  PROVE  Unissued(Acquired(k))
<1>1. Len(free) \in Nat /\ extraPageIndex \in Nat
  BY SizesAssumption, PagesAssumption DEF IInv, TypeOK, RawId
<1>2. CASE k <= Len(free)
  <2>1. Len(free) + 1 - k \in 1 .. Len(free) /\ Acquired(k) = free[Len(free) + 1 - k]
    BY <1>1, <1>2 DEF Acquired
  <2> QED BY <2>1 DEF Unissued
<1>3. CASE ~(k <= Len(free))
  <2>1. Acquired(k) > extraPageIndex
    BY <1>1, <1>3 DEF Acquired
  <2> QED BY <2>1 DEF Unissued
<1> QED BY <1>2, <1>3

\* What a call of sbrk maps, and that it maps it clean and alone.
LEMMA SbrkMapsClean ==
  ASSUME IInv, NEW amount \in Addr, Sbrk(amount), NEW p \in PageIdx, pages'[p] # pages[p]
  PROVE  /\ p \in lastAllocatedPage + 1 .. lastAllocatedPage'
         /\ Has(p)' /\ pages'[p].access = "Write" /\ pages'[p].raw \in RawId
         /\ ~freed => \A o \in Offset : data'[pages'[p].raw][o] = 0
<1> DEFINE last == lastAllocatedPage  top == PageOf((sbrkAddress + amount) - 1)
<1>1. /\ amount # 0 /\ ~(sbrkAddress + amount > layout.maxHeap) /\ top # last /\ MapFresh(top)
      /\ lastAllocatedPage' = top /\ sbrkAddress' = sbrkAddress + amount /\ data' = data
  <2> DEFINE moves == amount # 0 /\ ~(sbrkAddress + amount > layout.maxHeap)
  <2>1. /\ sbrkAddress' = IF moves THEN sbrkAddress + amount ELSE sbrkAddress
        /\ lastAllocatedPage' = IF moves THEN top ELSE lastAllocatedPage
        /\ IF moves /\ top # lastAllocatedPage
           THEN MapFresh(top) ELSE UNCHANGED <<pages, cache, free, extraPageIndex>>
        /\ UNCHANGED <<layout, data, chunks, freed>>
    BY DEF Sbrk
  <2> HIDE DEF top, moves
  <2>2. moves /\ top # last
    BY <2>1
  <2>3. MapFresh(top)
    BY <2>1, <2>2
  <2> QED BY <2>1, <2>2, <2>3 DEF moves
<1>2. sbrkAddress' # sbrkAddress
  BY <1>1, MemorySize DEF IInv, TypeOK, Addr
<1>3. top \in PageIdx /\ last \in PageIdx /\ last <= top
  BY <1>1, <1>2, SbrkMoves
<1> HIDE DEF top
<1>4. p \in last + 1 .. top /\ pages'[p] = [access |-> "Write", raw |-> Acquired(p - last)]
  BY <1>1 DEF MapFresh
<1>5. top - last \in Nat /\ last + (top - last) \in PageIdx /\ p - last \in 1 .. top - last
  BY <1>3, <1>4, PageIdxInt
<1>6. Acquired(p - last) \in RawId
  BY <1>5, AcquiredFresh
<1>7. Unissued(Acquired(p - last))
  BY <1>5, AcquiredUnissued
<1>8. Has(p)'
  BY <1>4, <1>6, SizesAssumption, PagesAssumption DEF Has, EMPTY_PAGE, EMPTY_RAW, RawId
<1> QED BY <1>1, <1>4, <1>6, <1>7, <1>8 DEF IInv, ArenaZeroed

\* A page that was not there before sbrk mapped it is all zeroes, until the
\* memory is freed.
THEOREM GrantedZeroedTheorem == Spec => GrantedZeroed
<1> DEFINE Clean == \A p \in PageIdx : ~Has(p) /\ Has(p)' /\ ~freed =>
                      \A o \in Offset : data'[pages'[p].raw][o] = 0
<1>1. IInv /\ [Next]_vars => [Clean]_vars
  <2> SUFFICES ASSUME IInv, Next PROVE Clean
    OBVIOUS
  <2>1. ASSUME pages' = pages PROVE Clean
    BY <2>1 DEF Has
  <2>2. ASSUME NEW a \in Addr, NEW n \in Sizes, Load(a, n) PROVE Clean
    BY <2>1, <2>2 DEF Load
  <2>3. ASSUME NEW n \in Sizes, NEW a \in Addr, NEW v \in Values(n), Store(a, v) PROVE Clean
    BY <2>1, <2>3 DEF Store
  <2>4. ASSUME NEW a \in Addr, NEW len \in 1 .. MaxRange, BytesRead(a, len) PROVE Clean
    BY <2>1, <2>4 DEF BytesRead
  <2>5. ASSUME NEW a \in Addr, NEW len \in 1 .. MaxRange, NEW b \in Byte, BytesWrite(a, len, b)
        PROVE Clean
    BY <2>1, <2>5 DEF BytesWrite
  <2>6. ASSUME NEW i \in Addr, NEW mustRead \in BOOLEAN, ViewPage(i, mustRead) PROVE Clean
    BY <2>1, <2>6 DEF ViewPage
  <2>7. CASE Free
    BY <2>7 DEF Free, Has
  <2>8. ASSUME NEW amount \in Addr, Sbrk(amount) PROVE Clean
    BY <2>8, SbrkMapsClean DEF Has
  <2> QED BY <2>2, <2>3, <2>4, <2>5, <2>6, <2>7, <2>8 DEF Next
<1> QED BY <1>1, InvariantTheorem, PTL DEF Spec, GrantedZeroed
=============================================================================
