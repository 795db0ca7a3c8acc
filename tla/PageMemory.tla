---------------------------- MODULE PageMemory ----------------------------
(***************************************************************************)
(* The paged memory of the interpreter: assembly/memory.ts and             *)
(* assembly/memory-page.ts.                                                *)
(*                                                                         *)
(* A Memory owns a map of pages, an Arena it takes raw pages from, a       *)
(* direct-mapped cache in front of the map, a heap pointer moved by sbrk   *)
(* and one scratch object, chunksResult, that every load and store of the  *)
(* machine goes through.  All widths are scaled: PAGE_SIZE stands for      *)
(* 4096, NUM_PAGES for 2^20 and MEMORY_SIZE for 2^32, so that u32          *)
(* arithmetic is arithmetic modulo MEMORY_SIZE.                            *)
(***************************************************************************)
EXTENDS Layout

CONSTANTS
  PAGE_CACHE_SIZE, \* slots of the direct-mapped cache
  PREALLOC,        \* raw pages the arena starts with
  Sizes,           \* widths of loads and stores (1, 2, 4, 8 in the code)
  MaxRange,        \* longest multi-page read or write that is explored
  Layouts          \* memories a builder hands over: see IsLayout

Slots == 0 .. PAGE_CACHE_SIZE - 1

\* No more than NUM_PAGES pages are built and no more than NUM_PAGES are ever
\* taken by sbrk, whose page index only grows.
RawId == 0 .. PREALLOC + 2 * NUM_PAGES

Slot(i) == i % PAGE_CACHE_SIZE

EMPTY_RAW == -1
EMPTY_PAGE == [access |-> "None", raw |-> EMPTY_RAW]
Page == [access : AccessKind, raw : RawId]

\* The tag of an empty slot is 0xffff_ffff.
EMPTY_TAG == MEMORY_SIZE - 1
EMPTY_SLOT == [tag |-> EMPTY_TAG, page |-> EMPTY_PAGE]

ASSUME SizesAssumption ==
  /\ PAGE_CACHE_SIZE \in Nat \ {0}
  /\ PREALLOC \in Nat /\ MaxRange \in Nat
  /\ Sizes \subseteq 1 .. PAGE_SIZE  \* an access spans at most two pages
  /\ PAGE_SIZE > 1  \* so that EMPTY_TAG is the index of no page
ASSUME LayoutsAssumption == \A l \in Layouts : IsLayout(l)

VARIABLES
  layout,            \* the layout the memory was constructed from; never changes
  pages,             \* Memory.pages: PageIdx -> Page, EMPTY_PAGE where unmapped
  cache,             \* PageCache: slot -> [tag, page]
  free,              \* Arena.free, a stack: its last element is popped first
  extraPageIndex,    \* Arena.extraPageIndex
  data,              \* contents of every raw page; zero until allocated
  sbrkAddress, lastAllocatedPage,
  chunks,            \* secondPageData and secondPageEnd of chunksResult
  faultRes,          \* the MaybePageFault of the last call
  value,             \* what the last call returned
  freed              \* history variable: free() has been called

vars == <<layout, pages, cache, free, extraPageIndex, data, sbrkAddress,
          lastAllocatedPage, chunks, faultRes, value, freed>>

Has(i) == i \in PageIdx /\ pages[i] # EMPTY_PAGE
Mapped == {p \in PageIdx : Has(p)}
Can(page, access) == page.access = "Write" \/ page.access = access

-----------------------------------------------------------------------------
(* Construction.                                                           *)

\* The raw page given to the i-th page that is built from a fresh arena:
\* preallocated pages first, 0 upwards, then pages of their own.
BuiltRaw(i) == IF i <= PREALLOC THEN i - 1 ELSE i

BuiltPages(l) ==
  [p \in PageIdx |->
     IF \E i \in 1 .. Len(l.pages) : l.pages[i].idx = p
     THEN LET i == CHOOSE i \in 1 .. Len(l.pages) : l.pages[i].idx = p
          IN [access |-> l.pages[i].access, raw |-> BuiltRaw(i)]
     ELSE EMPTY_PAGE]

BuiltData(l) ==
  [r \in RawId |->
     IF \E i \in 1 .. Len(l.pages) : BuiltRaw(i) = r
     THEN [o \in Offset |->
             l.pages[CHOOSE i \in 1 .. Len(l.pages) : BuiltRaw(i) = r].fill]
     ELSE [o \in Offset |-> 0]]

\* The slot holds the built page with that slot that comes last.
FilledCache(l) ==
  [s \in Slots |->
     LET Last(i) == /\ Slot(l.pages[i].idx) = s
                    /\ \A j \in i + 1 .. Len(l.pages) : Slot(l.pages[j].idx) # s
     IN IF \E i \in 1 .. Len(l.pages) : Last(i)
        THEN LET p == l.pages[CHOOSE i \in 1 .. Len(l.pages) : Last(i)].idx
             IN [tag |-> p, page |-> BuiltPages(l)[p]]
        ELSE EMPTY_SLOT]

EmptyCache == [s \in Slots |-> EMPTY_SLOT]

NoFault == [isFault |-> FALSE, isAccess |-> FALSE, fault |-> 0]
PageFault(p) == [isFault |-> TRUE, isAccess |-> FALSE, fault |-> p * PAGE_SIZE]
AccessFault(p) == [isFault |-> TRUE, isAccess |-> TRUE, fault |-> p * PAGE_SIZE]

NoChunk == [raw |-> EMPTY_RAW, end |-> 0]

\* The cache is filled by a loop over keys.length, which an AssemblyScript map
\* has and a JavaScript iterator has not: the portable build starts empty.
Init ==
  /\ layout \in Layouts
  /\ pages = BuiltPages(layout)
  /\ cache \in {FilledCache(layout), EmptyCache}
  /\ free = LET n == Len(layout.pages)
            IN IF n < PREALLOC THEN [j \in 1 .. PREALLOC - n |-> PREALLOC - j] ELSE <<>>
  /\ extraPageIndex =
       IF Len(layout.pages) > PREALLOC THEN Len(layout.pages) ELSE PREALLOC
  /\ data = BuiltData(layout)
  /\ sbrkAddress = layout.sbrk
  /\ lastAllocatedPage =
       LET p == PageOf(layout.sbrk)
       IN IF BuiltPages(layout)[p] # EMPTY_PAGE THEN p ELSE p - 1
  /\ chunks = NoChunk
  /\ faultRes = NoFault
  /\ value = <<>>
  /\ freed = FALSE

-----------------------------------------------------------------------------
(* Page lookup.                                                            *)

\* getPage: the cache answers if the tag matches, the map otherwise.
Lookup(c, p) == IF c[Slot(p)].tag = p THEN c[Slot(p)].page ELSE pages[p]

\* getPage: a miss that finds the page in the map fills the slot, whether or
\* not the page can then be accessed.
Touch(c, p) ==
  IF c[Slot(p)].tag # p /\ Has(p)
  THEN [c EXCEPT ![Slot(p)] = [tag |-> p, page |-> pages[p]]]
  ELSE c

FaultOf(c, p, access) ==
  IF c[Slot(p)].tag # p /\ ~Has(p) THEN PageFault(p)
  ELSE IF ~Can(Lookup(c, p), access) THEN AccessFault(p)
  ELSE NoFault

\* Mutant of GetChunks: an access that ends with its page needs the next one.
GetChunksEager(access, a, n) ==
  LET p1 == PageOf(a)
      p2 == PageOf((a + n) % MEMORY_SIZE)
      c1 == Touch(cache, p1)
      f1 == FaultOf(cache, p1, access)
      needSecondPage == Rel(a) + n >= PAGE_SIZE
      both == needSecondPage /\ ~f1.isFault
  IN [fault |-> IF both THEN FaultOf(c1, p2, access) ELSE f1,
      cache |-> IF both THEN Touch(c1, p2) ELSE c1,
      first |-> Lookup(cache, p1).raw,
      second |-> IF needSecondPage
                 THEN [raw |-> Lookup(c1, p2).raw, end |-> Rel(a) + n - PAGE_SIZE]
                 ELSE chunks]

(***************************************************************************)
(* getChunks for n bytes at a.  Nothing is written before both pages have  *)
(* been looked up; a one-page access leaves the second chunk as it was.    *)
(***************************************************************************)
GetChunks(access, a, n) ==
  LET p1 == PageOf(a)
      p2 == PageOf((a + n) % MEMORY_SIZE)
      c1 == Touch(cache, p1)
      f1 == FaultOf(cache, p1, access)
      needSecondPage == Rel(a) + n > PAGE_SIZE
      both == needSecondPage /\ ~f1.isFault
  IN [fault |-> IF both THEN FaultOf(c1, p2, access) ELSE f1,
      cache |-> IF both THEN Touch(c1, p2) ELSE c1,
      first |-> Lookup(cache, p1).raw,
      second |-> IF needSecondPage
                 THEN [raw |-> Lookup(c1, p2).raw, end |-> Rel(a) + n - PAGE_SIZE]
                 ELSE chunks]

FirstLen(a, n) == IF Rel(a) + n < PAGE_SIZE THEN n ELSE PAGE_SIZE - Rel(a)

\* Mutant of LoadedBytes: the second chunk is read one byte too far.
LoadedBytesShifted(g, a, n) ==
  LET k == FirstLen(a, n)
      all == [i \in 1 .. k + g.second.end |->
                IF i <= k THEN data[g.first][Rel(a) + i - 1]
                ELSE data[g.second.raw][i - k]]
  IN SubSeq(all, Len(all) - n + 1, Len(all))

\* getBytesReversed: the bytes of both chunks shifted into one word, of which
\* the caller keeps the n low ones and swaps them back into memory order.
LoadedBytes(g, a, n) ==
  LET k == FirstLen(a, n)
      all == [i \in 1 .. k + g.second.end |->
                IF i <= k THEN data[g.first][Rel(a) + i - 1]
                ELSE data[g.second.raw][i - k - 1]]
  IN SubSeq(all, Len(all) - n + 1, Len(all))

\* Mutant of StoredData: the second chunk is one byte too long.
StoredDataLong(g, a, v) ==
  LET k == FirstLen(a, Len(v))
      ByteOf(i) == IF i <= Len(v) THEN v[i] ELSE 0
      d1 == [data EXCEPT ![g.first] =
               [o \in Offset |-> IF o \in Rel(a) .. Rel(a) + k - 1
                                 THEN v[o - Rel(a) + 1] ELSE data[g.first][o]]]
  IN IF g.second.end = 0 THEN d1
     ELSE [d1 EXCEPT ![g.second.raw] =
             [o \in Offset |-> IF o <= g.second.end
                               THEN ByteOf(k + o + 1) ELSE d1[g.second.raw][o]]]

\* setBytes: first chunk, then second; past the end of the value zeroes are
\* shifted in.
StoredData(g, a, v) ==
  LET k == FirstLen(a, Len(v))
      ByteAt(i) == IF i <= Len(v) THEN v[i] ELSE 0
      d1 == [data EXCEPT ![g.first] =
               [o \in Offset |-> IF o \in Rel(a) .. Rel(a) + k - 1
                                 THEN v[o - Rel(a) + 1] ELSE data[g.first][o]]]
  IN IF g.second.end = 0 THEN d1
     ELSE [d1 EXCEPT ![g.second.raw] =
             [o \in Offset |-> IF o < g.second.end
                               THEN ByteAt(k + o + 1) ELSE d1[g.second.raw][o]]]

\* getU8 .. getI32: the width is n, extension to 64 bits is the caller's.
Load(a, n) ==
  LET g == GetChunks("Read", a, n)
  IN /\ faultRes' = g.fault
     /\ cache' = g.cache
     /\ chunks' = IF g.fault.isFault THEN chunks ELSE g.second
     /\ value' = IF g.fault.isFault THEN <<>> ELSE LoadedBytes(g, a, n)
     /\ UNCHANGED <<layout, pages, free, extraPageIndex, data, sbrkAddress,
                    lastAllocatedPage, freed>>

\* setU8 .. setU64 of the bytes v, least significant first.
Store(a, v) ==
  LET g == GetChunks("Write", a, Len(v))
  IN /\ faultRes' = g.fault
     /\ cache' = g.cache
     /\ chunks' = IF g.fault.isFault THEN chunks ELSE g.second
     /\ data' = IF g.fault.isFault THEN data ELSE StoredData(g, a, v)
     /\ value' = <<>>
     /\ UNCHANGED <<layout, pages, free, extraPageIndex, sbrkAddress,
                    lastAllocatedPage, freed>>

-----------------------------------------------------------------------------
(* Page by page access: bytesRead, bytesWrite and getMemory.               *)

\* The k-th page a range starting at a runs into; addresses wrap around.
RangePage(a, k) == (PageOf(a) + k) % NUM_PAGES
RangeEnd(a, len) == (Rel(a) + len - 1) \div PAGE_SIZE

\* k is the first page of the range that faults.  Looking a page up may evict
\* another from the cache, and the map then gives the same page: all lookups
\* of one call are written against the cache it started with.
FirstFault(access, a, len, k) ==
  /\ FaultOf(cache, RangePage(a, k), access).isFault
  /\ \A j \in 0 .. k - 1 : ~FaultOf(cache, RangePage(a, j), access).isFault

RangeFault(access, a, len) ==
  IF \E k \in 0 .. RangeEnd(a, len) : FirstFault(access, a, len, k)
  THEN FaultOf(cache, RangePage(a, CHOOSE k \in 0 .. RangeEnd(a, len) :
                                     FirstFault(access, a, len, k)), access)
  ELSE NoFault

\* The page of the range that is looked up last.
RangeLast(access, a, len) ==
  IF \E k \in 0 .. RangeEnd(a, len) : FirstFault(access, a, len, k)
  THEN CHOOSE k \in 0 .. RangeEnd(a, len) : FirstFault(access, a, len, k)
  ELSE RangeEnd(a, len)

\* Each slot ends with the last mapped page of its class that was looked up.
RangeCache(access, a, len) ==
  [s \in Slots |->
     LET Hit(k) == Slot(RangePage(a, k)) = s /\ Has(RangePage(a, k))
         LastHit(k) == /\ Hit(k)
                       /\ \A j \in k + 1 .. RangeLast(access, a, len) : ~Hit(j)
         steps == 0 .. RangeLast(access, a, len)
     IN IF \E k \in steps : LastHit(k)
        THEN LET p == RangePage(a, CHOOSE k \in steps : LastHit(k))
             IN [tag |-> p, page |-> pages[p]]
        ELSE cache[s]]

\* Bytes transferred before the fault, all of them if there is none.
RangeDone(access, a, len) ==
  IF RangeFault(access, a, len).isFault
  THEN LET n == RangeLast(access, a, len) * PAGE_SIZE - Rel(a)
       IN IF n < 0 THEN 0 ELSE n
  ELSE len

\* bytesRead leaves in the destination what it copied before a fault, and
\* getMemory, whose first pass looks at the same pages, discards it.
BytesRead(a, len) ==
  /\ faultRes' = RangeFault("Read", a, len)
  /\ cache' = RangeCache("Read", a, len)
  /\ value' = [i \in 1 .. RangeDone("Read", a, len) |->
                 LET x == (a + i - 1) % MEMORY_SIZE
                 IN data[Lookup(cache, PageOf(x)).raw][Rel(x)]]
  /\ UNCHANGED <<layout, pages, free, extraPageIndex, data, sbrkAddress,
                 lastAllocatedPage, chunks, freed>>

\* bytesWrite of len bytes b: the pages before the faulting one are written.
BytesWrite(a, len, b) ==
  LET Written == {(a + i) % MEMORY_SIZE : i \in 0 .. RangeDone("Write", a, len) - 1}
  IN /\ faultRes' = RangeFault("Write", a, len)
     /\ cache' = RangeCache("Write", a, len)
     /\ data' = [r \in RawId |-> [o \in Offset |->
                   IF \E x \in Written : Rel(x) = o /\ Lookup(cache, PageOf(x)).raw = r
                   THEN b ELSE data[r][o]]]
     /\ value' = <<>>
     /\ UNCHANGED <<layout, pages, free, extraPageIndex, sbrkAddress,
                    lastAllocatedPage, chunks, freed>>

\* pageDump and getPagePointer (mustRead) of any u32 index: the contents they
\* expose, NO_VIEW for null and 0.  EMPTY_PAGE has an empty buffer.
NO_VIEW == <<-1>>
Contents(r) == IF r = EMPTY_RAW THEN <<>> ELSE [i \in 1 .. PAGE_SIZE |-> data[r][i - 1]]

View(i, mustRead) ==
  LET hit == cache[Slot(i)].tag = i
      page == IF hit THEN cache[Slot(i)].page ELSE pages[i]
  IN IF (~hit /\ ~Has(i)) \/ (mustRead /\ ~Can(page, "Read"))
     THEN NO_VIEW ELSE Contents(page.raw)

ViewPage(i, mustRead) ==
  /\ value' = View(i, mustRead)
  /\ cache' = Touch(cache, i)
  /\ faultRes' = NoFault
  /\ UNCHANGED <<layout, pages, free, extraPageIndex, data, sbrkAddress,
                 lastAllocatedPage, chunks, freed>>

-----------------------------------------------------------------------------
(* Growing and freeing.                                                    *)

\* Mutant of Acquired: the page index is used before it is incremented.
AcquiredEarly(k) == IF k <= Len(free) THEN free[Len(free) + 1 - k]
                    ELSE extraPageIndex + (k - Len(free)) - 1

\* Arena.acquire: the k-th raw page taken from now on.
Acquired(k) == IF k <= Len(free) THEN free[Len(free) + 1 - k]
               ELSE extraPageIndex + (k - Len(free))

SbrkFault == [isFault |-> TRUE, isAccess |-> FALSE, fault |-> 0]

\* Mutants of MapFresh: the cache is not told of the new pages; and the page
\* that was mapped last is mapped once more.
MapFreshUncached(top) ==
  LET n == top - lastAllocatedPage
  IN /\ pages' = [p \in PageIdx |->
                    IF p \in lastAllocatedPage + 1 .. top
                    THEN [access |-> "Write", raw |-> Acquired(p - lastAllocatedPage)]
                    ELSE pages[p]]
     /\ free' = SubSeq(free, 1, IF n < Len(free) THEN Len(free) - n ELSE 0)
     /\ extraPageIndex' = IF n > Len(free) THEN extraPageIndex + (n - Len(free))
                          ELSE extraPageIndex
     /\ UNCHANGED cache
MapFreshAgain(top) ==
  LET n == top - lastAllocatedPage + 1
  IN /\ pages' = [p \in PageIdx |->
                    IF p \in lastAllocatedPage .. top
                    THEN [access |-> "Write", raw |-> Acquired(p - lastAllocatedPage + 1)]
                    ELSE pages[p]]
     /\ cache' = EmptyCache
     /\ free' = SubSeq(free, 1, IF n < Len(free) THEN Len(free) - n ELSE 0)
     /\ extraPageIndex' = IF n > Len(free) THEN extraPageIndex + (n - Len(free))
                          ELSE extraPageIndex

\* Pages last+1 .. top get a fresh writable page, mapped before or not.
MapFresh(top) ==
  LET fresh == lastAllocatedPage + 1 .. top
      n == top - lastAllocatedPage
      NewPage(p) == [access |-> "Write", raw |-> Acquired(p - lastAllocatedPage)]
  IN /\ pages' = [p \in PageIdx |-> IF p \in fresh THEN NewPage(p) ELSE pages[p]]
     /\ cache' = [s \in Slots |->
                    LET LastIn(p) == /\ p \in fresh /\ Slot(p) = s
                                     /\ \A q \in p + 1 .. top : Slot(q) # s
                    IN IF \E p \in PageIdx : LastIn(p)
                       THEN LET p == CHOOSE p \in PageIdx : LastIn(p)
                            IN [tag |-> p, page |-> NewPage(p)]
                       ELSE cache[s]]
     /\ free' = SubSeq(free, 1, IF n < Len(free) THEN Len(free) - n ELSE 0)
     /\ extraPageIndex' = IF n > Len(free) THEN extraPageIndex + (n - Len(free))
                          ELSE extraPageIndex

\* Mutants of Sbrk: the limit is not checked; and only the pages that lie
\* wholly below the new pointer are mapped.
SbrkUnlimited(amount) ==
  LET newSbrk == sbrkAddress + amount
      top == PageOf(newSbrk - 1)
  IN /\ value' = <<sbrkAddress>>
     /\ faultRes' = NoFault
     /\ sbrkAddress' = newSbrk
     /\ lastAllocatedPage' = IF amount = 0 THEN lastAllocatedPage ELSE top
     /\ IF amount # 0 /\ top # lastAllocatedPage
        THEN MapFresh(top)
        ELSE UNCHANGED <<pages, cache, free, extraPageIndex>>
     /\ UNCHANGED <<layout, data, chunks, freed>>
SbrkWholePages(amount) ==
  LET newSbrk == sbrkAddress + amount
      top == PageOf(newSbrk) - 1
      exhausted == amount # 0 /\ newSbrk > layout.maxHeap
      moves == amount # 0 /\ ~exhausted
  IN /\ value' = <<sbrkAddress>>
     /\ faultRes' = IF exhausted THEN SbrkFault ELSE NoFault
     /\ sbrkAddress' = IF moves THEN newSbrk ELSE sbrkAddress
     /\ lastAllocatedPage' = IF moves /\ top > lastAllocatedPage THEN top ELSE lastAllocatedPage
     /\ IF moves /\ top > lastAllocatedPage
        THEN MapFresh(top)
        ELSE UNCHANGED <<pages, cache, free, extraPageIndex>>
     /\ UNCHANGED <<layout, data, chunks, freed>>

Sbrk(amount) ==
  LET newSbrk == sbrkAddress + amount
      top == PageOf(newSbrk - 1)
      exhausted == amount # 0 /\ newSbrk > layout.maxHeap
      moves == amount # 0 /\ ~exhausted
  IN /\ value' = <<sbrkAddress>>
     /\ faultRes' = IF exhausted THEN SbrkFault ELSE NoFault
     /\ sbrkAddress' = IF moves THEN newSbrk ELSE sbrkAddress
     /\ lastAllocatedPage' = IF moves THEN top ELSE lastAllocatedPage
     /\ IF moves /\ top # lastAllocatedPage
        THEN MapFresh(top)
        ELSE UNCHANGED <<pages, cache, free, extraPageIndex>>
     /\ UNCHANGED <<layout, data, chunks, freed>>

\* Mutants of Free: the map keeps the released pages; and the cache does.
FreeKeepsMap ==
  /\ \E order \in [1 .. Cardinality(Mapped) -> Mapped] :
       /\ \A i, j \in 1 .. Cardinality(Mapped) : order[i] = order[j] => i = j
       /\ free' = free \o [i \in 1 .. Cardinality(Mapped) |-> pages[order[i]].raw]
  /\ cache' = EmptyCache
  /\ freed' = TRUE /\ faultRes' = NoFault /\ value' = <<>>
  /\ UNCHANGED <<layout, pages, extraPageIndex, data, sbrkAddress, lastAllocatedPage, chunks>>
FreeKeepsCache ==
  /\ \E order \in [1 .. Cardinality(Mapped) -> Mapped] :
       /\ \A i, j \in 1 .. Cardinality(Mapped) : order[i] = order[j] => i = j
       /\ free' = free \o [i \in 1 .. Cardinality(Mapped) |-> pages[order[i]].raw]
  /\ pages' = [p \in PageIdx |-> EMPTY_PAGE]
  /\ freed' = TRUE /\ faultRes' = NoFault /\ value' = <<>>
  /\ UNCHANGED <<layout, cache, extraPageIndex, data, sbrkAddress, lastAllocatedPage, chunks>>

\* free: the map's values are released in its iteration order, which is the
\* order the pages were inserted in: any order here.
Free ==
  /\ \E order \in [1 .. Cardinality(Mapped) -> Mapped] :
       /\ \A i, j \in 1 .. Cardinality(Mapped) : order[i] = order[j] => i = j
       /\ free' = free \o [i \in 1 .. Cardinality(Mapped) |-> pages[order[i]].raw]
  /\ pages' = [p \in PageIdx |-> EMPTY_PAGE]
  /\ cache' = EmptyCache
  /\ freed' = TRUE
  /\ faultRes' = NoFault
  /\ value' = <<>>
  /\ UNCHANGED <<layout, extraPageIndex, data, sbrkAddress, lastAllocatedPage, chunks>>

-----------------------------------------------------------------------------
Values(n) == [1 .. n -> Byte]

Next ==
  \/ \E a \in Addr, n \in Sizes : Load(a, n)
  \/ \E n \in Sizes : \E a \in Addr, v \in Values(n) : Store(a, v)
  \/ \E a \in Addr, len \in 1 .. MaxRange : BytesRead(a, len)
  \/ \E a \in Addr, len \in 1 .. MaxRange, b \in Byte : BytesWrite(a, len, b)
  \/ \E i \in Addr, mustRead \in BOOLEAN : ViewPage(i, mustRead)
  \/ \E amount \in Addr : Sbrk(amount)
  \/ Free

Spec == Init /\ [][Next]_vars
-----------------------------------------------------------------------------
(* Properties.                                                             *)

\* The type invariant of every variable, memory.ts:146-151.
TypeOK ==
  /\ layout \in Layouts
  /\ pages \in [PageIdx -> Page \cup {EMPTY_PAGE}]
  /\ cache \in [Slots -> [tag : PageIdx \cup {EMPTY_TAG}, page : Page \cup {EMPTY_PAGE}]]
  /\ free \in Seq(RawId)
  /\ extraPageIndex \in RawId
  /\ data \in [RawId -> [Offset -> Byte]]
  /\ sbrkAddress \in Addr
  /\ lastAllocatedPage \in PageIdx
  /\ chunks \in [raw : RawId \cup {EMPTY_RAW}, end : Offset]
  /\ chunks.end > 0 => chunks.raw \in RawId
  /\ faultRes \in [isFault : BOOLEAN, isAccess : BOOLEAN, fault : Addr]
  /\ freed \in BOOLEAN

\* A filled slot of the page cache always gives the page the map holds now:
\* sbrk replacing a page, or free dropping all of them, may leave no slot
\* behind (memory.ts:235,262 beside the insertions in getPage, getChunks,
\* pageDump and getPagePointer).
CacheCoherent ==
  \A s \in Slots :
    \/ cache[s] = EMPTY_SLOT
    \/ /\ Slot(cache[s].tag) = s
       /\ Has(cache[s].tag)
       /\ cache[s].page = pages[cache[s].tag]

\* No two mapped pages share a raw page, and the arena's free list holds no
\* raw page twice and none that is still mapped (memory-page.ts:63-81).
NoAliasing ==
  /\ \A p, q \in Mapped : pages[p].raw = pages[q].raw => p = q
  /\ \A i, j \in 1 .. Len(free) : free[i] = free[j] => i = j
  /\ \A p \in Mapped, i \in 1 .. Len(free) : pages[p].raw # free[i]

\* The first RESERVED_PAGES pages are never mapped, whatever sbrk does
\* (memory.ts:129,160).
ReservedUnmapped == \A p \in 0 .. RESERVED_PAGES - 1 : ~Has(p)

\* lastAllocatedPage never runs ahead of or behind the heap pointer: it is the
\* pointer's page, or the page before it (memory.ts:163,252,265).
HeapPointer ==
  /\ sbrkAddress \in layout.sbrk .. layout.maxHeap
  /\ lastAllocatedPage \in {PageOf(sbrkAddress) - 1, PageOf(sbrkAddress)}
  /\ lastAllocatedPage = PageOf(sbrkAddress) - 1 \/ PageOf(layout.sbrk) <= lastAllocatedPage

\* The raw pages in use are those the arena has handed out, and it has handed
\* out no more than the built pages and one for each page sbrk has passed.
ArenaBudget ==
  /\ \A p \in Mapped : pages[p].raw <= extraPageIndex
  /\ \A i \in 1 .. Len(free) : free[i] <= extraPageIndex
  /\ extraPageIndex <= PREALLOC + NUM_PAGES + lastAllocatedPage

\* A raw page the arena may hand out next: a free one, or one not made yet.
Unissued(r) == r > extraPageIndex \/ \E i \in 1 .. Len(free) : free[i] = r

\* Until free puts used pages back, what the arena may still hand out is zero,
\* and the scratch, which outlives the access that filled it and the page it
\* was filled from, does not point there (memory-page.ts:63-81,
\* memory.ts:258-263,493-500).
ArenaZeroed ==
  ~freed => /\ \A r \in RawId : Unissued(r) => \A o \in Offset : data[r][o] = 0
            /\ ~Unissued(chunks.raw)

\* The invariant the proofs are by induction on: every call, in any order,
\* keeps the cache, the map, the arena and the heap pointer consistent.
IInv ==
  /\ TypeOK /\ CacheCoherent /\ NoAliasing
  /\ ReservedUnmapped /\ HeapPointer /\ ArenaBudget /\ ArenaZeroed

\* In a memory with a clear heap, every byte that sbrk has granted is in a
\* writable page, whichever amounts it was granted in and wherever in a page
\* the pointer stopped before (memory.ts:252-265).
GrantedWritable ==
  ~freed /\ HeapClear(layout) =>
    \A x \in layout.sbrk .. sbrkAddress - 1 : Can(pages[PageOf(x)], "Write")

\* Pages that sbrk maps are zero until the memory is freed, although stores go
\* on through the scratch chunks of earlier accesses (memory.ts:258-263).
GrantedZeroed ==
  [][\A p \in PageIdx : ~Has(p) /\ Has(p)' /\ ~freed =>
       \A o \in Offset : data'[pages'[p].raw][o] = 0]_vars

\* In a memory with a clear heap, no call but free ever replaces or drops a
\* mapped page: its bytes and its access right stay (memory.ts:261).
MappedPagesStay ==
  [][HeapClear(layout) /\ ~freed' =>
       \A p \in PageIdx : Has(p) => pages'[p] = pages[p]]_vars

\* The byte at an address, by the map alone.
ByteAt(x) == data[pages[PageOf(x)].raw][Rel(x)]
Wrap(a, i) == (a + i) % MEMORY_SIZE

\* The bytes of a page that is not writable never change while it is mapped:
\* "writing to read-only memory" is an access fault (memory.ts:20).
ReadOnlyImmutable ==
  [][\A p \in Mapped : pages[p].access # "Write" /\ pages'[p] = pages[p] =>
       data'[pages[p].raw] = data[pages[p].raw]]_vars

\* An access finds no residue: one of a single page takes what an access of two
\* pages has left in the scratch for its own second page (memory.ts:468-472).
Apt(a, n) == chunks.end = 0 \/ Rel(a) + n > PAGE_SIZE

AccessOnResidue ==
  \E a \in Addr, n \in Sizes :
    ~Apt(a, n) /\ (Load(a, n) \/ \E v \in Values(n) : Store(a, v))

\* The memory as its program sees it.
Permissions == [p \in PageIdx |-> IF Has(p) THEN pages[p].access ELSE "Unmapped"]
Contained == [x \in Addr |-> IF Has(PageOf(x)) THEN ByteAt(x) ELSE 0]

Abstract ==
  INSTANCE AbstractMemory WITH
    perm <- Permissions, bytes <- Contained, brk <- sbrkAddress, limit <- layout.maxHeap,
    outcome <- faultRes, result <- value, dead <- freed

\* With a clear heap, the map, the arena and the cache together are the memory
\* AbstractMemory promises: every call that changes what the program sees is
\* one of its steps, in every state the calls before it can leave.  The one
\* exception is a one-page access that finds residue in the scratch, which may
\* do anything; the calls after it are steps of that memory again
\* (memory.ts:178-500).
ImplementsAbstract ==
  /\ Abstract!AInit
  /\ [][HeapClear(layout) => Abstract!ANext \/ AccessOnResidue]_(Abstract!avars)
=============================================================================
