------------------------ MODULE MemoryBuilderProofs ------------------------
(***************************************************************************)
(* Proofs about MemoryBuilder: for every page size, segment size and bound *)
(* on the lengths of a program, what is built is a layout that PageMemory  *)
(* may start with, and the sections of an SPI program stay apart.          *)
(***************************************************************************)
EXTENDS MemoryBuilder, NumberProofs, FiniteSetTheorems

\* An address lies in a page, at an offset of it.
LEMMA AddrInPage ==
  ASSUME NEW a \in Addr
  PROVE  PageOf(a) \in PageIdx /\ Rel(a) \in Offset
BY DivModRange, PagesAssumption DEF Addr, MEMORY_SIZE, PageOf, Rel, PageIdx, Offset

-----------------------------------------------------------------------------
(* Borders of pages.                                                       *)

Aligned(b) == b \in Nat /\ \E q \in Nat : b = PAGE_SIZE * q

LEMMA PageSize == PAGE_SIZE \in Nat \ {0}
BY PagesAssumption

LEMMA AlignedSum ==
  ASSUME NEW a, NEW b, Aligned(a), Aligned(b)
  PROVE  Aligned(a + b)
<1>1. PICK q \in Nat : a = PAGE_SIZE * q
  BY DEF Aligned
<1>2. PICK r \in Nat : b = PAGE_SIZE * r
  BY DEF Aligned
<1>3. a + b = PAGE_SIZE * (q + r)
  BY <1>1, <1>2, PageSize
<1>4. a + b \in Nat /\ q + r \in Nat
  BY DEF Aligned
<1> QED BY <1>3, <1>4 DEF Aligned

LEMMA AlignedDifference ==
  ASSUME NEW a, NEW b, Aligned(a), Aligned(b), b <= a
  PROVE  Aligned(a - b)
<1>1. PICK q \in Nat : a = PAGE_SIZE * q
  BY DEF Aligned
<1>2. PICK r \in Nat : b = PAGE_SIZE * r
  BY DEF Aligned
<1>3. a - b = PAGE_SIZE * (q - r)
  BY <1>1, <1>2, PageSize
<1>4. a \in Nat /\ b \in Nat
  BY DEF Aligned
<1>5. r <= q
  <2> SUFFICES ASSUME q + 1 <= r PROVE FALSE
    OBVIOUS
  <2>1. PAGE_SIZE * (q + 1) <= PAGE_SIZE * r
    BY PageSize, TimesMonotone
  <2>2. PAGE_SIZE * (q + 1) = PAGE_SIZE * q + PAGE_SIZE
    BY PageSize
  <2> QED BY <1>1, <1>2, <1>4, <2>1, <2>2, PageSize
<1> QED BY <1>3, <1>4, <1>5 DEF Aligned

\* What lies on two sides of a border lies in different pages.
LEMMA BorderParts ==
  ASSUME NEW b, Aligned(b), NEW x \in Nat, NEW y \in Nat, x < b, b <= y
  PROVE  PageOf(x) < PageOf(y)
<1>1. PICK q \in Nat : b = PAGE_SIZE * q
  BY DEF Aligned
<1> DEFINE u == PageOf(x)  v == PageOf(y)
<1>2. /\ u \in Int /\ x = PAGE_SIZE * u + Rel(x) /\ Rel(x) \in Offset
      /\ v \in Int /\ y = PAGE_SIZE * v + Rel(y) /\ Rel(y) \in Offset
  BY PageSize, DivMod DEF PageOf, Rel, Offset
<1> HIDE DEF u, v
<1>3. ~(q <= u)
  <2> SUFFICES ASSUME q <= u PROVE FALSE
    OBVIOUS
  <2>1. PAGE_SIZE * q <= PAGE_SIZE * u
    BY <1>2, PageSize, TimesMonotone
  <2>2. PAGE_SIZE * q \in Int /\ PAGE_SIZE * u \in Int
    BY <1>2, PageSize
  <2> QED BY <1>1, <1>2, <2>1, <2>2, PageSize DEF Offset
<1>4. ~(v + 1 <= q)
  <2> SUFFICES ASSUME v + 1 <= q PROVE FALSE
    OBVIOUS
  <2>1. PAGE_SIZE * (v + 1) <= PAGE_SIZE * q
    BY <1>2, PageSize, TimesMonotone
  <2>2. PAGE_SIZE * (v + 1) = PAGE_SIZE * v + PAGE_SIZE
    BY <1>2, PageSize
  <2>3. PAGE_SIZE * q \in Int /\ PAGE_SIZE * v \in Int
    BY <1>2, PageSize
  <2> QED BY <1>1, <1>2, <2>1, <2>2, <2>3, PageSize DEF Offset
<1>5. u < v
  BY <1>2, <1>3, <1>4
<1> QED BY <1>5 DEF u, v

\* The bytes of the page that begins at a border.
LEMMA PageFromBorder ==
  ASSUME NEW b, Aligned(b), NEW x \in b .. b + PAGE_SIZE - 1
  PROVE  PageOf(x) = PageOf(b) /\ Rel(b) = 0
<1>1. PICK q \in Nat : b = PAGE_SIZE * q
  BY DEF Aligned
<1>2. b \in Nat /\ x \in Int
  BY DEF Aligned
<1>3. x = PAGE_SIZE * q + (x - b) /\ x - b \in 0 .. PAGE_SIZE - 1
  BY <1>1, <1>2, PageSize
<1>4. b = PAGE_SIZE * q + 0 /\ 0 \in 0 .. PAGE_SIZE - 1
  BY <1>1, <1>2, PageSize
<1>5. x \div PAGE_SIZE = q
  BY <1>2, <1>3, PageSize, DivModUnique
<1>6. b \div PAGE_SIZE = q /\ b % PAGE_SIZE = 0
  BY <1>2, <1>4, PageSize, DivModUnique
<1> QED BY <1>5, <1>6 DEF PageOf, Rel

\* There is room for a page between two borders.
LEMMA BordersApart ==
  ASSUME NEW a, NEW b, Aligned(a), Aligned(b), a < b
  PROVE  a + PAGE_SIZE <= b
<1>1. PICK q \in Nat : a = PAGE_SIZE * q
  BY DEF Aligned
<1>2. PICK r \in Nat : b = PAGE_SIZE * r
  BY DEF Aligned
<1>3. ~(r <= q)
  <2> SUFFICES ASSUME r <= q PROVE FALSE
    OBVIOUS
  <2>1. PAGE_SIZE * r <= PAGE_SIZE * q
    BY PageSize, TimesMonotone
  <2> QED BY <1>1, <1>2, <2>1 DEF Aligned
<1>4. PAGE_SIZE * (q + 1) <= PAGE_SIZE * r
  BY <1>3, PageSize, TimesMonotone
<1>5. PAGE_SIZE * (q + 1) = PAGE_SIZE * q + PAGE_SIZE
  BY PageSize
<1> QED BY <1>1, <1>2, <1>4, <1>5 DEF Aligned

-----------------------------------------------------------------------------
(* Rounding up.                                                            *)

LEMMA AlignToBounds ==
  ASSUME NEW u \in Nat \ {0}, NEW n \in Nat
  PROVE  /\ AlignTo(u, n) \in Nat /\ n <= AlignTo(u, n)
         /\ \E q \in Nat : AlignTo(u, n) = u * q
<1> DEFINE q == (n + u - 1) \div u  r == (n + u - 1) % u
<1>1. q \in Int /\ r \in 0 .. u - 1 /\ n + u - 1 = u * q + r
  <2>1. n + u - 1 \in Int
    OBVIOUS
  <2> QED BY <2>1, DivMod
<1>2. 0 \div u = 0 /\ 0 \div u <= q
  BY DivMonotone
<1> HIDE DEF q, r
<1>3. q \in Nat /\ u * q \in Nat
  BY <1>1, <1>2
<1>4. n <= u * q
  BY <1>1, <1>3
<1>5. AlignTo(u, n) = u * q
  BY <1>1 DEF AlignTo, q
<1> QED BY <1>3, <1>4, <1>5

LEMMA AlignToMonotone ==
  ASSUME NEW u \in Nat \ {0}, NEW n \in Nat, NEW m \in Nat, n <= m
  PROVE  AlignTo(u, n) <= AlignTo(u, m)
<1>1. (n + u - 1) \div u <= (m + u - 1) \div u
  BY DivMonotone
<1>2. (n + u - 1) \div u \in Int /\ (m + u - 1) \div u \in Int
  BY DivMod
<1>3. u * ((n + u - 1) \div u) <= u * ((m + u - 1) \div u)
  BY <1>1, <1>2, TimesMonotone
<1> QED BY <1>2, <1>3 DEF AlignTo

LEMMA SegmentSize == SEGMENT_SIZE \in Nat \ {0} /\ Aligned(SEGMENT_SIZE)
<1>1. SEGMENT_SIZE = PAGE_SIZE * RESERVED_PAGES /\ RESERVED_PAGES \in Nat \ {0}
  BY SegmentsAssumption, PagesAssumption DEF RESERVED_MEMORY
<1> QED BY <1>1, PageSize DEF Aligned

LEMMA PageRounding ==
  ASSUME NEW n \in Nat, NEW m \in Nat, n <= m
  PROVE  /\ Aligned(AlignToPage(n)) /\ n <= AlignToPage(n)
         /\ AlignToPage(n) <= AlignToPage(m) /\ AlignToPage(m) \in Nat
BY PageSize, AlignToBounds, AlignToMonotone DEF AlignToPage, Aligned

LEMMA SegmentRounding ==
  ASSUME NEW n \in Nat, NEW m \in Nat, n <= m
  PROVE  /\ Aligned(AlignToSegment(n)) /\ n <= AlignToSegment(n)
         /\ AlignToSegment(n) <= AlignToSegment(m) /\ AlignToSegment(m) \in Nat
<1>1. PICK q \in Nat : AlignTo(SEGMENT_SIZE, n) = SEGMENT_SIZE * q
  BY SegmentSize, AlignToBounds
<1>2. PICK r \in Nat : SEGMENT_SIZE = PAGE_SIZE * r
  BY SegmentSize DEF Aligned
<1>3. SEGMENT_SIZE * q = PAGE_SIZE * (r * q) /\ r * q \in Nat
  BY <1>2, PageSize
<1>4. Aligned(AlignToSegment(n))
  BY <1>1, <1>3, SegmentSize, AlignToBounds DEF AlignToSegment, Aligned
<1> QED BY <1>4, SegmentSize, AlignToBounds, AlignToMonotone DEF AlignToSegment

-----------------------------------------------------------------------------
(* The regions of an SPI program.                                          *)

LEMMA Segments ==
  /\ MEMORY_SIZE \in Nat /\ Aligned(MEMORY_SIZE)
  /\ Aligned(STACK_SEGMENT_END) /\ Aligned(ARGS_SEGMENT_START)
  /\ Aligned(MEMORY_SIZE - SEGMENT_SIZE)
  /\ ARGS_SEGMENT_START + MAX_ARGS_LEN = MEMORY_SIZE - SEGMENT_SIZE
  /\ STACK_SEGMENT_END + SEGMENT_SIZE = ARGS_SEGMENT_START
  /\ 2 * SEGMENT_SIZE <= STACK_SEGMENT_END
  /\ MAX_ARGS_LEN \in Nat
<1>1. MEMORY_SIZE \in Nat /\ Aligned(MEMORY_SIZE)
  BY PagesAssumption DEF MEMORY_SIZE, Aligned
<1>2. Aligned(MAX_ARGS_LEN) /\ MAX_ARGS_LEN \in Nat
  <2> DEFINE q == MAX_ARGS_LEN \div PAGE_SIZE
  <2>1. MAX_ARGS_LEN \in Nat /\ MAX_ARGS_LEN % PAGE_SIZE = 0
    BY SegmentsAssumption
  <2>2. q \in Int /\ MAX_ARGS_LEN = PAGE_SIZE * q + 0
    BY <2>1, PageSize, DivMod
  <2>3. 0 \div PAGE_SIZE = 0 /\ 0 \div PAGE_SIZE <= q
    BY <2>1, PageSize, DivMonotone
  <2> HIDE DEF q
  <2>4. q \in Nat /\ MAX_ARGS_LEN = PAGE_SIZE * q
    BY <2>2, <2>3, PageSize
  <2> QED BY <2>1, <2>4 DEF Aligned
<1>3. 2 * SEGMENT_SIZE <= STACK_SEGMENT_END /\ STACK_SEGMENT_END \in Int
  <2>1. AlignToSegment(MaxLength) \in Nat /\ AlignToPage(MaxLength) \in Nat
    BY SegmentsAssumption, SegmentRounding, PageRounding
  <2>2. MaxHeapPages * PAGE_SIZE \in Nat
    BY SegmentsAssumption, PageSize
  <2>3. STACK_SEGMENT_END \in Int
    BY <1>1, <1>2, SegmentSize DEF STACK_SEGMENT_END, ARGS_SEGMENT_START
  <2> QED BY <2>1, <2>2, <2>3, SegmentsAssumption, SegmentSize
<1> DEFINE top == MEMORY_SIZE - SEGMENT_SIZE
<1>0. /\ SEGMENT_SIZE <= MEMORY_SIZE /\ MAX_ARGS_LEN <= top /\ SEGMENT_SIZE <= top - MAX_ARGS_LEN
      /\ ARGS_SEGMENT_START = top - MAX_ARGS_LEN
      /\ STACK_SEGMENT_END = ARGS_SEGMENT_START - SEGMENT_SIZE
  BY <1>1, <1>2, <1>3, SegmentSize DEF STACK_SEGMENT_END, ARGS_SEGMENT_START
<1>4. Aligned(top)
  BY <1>0, <1>1, SegmentSize, AlignedDifference
<1> HIDE DEF top
<1>5. Aligned(ARGS_SEGMENT_START)
  BY <1>0, <1>2, <1>4, AlignedDifference
<1>6. Aligned(STACK_SEGMENT_END)
  BY <1>0, <1>5, SegmentSize, AlignedDifference
<1>7. /\ ARGS_SEGMENT_START + MAX_ARGS_LEN = MEMORY_SIZE - SEGMENT_SIZE
      /\ STACK_SEGMENT_END + SEGMENT_SIZE = ARGS_SEGMENT_START
  BY <1>1, <1>2, <1>3, SegmentSize DEF STACK_SEGMENT_END, ARGS_SEGMENT_START
<1> QED BY <1>1, <1>2, <1>3, <1>4, <1>5, <1>6, <1>7 DEF top

LEMMA Borders ==
  ASSUME NEW i, IsSpiInput(i)
  PROVE  /\ Aligned(HeapStart(i)) /\ Aligned(HeapZerosStart(i)) /\ Aligned(HeapEnd(i))
         /\ Aligned(StackStart(i)) /\ Aligned(AlignToPage(i.stackSize))
         /\ SEGMENT_SIZE + i.roLength <= HeapStart(i)
         /\ HeapStart(i) + i.rwLength <= HeapZerosStart(i)
         /\ Aligned(HeapZerosLength(i)) /\ HeapZerosLength(i) \in Nat
         /\ HeapZerosStart(i) + HeapZerosLength(i) = HeapEnd(i)
         /\ HeapEnd(i) <= StackStart(i)
         /\ StackStart(i) + AlignToPage(i.stackSize) = STACK_SEGMENT_END
<1>1. /\ MaxLength \in Nat /\ MaxHeapPages \in Nat
      /\ i.roLength \in Nat /\ i.roLength <= MaxLength
      /\ i.rwLength \in Nat /\ i.rwLength <= MaxLength
      /\ i.stackSize \in Nat /\ i.stackSize <= MaxLength
      /\ i.heapPages \in Nat /\ i.heapPages <= MaxHeapPages
  BY SegmentsAssumption DEF IsSpiInput
<1>2. /\ Aligned(AlignToSegment(i.roLength)) /\ i.roLength <= AlignToSegment(i.roLength)
      /\ AlignToSegment(i.roLength) <= AlignToSegment(MaxLength)
      /\ AlignToSegment(MaxLength) \in Nat
  BY <1>1, SegmentRounding
<1>3. /\ Aligned(AlignToPage(i.rwLength)) /\ i.rwLength <= AlignToPage(i.rwLength)
      /\ AlignToPage(i.rwLength) <= AlignToPage(MaxLength)
      /\ Aligned(AlignToPage(i.stackSize))
      /\ AlignToPage(i.stackSize) <= AlignToPage(MaxLength)
      /\ AlignToPage(MaxLength) \in Nat
  BY <1>1, PageRounding
<1>4. /\ HeapZerosLength(i) = PAGE_SIZE * i.heapPages
      /\ Aligned(HeapZerosLength(i)) /\ HeapZerosLength(i) \in Nat
  <2>1. HeapZerosLength(i) = PAGE_SIZE * i.heapPages
    BY <1>1, PageSize DEF HeapZerosLength
  <2> DEFINE n == i.heapPages
  <2>2. n \in Nat /\ HeapZerosLength(i) = PAGE_SIZE * n
    BY <1>1, <2>1
  <2> HIDE DEF n
  <2>3. PAGE_SIZE * n \in Nat
    BY <2>2, PageSize
  <2> QED BY <2>1, <2>2, <2>3 DEF Aligned
<1>5. HeapZerosLength(i) <= MaxHeapPages * PAGE_SIZE /\ MaxHeapPages * PAGE_SIZE \in Nat
  <2>1. PAGE_SIZE * i.heapPages <= PAGE_SIZE * MaxHeapPages
    BY <1>1, PageSize, TimesMonotone
  <2> QED BY <1>1, <1>4, <2>1, PageSize
<1>6. /\ HeapStart(i) = SEGMENT_SIZE + SEGMENT_SIZE + AlignToSegment(i.roLength)
      /\ HeapZerosStart(i) = HeapStart(i) + AlignToPage(i.rwLength)
      /\ HeapEnd(i) = HeapZerosStart(i) + HeapZerosLength(i)
      /\ StackStart(i) = STACK_SEGMENT_END - AlignToPage(i.stackSize)
  BY SegmentSize DEF HeapStart, HeapZerosStart, HeapEnd, StackStart
<1>7. Aligned(HeapStart(i))
  BY <1>2, <1>6, SegmentSize, AlignedSum
<1>8. Aligned(HeapZerosStart(i))
  BY <1>3, <1>6, <1>7, AlignedSum
<1>9. Aligned(HeapEnd(i))
  BY <1>4, <1>6, <1>8, AlignedSum
<1>10. /\ AlignToSegment(i.roLength) \in Nat /\ AlignToPage(i.rwLength) \in Nat
       /\ AlignToPage(i.stackSize) \in Nat /\ STACK_SEGMENT_END \in Nat
       /\ HeapStart(i) \in Nat /\ HeapZerosStart(i) \in Nat /\ HeapEnd(i) \in Nat
  BY <1>2, <1>3, <1>7, <1>8, <1>9, Segments DEF Aligned
<1>11. HeapEnd(i) + AlignToPage(i.stackSize) <= STACK_SEGMENT_END
  <2>1. 2 * SEGMENT_SIZE + AlignToSegment(MaxLength) + AlignToPage(MaxLength)
          + MaxHeapPages * PAGE_SIZE + AlignToPage(MaxLength) <= STACK_SEGMENT_END
    BY SegmentsAssumption
  <2> DEFINE heap == MaxHeapPages * PAGE_SIZE
  <2>2. heap \in Nat /\ HeapZerosLength(i) <= heap
    BY <1>5
  <2>3. 2 * SEGMENT_SIZE + AlignToSegment(MaxLength) + AlignToPage(MaxLength)
          + heap + AlignToPage(MaxLength) <= STACK_SEGMENT_END
    BY <2>1
  <2> HIDE DEF heap
  <2> QED BY <1>2, <1>3, <1>4, <1>6, <1>10, <2>2, <2>3, SegmentSize
<1>12. Aligned(StackStart(i))
  BY <1>3, <1>6, <1>10, <1>11, Segments, AlignedDifference
<1> QED BY <1>1, <1>2, <1>3, <1>4, <1>6, <1>7, <1>8, <1>9, <1>10, <1>11, <1>12, SegmentSize

\* Where the pages of a section end at the latest.
Hi(i, k) == CASE k = 1 -> HeapStart(i)
              [] k = 2 -> MEMORY_SIZE - SEGMENT_SIZE
              [] k = 3 -> HeapZerosStart(i)
              [] k = 4 -> HeapEnd(i)
              [] k = 5 -> STACK_SEGMENT_END

LEMMA SpiSectionsAre ==
  ASSUME NEW i
  PROVE  /\ Len(SpiSections(i)) = 5 /\ DOMAIN SpiSections(i) = 1 .. 5
         /\ SpiSections(i)[1].how = "data" /\ SpiSections(i)[1].access = "Read"
         /\ SpiSections(i)[1].addr = SEGMENT_SIZE
         /\ SpiSections(i)[1].len = i.roLength
         /\ SpiSections(i)[2].how = "data" /\ SpiSections(i)[2].access = "Read"
         /\ SpiSections(i)[2].addr = ARGS_SEGMENT_START
         /\ SpiSections(i)[2].len = i.argsLength
         /\ SpiSections(i)[3].how = "data" /\ SpiSections(i)[3].access = "Write"
         /\ SpiSections(i)[3].addr = HeapStart(i)
         /\ SpiSections(i)[3].len = i.rwLength
         /\ SpiSections(i)[4].how = "empty" /\ SpiSections(i)[4].access = "Write"
         /\ SpiSections(i)[4].addr = HeapZerosStart(i)
         /\ SpiSections(i)[4].len = HeapZerosLength(i)
         /\ SpiSections(i)[5].how = "empty" /\ SpiSections(i)[5].access = "Write"
         /\ SpiSections(i)[5].addr = StackStart(i)
         /\ SpiSections(i)[5].len = AlignToPage(i.stackSize)
BY DEF SpiSections, Section

\* Every section lies between two borders, and these do not overlap.
LEMMA Regions ==
  ASSUME NEW i, IsSpiInput(i), NEW k \in 1 .. 5
  PROVE  LET s == SpiSections(i)[k]
         IN /\ s.how \in {"data", "empty"} /\ s.access \in {"Read", "Write"}
            /\ Aligned(s.addr) /\ s.addr < MEMORY_SIZE /\ s.len \in Nat
            /\ Aligned(Hi(i, k)) /\ Hi(i, k) < MEMORY_SIZE
            /\ i.argsLength <= MAX_ARGS_LEN => s.addr + s.len <= Hi(i, k)
            /\ s.how = "empty" => Aligned(s.len)
            /\ s.how = "empty" => s.addr + s.len <= Hi(i, k)
            /\ s.addr >= SEGMENT_SIZE
            /\ \/ Hi(i, k) <= HeapEnd(i)
               \/ s.addr >= StackStart(i) /\ Hi(i, k) <= STACK_SEGMENT_END
               \/ s.addr >= ARGS_SEGMENT_START /\ Hi(i, k) <= MEMORY_SIZE - SEGMENT_SIZE
<1> DEFINE b1 == HeapStart(i)  b2 == HeapZerosStart(i)  b3 == HeapEnd(i)  b4 == StackStart(i)
           s == SpiSections(i)[k]
<1>1. /\ Aligned(b1) /\ Aligned(b2) /\ Aligned(b3) /\ Aligned(b4)
      /\ SEGMENT_SIZE + i.roLength <= b1 /\ b1 + i.rwLength <= b2
      /\ HeapZerosLength(i) \in Nat /\ b2 + HeapZerosLength(i) = b3 /\ b3 <= b4
      /\ b4 + AlignToPage(i.stackSize) = STACK_SEGMENT_END
      /\ Aligned(AlignToPage(i.stackSize))
  BY Borders
<1>2. /\ i.roLength \in Nat /\ i.rwLength \in Nat /\ i.argsLength \in Nat
      /\ i.stackSize \in Nat /\ i.heapPages \in Nat
  BY SegmentsAssumption DEF IsSpiInput
<1>3. Aligned(HeapZerosLength(i))
  BY Borders
<1>4. /\ b1 \in Nat /\ b2 \in Nat /\ b3 \in Nat /\ b4 \in Nat
      /\ STACK_SEGMENT_END \in Nat /\ ARGS_SEGMENT_START \in Nat /\ MEMORY_SIZE \in Nat
      /\ AlignToPage(i.stackSize) \in Nat
  BY <1>1, Segments DEF Aligned
<1> HIDE DEF b1, b2, b3, b4
<1>5. CASE k = 1
  <2>1. s.addr = SEGMENT_SIZE /\ s.len = i.roLength /\ s.how = "data" /\ s.access = "Read"
        /\ Hi(i, k) = b1
    BY <1>5, SpiSectionsAre DEF Hi, b1
  <2> QED BY <1>1, <1>2, <1>4, <2>1, Segments, SegmentSize DEF b1, b2, b3, b4
<1>6. CASE k = 2
  <2>1. s.addr = ARGS_SEGMENT_START /\ s.len = i.argsLength /\ s.how = "data" /\ s.access = "Read"
        /\ Hi(i, k) = MEMORY_SIZE - SEGMENT_SIZE
    BY <1>6, SpiSectionsAre DEF Hi
  <2> QED BY <1>1, <1>2, <1>4, <2>1, Segments, SegmentSize DEF b1, b2, b3, b4
<1>7. CASE k = 3
  <2>1. s.addr = b1 /\ s.len = i.rwLength /\ s.how = "data" /\ s.access = "Write" /\ Hi(i, k) = b2
    BY <1>7, SpiSectionsAre DEF Hi, b1, b2
  <2> QED BY <1>1, <1>2, <1>4, <2>1, Segments, SegmentSize DEF b1, b2, b3, b4
<1>8. CASE k = 4
  <2>1. s.addr = b2 /\ s.len = HeapZerosLength(i) /\ s.how = "empty" /\ s.access = "Write"
        /\ Hi(i, k) = b3
    BY <1>8, SpiSectionsAre DEF Hi, b2, b3
  <2> QED BY <1>1, <1>2, <1>3, <1>4, <2>1, Segments, SegmentSize DEF b1, b2, b3, b4
<1>9. CASE k = 5
  <2>1. s.addr = b4 /\ s.len = AlignToPage(i.stackSize) /\ s.how = "empty" /\ s.access = "Write"
        /\ Hi(i, k) = STACK_SEGMENT_END
    BY <1>9, SpiSectionsAre DEF Hi, b4
  <2> QED BY <1>1, <1>2, <1>4, <2>1, Segments, SegmentSize DEF b1, b2, b3, b4
<1> QED BY <1>5, <1>6, <1>7, <1>8, <1>9

LEMMA RegionsApart ==
  ASSUME NEW i, IsSpiInput(i), NEW k \in 1 .. 5, NEW j \in 1 .. 5, k # j
  PROVE  Hi(i, k) <= SpiSections(i)[j].addr \/ Hi(i, j) <= SpiSections(i)[k].addr
<1>1. /\ SpiSections(i)[1].addr = SEGMENT_SIZE /\ SpiSections(i)[2].addr = ARGS_SEGMENT_START
      /\ SpiSections(i)[3].addr = HeapStart(i) /\ SpiSections(i)[4].addr = HeapZerosStart(i)
      /\ SpiSections(i)[5].addr = StackStart(i)
  BY SpiSectionsAre
<1>2. /\ Hi(i, 1) = HeapStart(i) /\ Hi(i, 2) = MEMORY_SIZE - SEGMENT_SIZE
      /\ Hi(i, 3) = HeapZerosStart(i) /\ Hi(i, 4) = HeapEnd(i) /\ Hi(i, 5) = STACK_SEGMENT_END
  BY DEF Hi
<1>3. /\ HeapStart(i) <= HeapZerosStart(i) /\ HeapZerosStart(i) <= HeapEnd(i)
      /\ HeapEnd(i) <= StackStart(i) /\ StackStart(i) <= STACK_SEGMENT_END
      /\ STACK_SEGMENT_END <= ARGS_SEGMENT_START
      /\ HeapStart(i) \in Nat /\ HeapZerosStart(i) \in Nat /\ HeapEnd(i) \in Nat
      /\ StackStart(i) \in Nat /\ STACK_SEGMENT_END \in Nat /\ ARGS_SEGMENT_START \in Nat
  <2>1. i.rwLength \in Nat
    BY DEF IsSpiInput
  <2> QED BY <2>1, Borders, Segments, SegmentSize DEF Aligned
<1> QED BY <1>1, <1>2, <1>3

\* Bytes of different sections are in different pages.
LEMMA SectionsInOwnPages ==
  ASSUME NEW i, IsSpiInput(i), i.argsLength <= MAX_ARGS_LEN,
         NEW k \in 1 .. 5, NEW j \in 1 .. 5, k # j, NEW x \in Nat, NEW y \in Nat,
         SpiSections(i)[k].addr <= x, x < Hi(i, k),
         SpiSections(i)[j].addr <= y, y < Hi(i, j)
  PROVE  PageOf(x) # PageOf(y)
<1>1. /\ Aligned(Hi(i, k)) /\ Aligned(Hi(i, j))
      /\ SpiSections(i)[k].addr \in Nat /\ SpiSections(i)[j].addr \in Nat
      /\ Hi(i, k) \in Nat /\ Hi(i, j) \in Nat
  BY Regions DEF Aligned
<1>2. PageOf(x) \in Int /\ PageOf(y) \in Int
  BY PageSize, DivMod DEF PageOf
<1>3. CASE Hi(i, k) <= SpiSections(i)[j].addr
  <2>1. Hi(i, k) <= y
    BY <1>1, <1>3
  <2>2. PageOf(x) < PageOf(y)
    BY <1>1, <2>1, BorderParts
  <2> QED BY <1>2, <2>2
<1>4. CASE Hi(i, j) <= SpiSections(i)[k].addr
  <2>1. Hi(i, j) <= x
    BY <1>1, <1>4
  <2>2. PageOf(y) < PageOf(x)
    BY <1>1, <2>1, BorderParts
  <2> QED BY <1>2, <2>2
<1> QED BY <1>3, <1>4, RegionsApart

-----------------------------------------------------------------------------
(* The invariant.                                                          *)

BuilderTypes ==
  /\ kind \in {"spi", "generic", "default"}
  /\ kind = "spi" => input \in SpiInputs
  /\ kind = "generic" => input \in GenericInputs
  /\ current \in 1 .. Len(Sections) + 1 /\ placed \in Nat
  /\ right \in [PageIdx -> AccessKind \cup {"Unmapped"}]
  /\ order \in Seq(RESERVED_PAGES .. NUM_PAGES - 1)
  /\ owner \in [Addr -> Nat]
  /\ sbrk \in Addr /\ maxHeap \in Addr
  /\ kind # "default" => sbrk >= RESERVED_MEMORY

\* The pages that have a right are those that were created, each once.
OrderGood ==
  /\ \A k, j \in 1 .. Len(order) : order[k] = order[j] => k = j
  /\ \A p \in PageIdx : right[p] # "Unmapped" <=> \E k \in 1 .. Len(order) : order[k] = p

\* What has been built has all of its sections, and a heap below its limit.
BuiltGood ==
  /\ phase = "placing" => maxHeap = MEMORY_SIZE - 1
  /\ phase = "built" =>
       /\ current = Len(Sections) + 1 /\ ~ArgsTooLong
       /\ RESERVED_MEMORY <= sbrk /\ sbrk <= maxHeap
       /\ kind = "spi" => sbrk = HeapEnd(input) /\ maxHeap = StackStart(input)

\* How much of a section of an SPI program has been placed, and where.
Progress(k) == IF k < current THEN SpiSections(input)[k].len
               ELSE IF k = current THEN placed ELSE 0
Covered(k, x) == /\ SpiSections(input)[k].addr <= x
                 /\ x < SpiSections(input)[k].addr + Progress(k)

\* What has been placed has the right and the data of its section, and there
\* is nothing else.
SpiPlaced ==
  /\ \A k \in 1 .. 5, x \in Addr : Covered(k, x) =>
       /\ right[PageOf(x)] = SpiSections(input)[k].access
       /\ owner[x] = IF SpiSections(input)[k].how = "data" THEN k ELSE 0
  /\ \A p \in PageIdx : right[p] # "Unmapped" =>
       \E k \in 1 .. 5, x \in Addr : Covered(k, x) /\ PageOf(x) = p
  /\ \A x \in Addr : owner[x] # 0 => owner[x] \in 1 .. 5 /\ Covered(owner[x], x)

\* A section is entered at a border of pages and left at its end.
SpiProgress ==
  /\ current \in 1 .. 6
  /\ current <= 5 =>
       /\ placed <= SpiSections(input)[current].len
       /\ Aligned(placed) \/ placed = SpiSections(input)[current].len
  /\ current = 6 => placed = 0
  /\ ArgsTooLong => current = 1 /\ placed = 0

SpiGood == kind = "spi" => SpiProgress /\ SpiPlaced

\* buildMemory has moved the heap pointer behind what it has placed.
GenericGood ==
  kind = "generic" =>
    \A k \in 1 .. current - 1 :
      LET s == GenericSections(input)[k]
      IN s.access # "Read" /\ s.addr + s.len < MEMORY_SIZE => s.addr + s.len <= sbrk

BuilderInv == BuilderTypes /\ OrderGood /\ BuiltGood /\ SpiGood /\ GenericGood

LEMMA ItemsOf ==
  ASSUME NEW S, NEW s \in Seq(S)
  PROVE  /\ Len(s) \in Nat /\ \A k \in 1 .. Len(s) : s[k] \in S
         /\ s \in [1 .. Len(s) -> S]
OBVIOUS

LEMMA ItemAppended ==
  ASSUME NEW S, NEW s \in Seq(S), NEW e \in S
  PROVE  Append(s, e) \in Seq(S)
OBVIOUS

LEMMA SectionsTyped ==
  ASSUME BuilderTypes
  PROVE  /\ Len(Sections) \in Nat
         /\ \A k \in 1 .. Len(Sections) :
              /\ Sections[k].how \in {"data", "empty"} /\ Sections[k].access \in AccessKind
              /\ Sections[k].addr \in Addr /\ Sections[k].len \in Nat
         /\ kind = "spi" => Sections = SpiSections(input) /\ Len(Sections) = 5 /\ IsSpiInput(input)
         /\ kind = "generic" => /\ Sections = GenericSections(input)
                                /\ DOMAIN GenericSections(input) = 1 .. Len(Sections)
         /\ kind = "default" => Len(Sections) = 0
<1>1. CASE kind = "spi"
  <2>1. Sections = SpiSections(input) /\ IsSpiInput(input)
    BY <1>1, InputsAssumption DEF Sections, BuilderTypes
  <2>2. Len(SpiSections(input)) = 5
    BY SpiSectionsAre
  <2>3. ASSUME NEW k \in 1 .. 5
        PROVE  /\ Sections[k].how \in {"data", "empty"} /\ Sections[k].access \in AccessKind
               /\ Sections[k].addr \in Addr /\ Sections[k].len \in Nat
    <3>1. LET t == SpiSections(input)[k]
          IN /\ t.how \in {"data", "empty"} /\ t.access \in {"Read", "Write"}
             /\ t.addr \in Nat /\ t.addr < MEMORY_SIZE /\ t.len \in Nat
      BY <2>1, Regions DEF Aligned
    <3> QED BY <2>1, <3>1, Segments DEF Addr, AccessKind
  <2> QED BY <1>1, <2>1, <2>2, <2>3
<1>2. CASE kind = "generic"
  <2> DEFINE n == Len(input.pages)  m == Len(input.chunks)
  <2>1. Sections = GenericSections(input) /\ IsGenericInput(input)
    BY <1>2, InputsAssumption DEF Sections, BuilderTypes
  <2>2. /\ n \in Nat /\ m \in Nat
        /\ \A k \in 1 .. n : input.pages[k] \in [access : {"Read", "Write"}, addr : Addr, len : Addr]
        /\ \A k \in 1 .. m : input.chunks[k] \in [access : {"None"}, addr : Addr, len : Addr]
    BY <2>1, ItemsOf DEF IsGenericInput
  <2>3. GenericSections(input) =
          [k \in 1 .. n + m |->
             IF k <= n
             THEN Section("data", input.pages[k].access, input.pages[k].addr, input.pages[k].len)
             ELSE Section("data", "None", input.chunks[k - n].addr, input.chunks[k - n].len)]
    BY DEF GenericSections
  <2> HIDE DEF n, m
  <2>4. n + m \in Nat /\ Len(GenericSections(input)) = n + m
        /\ DOMAIN GenericSections(input) = 1 .. n + m
    BY <2>2, <2>3
  <2>5. ASSUME NEW k \in 1 .. n + m
        PROVE  /\ Sections[k].how \in {"data", "empty"} /\ Sections[k].access \in AccessKind
               /\ Sections[k].addr \in Addr /\ Sections[k].len \in Nat
    <3>1. CASE k <= n
      <4>1. Sections[k] = Section("data", input.pages[k].access, input.pages[k].addr, input.pages[k].len)
        BY <2>1, <2>3, <3>1
      <4>2. input.pages[k] \in [access : {"Read", "Write"}, addr : Addr, len : Addr]
        BY <2>2, <3>1
      <4> QED BY <4>1, <4>2, Segments DEF Section, AccessKind, Addr
    <3>2. CASE ~(k <= n)
      <4>1. Sections[k] = Section("data", "None", input.chunks[k - n].addr, input.chunks[k - n].len)
        BY <2>1, <2>3, <3>2
      <4>2. input.chunks[k - n] \in [access : {"None"}, addr : Addr, len : Addr]
        <5>1. k - n \in 1 .. m
          BY <2>2, <3>2
        <5> QED BY <2>2, <5>1
      <4> QED BY <4>1, <4>2, Segments DEF Section, AccessKind, Addr
    <3> QED BY <3>1, <3>2
  <2> QED BY <1>2, <2>1, <2>4, <2>5
<1>3. CASE kind = "default"
  BY <1>3 DEF Sections
<1> QED BY <1>1, <1>2, <1>3 DEF BuilderTypes

LEMMA SectionsStay == kind' = kind /\ input' = input => Sections' = Sections
BY DEF Sections

LEMMA ReservedBelowTop ==
  RESERVED_MEMORY \in Addr /\ MEMORY_SIZE - 1 \in Addr /\ RESERVED_MEMORY = SEGMENT_SIZE /\ 0 \in Addr
BY Segments, SegmentSize, SegmentsAssumption DEF Addr, Aligned

LEMMA InitEstablishesBuilderInv == Init => BuilderInv
<1> SUFFICES ASSUME Init PROVE BuilderInv
  OBVIOUS
<1>1. /\ kind \in {"spi", "generic", "default"}
      /\ kind = "spi" => input \in SpiInputs
      /\ kind = "generic" => input \in GenericInputs
  BY DEF Init
<1>2. Len(Sections) \in Nat
  <2>1. CASE kind = "spi"
    BY <2>1, SpiSectionsAre DEF Sections
  <2>2. CASE kind = "generic"
    <3>1. IsGenericInput(input) /\ Sections = GenericSections(input)
      BY <1>1, <2>2, InputsAssumption DEF Sections
    <3>2. Len(input.pages) + Len(input.chunks) \in Nat
      <4>1. Len(input.pages) \in Nat /\ Len(input.chunks) \in Nat
        BY <3>1, ItemsOf DEF IsGenericInput
      <4> DEFINE a == Len(input.pages)  b == Len(input.chunks)
      <4>2. a \in Nat /\ b \in Nat
        BY <4>1
      <4> HIDE DEF a, b
      <4>3. a + b \in Nat
        BY <4>2
      <4> QED BY <4>3 DEF a, b
    <3> DEFINE n == Len(input.pages) + Len(input.chunks)
               f == [k \in 1 .. n |->
                       IF k <= Len(input.pages)
                       THEN Section("data", input.pages[k].access, input.pages[k].addr, input.pages[k].len)
                       ELSE Section("data", "None", input.chunks[k - Len(input.pages)].addr,
                                    input.chunks[k - Len(input.pages)].len)]
    <3>3. Sections = f
      BY <3>1 DEF GenericSections
    <3> HIDE DEF n
    <3>4. n \in Nat
      BY <3>2 DEF n
    <3>5. Len(f) = n
      BY <3>4
    <3> QED BY <3>3, <3>4, <3>5
  <2>3. CASE kind = "default"
    BY <2>3 DEF Sections
  <2> QED BY <1>1, <2>1, <2>2, <2>3
<1>3. BuilderTypes
  BY <1>1, <1>2, ReservedBelowTop DEF Init, BuilderTypes, Addr
<1>4. OrderGood
  BY DEF Init, OrderGood
<1>5. BuiltGood
  BY DEF Init, BuiltGood
<1>6. SpiGood
  <2> SUFFICES ASSUME kind = "spi" PROVE SpiProgress /\ SpiPlaced
    BY DEF SpiGood
  <2>1. current = 1 /\ placed = 0 /\ right = [p \in PageIdx |-> "Unmapped"] /\ owner = [x \in Addr |-> 0]
    BY DEF Init
  <2>2. IsSpiInput(input)
    BY <1>1, InputsAssumption
  <2>3. SpiProgress
    <3>1. SpiSections(input)[1].len \in Nat
      BY <2>2, Regions
    <3>2. Aligned(0)
      BY PageSize DEF Aligned
    <3> QED BY <2>1, <3>1, <3>2 DEF SpiProgress
  <2>4. ASSUME NEW k \in 1 .. 5, NEW x \in Addr PROVE ~Covered(k, x)
    <3>1. Progress(k) = 0
      BY <2>1 DEF Progress
    <3>2. SpiSections(input)[k].addr \in Nat
      BY <2>2, Regions DEF Aligned
    <3> QED BY <3>1, <3>2 DEF Covered, Addr
  <2> QED BY <2>1, <2>3, <2>4 DEF SpiPlaced
<1>7. GenericGood
  BY DEF Init, GenericGood
<1> QED BY <1>3, <1>4, <1>5, <1>6, <1>7 DEF BuilderInv

-----------------------------------------------------------------------------
(* The steps keep the invariant.                                           *)

\* What a round of the loop of a section does, whoever wrote the section.
LEMMA PlacePageTyped ==
  ASSUME BuilderTypes, PlacePage
  PROVE  LET s == Sections[current]
         IN /\ current \in 1 .. Len(Sections) /\ At(s) \in Addr
            /\ PageOf(At(s)) \in RESERVED_PAGES .. NUM_PAGES - 1
            /\ Chunk(s) \in Nat /\ s.access \in AccessKind
            /\ s.how \in {"data", "empty"} /\ s.addr \in Addr /\ s.len \in Nat
<1> DEFINE s == Sections[current]
<1>1. /\ current \in 1 .. Len(Sections) /\ More(s) /\ PageOf(At(s)) >= RESERVED_PAGES
  BY SectionsTyped DEF PlacePage, Placing, BuilderTypes
<1>2. /\ s.access \in AccessKind /\ s.how \in {"data", "empty"} /\ s.addr \in Addr /\ s.len \in Nat
  BY <1>1, SectionsTyped
<1>3. placed \in Nat
  BY DEF BuilderTypes
<1> HIDE DEF s
<1>4. At(s) \in Addr
  <2>1. s.addr + placed \in Int /\ MEMORY_SIZE \in Nat \ {0}
    BY <1>2, <1>3, Segments, SegmentSize DEF Addr
  <2> QED BY <2>1, DivMod DEF At, Addr
<1>5. PageOf(At(s)) \in RESERVED_PAGES .. NUM_PAGES - 1 /\ Rel(At(s)) \in Offset
  BY <1>1, <1>4, AddrInPage, PagesAssumption DEF PageIdx
<1>6. Chunk(s) \in Nat
  <2>1. PAGE_SIZE - Rel(At(s)) \in Nat
    BY <1>5, PageSize DEF Offset
  <2>2. s.how = "data" => s.len - placed \in Nat
    BY <1>1, <1>2, <1>3 DEF More
  <2> QED BY <1>2, <2>1, <2>2, PageSize DEF Chunk
<1> QED BY <1>1, <1>2, <1>4, <1>5, <1>6 DEF s

LEMMA PlacePageKeepsTypes == BuilderTypes /\ PlacePage => BuilderTypes'
<1> SUFFICES ASSUME BuilderTypes, PlacePage PROVE BuilderTypes'
  OBVIOUS
<1> DEFINE s == Sections[current]  p == PageOf(At(s))
<1>1. /\ current \in 1 .. Len(Sections) /\ p \in RESERVED_PAGES .. NUM_PAGES - 1
      /\ Chunk(s) \in Nat /\ s.access \in AccessKind
  BY PlacePageTyped
<1>2. /\ UNCHANGED <<kind, input, current, sbrk, maxHeap, phase>>
      /\ placed' = placed + Chunk(s)
      /\ owner' = [x \in Addr |-> IF s.how = "data" /\ x \in At(s) .. At(s) + Chunk(s) - 1
                                  THEN current ELSE owner[x]]
      /\ \/ right' = [right EXCEPT ![p] = s.access] /\ order' = Append(order, p)
         \/ UNCHANGED <<right, order>>
  BY DEF PlacePage
<1>3. Sections' = Sections
  BY <1>2, SectionsStay
<1> HIDE DEF s, p
<1>4. placed' \in Nat
  BY <1>1, <1>2 DEF BuilderTypes
<1>5. right' \in [PageIdx -> AccessKind \cup {"Unmapped"}]
  BY <1>1, <1>2 DEF BuilderTypes
<1>6. order' \in Seq(RESERVED_PAGES .. NUM_PAGES - 1)
  <2> DEFINE S == RESERVED_PAGES .. NUM_PAGES - 1
  <2>1. order \in Seq(S) /\ p \in S
    BY <1>1 DEF BuilderTypes
  <2> HIDE DEF S
  <2>2. Append(order, p) \in Seq(S)
    BY <2>1, ItemAppended
  <2>3. order' \in Seq(S)
    BY <1>2, <2>1, <2>2
  <2> QED BY <2>3 DEF S
<1>7. owner' \in [Addr -> Nat]
  <2>1. current \in Nat
    BY DEF BuilderTypes
  <2> QED BY <1>2, <2>1 DEF BuilderTypes
<1> QED BY <1>2, <1>3, <1>4, <1>5, <1>6, <1>7 DEF BuilderTypes

LEMMA PlacePageKeepsOrder == BuilderTypes /\ OrderGood /\ PlacePage => OrderGood'
<1> SUFFICES ASSUME BuilderTypes, OrderGood, PlacePage PROVE OrderGood'
  OBVIOUS
<1> DEFINE p == PageOf(At(Sections[current]))  a == Sections[current].access
<1>1. p \in PageIdx /\ a \in AccessKind
  BY PlacePageTyped, PagesAssumption DEF PageIdx
<1>2. CASE right[p] # "Unmapped"
  <2>1. right' = right /\ order' = order
    BY <1>2 DEF PlacePage
  <2> QED BY <2>1 DEF OrderGood
<1>3. CASE right[p] = "Unmapped"
  <2>1. right' = [right EXCEPT ![p] = a] /\ order' = Append(order, p)
    BY <1>3 DEF PlacePage
  <2> HIDE DEF p, a
  <2>2. order \in Seq(RESERVED_PAGES .. NUM_PAGES - 1) /\ right \in [PageIdx -> AccessKind \cup {"Unmapped"}]
    BY DEF BuilderTypes
  <2>3. /\ Len(order) \in Nat /\ Len(order') = Len(order) + 1
        /\ \A k \in 1 .. Len(order) : order'[k] = order[k]
        /\ order'[Len(order) + 1] = p
    BY <2>1, <2>2
  <2>4. \A k \in 1 .. Len(order) : order[k] # p
    BY <1>1, <1>3 DEF OrderGood
  <2>5. a # "Unmapped"
    BY <1>1 DEF AccessKind
  <2>6. \A k, j \in 1 .. Len(order') : order'[k] = order'[j] => k = j
    BY <2>3, <2>4 DEF OrderGood
  <2>7. ASSUME NEW q \in PageIdx
        PROVE  right'[q] # "Unmapped" <=> \E k \in 1 .. Len(order') : order'[k] = q
    <3>1. CASE q = p
      <4>1. right'[q] = a
        BY <1>1, <2>1, <2>2, <3>1
      <4>2. Len(order) + 1 \in 1 .. Len(order') /\ order'[Len(order) + 1] = q
        BY <2>3, <3>1
      <4> QED BY <2>5, <4>1, <4>2
    <3>2. CASE q # p
      <4>1. right'[q] = right[q]
        BY <1>1, <2>1, <2>2, <3>2
      <4>2. (\E k \in 1 .. Len(order') : order'[k] = q) <=> (\E k \in 1 .. Len(order) : order[k] = q)
        <5>1. ASSUME NEW k \in 1 .. Len(order'), order'[k] = q
              PROVE  k \in 1 .. Len(order) /\ order[k] = q
          BY <2>3, <3>2, <5>1
        <5>2. ASSUME NEW k \in 1 .. Len(order), order[k] = q
              PROVE  k \in 1 .. Len(order') /\ order'[k] = q
          BY <2>3, <5>2
        <5> QED BY <5>1, <5>2
      <4> QED BY <4>1, <4>2 DEF OrderGood
    <3> QED BY <3>1, <3>2
  <2> QED BY <2>6, <2>7 DEF OrderGood
<1> QED BY <1>2, <1>3

\* A round for an SPI program goes on at a border, with bytes of one page that
\* are left of the section.
LEMMA SpiRound ==
  ASSUME BuilderTypes, SpiGood, kind = "spi", PlacePage
  PROVE  LET s == SpiSections(input)[current]
         IN /\ Sections[current] = s /\ current \in 1 .. 5
            /\ IsSpiInput(input) /\ input.argsLength <= MAX_ARGS_LEN
            /\ s.addr \in Nat /\ placed \in Nat /\ s.len \in Nat
            /\ At(s) = s.addr + placed /\ At(s) \in Addr /\ Aligned(At(s))
            /\ Chunk(s) \in 1 .. PAGE_SIZE
            /\ placed + Chunk(s) <= s.len
            /\ Aligned(placed + Chunk(s)) \/ placed + Chunk(s) = s.len
<1> DEFINE s == SpiSections(input)[current]
<1>1. /\ Sections[current] = s /\ current \in 1 .. 5
      /\ IsSpiInput(input) /\ input.argsLength <= MAX_ARGS_LEN
  <2>1. Sections = SpiSections(input) /\ Len(Sections) = 5 /\ IsSpiInput(input)
    BY SectionsTyped
  <2>2. current \in 1 .. 5
    BY <2>1 DEF PlacePage, Placing, BuilderTypes
  <2>3. ~(input.argsLength > MAX_ARGS_LEN)
    BY DEF PlacePage, Placing, ArgsTooLong
  <2> QED BY <2>1, <2>2, <2>3, Segments DEF IsSpiInput
<1>2. /\ s.how \in {"data", "empty"} /\ Aligned(s.addr) /\ s.len \in Nat
      /\ s.addr + s.len <= Hi(input, current) /\ Hi(input, current) < MEMORY_SIZE
      /\ Hi(input, current) \in Nat
      /\ s.how = "empty" => Aligned(s.len)
  BY <1>1, Regions DEF Aligned
<1>3. /\ placed \in Nat /\ placed <= s.len
      /\ Aligned(placed) \/ placed = s.len
  BY <1>1 DEF SpiGood, SpiProgress, BuilderTypes
<1>4. More(s)
  BY <1>1 DEF PlacePage
<1> HIDE DEF s
<1>5. s.addr \in Nat /\ s.addr + placed \in Addr /\ s.addr + s.len \in Addr
  BY <1>2, <1>3, Segments DEF Addr, Aligned
<1>6. /\ At(s) = s.addr + placed
      /\ (s.addr + s.len) % MEMORY_SIZE = s.addr + s.len
  <2>1. \A x \in Addr : x % MEMORY_SIZE = x
    BY Segments, SegmentSize DEF Addr
  <2> QED BY <1>5, <2>1 DEF At
<1>7. placed < s.len /\ Aligned(placed)
  BY <1>2, <1>3, <1>4, <1>5, <1>6 DEF More
<1>8. Aligned(At(s))
  BY <1>2, <1>6, <1>7, AlignedSum
<1>9. Rel(At(s)) = 0
  <2>1. At(s) \in At(s) .. At(s) + PAGE_SIZE - 1
    BY <1>8, PageSize DEF Aligned
  <2> QED BY <1>8, <2>1, PageFromBorder
<1>10. Aligned(placed + PAGE_SIZE)
  <2>1. Aligned(PAGE_SIZE)
    <3>1. PAGE_SIZE = PAGE_SIZE * 1
      BY PageSize
    <3> QED BY <3>1, PageSize DEF Aligned
  <2> QED BY <1>7, <2>1, AlignedSum
<1>11. /\ Chunk(s) \in 1 .. PAGE_SIZE /\ placed + Chunk(s) <= s.len
       /\ Aligned(placed + Chunk(s)) \/ placed + Chunk(s) = s.len
  <2>1. CASE s.how = "empty"
    <3>1. placed + PAGE_SIZE <= s.len
      BY <1>2, <1>7, <2>1, BordersApart
    <3>2. Chunk(s) = PAGE_SIZE
      BY <2>1 DEF Chunk
    <3> QED BY <1>10, <3>1, <3>2, PageSize
  <2>2. CASE s.how # "empty"
    <3>1. Chunk(s) = IF s.len - placed < PAGE_SIZE THEN s.len - placed ELSE PAGE_SIZE
      BY <1>9, <2>2, PageSize DEF Chunk
    <3> QED BY <1>2, <1>3, <1>7, <1>10, <3>1, PageSize
  <2> QED BY <2>1, <2>2
<1> QED BY <1>1, <1>2, <1>3, <1>5, <1>6, <1>8, <1>11 DEF s

\* Where the covered bytes of a section lie.
LEMMA CoveredInRegion ==
  ASSUME IsSpiInput(input), input.argsLength <= MAX_ARGS_LEN, SpiProgress, placed \in Nat,
         NEW k \in 1 .. 5, NEW x \in Addr, Covered(k, x)
  PROVE  SpiSections(input)[k].addr <= x /\ x < Hi(input, k)
<1> DEFINE s == SpiSections(input)[k]
<1>1. s.addr \in Nat /\ s.len \in Nat /\ s.addr + s.len <= Hi(input, k) /\ Hi(input, k) \in Nat
  BY Regions DEF Aligned
<1>2. Progress(k) <= s.len /\ Progress(k) \in Nat
  BY <1>1 DEF Progress, SpiProgress
<1>3. s.addr <= x /\ x < s.addr + Progress(k)
  BY DEF Covered
<1> HIDE DEF s
<1>4. x < Hi(input, k) /\ s.addr <= x
  BY <1>1, <1>2, <1>3 DEF Addr
<1> QED BY <1>4 DEF s

\* What a round adds is what is covered afterwards and was not before, in a page
\* of its own.
LEMMA SpiRoundCovers ==
  ASSUME BuilderTypes, SpiGood, kind = "spi", PlacePage
  PROVE  LET s == SpiSections(input)[current]
             new == At(s) .. At(s) + Chunk(s) - 1
         IN /\ \A k \in 1 .. 5, x \in Addr :
                 Covered(k, x)' <=> Covered(k, x) \/ (k = current /\ x \in new)
            /\ \A x \in new : x \in Addr /\ PageOf(x) = PageOf(At(s))
            /\ \A k \in 1 .. 5, x \in Addr : Covered(k, x) => PageOf(x) # PageOf(At(s))
            /\ At(s) \in new
            /\ PageOf(At(s)) \in PageIdx /\ right[PageOf(At(s))] = "Unmapped"
<1> DEFINE s == SpiSections(input)[current]  a == At(s)  n == Chunk(s)
<1>1. /\ Sections[current] = s /\ current \in 1 .. 5
      /\ IsSpiInput(input) /\ input.argsLength <= MAX_ARGS_LEN
      /\ s.addr \in Nat /\ placed \in Nat /\ s.len \in Nat
      /\ a = s.addr + placed /\ a \in Addr /\ Aligned(a)
      /\ n \in 1 .. PAGE_SIZE /\ placed + n <= s.len
  BY SpiRound
<1>2. SpiProgress /\ SpiPlaced
  BY DEF SpiGood
<1>3. s.addr + s.len <= Hi(input, current) /\ Hi(input, current) < MEMORY_SIZE /\ Hi(input, current) \in Nat
  BY <1>1, Regions DEF Aligned
<1>4. input' = input /\ current' = current /\ placed' = placed + n
  BY <1>1 DEF PlacePage
<1> HIDE DEF a, n
<1>5. \A x \in a .. a + n - 1 : x \in Addr /\ PageOf(x) = PageOf(a)
  <2> TAKE x \in a .. a + n - 1
  <2>1. x \in a .. a + PAGE_SIZE - 1
    BY <1>1, PageSize DEF Addr
  <2>2. PageOf(x) = PageOf(a)
    BY <1>1, <2>1, PageFromBorder
  <2>3. x \in Addr
    BY <1>1, <1>3, Segments DEF Addr, s
  <2> QED BY <2>2, <2>3
<1>6. ASSUME NEW k \in 1 .. 5, NEW x \in Addr, Covered(k, x) PROVE PageOf(x) # PageOf(a)
  <2>1. SpiSections(input)[k].addr <= x /\ x < Hi(input, k)
    BY <1>1, <1>2, <1>6, CoveredInRegion
  <2>2. CASE k = current
    <3>1. x < a
      BY <1>1, <1>6, <2>2 DEF Covered, Progress
    <3>2. PageOf(x) < PageOf(a)
      BY <1>1, <3>1, BorderParts DEF Addr
    <3>3. PageOf(x) \in Int /\ PageOf(a) \in Int
      <4>1. x \in Int /\ a \in Int
        BY <1>1 DEF Addr
      <4> QED BY <4>1, PageSize, DivMod DEF PageOf
    <3> QED BY <3>2, <3>3
  <2>3. CASE k # current
    <3>1. s.addr <= a /\ a < Hi(input, current)
      BY <1>1, <1>3, PageSize
    <3>2. x \in Nat /\ a \in Nat
      BY <1>1 DEF Addr
    <3> QED BY <1>1, <2>1, <2>3, <3>1, <3>2, SectionsInOwnPages DEF s
  <2> QED BY <2>2, <2>3
<1>7. ASSUME NEW k \in 1 .. 5, NEW x \in Addr
      PROVE  Covered(k, x)' <=> Covered(k, x) \/ (k = current /\ x \in a .. a + n - 1)
  <2>1. Covered(k, x)' <=> /\ SpiSections(input)[k].addr <= x
                           /\ x < SpiSections(input)[k].addr +
                                    (IF k < current THEN SpiSections(input)[k].len
                                     ELSE IF k = current THEN placed + n ELSE 0)
    BY <1>4 DEF Covered, Progress
  <2>2. Covered(k, x) <=> /\ SpiSections(input)[k].addr <= x
                          /\ x < SpiSections(input)[k].addr +
                                   (IF k < current THEN SpiSections(input)[k].len
                                    ELSE IF k = current THEN placed ELSE 0)
    BY DEF Covered, Progress
  <2>3. CASE k # current
    BY <2>1, <2>2, <2>3
  <2>4. CASE k = current
    BY <1>1, <2>1, <2>2, <2>4 DEF Addr
  <2> QED BY <2>3, <2>4
<1>8. a \in a .. a + n - 1
  BY <1>1 DEF Addr
<1>9. PageOf(a) \in PageIdx
  BY <1>1, AddrInPage
<1>10. right[PageOf(a)] = "Unmapped"
  BY <1>2, <1>6, <1>9 DEF SpiPlaced
<1> QED BY <1>5, <1>6, <1>7, <1>8, <1>9, <1>10 DEF a, n

LEMMA PlacePageKeepsSpi == BuilderTypes /\ SpiGood /\ PlacePage => SpiGood'
<1> SUFFICES ASSUME BuilderTypes, SpiGood, PlacePage, kind' = "spi" PROVE (SpiProgress /\ SpiPlaced)'
  BY DEF SpiGood
<1> DEFINE s == SpiSections(input)[current]  a == At(s)  n == Chunk(s)  p == PageOf(a)
           new == a .. a + n - 1
<1>1. /\ kind = "spi" /\ input' = input /\ current' = current /\ kind' = kind
  BY DEF PlacePage
<1>2. /\ Sections[current] = s /\ current \in 1 .. 5
      /\ IsSpiInput(input) /\ input.argsLength <= MAX_ARGS_LEN
      /\ placed \in Nat /\ s.len \in Nat /\ n \in 1 .. PAGE_SIZE /\ placed + n <= s.len
      /\ Aligned(placed + n) \/ placed + n = s.len
  BY <1>1, SpiRound
<1>3. /\ \A k \in 1 .. 5, x \in Addr : Covered(k, x)' <=> Covered(k, x) \/ (k = current /\ x \in new)
      /\ \A x \in new : x \in Addr /\ PageOf(x) = p
      /\ \A k \in 1 .. 5, x \in Addr : Covered(k, x) => PageOf(x) # p
      /\ a \in new /\ p \in PageIdx /\ right[p] = "Unmapped"
  BY <1>1, SpiRoundCovers
<1>4. /\ placed' = placed + n
      /\ right' = [right EXCEPT ![p] = s.access]
      /\ owner' = [x \in Addr |-> IF s.how = "data" /\ x \in new THEN current ELSE owner[x]]
  BY <1>2, <1>3 DEF PlacePage
<1>5. SpiProgress /\ SpiPlaced /\ ~ArgsTooLong
  BY <1>1 DEF SpiGood, PlacePage, Placing
<1>6. s.access \in {"Read", "Write"} /\ s.how \in {"data", "empty"}
  BY <1>2, Regions
<1>7. right \in [PageIdx -> AccessKind \cup {"Unmapped"}] /\ owner \in [Addr -> Nat]
  BY DEF BuilderTypes
<1>8. SpiProgress'
  BY <1>1, <1>2, <1>4, <1>5 DEF SpiProgress, ArgsTooLong
<1> HIDE DEF a, n, p, new
<1>9. ASSUME NEW k \in 1 .. 5, NEW x \in Addr, Covered(k, x)'
      PROVE  /\ right'[PageOf(x)] = SpiSections(input)[k].access
             /\ owner'[x] = IF SpiSections(input)[k].how = "data" THEN k ELSE 0
  <2>1. CASE Covered(k, x)
    <3>1. PageOf(x) # p /\ x \notin new /\ PageOf(x) \in PageIdx
      BY <1>3, <2>1, AddrInPage
    <3>2. right'[PageOf(x)] = right[PageOf(x)] /\ owner'[x] = owner[x]
      BY <1>4, <1>7, <3>1
    <3> QED BY <1>5, <2>1, <3>2 DEF SpiPlaced
  <2>2. CASE k = current /\ x \in new
    <3>1. PageOf(x) = p
      BY <1>3, <2>2
    <3>2. right'[PageOf(x)] = s.access
      BY <1>3, <1>4, <1>7, <3>1
    <3>3. owner[x] = 0
      <4> SUFFICES ASSUME owner[x] # 0 PROVE FALSE
        OBVIOUS
      <4>1. owner[x] \in 1 .. 5 /\ Covered(owner[x], x)
        BY <1>5 DEF SpiPlaced
      <4> QED BY <1>3, <3>1, <4>1
    <3>4. owner'[x] = IF s.how = "data" THEN current ELSE 0
      BY <1>4, <2>2, <3>3
    <3> QED BY <2>2, <3>2, <3>4 DEF s
  <2> QED BY <1>3, <1>9, <2>1, <2>2
<1>10. ASSUME NEW q \in PageIdx, right'[q] # "Unmapped"
       PROVE  \E k \in 1 .. 5, x \in Addr : Covered(k, x)' /\ PageOf(x) = q
  <2>1. CASE q = p
    <3>1. PICK x \in Addr : x \in new /\ PageOf(x) = q
      BY <1>3, <2>1
    <3>2. PICK k \in 1 .. 5 : k = current
      BY <1>2
    <3>3. Covered(k, x)'
      BY <1>3, <3>1, <3>2
    <3> QED BY <3>1, <3>3
  <2>2. CASE q # p
    <3>1. right[q] # "Unmapped"
      BY <1>4, <1>7, <1>10, <2>2
    <3>2. PICK k \in 1 .. 5, x \in Addr : Covered(k, x) /\ PageOf(x) = q
      BY <1>5, <3>1 DEF SpiPlaced
    <3> QED BY <1>3, <3>2
  <2> QED BY <2>1, <2>2
<1>11. ASSUME NEW x \in Addr, owner'[x] # 0
       PROVE  owner'[x] \in 1 .. 5 /\ (\A k \in 1 .. 5 : k = owner'[x] => Covered(k, x)')
  <2>1. CASE s.how = "data" /\ x \in new
    <3>1. owner'[x] = current
      BY <1>4, <2>1
    <3> QED BY <1>2, <1>3, <2>1, <3>1
  <2>2. CASE ~(s.how = "data" /\ x \in new)
    <3>1. owner'[x] = owner[x]
      BY <1>4, <2>2
    <3> QED BY <1>3, <1>5, <1>11, <3>1 DEF SpiPlaced
  <2> QED BY <2>1, <2>2
<1>12. SpiPlaced'
  <2>1. \A x \in Addr : owner'[x] # 0 => owner'[x] \in 1 .. 5 /\ Covered(owner[x], x)'
    <3> SUFFICES ASSUME NEW x \in Addr, owner'[x] # 0
                 PROVE  owner'[x] \in 1 .. 5 /\ Covered(owner[x], x)'
      OBVIOUS
    <3>1. PICK k \in 1 .. 5 : k = owner'[x] /\ Covered(k, x)'
      BY <1>11
    <3>2. Covered(owner[x], x)'
      BY <3>1 DEF Covered, Progress
    <3> QED BY <3>1, <3>2
  <2> QED BY <1>1, <1>9, <1>10, <2>1 DEF SpiPlaced
<1> QED BY <1>8, <1>12

LEMMA PlacePageKeepsInv == BuilderInv /\ PlacePage => BuilderInv'
<1> SUFFICES ASSUME BuilderInv, PlacePage PROVE BuilderInv'
  OBVIOUS
<1>1. BuilderTypes /\ OrderGood /\ BuiltGood /\ SpiGood /\ GenericGood
  BY DEF BuilderInv
<1>2. UNCHANGED <<kind, input, current, sbrk, maxHeap, phase>> /\ phase = "placing"
  BY DEF PlacePage, Placing
<1>3. BuiltGood'
  BY <1>1, <1>2 DEF BuiltGood
<1>4. GenericGood'
  BY <1>1, <1>2 DEF GenericGood
<1> QED BY <1>1, <1>3, <1>4, PlacePageKeepsTypes, PlacePageKeepsOrder, PlacePageKeepsSpi DEF BuilderInv

\* A section ends when all of it is placed, and the heap pointer moves up only.
LEMMA PlaceNextKeepsInv == BuilderInv /\ PlaceNext => BuilderInv'
<1> SUFFICES ASSUME BuilderInv, PlaceNext PROVE BuilderInv'
  OBVIOUS
<1> DEFINE s == Sections[current]  end == (s.addr + s.len) % MEMORY_SIZE
<1>1. BuilderTypes /\ OrderGood /\ BuiltGood /\ SpiGood /\ GenericGood
  BY DEF BuilderInv
<1>2. /\ UNCHANGED <<kind, input, right, order, owner, maxHeap, phase>>
      /\ current' = current + 1 /\ placed' = 0 /\ phase = "placing" /\ ~ArgsTooLong
      /\ current \in 1 .. Len(Sections) /\ Len(Sections) \in Nat
      /\ sbrk' = Raised(s) /\ ~More(s)
  BY <1>1, SectionsTyped DEF PlaceNext, Placing, BuilderTypes
<1>3. Sections' = Sections
  BY <1>2, SectionsStay
<1>4. s.addr \in Addr /\ s.len \in Nat /\ s.how \in {"data", "empty"}
  BY <1>1, <1>2, SectionsTyped
<1>5. end \in Addr
  <2>1. s.addr + s.len \in Int /\ MEMORY_SIZE \in Nat \ {0}
    BY <1>4, Segments, SegmentSize DEF Addr
  <2> HIDE DEF s
  <2> QED BY <2>1, DivMod DEF Addr
<1>6. /\ sbrk' \in Addr /\ sbrk <= sbrk' /\ sbrk' \in {sbrk, end}
      /\ kind = "generic" /\ s.access # "Read" => end <= sbrk'
  <2>1. sbrk \in Addr
    BY <1>1 DEF BuilderTypes
  <2>2. sbrk' = IF kind = "generic" /\ s.access # "Read" /\ end >= sbrk THEN end ELSE sbrk
    BY <1>2 DEF Raised
  <2> HIDE DEF end, s
  <2> QED BY <1>5, <2>1, <2>2 DEF Addr
<1> HIDE DEF end
<1>7. BuilderTypes'
  <2>1. current' \in 1 .. Len(Sections)' + 1 /\ placed' \in Nat
    BY <1>2, <1>3
  <2>2. kind' # "default" => sbrk' >= RESERVED_MEMORY
    <3>1. kind # "default" => sbrk >= RESERVED_MEMORY
      BY <1>1 DEF BuilderTypes
    <3>2. sbrk \in Int /\ sbrk' \in Int /\ RESERVED_MEMORY \in Int /\ sbrk <= sbrk'
      BY <1>1, <1>6, ReservedBelowTop DEF BuilderTypes, Addr
    <3> QED BY <1>2, <3>1, <3>2
  <2>3. sbrk' \in Addr
    BY <1>6
  <2> HIDE DEF s
  <2> QED BY <1>1, <1>2, <2>1, <2>2, <2>3 DEF BuilderTypes
<1>8. OrderGood'
  BY <1>1, <1>2 DEF OrderGood
<1>9. BuiltGood'
  BY <1>1, <1>2 DEF BuiltGood
<1>10. SpiGood'
  <2> SUFFICES ASSUME kind = "spi" PROVE (SpiProgress /\ SpiPlaced)'
    BY <1>2 DEF SpiGood
  <2>1. /\ Sections = SpiSections(input) /\ current \in 1 .. 5 /\ IsSpiInput(input)
        /\ SpiProgress /\ SpiPlaced /\ input.argsLength <= MAX_ARGS_LEN
    <3>1. Sections = SpiSections(input) /\ Len(Sections) = 5 /\ IsSpiInput(input)
      BY <1>1, SectionsTyped
    <3>2. ~(input.argsLength > MAX_ARGS_LEN)
      BY <1>2 DEF ArgsTooLong
    <3> QED BY <1>1, <1>2, <3>1, <3>2, Segments DEF SpiGood, IsSpiInput
  <2>2. /\ s = SpiSections(input)[current] /\ placed \in Nat /\ placed <= s.len
        /\ s.addr + s.len <= Hi(input, current) /\ Hi(input, current) < MEMORY_SIZE
        /\ Hi(input, current) \in Nat
    <3>1. s = SpiSections(input)[current]
      BY <2>1
    <3>2. placed \in Nat
      BY <1>1 DEF BuilderTypes
    <3>3. placed <= s.len
      BY <2>1, <3>1 DEF SpiProgress
    <3>4. /\ s.addr + s.len <= Hi(input, current) /\ Hi(input, current) < MEMORY_SIZE
          /\ Hi(input, current) \in Nat
      BY <2>1, <3>1, Regions DEF Aligned
    <3> QED BY <3>1, <3>2, <3>3, <3>4
  <2> HIDE DEF s
  <2>3. placed = s.len
    <3>1. s.addr + placed \in Addr /\ s.addr + s.len \in Addr
      BY <1>4, <2>2, Segments DEF Addr
    <3>2. \A x \in Addr : x % MEMORY_SIZE = x
      BY Segments, SegmentSize DEF Addr
    <3>3. At(s) = s.addr + placed /\ (s.addr + s.len) % MEMORY_SIZE = s.addr + s.len
      BY <3>1, <3>2 DEF At
    <3> QED BY <1>2, <1>4, <2>2, <3>3 DEF More, Addr
  <2>4. SpiProgress'
    <3>1. Aligned(0)
      BY PageSize DEF Aligned
    <3>2. \A k \in 1 .. 5 : SpiSections(input)[k].len \in Nat
      BY <2>1, Regions
    <3>3. current' = 6 \/ current' \in 1 .. 5
      BY <1>2, <2>1
    <3> QED BY <1>2, <3>1, <3>2, <3>3 DEF SpiProgress, ArgsTooLong
  <2>5. ASSUME NEW k \in 1 .. 5 PROVE Progress(k)' = Progress(k)
    <3>1. CASE k < current
      BY <1>2, <2>1, <3>1 DEF Progress
    <3>2. CASE k = current
      BY <1>2, <2>1, <2>2, <2>3, <3>2 DEF Progress
    <3>3. CASE k > current
      BY <1>2, <2>1, <3>3 DEF Progress
    <3> QED BY <2>1, <3>1, <3>2, <3>3
  <2>6. ASSUME NEW k \in 1 .. 5, NEW x \in Addr PROVE Covered(k, x)' <=> Covered(k, x)
    BY <1>2, <2>5 DEF Covered
  <2>7. ASSUME NEW x \in Addr, owner'[x] # 0
        PROVE  owner'[x] \in 1 .. 5 /\ Covered(owner[x], x)'
    <3>1. PICK k \in 1 .. 5 : k = owner[x] /\ Covered(k, x)
      BY <1>2, <2>1, <2>7 DEF SpiPlaced
    <3>2. Covered(k, x)' /\ owner'[x] = k
      BY <1>2, <2>6, <3>1
    <3> QED BY <3>2 DEF Covered, Progress
  <2>8. SpiPlaced'
    BY <1>2, <2>1, <2>6, <2>7 DEF SpiPlaced
  <2> QED BY <2>4, <2>8
<1>11. GenericGood'
  <2> SUFFICES ASSUME kind = "generic", NEW k \in 1 .. current,
                      GenericSections(input)[k].access # "Read",
                      GenericSections(input)[k].addr + GenericSections(input)[k].len < MEMORY_SIZE
               PROVE  GenericSections(input)[k].addr + GenericSections(input)[k].len <= sbrk'
    BY <1>2 DEF GenericGood
  <2> DEFINE t == GenericSections(input)[k]
  <2>1. Sections = GenericSections(input) /\ k \in 1 .. Len(Sections)
    BY <1>1, <1>2, SectionsTyped
  <2>2. t.addr \in Addr /\ t.len \in Nat /\ sbrk \in Addr
    BY <1>1, <2>1, SectionsTyped DEF BuilderTypes
  <2>3. CASE k < current
    <3>1. t.addr + t.len <= sbrk
      BY <1>1, <1>2, <2>3 DEF GenericGood
    <3>2. t.addr + t.len \in Int /\ sbrk \in Int /\ sbrk' \in Int
      BY <1>6, <2>2 DEF Addr
    <3> QED BY <1>6, <3>1, <3>2
  <2>4. CASE k = current
    <3>1. t = s
      BY <2>1, <2>4
    <3>2. s.addr + s.len \in Addr
      BY <2>2, <3>1, Segments DEF Addr
    <3>3. \A x \in Addr : x % MEMORY_SIZE = x
      BY Segments, SegmentSize DEF Addr
    <3>4. end = s.addr + s.len
      BY <3>2, <3>3 DEF end
    <3>5. end <= sbrk'
      BY <1>6, <3>1
    <3> QED BY <3>1, <3>4, <3>5
  <2> QED BY <1>2, <2>3, <2>4
<1> QED BY <1>7, <1>8, <1>9, <1>10, <1>11 DEF BuilderInv

\* An exception leaves what there is.
LEMMA ThrowKeepsInv ==
  ASSUME BuilderInv, RejectArgs \/ PlaceReserved
  PROVE  BuilderInv'
<1>1. /\ UNCHANGED <<kind, input, current, placed, right, order, owner, sbrk, maxHeap>>
      /\ phase' \in {"arguments too long", "reserved page"}
  BY DEF RejectArgs, PlaceReserved
<1>2. BuilderTypes /\ OrderGood /\ BuiltGood /\ SpiGood /\ GenericGood
  BY DEF BuilderInv
<1>3. Sections' = Sections /\ (ArgsTooLong' <=> ArgsTooLong)
  BY <1>1, SectionsStay DEF ArgsTooLong
<1>4. BuilderTypes'
  BY <1>1, <1>2, <1>3 DEF BuilderTypes
<1>5. OrderGood' /\ GenericGood'
  BY <1>1, <1>2 DEF OrderGood, GenericGood
<1>6. BuiltGood'
  BY <1>1 DEF BuiltGood
<1>7. SpiGood'
  BY <1>1, <1>2 DEF SpiGood, SpiProgress, SpiPlaced, Covered, Progress, ArgsTooLong
<1> QED BY <1>4, <1>5, <1>6, <1>7 DEF BuilderInv

LEMMA BuildKeepsInv == BuilderInv /\ Build => BuilderInv'
<1> SUFFICES ASSUME BuilderInv, Build PROVE BuilderInv'
  OBVIOUS
<1>1. BuilderTypes /\ OrderGood /\ BuiltGood /\ SpiGood /\ GenericGood
  BY DEF BuilderInv
<1>2. /\ UNCHANGED <<kind, input, current, placed, right, order, owner>>
      /\ phase = "placing" /\ ~ArgsTooLong /\ current > Len(Sections)
      /\ sbrk' = IF kind = "spi" THEN HeapEnd(input) ELSE sbrk
      /\ maxHeap' = IF kind = "spi" THEN StackStart(input) ELSE maxHeap
      /\ phase' = IF sbrk' < RESERVED_MEMORY THEN "sbrk in reserved memory" ELSE "built"
  BY DEF Build
<1>3. Sections' = Sections /\ (ArgsTooLong' <=> ArgsTooLong)
  BY <1>2, SectionsStay DEF ArgsTooLong
<1>4. current = Len(Sections) + 1
  <2> DEFINE n == Len(Sections)
  <2>1. n \in Nat /\ current \in 1 .. n + 1 /\ current > n
    BY <1>1, <1>2, SectionsTyped DEF BuilderTypes
  <2> HIDE DEF n
  <2>2. current = n + 1
    BY <2>1
  <2> QED BY <2>2 DEF n
<1>5. /\ sbrk' \in Addr /\ maxHeap' \in Addr /\ sbrk' <= maxHeap'
      /\ kind # "default" => RESERVED_MEMORY <= sbrk'
  <2>1. CASE kind = "spi"
    <3>1. IsSpiInput(input)
      BY <1>1, <2>1, SectionsTyped
    <3>2. /\ HeapEnd(input) \in Nat /\ StackStart(input) \in Nat /\ HeapEnd(input) <= StackStart(input)
          /\ StackStart(input) <= STACK_SEGMENT_END /\ SEGMENT_SIZE <= HeapEnd(input)
      <4>1. input.roLength \in Nat /\ input.rwLength \in Nat
        BY <3>1 DEF IsSpiInput
      <4> QED BY <3>1, <4>1, Borders, Segments, SegmentSize DEF Aligned
    <3>3. STACK_SEGMENT_END < MEMORY_SIZE /\ STACK_SEGMENT_END \in Nat /\ MEMORY_SIZE \in Nat
      BY Segments, SegmentSize DEF Aligned
    <3>4. sbrk' = HeapEnd(input) /\ maxHeap' = StackStart(input)
      BY <1>2, <2>1
    <3>5. RESERVED_MEMORY = SEGMENT_SIZE /\ SEGMENT_SIZE \in Nat
      BY ReservedBelowTop, SegmentSize
    <3> QED BY <3>2, <3>3, <3>4, <3>5 DEF Addr
  <2>2. CASE kind # "spi"
    <3>1. /\ sbrk \in Addr /\ maxHeap = MEMORY_SIZE - 1 /\ maxHeap \in Addr
          /\ kind # "default" => sbrk >= RESERVED_MEMORY
      BY <1>1, <1>2 DEF BuilderTypes, BuiltGood
    <3>2. sbrk' = sbrk /\ maxHeap' = maxHeap
      BY <1>2, <2>2
    <3>3. sbrk <= maxHeap /\ sbrk \in Int /\ RESERVED_MEMORY \in Int
      BY <3>1, ReservedBelowTop, Segments DEF Addr
    <3> QED BY <3>1, <3>2, <3>3
  <2> QED BY <2>1, <2>2
<1>6. BuilderTypes'
  <2>1. kind' # "default" => sbrk' >= RESERVED_MEMORY
    BY <1>2, <1>5, ReservedBelowTop DEF Addr
  <2> QED BY <1>1, <1>2, <1>3, <1>5, <2>1 DEF BuilderTypes
<1>7. BuiltGood'
  <2>1. phase' = "built" => RESERVED_MEMORY <= sbrk'
    BY <1>2, <1>5, ReservedBelowTop DEF Addr
  <2>2. phase' # "placing"
    BY <1>2
  <2> QED BY <1>2, <1>3, <1>4, <1>5, <2>1, <2>2 DEF BuiltGood
<1>8. OrderGood'
  BY <1>1, <1>2 DEF OrderGood
<1>9. GenericGood'
  BY <1>1, <1>2 DEF GenericGood
<1>10. SpiGood'
  BY <1>1, <1>2 DEF SpiGood, SpiProgress, SpiPlaced, Covered, Progress, ArgsTooLong
<1> QED BY <1>6, <1>7, <1>8, <1>9, <1>10 DEF BuilderInv

LEMMA StepKeepsBuilderInv == BuilderInv /\ [Next]_bvars => BuilderInv'
<1> SUFFICES ASSUME BuilderInv, [Next]_bvars PROVE BuilderInv'
  OBVIOUS
<1>1. CASE UNCHANGED bvars
  BY <1>1 DEF bvars, BuilderInv, BuilderTypes, OrderGood, BuiltGood, SpiGood, GenericGood,
              SpiProgress, SpiPlaced, Covered, Progress, ArgsTooLong, Sections
<1>2. CASE PlacePage
  BY <1>2, PlacePageKeepsInv
<1>3. CASE PlaceNext
  BY <1>3, PlaceNextKeepsInv
<1>4. CASE RejectArgs \/ PlaceReserved
  BY <1>4, ThrowKeepsInv
<1>5. CASE Build
  BY <1>5, BuildKeepsInv
<1> QED BY <1>1, <1>2, <1>3, <1>4, <1>5 DEF Next

LEMMA BuilderInvHolds == Spec => []BuilderInv
BY InitEstablishesBuilderInv, StepKeepsBuilderInv, PTL DEF Spec

-----------------------------------------------------------------------------
(* What is built.                                                          *)

\* A sequence of different pages is no longer than there are pages.
LEMMA PagesFit ==
  ASSUME NEW s \in Seq(RESERVED_PAGES .. NUM_PAGES - 1),
         \A k, j \in 1 .. Len(s) : s[k] = s[j] => k = j
  PROVE  Len(s) \in Nat /\ Len(s) <= NUM_PAGES
<1> DEFINE S == 1 .. Len(s)  T == 0 .. NUM_PAGES - 1
<1>1. Len(s) \in Nat /\ s \in [S -> RESERVED_PAGES .. NUM_PAGES - 1]
  BY ItemsOf
<1>2. RESERVED_PAGES \in Nat /\ NUM_PAGES \in Nat \ {0}
  BY PagesAssumption
<1>3. s \in [S -> T]
  BY <1>1, <1>2
<1>4. s \in Injection(S, T)
  BY <1>3 DEF Injection, IsInjective
<1>5. IsFiniteSet(T) /\ Cardinality(T) = NUM_PAGES
  <2>1. NUM_PAGES - 1 \in Int /\ ~(0 > NUM_PAGES - 1)
    BY <1>2
  <2>2. IsFiniteSet(T) /\ Cardinality(T) = (NUM_PAGES - 1) - 0 + 1
    BY <2>1, FS_Interval
  <2> QED BY <1>2, <2>2
<1>6. Cardinality(S) = Len(s)
  <2>1. Cardinality(S) = IF 1 > Len(s) THEN 0 ELSE Len(s) - 1 + 1
    BY <1>1, FS_Interval
  <2> QED BY <1>1, <2>1
<1>7. Cardinality(S) <= Cardinality(T)
  BY <1>4, <1>5, FS_Injection
<1> QED BY <1>1, <1>5, <1>6, <1>7

\* Whatever list of sections is placed, in whatever order and with whatever
\* overlaps, what is built is a layout that PageMemory may start with.
THEOREM LayoutSoundTheorem == Spec => []LayoutSound
<1>1. BuilderInv => LayoutSound
  <2> SUFFICES ASSUME BuilderInv, phase = "built" PROVE IsLayout(Result)
    BY DEF LayoutSound
  <2> DEFINE page == [idx : RESERVED_PAGES .. NUM_PAGES - 1, access : AccessKind, fill : Byte]
             built == [k \in 1 .. Len(order) |-> [idx |-> order[k], access |-> right[order[k]], fill |-> 0]]
  <2>1. /\ order \in Seq(RESERVED_PAGES .. NUM_PAGES - 1)
        /\ right \in [PageIdx -> AccessKind \cup {"Unmapped"}]
        /\ sbrk \in Addr /\ maxHeap \in Addr
        /\ \A k, j \in 1 .. Len(order) : order[k] = order[j] => k = j
    BY DEF BuilderInv, BuilderTypes, OrderGood
  <2>2. Len(order) \in Nat /\ Len(order) <= NUM_PAGES
    BY <2>1, PagesFit
  <2>3. ASSUME NEW k \in 1 .. Len(order)
        PROVE  order[k] \in RESERVED_PAGES .. NUM_PAGES - 1 /\ right[order[k]] \in AccessKind
    <3>1. order[k] \in RESERVED_PAGES .. NUM_PAGES - 1
      BY <2>1, ItemsOf
    <3>2. order[k] \in PageIdx
      BY <3>1, PagesAssumption DEF PageIdx
    <3>3. right[order[k]] # "Unmapped"
      BY <3>2 DEF BuilderInv, OrderGood
    <3> QED BY <2>1, <3>1, <3>2, <3>3
  <2>4. 0 \in Byte
    BY PagesAssumption DEF Byte
  <2>5. \A k \in 1 .. Len(order) : built[k] \in page
    BY <2>3, <2>4
  <2>6. built \in Seq(page) /\ Len(built) = Len(order)
    <3> HIDE DEF page
    <3>1. built \in [1 .. Len(order) -> page]
      BY <2>5
    <3> QED BY <2>2, <3>1
  <2>7. \A k, j \in 1 .. Len(built) : built[k].idx = built[j].idx => k = j
    BY <2>1, <2>6
  <2>8. sbrk \in RESERVED_PAGES * PAGE_SIZE .. MEMORY_SIZE - 1 /\ maxHeap \in sbrk .. MEMORY_SIZE - 1
    <3>1. RESERVED_MEMORY <= sbrk /\ sbrk <= maxHeap
      BY DEF BuilderInv, BuiltGood
    <3>2. RESERVED_MEMORY \in Int /\ RESERVED_MEMORY = RESERVED_PAGES * PAGE_SIZE
      BY PagesAssumption DEF RESERVED_MEMORY
    <3> QED BY <2>1, <3>1, <3>2 DEF Addr
  <2>9. Result.pages = built /\ Result.sbrk = sbrk /\ Result.maxHeap = maxHeap
    BY DEF Result
  <2> HIDE DEF built
  <2> QED BY <2>2, <2>6, <2>7, <2>8, <2>9 DEF IsLayout
<1> QED BY <1>1, BuilderInvHolds, PTL

\* What there is of a built SPI program: its pages are those of its sections.
LEMMA SpiBuilt ==
  ASSUME BuilderInv, kind = "spi", phase = "built"
  PROVE  /\ IsSpiInput(input) /\ input.argsLength <= MAX_ARGS_LEN
         /\ sbrk = HeapEnd(input) /\ maxHeap = StackStart(input)
         /\ current = 6 /\ SpiPlaced
         /\ \A p \in PageIdx : right[p] # "Unmapped" =>
              \E k \in 1 .. 5, x \in Addr :
                /\ PageOf(x) = p /\ SpiSections(input)[k].addr <= x /\ x < Hi(input, k)
<1>1. BuilderTypes /\ BuiltGood /\ SpiProgress /\ SpiPlaced
  BY DEF BuilderInv, SpiGood
<1>2. Len(Sections) = 5 /\ IsSpiInput(input)
  BY <1>1, SectionsTyped
<1>3. current = 6 /\ ~ArgsTooLong /\ sbrk = HeapEnd(input) /\ maxHeap = StackStart(input)
  BY <1>1, <1>2 DEF BuiltGood
<1>4. input.argsLength <= MAX_ARGS_LEN
  BY <1>2, <1>3, Segments DEF ArgsTooLong, IsSpiInput
<1>5. placed \in Nat
  BY <1>1 DEF BuilderTypes
<1>6. ASSUME NEW p \in PageIdx, right[p] # "Unmapped"
      PROVE  \E k \in 1 .. 5, x \in Addr :
               /\ PageOf(x) = p /\ SpiSections(input)[k].addr <= x /\ x < Hi(input, k)
  <2>1. PICK k \in 1 .. 5, x \in Addr : Covered(k, x) /\ PageOf(x) = p
    BY <1>1, <1>6 DEF SpiPlaced
  <2>2. SpiSections(input)[k].addr <= x /\ x < Hi(input, k)
    BY <1>1, <1>2, <1>4, <1>5, <2>1, CoveredInRegion
  <2> QED BY <2>1, <2>2
<1> QED BY <1>1, <1>2, <1>3, <1>4, <1>6

LEMMA PageAfterBorder ==
  ASSUME NEW b, Aligned(b), NEW x \in Nat, b <= x
  PROVE  PageOf(x) * PAGE_SIZE >= b
<1>1. PICK q \in Nat : b = PAGE_SIZE * q
  BY DEF Aligned
<1> DEFINE u == PageOf(x)
<1>2. u \in Int /\ x = PAGE_SIZE * u + Rel(x) /\ Rel(x) \in 0 .. PAGE_SIZE - 1
  BY PageSize, DivMod DEF PageOf, Rel
<1> HIDE DEF u
<1>3. ~(u + 1 <= q)
  <2> SUFFICES ASSUME u + 1 <= q PROVE FALSE
    OBVIOUS
  <2>1. PAGE_SIZE * (u + 1) <= PAGE_SIZE * q
    BY <1>2, PageSize, TimesMonotone
  <2>2. PAGE_SIZE * (u + 1) = PAGE_SIZE * u + PAGE_SIZE
    BY <1>2, PageSize
  <2>3. PAGE_SIZE * u \in Int /\ PAGE_SIZE * q \in Int
    BY <1>2, PageSize
  <2> QED BY <1>1, <1>2, <2>1, <2>2, <2>3, PageSize
<1>4. PAGE_SIZE * q <= PAGE_SIZE * u
  BY <1>2, <1>3, PageSize, TimesMonotone
<1>5. u * PAGE_SIZE = PAGE_SIZE * u /\ PAGE_SIZE * u \in Int /\ PAGE_SIZE * q \in Int
  BY <1>2, PageSize
<1>6. u * PAGE_SIZE >= b
  BY <1>1, <1>4, <1>5
<1> QED BY <1>6 DEF u

\* Every SPI program starts with a heap that grows into unmapped pages up to its
\* stack: what GrantedWritableTheorem and MappedPagesStayTheorem ask for.
THEOREM SpiHeapClearTheorem == Spec => []SpiHeapClear
<1>1. BuilderInv => SpiHeapClear
  <2> SUFFICES ASSUME BuilderInv, kind = "spi", phase = "built", NEW j \in 1 .. Len(Result.pages)
               PROVE  \/ Result.pages[j].idx < PageOf(Result.sbrk)
                      \/ Result.pages[j].idx * PAGE_SIZE >= Result.maxHeap
    BY DEF SpiHeapClear, HeapClear
  <2>1. /\ Result.sbrk = HeapEnd(input) /\ Result.maxHeap = StackStart(input)
        /\ j \in 1 .. Len(order) /\ Result.pages[j].idx = order[j]
    <3>1. order \in Seq(RESERVED_PAGES .. NUM_PAGES - 1)
      BY DEF BuilderInv, BuilderTypes
    <3>2. Len(order) \in Nat
      BY <3>1
    <3>3. Result.pages = [k \in 1 .. Len(order) |-> [idx |-> order[k], access |-> right[order[k]], fill |-> 0]]
      BY DEF Result
    <3>4. j \in 1 .. Len(order)
      BY <3>2, <3>3
    <3>5. Result.pages[j].idx = order[j]
      BY <3>3, <3>4
    <3> QED BY <3>4, <3>5, SpiBuilt DEF Result
  <2> DEFINE p == order[j]
  <2>2. p \in PageIdx /\ right[p] # "Unmapped"
    <3>1. order \in Seq(RESERVED_PAGES .. NUM_PAGES - 1)
      BY DEF BuilderInv, BuilderTypes
    <3>2. p \in RESERVED_PAGES .. NUM_PAGES - 1
      BY <2>1, <3>1, ItemsOf
    <3>3. p \in PageIdx
      BY <3>2, PagesAssumption DEF PageIdx
    <3> QED BY <2>1, <3>3 DEF BuilderInv, OrderGood
  <2> HIDE DEF p
  <2>3. PICK k \in 1 .. 5, x \in Addr : /\ PageOf(x) = p /\ SpiSections(input)[k].addr <= x
                                        /\ x < Hi(input, k)
    BY <2>2, SpiBuilt
  <2>4. /\ IsSpiInput(input) /\ x \in Nat /\ SpiSections(input)[k].addr \in Nat /\ Hi(input, k) \in Nat
        /\ \/ Hi(input, k) <= HeapEnd(input)
           \/ SpiSections(input)[k].addr >= StackStart(input)
           \/ SpiSections(input)[k].addr >= ARGS_SEGMENT_START
    <3>1. IsSpiInput(input)
      BY SpiBuilt
    <3>2. x \in Nat
      BY Segments DEF Addr
    <3>3. /\ SpiSections(input)[k].addr \in Nat /\ Hi(input, k) \in Nat
          /\ \/ Hi(input, k) <= HeapEnd(input)
             \/ SpiSections(input)[k].addr >= StackStart(input)
             \/ SpiSections(input)[k].addr >= ARGS_SEGMENT_START
      BY <3>1, Regions DEF Aligned
    <3> QED BY <3>1, <3>2, <3>3
  <2>5. /\ Aligned(HeapEnd(input)) /\ Aligned(StackStart(input)) /\ Aligned(ARGS_SEGMENT_START)
        /\ HeapEnd(input) \in Nat /\ StackStart(input) \in Nat /\ ARGS_SEGMENT_START \in Nat
        /\ StackStart(input) <= ARGS_SEGMENT_START
    <3>1. /\ Aligned(HeapEnd(input)) /\ Aligned(StackStart(input))
          /\ AlignToPage(input.stackSize) \in Nat
          /\ StackStart(input) + AlignToPage(input.stackSize) = STACK_SEGMENT_END
      BY <2>4, Borders DEF Aligned
    <3>2. /\ Aligned(ARGS_SEGMENT_START) /\ STACK_SEGMENT_END \in Nat
          /\ STACK_SEGMENT_END + SEGMENT_SIZE = ARGS_SEGMENT_START
      BY Segments DEF Aligned
    <3>3. /\ HeapEnd(input) \in Nat /\ StackStart(input) \in Nat /\ ARGS_SEGMENT_START \in Nat
          /\ SEGMENT_SIZE \in Nat
      BY <3>1, <3>2, SegmentSize DEF Aligned
    <3> QED BY <3>1, <3>2, <3>3
  <2>6. CASE Hi(input, k) <= HeapEnd(input)
    <3>1. x < HeapEnd(input)
      BY <2>3, <2>4, <2>5, <2>6
    <3>2. PageOf(x) < PageOf(HeapEnd(input))
      BY <2>4, <2>5, <3>1, BorderParts
    <3> QED BY <2>1, <2>3, <3>2 DEF p
  <2>7. CASE SpiSections(input)[k].addr >= StackStart(input) \/ SpiSections(input)[k].addr >= ARGS_SEGMENT_START
    <3>1. StackStart(input) <= x
      BY <2>3, <2>4, <2>5, <2>7
    <3>2. PageOf(x) * PAGE_SIZE >= StackStart(input)
      BY <2>4, <2>5, <3>1, PageAfterBorder
    <3> QED BY <2>1, <2>3, <3>2 DEF p
  <2> QED BY <2>4, <2>6, <2>7
<1> QED BY <1>1, BuilderInvHolds, PTL

\* Whatever the lengths of an SPI program, each of its sections has pages of
\* its own with its own right, and holds its own data.
THEOREM SpiSectionsApartTheorem == Spec => []SpiSectionsApart
<1>1. BuilderInv => SpiSectionsApart
  <2> SUFFICES ASSUME BuilderInv, kind = "spi", phase = "built", NEW k \in 1 .. 5,
                      NEW x \in SpiSections(input)[k].addr ..
                                  SpiSections(input)[k].addr + SpiSections(input)[k].len - 1
               PROVE  /\ right[PageOf(x)] = SpiSections(input)[k].access
                      /\ owner[x] = IF SpiSections(input)[k].how = "data" THEN k ELSE 0
    BY SpiSectionsAre DEF SpiSectionsApart
  <2>1. IsSpiInput(input) /\ input.argsLength <= MAX_ARGS_LEN /\ current = 6 /\ SpiPlaced
    BY SpiBuilt
  <2>2. /\ SpiSections(input)[k].addr \in Nat /\ SpiSections(input)[k].len \in Nat
        /\ SpiSections(input)[k].addr + SpiSections(input)[k].len <= Hi(input, k)
        /\ Hi(input, k) < MEMORY_SIZE /\ Hi(input, k) \in Nat
    BY <2>1, Regions DEF Aligned
  <2>3. x \in Addr
    BY <2>2, Segments DEF Addr
  <2>4. Covered(k, x)
    BY <2>1, <2>2 DEF Covered, Progress
  <2> QED BY <2>1, <2>3, <2>4 DEF SpiPlaced
<1> QED BY <1>1, BuilderInvHolds, PTL

\* Whatever the lengths of an SPI program, the guards of its layout stay empty.
THEOREM SpiGuardsTheorem == Spec => []SpiGuards
<1>1. BuilderInv => SpiGuards
  <2> SUFFICES ASSUME BuilderInv, kind = "spi", phase = "built", NEW x \in Addr,
                      \/ x < SEGMENT_SIZE
                      \/ STACK_SEGMENT_END <= x /\ x < ARGS_SEGMENT_START
                      \/ MEMORY_SIZE - SEGMENT_SIZE <= x,
                      right[PageOf(x)] # "Unmapped"
               PROVE  FALSE
    BY DEF SpiGuards
  <2>1. IsSpiInput(input) /\ PageOf(x) \in PageIdx
    BY SpiBuilt, AddrInPage
  <2>2. PICK k \in 1 .. 5, y \in Addr : /\ PageOf(y) = PageOf(x) /\ SpiSections(input)[k].addr <= y
                                        /\ y < Hi(input, k)
    BY <2>1, SpiBuilt
  <2>3. /\ SEGMENT_SIZE <= y
        /\ \/ y < STACK_SEGMENT_END
           \/ ARGS_SEGMENT_START <= y /\ y < MEMORY_SIZE - SEGMENT_SIZE
    <3>1. /\ SpiSections(input)[k].addr \in Nat /\ Hi(input, k) \in Nat
          /\ SpiSections(input)[k].addr >= SEGMENT_SIZE
          /\ \/ Hi(input, k) <= HeapEnd(input)
             \/ SpiSections(input)[k].addr >= StackStart(input) /\ Hi(input, k) <= STACK_SEGMENT_END
             \/ /\ SpiSections(input)[k].addr >= ARGS_SEGMENT_START
                /\ Hi(input, k) <= MEMORY_SIZE - SEGMENT_SIZE
      BY <2>1, Regions DEF Aligned
    <3>2. /\ HeapEnd(input) \in Nat /\ HeapEnd(input) <= STACK_SEGMENT_END
          /\ STACK_SEGMENT_END \in Nat /\ ARGS_SEGMENT_START \in Nat
          /\ MEMORY_SIZE - SEGMENT_SIZE \in Nat
      <4>1. /\ HeapEnd(input) \in Nat /\ StackStart(input) \in Nat /\ HeapEnd(input) <= StackStart(input)
            /\ AlignToPage(input.stackSize) \in Nat
            /\ StackStart(input) + AlignToPage(input.stackSize) = STACK_SEGMENT_END
        BY <2>1, Borders DEF Aligned
      <4>2. STACK_SEGMENT_END \in Nat /\ ARGS_SEGMENT_START \in Nat /\ MEMORY_SIZE - SEGMENT_SIZE \in Nat
        BY Segments DEF Aligned
      <4> QED BY <4>1, <4>2
    <3>3. y \in Nat /\ SEGMENT_SIZE \in Nat
      BY SegmentSize DEF Addr
    <3> QED BY <2>2, <3>1, <3>2, <3>3
  <2>4. /\ x \in Nat /\ y \in Nat /\ Aligned(SEGMENT_SIZE) /\ Aligned(STACK_SEGMENT_END)
        /\ Aligned(ARGS_SEGMENT_START) /\ Aligned(MEMORY_SIZE - SEGMENT_SIZE)
        /\ STACK_SEGMENT_END <= ARGS_SEGMENT_START /\ ARGS_SEGMENT_START <= MEMORY_SIZE - SEGMENT_SIZE
        /\ SEGMENT_SIZE \in Nat /\ STACK_SEGMENT_END \in Nat /\ ARGS_SEGMENT_START \in Nat
        /\ MEMORY_SIZE - SEGMENT_SIZE \in Nat
    BY Segments, SegmentSize DEF Addr, Aligned
  <2>5. ASSUME NEW u \in Nat, NEW v \in Nat, NEW b, Aligned(b), b \in Nat, u < b, b <= v,
               PageOf(u) = PageOf(v)
        PROVE  FALSE
    <3>1. PageOf(u) < PageOf(v)
      BY <2>5, BorderParts
    <3>2. PageOf(u) \in Int
      BY PageSize, DivMod DEF PageOf
    <3> QED BY <2>5, <3>1, <3>2
  <2> DEFINE top == MEMORY_SIZE - SEGMENT_SIZE
  <2>6. CASE x < SEGMENT_SIZE
    BY <2>2, <2>3, <2>4, <2>5, <2>6
  <2>7. CASE STACK_SEGMENT_END <= x /\ x < ARGS_SEGMENT_START
    <3>1. y < STACK_SEGMENT_END \/ ARGS_SEGMENT_START <= y
      BY <2>3
    <3>2. CASE y < STACK_SEGMENT_END
      BY <2>2, <2>4, <2>5, <2>7, <3>2
    <3>3. CASE ARGS_SEGMENT_START <= y
      BY <2>2, <2>4, <2>5, <2>7, <3>3
    <3> QED BY <3>1, <3>2, <3>3
  <2>8. CASE top <= x
    <3>1. y < top /\ top \in Nat /\ Aligned(top)
      BY <2>3, <2>4
    <3> HIDE DEF top
    <3> QED BY <2>2, <2>4, <2>5, <2>8, <3>1
  <2> QED BY <2>6, <2>7, <2>8
<1> QED BY <1>1, BuilderInvHolds, PTL

\* buildMemory leaves the heap pointer behind every writable page and chunk of
\* any list, unless it ends at the top of the address space.
THEOREM SbrkBehindSectionsTheorem == Spec => []SbrkBehindSections
<1>1. BuilderInv => SbrkBehindSections
  <2> SUFFICES ASSUME BuilderInv, kind = "generic", phase = "built",
                      NEW k \in DOMAIN GenericSections(input),
                      GenericSections(input)[k].access # "Read",
                      GenericSections(input)[k].addr + GenericSections(input)[k].len < MEMORY_SIZE
               PROVE  GenericSections(input)[k].addr + GenericSections(input)[k].len <= sbrk
    BY DEF SbrkBehindSections
  <2>1. BuilderTypes /\ BuiltGood /\ GenericGood
    BY DEF BuilderInv
  <2>2. Len(Sections) \in Nat /\ DOMAIN GenericSections(input) = 1 .. Len(Sections)
    BY <2>1, SectionsTyped
  <2>3. current = Len(Sections) + 1
    BY <2>1 DEF BuiltGood
  <2>4. k \in 1 .. current - 1
    BY <2>2, <2>3
  <2> QED BY <2>1, <2>4 DEF GenericGood
<1> QED BY <1>1, BuilderInvHolds, PTL
=============================================================================
