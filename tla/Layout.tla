------------------------------- MODULE Layout -------------------------------
(***************************************************************************)
(* The address space of a PVM, assembly/memory-page.ts, and what a         *)
(* MemoryBuilder hands to the constructor of Memory.  PAGE_SIZE stands for *)
(* 4096, NUM_PAGES for 2^20 and MEMORY_SIZE for 2^32, so that u32          *)
(* arithmetic is arithmetic modulo MEMORY_SIZE.                            *)
(***************************************************************************)
EXTENDS Integers, Sequences, FiniteSets

CONSTANTS
  PAGE_SIZE,       \* bytes of a page
  NUM_PAGES,       \* pages of the address space
  RESERVED_PAGES,  \* pages at the bottom that are never mapped
  MaxByte          \* bytes are 0..MaxByte (255 in the code)

ASSUME PagesAssumption ==
  /\ PAGE_SIZE \in Nat \ {0} /\ NUM_PAGES \in Nat \ {0}
  /\ RESERVED_PAGES \in 1 .. NUM_PAGES
  /\ MaxByte \in Nat

MEMORY_SIZE == NUM_PAGES * PAGE_SIZE
Addr == 0 .. MEMORY_SIZE - 1
PageIdx == 0 .. NUM_PAGES - 1
Offset == 0 .. PAGE_SIZE - 1
Byte == 0 .. MaxByte

AccessKind == {"None", "Read", "Write"}

PageOf(a) == a \div PAGE_SIZE
Rel(a) == a % PAGE_SIZE

(***************************************************************************)
(* What MemoryBuilder hands to the constructor: the pages in the order the *)
(* builder created them (which decides the raw page each one gets), a byte *)
(* they are filled with, the heap pointer and its limit.                   *)
(***************************************************************************)
IsLayout(l) ==
  /\ l.pages \in Seq([idx : RESERVED_PAGES .. NUM_PAGES - 1,
                      access : AccessKind, fill : Byte])
  /\ Len(l.pages) <= NUM_PAGES
  /\ \A i, j \in 1 .. Len(l.pages) : l.pages[i].idx = l.pages[j].idx => i = j
  /\ l.sbrk \in RESERVED_PAGES * PAGE_SIZE .. MEMORY_SIZE - 1
  /\ l.maxHeap \in l.sbrk .. MEMORY_SIZE - 1

\* Nothing is mapped in the way of the heap, except below the heap pointer in
\* its own page, which must be writable.  The layouts of decodeSpi are clear
\* (spi.ts:72); those of buildMemory need not be.
HeapClear(l) ==
  \A i \in 1 .. Len(l.pages) :
    \/ l.pages[i].idx < PageOf(l.sbrk)
    \/ l.pages[i].idx * PAGE_SIZE >= l.maxHeap
    \/ /\ l.pages[i].idx = PageOf(l.sbrk)
       /\ l.pages[i].idx * PAGE_SIZE < l.sbrk
       /\ l.pages[i].access = "Write"
=============================================================================
