--------------------------- MODULE MCPageMemory ---------------------------
(* Small memories for the model checker.                                   *)
EXTENDS PageMemory

Pg(i, a, f) == [idx |-> i, access |-> a, fill |-> f]

\* Clear heaps.  decodeSpi: read-only data, then the heap, then the stack,
\* which bounds the heap; and a heap that starts inside a page, with room for
\* two more.
SpiLayouts ==
  {[pages |-> <<Pg(1, "Read", 1), Pg(3, "Write", 0)>>, sbrk |-> 4, maxHeap |-> 6],
   [pages |-> <<Pg(1, "Write", 1)>>, sbrk |-> 3, maxHeap |-> 7]}

\* buildMemory: the pointer is the end of the highest writable page or chunk,
\* which may be inside a page, and a read-only or inaccessible page may follow.
GenericLayouts ==
  {[pages |-> <<Pg(1, "Write", 0), Pg(2, "Read", 1)>>, sbrk |-> 4, maxHeap |-> 7],
   [pages |-> <<Pg(1, "Write", 0), Pg(3, "Read", 1)>>, sbrk |-> 4, maxHeap |-> 7],
   [pages |-> <<Pg(1, "Write", 1)>>, sbrk |-> 3, maxHeap |-> 7],
   [pages |-> <<Pg(2, "Read", 1), Pg(1, "None", 1)>>, sbrk |-> 3, maxHeap |-> 7],
   [pages |-> <<>>, sbrk |-> 2, maxHeap |-> 7]}

\* A memory with neighbouring pages of different rights and one whose heap
\* grows: accesses that span two pages meet every combination.
WideLayouts ==
  {[pages |-> <<Pg(1, "Read", 1), Pg(2, "Write", 0), Pg(3, "Write", 1)>>,
    sbrk |-> 6, maxHeap |-> 6],
   [pages |-> <<Pg(1, "Write", 1), Pg(3, "Read", 1)>>, sbrk |-> 3, maxHeap |-> 6]}

\* No action reads the outcome of the call before it.
WithoutOutcome == <<layout, pages, cache, free, extraPageIndex, data, sbrkAddress,
                    lastAllocatedPage, chunks, freed>>

AllLayouts == SpiLayouts \cup GenericLayouts

UpToTwoBytes == {1, 2}
=============================================================================
