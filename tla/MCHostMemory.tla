--------------------------- MODULE MCHostMemory ---------------------------
(* Small memories for the model checker.                                   *)
EXTENDS HostMemory

Pg(i, a, f) == [idx |-> i, access |-> a, fill |-> f]

\* Rights change from page to page, in both directions and across a gap, up to
\* the top of the address space, and one heap grows into the gap.
HostLayouts ==
  {[pages |-> <<Pg(1, "Read", 1), Pg(2, "Write", 0), Pg(3, "Write", 1)>>,
    sbrk |-> 6, maxHeap |-> 6],
   [pages |-> <<Pg(1, "Write", 1), Pg(3, "Read", 1)>>, sbrk |-> 3, maxHeap |-> 6],
   [pages |-> <<Pg(1, "Write", 0), Pg(2, "None", 1)>>, sbrk |-> 6, maxHeap |-> 6]}

OneAndTwoBytes == {1, 2}

\* No action reads the outcome of the step before it.
WithoutOutcome == <<layout, pages, cache, free, extraPageIndex, data, sbrkAddress,
                    lastAllocatedPage, chunks, freed, call>>
=============================================================================
