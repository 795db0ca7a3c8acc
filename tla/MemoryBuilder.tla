--------------------------- MODULE MemoryBuilder ---------------------------
(***************************************************************************)
(* How a memory is laid out: class MemoryBuilder of memory.ts, driven by   *)
(* decodeSpi (spi.ts), by buildMemory (api-internal.ts) and by the default *)
(* of the constructor of Interpreter (interpreter.ts).                     *)
(*                                                                         *)
(* An input is a list of sections.  They are placed one after the other,   *)
(* page by page; a page belongs to the section that touched it first, and  *)
(* its access right with it.  Of the contents only this is kept: which     *)
(* section's data a byte holds.                                            *)
(***************************************************************************)
EXTENDS Layout

CONSTANTS
  SEGMENT_SIZE,     \* 2^16 in the code
  MAX_ARGS_LEN,     \* 2^24
  MaxLength,        \* largest length a u24 can have
  MaxHeapPages,     \* largest number of heap pages a u16 can have
  SpiInputs,        \* sizes of an SPI blob: see IsSpiInput
  GenericInputs     \* lists of pages and chunks: see IsGenericInput

RESERVED_MEMORY == RESERVED_PAGES * PAGE_SIZE
ARGS_SEGMENT_START == MEMORY_SIZE - SEGMENT_SIZE - MAX_ARGS_LEN
STACK_SEGMENT_END == ARGS_SEGMENT_START - SEGMENT_SIZE

AlignTo(unit, size) == ((size + unit - 1) \div unit) * unit
AlignToPage(size) == AlignTo(PAGE_SIZE, size)
AlignToSegment(size) == AlignTo(SEGMENT_SIZE, size)

IsSpiInput(i) ==
  /\ i.roLength \in 0 .. MaxLength /\ i.rwLength \in 0 .. MaxLength
  /\ i.stackSize \in 0 .. MaxLength /\ i.heapPages \in 0 .. MaxHeapPages
  /\ i.argsLength \in Nat

\* An InitialPage, or an InitialChunk, whose access is "None".
IsGenericInput(i) ==
  /\ i.pages \in Seq([access : {"Read", "Write"}, addr : Addr, len : Addr])
  /\ i.chunks \in Seq([access : {"None"}, addr : Addr, len : Addr])

\* The lengths of a blob are so much smaller than the address space that its
\* regions cannot meet: 2^26 + 2^28 + 3 * 2^16 bytes at most under 0xfefe0000.
ASSUME SegmentsAssumption ==
  /\ SEGMENT_SIZE = RESERVED_MEMORY
  /\ MAX_ARGS_LEN \in Nat /\ MaxLength \in Nat /\ MaxHeapPages \in Nat
  /\ MAX_ARGS_LEN % PAGE_SIZE = 0
  /\ 2 * SEGMENT_SIZE + AlignToSegment(MaxLength) + AlignToPage(MaxLength)
       + MaxHeapPages * PAGE_SIZE + AlignToPage(MaxLength) <= STACK_SEGMENT_END
ASSUME InputsAssumption ==
  /\ \A i \in SpiInputs : IsSpiInput(i)
  /\ \A i \in GenericInputs : IsGenericInput(i)

VARIABLES
  kind,     \* who builds the memory: "spi", "generic" or "default"
  input,
  current,  \* the section that is being placed
  placed,   \* how many of its bytes are
  right,    \* pages of the builder: their access, "Unmapped" if there is none
  order,    \* their indices in the order they were created in
  owner,    \* the section whose data a byte holds, 0 if it holds none
  sbrk, maxHeap,
  phase     \* "placing", "built", or the exception that was thrown

bvars == <<kind, input, current, placed, right, order, owner, sbrk, maxHeap, phase>>

-----------------------------------------------------------------------------
(* decodeSpi.                                                              *)

HeapStart(i) == 2 * SEGMENT_SIZE + AlignToSegment(i.roLength)
HeapZerosStart(i) == HeapStart(i) + AlignToPage(i.rwLength)

HeapZerosLength(i) == i.heapPages * PAGE_SIZE
HeapEnd(i) == HeapZerosStart(i) + HeapZerosLength(i)

\* Mutant of StackStart: the size is not rounded up to pages.
StackStartUnaligned(i) == STACK_SEGMENT_END - i.stackSize
StackStart(i) == STACK_SEGMENT_END - AlignToPage(i.stackSize)

Section(how, access, addr, len) == [how |-> how, access |-> access, addr |-> addr, len |-> len]

\* Read-only data and arguments first, then what is writable; nothing is
\* placed for a length of zero.
SpiSections(i) ==
  <<Section("data", "Read", SEGMENT_SIZE, i.roLength),
    Section("data", "Read", ARGS_SEGMENT_START, i.argsLength),
    Section("data", "Write", HeapStart(i), i.rwLength),
    Section("empty", "Write", HeapZerosStart(i), HeapZerosLength(i)),
    Section("empty", "Write", StackStart(i), AlignToPage(i.stackSize))>>

\* buildMemory: pages are zeroed data, chunks come last.
GenericSections(i) ==
  [k \in 1 .. Len(i.pages) + Len(i.chunks) |->
     IF k <= Len(i.pages)
     THEN Section("data", i.pages[k].access, i.pages[k].addr, i.pages[k].len)
     ELSE Section("data", "None", i.chunks[k - Len(i.pages)].addr, i.chunks[k - Len(i.pages)].len)]

Sections == CASE kind = "spi" -> SpiSections(input)
              [] kind = "generic" -> GenericSections(input)
              [] kind = "default" -> <<>>

-----------------------------------------------------------------------------
(* Placing them.                                                           *)

Init ==
  /\ \/ kind = "spi" /\ input \in SpiInputs
     \/ kind = "generic" /\ input \in GenericInputs
     \/ kind = "default" /\ input = <<>>
  /\ current = 1 /\ placed = 0
  /\ right = [p \in PageIdx |-> "Unmapped"] /\ order = <<>>
  /\ owner = [x \in Addr |-> 0]
  /\ sbrk = (IF kind = "default" THEN 0 ELSE RESERVED_MEMORY)
  /\ maxHeap = MEMORY_SIZE - 1
  /\ phase = "placing"

\* Mutant of ArgsTooLong: the last segment is given away.
ArgsTooLongForSpace == kind = "spi" /\ input.argsLength > MAX_ARGS_LEN + SEGMENT_SIZE
ArgsTooLong == kind = "spi" /\ input.argsLength > MAX_ARGS_LEN

\* decodeSpi throws before anything is decoded.
RejectArgs ==
  /\ phase = "placing" /\ ArgsTooLong
  /\ phase' = "arguments too long"
  /\ UNCHANGED <<kind, input, current, placed, right, order, owner, sbrk, maxHeap>>

Placing == phase = "placing" /\ ~ArgsTooLong /\ current <= Len(Sections)

\* The u32 where the section goes on.  setEmpty compares it with the end, which
\* is a u32 as well; setData counts the bytes that are left.
At(s) == (s.addr + placed) % MEMORY_SIZE
More(s) == IF s.how = "data" THEN placed < s.len
           ELSE At(s) < (s.addr + s.len) % MEMORY_SIZE

\* setData goes to the end of the page or of the data, setEmpty takes steps of
\* a page.
Chunk(s) == LET space == PAGE_SIZE - Rel(At(s))
            IN IF s.how = "empty" THEN PAGE_SIZE
               ELSE IF s.len - placed < space THEN s.len - placed ELSE space

\* Mutant of PlacePage: a page that exists already is created again.
PlacePageAnew ==
  LET s == Sections[current]
      p == PageOf(At(s))
  IN /\ Placing /\ More(s) /\ p >= RESERVED_PAGES
     /\ right' = [right EXCEPT ![p] = s.access]
     /\ order' = Append(order, p)
     /\ owner' = [x \in Addr |-> IF s.how = "data" /\ x \in At(s) .. At(s) + Chunk(s) - 1
                                 THEN current ELSE owner[x]]
     /\ placed' = placed + Chunk(s)
     /\ UNCHANGED <<kind, input, current, sbrk, maxHeap, phase>>

\* One round of the loop of setData or setEmpty.  getOrCreatePageForAddress
\* leaves a page that exists as it is.
PlacePage ==
  LET s == Sections[current]
      p == PageOf(At(s))
  IN /\ Placing /\ More(s) /\ p >= RESERVED_PAGES
     /\ IF right[p] = "Unmapped"
        THEN right' = [right EXCEPT ![p] = s.access] /\ order' = Append(order, p)
        ELSE UNCHANGED <<right, order>>
     /\ owner' = [x \in Addr |-> IF s.how = "data" /\ x \in At(s) .. At(s) + Chunk(s) - 1
                                 THEN current ELSE owner[x]]
     /\ placed' = placed + Chunk(s)
     /\ UNCHANGED <<kind, input, current, sbrk, maxHeap, phase>>

\* "Attempting to allocate reserved page".
PlaceReserved ==
  /\ Placing /\ More(Sections[current])
  /\ PageOf(At(Sections[current])) < RESERVED_PAGES
  /\ phase' = "reserved page"
  /\ UNCHANGED <<kind, input, current, placed, right, order, owner, sbrk, maxHeap>>

\* Mutant of Raised: chunks are left out.
RaisedByPages(s) ==
  LET end == (s.addr + s.len) % MEMORY_SIZE
  IN IF kind = "generic" /\ s.access = "Write" /\ end >= sbrk THEN end ELSE sbrk

\* buildMemory only: the heap pointer is kept behind writable pages and chunks.
Raised(s) ==
  LET end == (s.addr + s.len) % MEMORY_SIZE
  IN IF kind = "generic" /\ s.access # "Read" /\ end >= sbrk THEN end ELSE sbrk

\* The loop of the section ends, and the caller goes on to the next.
PlaceNext ==
  /\ Placing /\ ~More(Sections[current])
  /\ sbrk' = Raised(Sections[current])
  /\ current' = current + 1 /\ placed' = 0
  /\ UNCHANGED <<kind, input, right, order, owner, maxHeap, phase>>

\* Mutant of Build: the heap may grow up to the end of the stack.
BuildOverStack ==
  /\ phase = "placing" /\ ~ArgsTooLong /\ current > Len(Sections)
  /\ sbrk' = IF kind = "spi" THEN HeapEnd(input) ELSE sbrk
  /\ maxHeap' = IF kind = "spi" THEN STACK_SEGMENT_END ELSE maxHeap
  /\ phase' = "built"
  /\ UNCHANGED <<kind, input, current, placed, right, order, owner>>

\* build, and the check of the constructor of Memory: "sbrk within reserved
\* memory is not allowed!".  The default memory of an Interpreter fails it.
Build ==
  /\ phase = "placing" /\ ~ArgsTooLong /\ current > Len(Sections)
  /\ sbrk' = IF kind = "spi" THEN HeapEnd(input) ELSE sbrk
  /\ maxHeap' = IF kind = "spi" THEN StackStart(input) ELSE maxHeap
  /\ phase' = IF sbrk' < RESERVED_MEMORY THEN "sbrk in reserved memory" ELSE "built"
  /\ UNCHANGED <<kind, input, current, placed, right, order, owner>>

Next == RejectArgs \/ PlacePage \/ PlaceReserved \/ PlaceNext \/ Build

Spec == Init /\ [][Next]_bvars

-----------------------------------------------------------------------------
(* Properties.                                                             *)

Result ==
  [pages |-> [k \in 1 .. Len(order) |->
                [idx |-> order[k], access |-> right[order[k]], fill |-> 0]],
   sbrk |-> sbrk, maxHeap |-> maxHeap]

\* Whatever is built is a layout as module PageMemory assumes it: no page
\* twice, none reserved, and a heap pointer below its limit
\* (memory.ts:127-139,159-162).
LayoutSound == phase = "built" => IsLayout(Result)

\* The heap of an SPI program has room up to the stack and nothing is in its
\* way: what module PageMemory asks of a layout before it promises that sbrk
\* never replaces a page (spi.ts:45-72).
SpiHeapClear == kind = "spi" /\ phase = "built" => HeapClear(Result)

\* Every section of an SPI program has its own pages, with its own right, and
\* its data is there whole: the alignments keep them apart for all lengths
\* (spi.ts:45-70).
SpiSectionsApart ==
  kind = "spi" /\ phase = "built" =>
    LET sections == SpiSections(input)
    IN \A k \in DOMAIN sections :
         \A x \in sections[k].addr .. sections[k].addr + sections[k].len - 1 :
           /\ right[PageOf(x)] = sections[k].access
           /\ owner[x] = IF sections[k].how = "data" THEN k ELSE 0

\* "Guard" and "Reserved / Guard" in the drawing of the layout (spi.ts:111-178):
\* nothing is mapped below the read-only data, between stack and arguments and
\* in the last segment of the address space.
SpiGuards ==
  kind = "spi" /\ phase = "built" =>
    \A x \in Addr :
      \/ x < SEGMENT_SIZE
      \/ STACK_SEGMENT_END <= x /\ x < ARGS_SEGMENT_START
      \/ MEMORY_SIZE - SEGMENT_SIZE <= x
      => right[PageOf(x)] = "Unmapped"

\* buildMemory leaves the heap pointer at or behind the end of every writable
\* page and every chunk that ends below the top of the address space: "find the
\* highest writeable page and set the sbrk index to the end of that range"
\* (api-internal.ts:50).  An end at the top is 0 as a u32 and does not count.
SbrkBehindSections ==
  kind = "generic" /\ phase = "built" =>
    \A k \in DOMAIN GenericSections(input) :
      LET s == GenericSections(input)[k]
      IN s.access # "Read" /\ s.addr + s.len < MEMORY_SIZE => s.addr + s.len <= sbrk
=============================================================================
