# Formal models of anan-as

anan-as is an interpreter of the JAM Polkadot Virtual Machine (PVM) written in AssemblyScript. The
same sources are compiled to WASM (a debug build that checks array bounds, a release build that
does not: `package.json:19-24`) and, through shims, to plain JavaScript. Everything in it is
synchronous: there are no threads, no timers and nothing is persisted. What makes it hard is
*state that survives a call*: a page cache beside a page map, a heap pointer that moves through
half-used pages, scratch objects shared by all instructions, a program counter that means two
things, gas that is charged in advance, programs that several machines share, and hosts that drive
a machine in any order they like. And it is *arithmetic at its edges*, of words and of lengths, that
two builds of one source must agree on.

This directory holds TLA+ modules for that state, configurations that model-check them with TLC,
and proofs checked by TLAPS. Source paths below are relative to `src/assembly/`, or start with `bin/`.

## 1. Inventory

| Component | State it keeps | Operations | What makes it correct |
|---|---|---|---|
| **Paged memory** `memory.ts`, `memory-page.ts` | page map, direct-mapped cache, arena of raw pages, heap pointer, scratch for the last access | loads and stores of 1-8 bytes, `bytesRead`, `bytesWrite`, `getMemory`, `pageDump`, `getPagePointer`, `sbrk`, `free` | the program sees a byte and a right per address, faults at the first byte it may not use; cache and map agree; no two pages share a buffer; what `sbrk` grants is zeroed, writable and stays |
| **Memory layout** `MemoryBuilder`, `spi.ts`, `buildMemory` | pages being built | `setData`, `setEmpty`, `build`, the two callers and the default memory | sections do not meet, guards stay empty, the heap pointer is behind what is in use and has room before the stack |
| **Host access to memory** `api-utils.ts`, `api-debugger.ts`, `index-compiler.ts` | a write in progress | `pvmReadMemory`, `pvmWriteMemory`, `getMemory`, `setMemory`, `host_read_memory`, `host_write_memory` | exact answers; on failure a known prefix is written |
| **Program decoding** `program.ts`, `codec.ts` | none; tables computed once | `deblob`, `Mask`, `BasicBlocks`, `GasCosts`, `JumpTable` | tables equal their definitions: distance to the next instruction, cost of a block, jump targets; blobs cut short are rejected |
| **Argument decoding** `arguments.ts`, `decodeArguments` | scratch `Args`, a buffer for the end of the code | one decoder per argument kind | arguments are those of the instruction, and zero behind the code |
| **Program builder** `program-build.ts` | none | `wrapAsProgram` | its mask agrees with what the decoders take |
| **Instruction set** `instructions*.ts`, `instructions/*` | registers | one function per opcode | the arithmetic of the PVM; one class of control behaviour per opcode |
| **Portable shims** `portable.ts` | none | conversions, counts, rotations, containers | both builds compute the same |
| **Interpreter loop** `interpreter.ts`, `gas.ts`, `instructions/outcome.ts` | program counter, `nextPc`, status, exit code, gas, the outcome object | `nextSteps`, `branch`, `dJump`, and the setters of its users | however a run is cut into calls, it is one run; gas is neither lost nor charged twice; a finished machine stays finished; runs end |
| **VM handles** `api-utils.ts` | table of handles, next id, registers and memory of each program | `prepareProgram`, `pvmStart`, `pvmResume`, `pvmDestroy`, register and memory access, `runProgram` | handles are independent unless they share a program; none is given out twice |
| **VM runner** `api-internal.ts` | none | `vmInit`, `vmRunOnce`, `vmExecute`, `vmDestroy` | as of the interpreter loop |
| **Traces and command line** `bin/index.ts`, `bin/src/trace-parse.ts`, `trace-replay.ts`, `tracer.ts` | position in a trace, the machine it drives | print, parse and replay a trace; `run` with its log host call | a recording replays; a trace that verifies is a recording; the machine is released whatever happens |
| **Debugger API** `api-debugger.ts` | one interpreter, if any | resets, steps, getters, setters | as of the interpreter loop and host access |
| **PVM-in-PVM entry** `index-compiler.ts`, `env.ts` | one interpreter and its host | `main`, host functions | as of the same two |
| **Fuzzing, test vectors, tests, benchmarks, web page** | none | input, comparison, output | |

How they interact: a user of the API (debugger, handle table, runner or `index-compiler`) has a
program decoded (`deblob`), a memory laid out (`MemoryBuilder`), constructs an `Interpreter` with
both and calls `nextSteps` again and again. Each instruction reads registers, memory and its
arguments and leaves an `OutcomeData` behind that the loop looks at. A host call, a fault or the
end of the gas returns to the user, which reads and writes registers and memory and resumes. The
commands in `bin/` are such users, through the handle table.

Hard behaviour: what a call leaves for the next one (cache, scratch chunks, outcome object, heap
pointer, `nextPc`, a shared program); operations that fail half way (writes that span pages, a
replay); u32 arithmetic at the top of the address space; limits (`sbrk`, the cap of skips, the
arena, the end of the code, the end of a blob); conversions that a type does in one build and
nothing does in the other; termination of a run and of those who drive it. `PROJECT.json` lists each
at its line under `hazards`.

## 2. Modules

| Module | Models | State and actions |
|---|---|---|
| `Layout` | constants of the paged address space | what a builder hands to a memory (`IsLayout`), and when nothing is built in the way of the heap (`HeapClear`) |
| `PageMemory` | `memory.ts`, `memory-page.ts` | `pages`, `cache`, `free`/`extraPageIndex` (the arena), `data`, `sbrkAddress`, `lastAllocatedPage`, `chunks` (the scratch), `faultRes`, `value`; one action per method |
| `AbstractMemory` | what a PVM memory promises | a right per page, a byte per address, a break; no cache, arena or page object |
| `HostMemory` | memory access by program and host | extends `PageMemory` with the write in progress (`call`) and the access a step completed (`last`) |
| `MemoryBuilder` | `MemoryBuilder`, `decodeSpi`, `buildMemory`, default memory | sections are placed one after the other, page by page; then the memory is built, or an exception is thrown on the way |
| `Program`, `ProgramTables` | `program.ts` | operators: mask, skips, starts, costs, jump items, `Deblob`; and their reference definitions |
| `Codec` | `codec.ts`, the reads of `deblob` | operators; a reader answers with a value and an offset, or throws |
| `Arguments` | `arguments.ts`, `decodeArguments` | operators on bytes addressed by a function |
| `ProgramBuild` | `program-build.ts` | operators |
| `Arithmetic` | `instructions/`, `portable.ts` | what an instruction writes to its register, by the name of its function; `Portable` says which build |
| `Computation` | reference definitions for the six above | inputs are built up: codes, blobs, numbers, pairs of registers |
| `Interpreter` | `nextSteps` and the ways to drive it | the fields of `Interpreter`; `Call` is the head of `nextSteps`, each `Step...` one iteration of its loop with one way to leave it |
| `AbstractMachine` | what an interpreter promises | one instruction at a time, no calls, no `nextPc` |
| `Guest` | a machine as its owner sees it | operators: what one call makes of a machine, and what it answers |
| `PvmApi` | `api-utils.ts` | `programs`, `pvms`, `nextPvmId`; one action per exported function |
| `AbstractHandles` | what the table promises one owner | a machine per handle that no other handle touches |
| `TraceReplay` | `bin/`: replay and `run` | extends `PvmApi` with a client; one action per call the client makes |
| `PageMemoryProofs`, `HostMemoryProofs`, `MemoryBuilderProofs`, `InterpreterProofs`, `ProgramProofs`, `ComputationProofs`, `ReplayProofs` | theorems | they share lemmas about quotients, powers of two, bits, least and greatest elements, recursive functions, folds and sums (`NumberProofs`) |
| `MC*` | instances for TLC | |

Definitions whose name is another definition's with a suffix, under a comment "Mutant of ...", are
faulty variants of it; nothing uses them. Each states a slip the code could have had, and shows
that a property would notice.

### Correspondence and abstractions

**PageMemory.** A page is a right and the index of a raw page; contents are kept per raw page, as
in the code, so that two pages sharing a buffer would show. Widths are scaled: `PAGE_SIZE` (4096),
`NUM_PAGES` (2^20) and with them `MEMORY_SIZE` (2^32, the modulus of u32 arithmetic), the cache and
the preallocated part of the arena. The tag of an empty cache slot, 0xffffffff, is `MEMORY_SIZE - 1`.
- The constructor fills the cache in a loop over `keys.length`; the portable build's map iterator
  has no length, and its cache starts empty. `Init` allows both.
- `free` releases pages in the iteration order of the map; any order is allowed.
- Raw pages that were never used are zero, as fresh arrays are. A raw page that comes back from
  `free` keeps its bytes, as the code does.
- On success the fields `isAccess` and `fault` of a `MaybePageFault` are unspecified; the model
  gives them one value.
- The lookups of one multi-page call are written against the cache the call starts with: a lookup
  may evict a page from the cache but never changes the page it would find. `getMemory` checks its
  pages twice; both passes look at the same pages, and `BytesRead` is the second. Ranges of no bytes
  are left out.
- It is the memory of the WebAssembly builds, but for the cache in `Init`. In the JavaScript build `>>` of an
  address from 2^31 on is signed. Where pages are made and looked up the result is made a u32 again
  (`memory.ts:128,159,400`), which gives such a page another index, but the same one everywhere; for the second page of an
  access it is not (`memory.ts:478`), and that page is not found: a store or load across two pages faults there. Nor are the pages
  found that `sbrk` maps from 2^31 on (`memory.ts:252`, a shift of a BigInt), and the addresses faults report (`memory.ts:407`)
  are int32.

**HostMemory.** A call with several accesses that may fault (preflight and write of
`pvmWriteMemory`, one store per byte of `setMemory`) is in progress between them. Nothing can run
in between, and the model lets nothing.

**MemoryBuilder.** A step is one round of the loop of `setData` or `setEmpty`, or the end of it. Of the contents, only which section's data a byte holds is kept. The byte format
of the blobs is left out; the lengths they can hold are enumerated. `SegmentsAssumption` states the
one fact about the numbers that the layout relies on: that the regions of the largest possible
program fit under the stack.

**Program.** The code is a sequence of opcodes of a few classes and its mask. `GAS` is 1 for every
opcode, as in the table in `instructions.ts`. `BYTE_BASE`, `U32` and `U64` scale the integers; the
overflow check of `JumpTable` is evaluated in them. `U24` scales the gas in an entry of `codeAndGas`, 24 bits
above the opcode: a block that costs more, of 2^24 instructions, is charged what is left after the shift.

**Codec, Arguments, ProgramBuild.** A byte has `BITS` bits and a u32 `BITS / 2` bytes, so that a
number has up to `BITS` bytes behind its first and the biggest first byte stands for a u64, as with
eight bits. A byte of registers or lengths is two nibbles, each of half its bits; a number in arguments
has up to `WIDTH` bytes (4 in the code), fewer than a nibble can ask for. What lies behind an array is `beyond`, any byte: the release
build reads it, the debug build throws and JavaScript takes it for 0.

**Arithmetic.** Integers of TLA+ are BigInts. A conversion that the source calls (`u64(...)`,
`i64(...)`) is done in both builds; one that a static type does, in the WebAssembly build only. Bytes
have `BYTE` bits; a register has eight bytes. Instructions are given by the values of their
registers, with the numbering of the source (`args.a` is the divisor, the shift amount, the right
side). `bswap` and the counts of 32 bits, which are bit tricks or library calls, are what they compute.

**Interpreter.** Registers and memory contents are open: a branch is taken or not, a load or store
succeeds or faults at any address, an indirect jump computes any address. What is kept is every
check in its order, what is charged and when, what is left in `outcomeRes` for the next instruction
and every way in and out of `nextSteps`. `prepaid` and `entered` are history variables. Callers set
any program counter but 0xffffffff, which is the code's mark for "none". Its programs are what `Deblob` makes of
`RawPrograms`; with gas per block only of those whose blocks fit their entries. `BasicBlock.END` is left
out: only `toString` reads it.

**Guest.** Here registers and memory are what matters, so a machine is deterministic and its program
a few instructions: count, load, store, call the host, jump, stop in every way. Pages are one byte;
each instruction costs 1, as without gas per block, which is what `replay-trace` uses if it is not told otherwise; the run
command charges per block (`bin/index.ts:212`), which is `Interpreter`'s subject. `nextPc` keeps its two meanings and 0xffffffff is a value like any other.

**PvmApi.** A `StandardProgram` owns registers and memory, and a handle refers to them; destroying
a machine frees the memory of its program. `uses` counts the machines of a program (a history
variable); the promise of `AbstractHandles` ends when a second one is made.

**TraceReplay.** A trace is a sequence of parsed lines, as the patterns of `trace-parse.ts` take them
apart. A line that throws stops the parse. Numbers of a trace
fit where they go: addresses a u32, register values and gas a u64 or an i64. The parser does not check that
(`bin/src/trace-parse.ts`), and what does not fit is cut off on its way into the WebAssembly module
(`bin/src/trace-replay.ts:130-153`), after the tracer has printed it whole; no tracer prints such a line. A client is at the call it makes next; preparation and
parsing, which make no call to a machine, are one step. Log lines go to the console and are left out.

## 3. Runs

| Run | Question | Result |
|---|---|---|
| `memory` | Do cache, map, arena and heap pointer agree in every order of calls, on memories as `decodeSpi` and `buildMemory` lay them out? And is a memory with its cache, arena and scratch the memory `AbstractMemory` promises? | yes (`IInv`, `CacheCoherent`, `NoAliasing`, `GrantedWritable`, `GrantedZeroed`, `MappedPagesStay`); and yes, with a clear heap, in every call but an access of a single page that finds in the scratch what one of two pages has left there (`ImplementsAbstract`) |
| `memory_residue_store` | Do the bytes of a read-only page never change? | **no**: a store after an access across two pages writes into the second page of that access |
| `host` | Do program and host get exact faults and bytes, and what has a failed write written? | exact; the prefix of the range before the first page that is not writable |
| `host_all_or_nothing` | Does `pvmWriteMemory` write nothing when it answers `false`? | **no**: its preflight asks for the right to read |
| `builder` | Does every input give a layout `PageMemory` may start with? | yes, or an exception |
| `computation` | Do tables, codec, arguments, builder and arithmetic compute what they should? | yes, where the properties say so; the exceptions are the next three runs and the list below |
| `skip_bound` | Are at most 24 bytes skipped? | **no**: 25, if the next instruction is further away than 24 bytes |
| `portable` | Does the JavaScript build compute what the WebAssembly build does? | **no**: `shar_r_imm_alt` shifts in zeros, and shifts by an immediate with its sign bit set differ |
| `arguments` | Are arguments missing at the end of the code zero? | **no**: if the length nibble asks for more than is left, bytes behind the code are read |
| `machine` | Is a run that is cut into calls, redirected and refuelled a run of `AbstractMachine`? Is gas in advance exact? Does `vmExecute` return? | yes |
| `exit_code` | Does a panic have exit code 0? | **no**: a trap copies what an earlier host call left in `outcomeRes` |
| `api` | Are handles independent? Does a trace verify exactly if it is a recording? Do the commands end and release their machine? | yes |

The findings behind the six answers "no" are quoted in `PROJECT.json`.

`SkipExact` is stated beside such a disagreement. It has the cap that the code has and the array in
`program.test.ts:37-41` expects, MAX_SKIP + 1, while the comment above `skipBytesToNextInstruction` and the
title of that very test give MAX_SKIP: which of them is meant the repository does not say, and `skip_bound`
reports it.

Met while modelling, and visible in the definitions although no run is about them:
- the memory an `Interpreter` has by default (`interpreter.ts:55`) cannot be built: its heap pointer,
  0, is in the reserved memory, and `resetGeneric`, which relies on it, throws. `Init` of
  `MemoryBuilder` has it among its inputs;
- `decodeVarU32` compares the length of its data with one byte less than it reads (`codec.ts:107`);
  `deblob` rejects blobs cut short all the same (`SectionsExact`), because what follows is missing too.
  `SectionsExact` is stated of blobs that an array can hold: its length is an i32, less than half of what a
  u32 counts (`IsArray`). In longer ones the sum of an offset and a length, which is reduced as a u32,
  could fall behind the end; and of jump tables that are a whole number of items, as a blob that says the
  number of items and their size has them;
- a block that costs 2^24 or more is charged what is left after a shift (`program.ts:174`): `BlockGasExact`
  states that, and `machine` leaves such programs out;
- in a generic layout with pages above the heap pointer, `sbrk` replaces them (`memory.ts:258-263`):
  `GrantedWritable` and `MappedPagesStay` are stated for a clear heap, which `SpiHeapClear` shows
  every SPI program to have;
- the overflow of a jump table item wider than a u64 is noticed only if the shift makes the number smaller, and the
  bytes behind go on from there (`program.ts:268`): `JumpItemExact` is stated of items of up to eight bytes;
- the end of a range that ends at 2^32 is 0, so that `setMemory` answers `true` and writes nothing
  (`api-debugger.ts:250`), and the heap pointer of a built memory is not raised by a writable page there
  (`api-internal.ts:52`): `SetMemoryExact` and `SbrkBehindSections` are stated below the top;
- `pageDump(0xffffffff)` answers with an empty array instead of `null`; `AView` allows it;
- a replay compares neither the registers of the termination nor its code, and for SPI programs not
  the registers of the start line but 7 and 8 (`bin/src/trace-replay.ts:154-160`,
  `bin/src/trace-parse.ts:354-387`); `IsRecording` leaves out exactly these;
- a memory access of no bytes is printed as a bare `0x` (`bin/src/tracer.ts:28,32`), which
  `bin/src/trace-parse.ts:202,216` refuses: such a trace cannot be replayed.

### Bounds, and why they are enough

- `memory`, `memory_residue_store`, `host`: pages of two bytes and four or five pages. Two bytes are what it takes for a
  pointer to stop inside a page and for an access to begin in one page and end in the next. Four
  pages are a reserved page and three whose rights differ; with two cache slots, two pages collide
  in one and a third does not. The arena starts with none, one or two raw pages, so that it runs out
  before, while and after the heap grows. Three of the six memories of
  `memory` have a clear heap: one as `decodeSpi` lays it out, one whose heap starts inside a page, and one
  without pages; the other three have read-only or
  inaccessible pages in its way. Values are one bit, enough to tell a byte from another.
  Layouts are listed in the `MC` modules with the case each is there for.
- `builder`: segments of two pages, lengths of 0 to 3 bytes: no page, a part of one, a page, more
  than one, for each of the five lengths of an SPI blob independently. Generic inputs have up to
  two pages and a chunk, at the edge of the reserved memory, inside a page and at the top.
- `computation`: all masks and codes of up to five bytes over an opcode that ends a block, one
  that does not and one that is invalid, with `MAX_SKIP = 2`, so that gaps shorter than, equal to and
  longer than the cap, and gaps at the end, occur, and with `U24 = 3`, so that blocks cost more than an entry
  has room for. Jump table items of up to four digits where three
  fit. All codes of up to five bytes over seven opcodes that are also, as arguments, all nibbles up to
  the width of a number and one more; every number of four bits to the byte up to 4500, which has all
  lengths up to four bytes and their boundaries. Every prefix of every blob.
  Arithmetic on registers of eight bits, pairs of 27 values: the edges of words of 4 and 8 bits, of their
  signs and of sign extension, the numbers beside them and a few between, with every four-bit immediate. Bytes of
  one bit (a power of two of them, as `ComputationAssumption` asks) make 8-, 16-, 32- and 64-bit words of 1, 2, 4 and 8 bits: the relations between widths are
  those of the code.
- `machine`: six programs by hand, with gas per instruction and per block, each there for a reason
  its module states; gas up to 4, calls of up to 2 steps, which is enough for a call to end inside a
  block, at its end and at a stop. For `ExecutedStops` every program of three bytes over eight words.
- `api`: two programs prepared and two handles given out, one of a memory that can be written half,
  and handles never given out; a client alone, or a user who calls anything. Nine recordings, with and
  without answers of the host, refuelled, with memory and arguments in one chunk, in two and in none, and
  every way to terminate; of each, every trace in which one line is lost, doubled, changed in one field
  or swapped with the next.
- `VIEW WithoutOutcome` (memory) and `VIEW WithoutAnswers` (`api`) leave the outcome of the last call
  out of the state: no action reads `faultRes`, `value`, `last`, `request` or `reply`. TLC evaluates
  properties on every step it generates, before the view merges successors. The invariants that
  mention the outcome only give its type.

CHECK_DEADLOCK is off where the model really stops: a memory that is built, an input that is
complete, a `vmExecute` that has returned, a client that is done.

### Fairness

Two runs assume any, of code that is sequential and that nothing else interrupts:
- `machine`: `WF_mcvars(Executed)`, that is, `vmExecute` goes on while it can. Its loop
  (`api-internal.ts:88-122`) calls `nextSteps` until it returns `false`. `Executed` contains neither
  `SetGas` nor `SetNextPc`: `vmExecute` sets nothing. A debugger may stop calling at any time, and
  nothing is claimed of one.
- `api`: `WF_vars(ClientNext)`: the loops of `replayTraceFile` and of the run command make their next
  call when the last one has returned; each call of `pvmResume` returns, which `machine` shows. Users
  of the API outside `bin/` are owed no progress.

## 4. Proofs

`PageMemoryProofs` proves, for every page size above one, number of pages, cache size, arena and
set of layouts that satisfy the assumptions in `Layout` and `PageMemory`:

- `InvariantTheorem`: `Spec => []IInv`. `IInv` is the conjunction of `TypeOK`, `CacheCoherent`,
  `NoAliasing` and four parts that make it inductive. `NoAliasing` alone is not inductive: that a page
  the arena hands out is fresh needs `ArenaBudget` (raw pages in use are at most
  `extraPageIndex`), and that there are enough indices needs a bound of `extraPageIndex` by the
  pages `sbrk` has passed, hence `HeapPointer`, which ties `lastAllocatedPage` to the pointer.
  `ReservedUnmapped` needs `HeapPointer` too. `TypeOK` of the pointer needs the limit.
  `ArenaZeroed` says that until `free` no page and no scratch chunk refers to a raw page that the
  arena has still to hand out, and that those pages are zero: a store writes through chunks of an
  earlier access, so that mapped pages alone would not do.
- `TypeTheorem`, `CacheCoherentTheorem`, `NoAliasingTheorem`: its parts.
- `GrantedWritableTheorem`: with a clear heap, every byte `sbrk` has granted is writable; by a
  second invariant on top of `IInv`, since the pages between the initial pointer and
  `lastAllocatedPage` are those that were mapped writable.
- `MappedPagesStayTheorem`: the action property, from the same two invariants: pages above
  `lastAllocatedPage` and below the limit are unmapped, so that mapping them replaces nothing.
- `GrantedZeroedTheorem`: the action property, from `ArenaZeroed`; for any layout, clear heap or not.

`HostMemoryProofs` builds on these, and adds `HostAssumption` (a store of one byte exists: `setMemory`
writes with `setU8`). Its theorems are action properties, about the step that answers an access:

- `HostTypeTheorem`: `HostInv`, which is `IInv` with the type of the call in progress and what is known
  of it between its parts: a write past its preflight has a readable range. `HostInv` is inductive
  because each action of `HostMemory` is one of `PageMemory`'s or leaves its variables alone.
- `FaultsExactTheorem`, `HostReadExactTheorem`: `Reach` is the distance of the first byte that may not be
  accessed. The code looks at pages, not at bytes; `RangeReach` shows that the first page it stops at is
  the page of that byte, around the top of memory too, by the uniqueness of quotient and remainder
  (`PageOfWrap`, `StopsAtPage`, `ReachesEnd`). `CacheCoherent` is why a cached page is as good as the map's.
- `HostWriteExactTheorem`, `StoreExactTheorem`: that a write changes *no other* byte needs `NoAliasing`: two
  mapped addresses with the same raw page and offset are the same address (`OneByte`).
- `LoadExactTheorem`: the scratch chunks of a load are the parts of its range in its first and its
  second page. This and `StoreExactTheorem` are for accesses that find no residue in the scratch; the
  run `memory_residue_store` shows what happens otherwise.
- `SetMemoryExactTheorem`: from a second invariant, `SetInv`: the bytes before the one to be written
  next are writable and have the value of the call.
- `AbstractTheorem`: every step of `PageMemory` is one of `AbstractMemory` or a stutter, under the
  mapping of a state to its rights, the bytes of its mapped addresses, and its break. Two
  exceptions. `HeapClear(layout)`, because `sbrk` replaces pages otherwise; `SpiHeapClearTheorem` shows
  that every SPI program has it. And `AccessOnResidue`: an access of one page that finds bytes of an earlier
  one in the scratch; the run `memory_residue_store` shows what it may do. What it does is over with the
  step: the invariant holds on, and later calls are again steps of `AbstractMemory`. `OnePageTheorem` is about
  behaviours in which no access has crossed a border of pages: they are the abstract memory's, without exception.

`MemoryBuilderProofs` proves, for every page and segment size and every bound on lengths under which the
largest program fits (`SegmentsAssumption`):

- `LayoutSoundTheorem`: for any list of sections, whatever they overlap. The pages in the order of their
  creation are those that have a right, each once (`OrderGood`), hence no more than there are pages.
- `SpiSectionsApartTheorem`, `SpiGuardsTheorem`, `SpiHeapClearTheorem`: what has been placed at any time is
  exactly what `Covered` says (`SpiPlaced`), and a section is continued at a border of pages
  (`SpiProgress`). `Regions` and `RegionsApart` are the arithmetic: the aligned regions of the five
  sections do not overlap for any lengths, and bytes on two sides of a border are in different pages.
- `SbrkBehindSectionsTheorem`: `buildMemory` moves the heap pointer up only.

With `LayoutSoundTheorem` and `SpiHeapClearTheorem`, the layouts of SPI programs are among those
`PageMemory` assumes, and `GrantedWritableTheorem` and `MappedPagesStayTheorem` hold of every one of them.

`InterpreterProofs` proves for all raw programs and all bounds:

- `InvariantTheorem`: types; while the loop runs the status is OK and no program counter is
  pending; a host call has always left one.
- `RefinementTheorem`: `Spec => ImplementsMachine`. The mapping shows `nextPc` as the program counter
  when one is pending and hides the exit code of a panic. `Begin`, `TakeNextPc` and `Refuse` are
  stutters; `Resume` is `AResume`; setting a program counter is `ARedirect`. `Running` is what makes
  `Resume` land where the abstract machine already is.
- `GasPrepaidTheorem`: from `GasInv`, which adds to `IInv` that nothing is prepaid in a block that was not
  entered at its start. Behind a terminating instruction nothing remains, so that a jump may go to any
  start; a host call is resumed with what remains behind it; a program counter that was set resets both
  sides.

The only thing assumed of a program is that it is one (`IsRaw`: bytes, a mask of the same length and a jump table,
no longer than a u32 counts). What the proofs use of its tables, `IsProgram` and `IsCharged`, is `DeblobTheorem`.

`ReplayProofs` proves for every set of programs and any number of handles:

- `HandlesTheorem`: `Spec => ImplementsHandles`. The invariant is `TableInv`: a handle is at most `nextPvmId` and
  refers to a program that was prepared, and a program of which one machine was made has no second one. It is why
  a step with one handle leaves the machines of all others alone, although registers and memory are kept per
  program. `ApiAssumption`: the gas a user asks with is not negative.

and of the commands in `bin/` on top of that table:

- `ClientTheorem`: `ClientSpec => ImplementsHandles`. `ClientInv` adds to `TableInv` where the client is, that
  it holds a handle that lives from `start` until `finally`, that its gas is a number and that what is left of the trace is typed.
- `VerifiedTheorem`: a replay that verifies succeeds exactly if its trace is a recording. `ReplayInv`: the loop
  has passed the first `k` entries of the trace, its machine is in the state in which `Recording` is after as many
  host calls (`Starts`, `Resumes`, `Pauses`), and the accesses it has still to make are those of the entry that remain.
  An entry the loop refuses is not what would have been recorded there (`UnlikeRecording`), what is recorded
  once stays a prefix (`Later`), and one that is accepted is what is recorded (`LikeRecording`, `StoppedIsRecording`).
  `IsTrace`, in `ClientInv`, is what the patterns of `trace-parse.ts` make of any text.

`ProgramProofs` proves of code of any length, any mask and any widths:

- `DeblobTheorem`: the tables `Deblob` makes are those the interpreter relies on. `IsProgram`: skips stay in the code,
  entries have their types, a decoded jump is a number. `IsCharged`: an instruction pays for itself, or with gas per
  block for its block if it starts one and else for nothing, and behind a terminating instruction a block starts.
  `BlockCostsAre` says what the second loop of `GasCosts` leaves in the table. Its walk visits each instruction once and
  in order (`BlockWalkIs`), and `Paid` is the invariant along it: blocks that are finished are charged with the sum of
  their instructions, the block that is open has in the accumulator what it owes so far. `RestIsOwed` compares that sum
  with `RestOfBlock`, which follows the skips as the machine does; not from every position, since a skip that is
  capped may lead between two instructions, but from those no instruction before reaches beyond (`Apart`), and
  instructions and their skips lead to no other (`MarkedApart`, `Between`). `RestIsBounded` is why nothing is lost in the
  shift when the code is shorter than `U24`.

`ComputationProofs` proves, for inputs of any length and bytes of any width:

- `SkipExactTheorem`: `OffsetLeads` says that the offset of a position leads to the next one marked.
- `BlockGasExactTheorem`: from `BlockCostsAre`. `MapThenSumSet` takes its summands in an order of its own, which is
  why sums are needed that take any (`SumTakesAny`).
- `JumpItemExactTheorem`: digit by digit, from the most significant one: no sum overflows as long as the digits fit
  a u64, and the check sees no overflow where there is none. `TablesAssumption` has bytes and words with a number of
  bits, as they are.
- `NumberExactTheorem`: the first byte's leading ones are the number of bytes that follow (`Masks`, `NumberOfBytes`), no
  shorter encoding has room (`Longest`), and reading the bytes of a number gives the number (`BytesFacts`, `Decoded`).
- `ArgumentsExactTheorem`: an argument decoder reads the bytes that its instruction requires, those before the
  next one, and all of the first of two numbers (`DecoderSame`), and nothing else; where these are missing the
  buffer and the extension both have zeros. That a number on its own is the signed one of its bytes
  (`DecodedSigned`) is the sum of `Little`, most significant byte first, against the fold from the least one
  (`NumberIsLittle`), and the sign by the highest byte (`LittleRange`).
- `WrappedApartTheorem`: `Gaps`: in a mask made by `BuildMask` the start that follows a start is the one the
  skip leads to, by induction along the code (`MaskIs`). The skip covers what is required and all of a first number
  (`SkipFacts`), hence the bytes that `DecoderSame` names.
- `SectionsExactTheorem`: the first byte alone says how long a number is (`FirstByte`), so a number that is cut is
  either noticed or leaves the reader behind the end (`VarU32At`), where no later section is granted (`TakeAt`): that
  is why the wrong comparison in `codec.ts:107` does no harm. Of a whole blob each reader finds its part
  (`BlobParts`, `SectionsAre`), and the mask that is packed is found again bit by bit (`PackedByte`, `Packed`).

and for words of any width:

- `ProductsExactTheorem`: the columns of the schoolbook product carry exactly once; the signed products differ by
  a multiple of `Top`, whose sign `Negated` carries from the lower half to the upper.
- `DivisionExactTheorem`: quotient and remainder by sign and by the two special cases, in words and in halves.
- `ImmediatesAsLoadedTheorem`: a loaded immediate is the signed word modulo `Top`; sums, products and comparisons do not
  tell it from the immediate (`SameWord`), amounts of shifts are the same modulo the number of bits (`AmountIs`),
  and the borrow that `neg_add_imm_32` puts on top of its operand falls off (`OrLow`). Amounts need that a byte
  has a power of two of bits, as 8 is: otherwise the bits of a register do not divide `Top`, and reducing a
  negative amount as a u32 would give another one. `ComputationAssumption` says so.
- `BuildsAgreeTheorem`: most instructions are the same formula in both builds (`RegShared`, `ExtendedShared`); where a
  conversion differs it is done again when the result is stored (`SignExtendShared`); an immediate with a sign is
  another number of the same word (`ArgShared`), which products and differences of words do not see, and amounts are
  the same modulo the bits (`AmountShared`). That every result fits (`RegFits`, `BitCountFits`, `ImmFits`) needs what a
  sum of bits is bounded by.
- `BitsExactTheorem`: a number is determined by its bits (`SameBits`), and each operator is described by the bits of
  its result: `ShlBit`, `ShrBit`, `LowBit`, `HighBit`, `OrBits`, `SignedBit`, `RotateBits`, `ExtendedBit`, `SwapBits`.
  Leading and trailing zeros count positions beyond the highest and below the lowest bit that is set (`CountsAre`,
  `WholeCountsAre`).

These reason about functions that are defined by recursion or by the folds of the community modules.
`RecursionExists`, `SumsExist` and `FoldExists` in `NumberProofs` show that a function with such an equation exists, for
sets of values given beforehand, hence that what is defined by it satisfies it; induction is by the least element of a
set of counterexamples (`LeastElement`), which needs no theorem with an operator for a parameter. A power of two is
a number of subsets, which is how its laws are proved.

Model-checked only:
- liveness (`ExecutedStops`, `ClientEnds`): beyond TLAPS, as is `ENABLED`;
- `RecordingsReplay`: that the recordings listed in `MCTraceReplay` replay and say what they were recorded of; it is
  stated of that list, and `VerifiedTheorem` says the rest of any trace.

## 5. Plan

Done, most important first: paged memory and its proofs; program tables and skips; the interpreter with its
refinement and its gas; host access and its proofs; the refinement of the memory; layouts and their proofs; arguments, codec and
arithmetic; the table of handles, its clients, and the proofs of both.

Next, to model: the loop of `index-compiler.ts`, whose host answers between calls; the debugger's
resets, with what each forgets; the byte format of the SPI blob.

## 6. Not modelled, and why

Options, files, JSON, printing to the console, the benchmarks, the fuzzing harness (which compares with
another implementation) and the web page are input and output without state of their own. Of the portable
shims, containers matter in two places (the order of map values, the missing length of a map iterator), and
`PageMemory` allows both. The binding of opcodes to functions is a table; repeating it would say
nothing. What `pvmGetPagePointer` gives away is an address of the WASM memory, whose use is outside of this
code. Undefined behaviour of the release build (array accesses out of bounds) is a choice of `beyond` where
the code can reach it, and block costs of empty code are left out where `Programs` and `BlockGasExact` say so.
