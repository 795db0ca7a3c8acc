---------------------------- MODULE HostMemory ----------------------------
(***************************************************************************)
(* The memory of a machine as its host reads and writes it while the       *)
(* machine does not run: pvmReadMemory and pvmWriteMemory (api-utils.ts),  *)
(* getMemory and setMemory (api-debugger.ts), host_read_memory and         *)
(* host_write_memory (index-compiler.ts).  Between two such calls the      *)
(* program goes on: it loads, stores and grows its heap.                   *)
(*                                                                         *)
(* A call that touches the memory more than once is in progress between    *)
(* its accesses, each of which may fault.                                  *)
(***************************************************************************)
EXTENDS PageMemory

ASSUME HostAssumption == 1 \in Sizes  \* setMemory writes with setU8

VARIABLES
  call,  \* the write in progress: [op, addr, len, byte, done]
  last   \* the access the step completed: [op, addr, bytes, len, ok]

hostVars == <<vars, call, last>>

Ranges == 1 .. MaxRange
NoCall == [op |-> "none", addr |-> 0, len |-> 0, byte |-> 0, done |-> 0]
NoAnswer == [op |-> "none", addr |-> 0, len |-> 0, bytes |-> <<>>, ok |-> FALSE]
Copies(b, len) == [i \in 1 .. len |-> b]
Started(op, a, len, b) == [op |-> op, addr |-> a, len |-> len, byte |-> b, done |-> 0]
ReadAnswer(op, a, len, ok) == [op |-> op, addr |-> a, len |-> len, bytes |-> <<>>, ok |-> ok]
WriteAnswer(op, a, v, ok) == [op |-> op, addr |-> a, len |-> Len(v), bytes |-> v, ok |-> ok]

HostInit == Init /\ call = NoCall /\ last = NoAnswer

Idle == call = NoCall

\* Mutant of ReadMemory: the first pass of getMemory decides, which looks at
\* one page for every PAGE_SIZE bytes of the length.
ReadMemoryTrusting(a, len) ==
  LET pagesToCheck == (len + PAGE_SIZE - 1) \div PAGE_SIZE
      faulty == \E k \in 0 .. pagesToCheck - 1 : FaultOf(cache, RangePage(a, k), "Read").isFault
  IN /\ Idle /\ BytesRead(a, len)
     /\ last' = ReadAnswer("read", a, len, ~faulty)
     /\ UNCHANGED call

\* pvmReadMemory, getMemory and host_read_memory: no bytes at all unless all
\* of them could be read.
ReadMemory(a, len) ==
  /\ Idle /\ BytesRead(a, len)
  /\ last' = ReadAnswer("read", a, len, ~faultRes'.isFault)
  /\ UNCHANGED call

\* host_write_memory.
HostWriteMemory(a, len, b) ==
  /\ Idle /\ BytesWrite(a, len, b)
  /\ last' = WriteAnswer("hostWrite", a, Copies(b, len), ~faultRes'.isFault)
  /\ UNCHANGED call

\* Mutant of PvmWriteMemory: what the preflight finds is forgotten.
PvmWriteMemoryBlind(a, len, b) ==
  /\ Idle /\ BytesRead(a, len)
  /\ last' = NoAnswer /\ call' = Started("pvmWrite", a, len, b)

\* pvmWriteMemory first reads the whole range,
PvmWriteMemory(a, len, b) ==
  /\ Idle /\ BytesRead(a, len)
  /\ IF faultRes'.isFault
     THEN last' = WriteAnswer("pvmWrite", a, Copies(b, len), FALSE) /\ UNCHANGED call
     ELSE last' = NoAnswer /\ call' = Started("pvmWrite", a, len, b)

\* Mutant of PvmWriteData: the fault of the write itself is not looked at.
PvmWriteDataUnchecked ==
  /\ call.op = "pvmWrite" /\ BytesWrite(call.addr, call.len, call.byte)
  /\ last' = WriteAnswer("pvmWrite", call.addr, Copies(call.byte, call.len), TRUE)
  /\ call' = NoCall

\* and then writes it.
PvmWriteData ==
  /\ call.op = "pvmWrite" /\ BytesWrite(call.addr, call.len, call.byte)
  /\ last' = WriteAnswer("pvmWrite", call.addr, Copies(call.byte, call.len), ~faultRes'.isFault)
  /\ call' = NoCall

\* setMemory counts i from address to end, which is a u32 like them.
SetMemory(a, len, b) ==
  /\ Idle
  /\ call' = Started("setMemory", a, len, b) /\ last' = NoAnswer
  /\ UNCHANGED vars

SetEnd == (call.addr + call.len) % MEMORY_SIZE
SetAt == call.addr + call.done
SetAnswer(ok) == WriteAnswer("setMemory", call.addr, Copies(call.byte, call.len), ok)

\* Mutant of SetByte: a byte that faults is left out.
SetByteLenient ==
  /\ call.op = "setMemory" /\ SetAt < SetEnd
  /\ Store(SetAt, <<call.byte>>)
  /\ last' = NoAnswer /\ call' = [call EXCEPT !.done = @ + 1]

SetByte ==
  /\ call.op = "setMemory" /\ SetAt < SetEnd
  /\ Store(SetAt, <<call.byte>>)
  /\ IF faultRes'.isFault
     THEN last' = SetAnswer(FALSE) /\ call' = NoCall
     ELSE last' = NoAnswer /\ call' = [call EXCEPT !.done = @ + 1]

SetMemoryDone ==
  /\ call.op = "setMemory" /\ SetAt >= SetEnd
  /\ last' = SetAnswer(TRUE) /\ call' = NoCall
  /\ UNCHANGED vars

\* Between two calls of its host the program runs: it loads, stores and grows
\* its heap.
ProgramLoads(a, n) ==
  /\ Idle /\ Load(a, n)
  /\ last' = ReadAnswer("load", a, n, ~faultRes'.isFault)
  /\ UNCHANGED call

ProgramStores(a, v) ==
  /\ Idle /\ Store(a, v)
  /\ last' = WriteAnswer("store", a, v, ~faultRes'.isFault)
  /\ UNCHANGED call

ProgramGrows(amount) == Idle /\ Sbrk(amount) /\ last' = NoAnswer /\ UNCHANGED call

HostNext ==
  \/ \E a \in Addr, len \in Ranges : ReadMemory(a, len)
  \/ \E a \in Addr, len \in Ranges, b \in Byte :
       HostWriteMemory(a, len, b) \/ PvmWriteMemory(a, len, b) \/ SetMemory(a, len, b)
  \/ PvmWriteData \/ SetByte \/ SetMemoryDone
  \/ \E a \in Addr, n \in Sizes : ProgramLoads(a, n)
  \/ \E n \in Sizes : \E a \in Addr, v \in Values(n) : ProgramStores(a, v)
  \/ \E amount \in Addr : ProgramGrows(amount)

HostSpec == HostInit /\ [][HostNext]_hostVars

-----------------------------------------------------------------------------
(* Properties.                                                             *)

Accessible(access, x) == Has(PageOf(x)) /\ Can(pages[PageOf(x)], access)
InRange(r, k, x) == \E i \in 0 .. k - 1 : Wrap(r.addr, i) = x

\* The number of bytes of the range r before the first page that may not be
\* accessed.
Reach(access, r) ==
  CHOOSE k \in 0 .. r.len :
    /\ \A i \in 0 .. k - 1 : Accessible(access, Wrap(r.addr, i))
    /\ k < r.len => ~Accessible(access, Wrap(r.addr, k))

\* The step puts the first k bytes of the write r into the memory and leaves
\* every other mapped byte alone.
Puts(r, k) ==
  \A x \in Addr : Has(PageOf(x)) =>
    ByteAt(x)' = IF InRange(r, k, x)
                 THEN r.bytes[CHOOSE i \in 1 .. k : Wrap(r.addr, i - 1) = x]
                 ELSE ByteAt(x)

Gets(r) == value' = [i \in 1 .. r.len |-> ByteAt(Wrap(r.addr, i - 1))]

\* No bytes of an earlier access are left in the scratch for a one-page access
\* to pick up: true until the first two-page access.
NoResidue(r) == chunks.end = 0 \/ Rel(r.addr) + r.len > PAGE_SIZE

\* The fault of the first byte that may not be accessed.
FaultDecided(access, r) ==
  LET p == PageOf(Wrap(r.addr, Reach(access, r)))
  IN IF Reach(access, r) = r.len THEN NoFault
     ELSE IF Has(p) THEN AccessFault(p) ELSE PageFault(p)

\* The types, and that a write past its preflight is of a readable range.
HostTypeOK ==
  /\ TypeOK
  /\ call \in [op : {"none", "pvmWrite", "setMemory"}, addr : Addr, len : 0 .. MaxRange,
               byte : Byte, done : 0 .. MaxRange]
  /\ last \in [op : {"none", "load", "store", "read", "hostWrite", "pvmWrite", "setMemory"},
               addr : Addr, len : Nat, bytes : Seq(Byte), ok : BOOLEAN]
  /\ call.op = "pvmWrite" => Reach("Read", call) = call.len

\* An access faults exactly when one of its bytes, in whichever of its pages
\* and across the top of the address space, is not accessible, and names the
\* page of the first such byte (memory.ts:345-403,445-502).
FaultsExact ==
  [][/\ last'.op \in {"load", "read"} => faultRes' = FaultDecided("Read", last')
     /\ last'.op \in {"store", "hostWrite"} => faultRes' = FaultDecided("Write", last')]_hostVars

\* Without a residue, a load returns the bytes of its addresses in order, from
\* one page or two (memory.ts:526-547).
LoadExact == [][last'.op = "load" /\ last'.ok /\ NoResidue(last') => Gets(last')]_hostVars

\* Without a residue, a store changes the bytes of its addresses and no other
\* byte of any mapped page (memory.ts:505-524).
StoreExact ==
  [][last'.op = "store" /\ last'.ok /\ NoResidue(last') => Puts(last', last'.len)]_hostVars

\* The host gets bytes exactly if it may read every one of them, and then the
\* bytes of that range, wherever in a page it begins: getMemory's first pass
\* does not look at the last page of every range (memory.ts:319-342).
HostReadExact ==
  [][last'.op = "read" =>
       /\ last'.ok <=> Reach("Read", last') = last'.len
       /\ last'.ok => Gets(last')]_hostVars

\* A write answers true exactly if the whole range is writable.  What it has
\* written then is the range; what it has written otherwise is the range up
\* to the first page that is not writable, or nothing at all if pvmWriteMemory
\* found a page that is not readable (api-utils.ts:220-241,
\* index-compiler.ts:259-278).
HostWriteExact ==
  [][last'.op \in {"hostWrite", "pvmWrite"} =>
       /\ last'.ok <=> Reach("Write", last') = last'.len
       /\ Puts(last', IF last'.op = "pvmWrite" /\ Reach("Read", last') < last'.len
                      THEN 0 ELSE Reach("Write", last'))]_hostVars

\* As long as the range does not reach the top of the address space, and no
\* access of the program has left a residue, setMemory answers true exactly if
\* the range is writable, has then written it, and otherwise the bytes before
\* the one that faulted; no byte beside them changes at any of its steps
\* (api-debugger.ts:245-259).
SetMemoryExact ==
  [][/\ last'.op = "setMemory" /\ last'.addr + last'.len < MEMORY_SIZE /\ chunks.end = 0 =>
          LET k == Reach("Write", last')
          IN /\ last'.ok <=> k = last'.len
             /\ \A x \in Addr : InRange(last', k, x) => ByteAt(x)' = call.byte
     /\ call.op = "setMemory" /\ chunks.end = 0 =>
          \A x \in Addr : Has(PageOf(x)) /\ ~InRange(call, Reach("Write", call), x) =>
            ByteAt(x)' = ByteAt(x)]_hostVars

\* A write that answers false has not written anything: "Preflight: verify the
\* entire target range is accessible before writing" (api-utils.ts:225).
WriteAllOrNothing ==
  [][last'.op = "pvmWrite" /\ ~last'.ok => data' = data]_hostVars
=============================================================================
