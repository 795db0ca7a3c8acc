---------------------------- MODULE TraceReplay ----------------------------
(***************************************************************************)
(* The clients of the table of machines in bin/: the replay of a recorded  *)
(* trace (trace-parse.ts, trace-replay.ts) and the run command (index.ts). *)
(*                                                                         *)
(* A trace is a sequence of lines.  parseTrace sorts them into what was    *)
(* there at the start, one entry per host call with the answers of the     *)
(* host, and the termination.  The replay runs the program again, gives it *)
(* those answers and, if asked to verify, compares what it sees.           *)
(***************************************************************************)
EXTENDS PvmApi, SequencesExt

CONSTANTS
  ARGS_SEGMENT_START, MAX_ARG_LEN,
  EXIT,                             \* what decodeSpi puts in register 0
  LOG_HOST_CALL_INDEX, LOG_GAS_COST, WHAT

ASSUME ReplayAssumption == LOG_GAS_COST \in Nat

VARIABLES
  client,  \* what the client is doing: see NoClient
  lines,   \* the trace to replay
  verify

vars == <<apiVars, client, lines, verify>>
untouched == <<lines, verify>>

-----------------------------------------------------------------------------
(* Lines, whatever numbers are on them.  A register dump leaves out the    *)
(* registers that are 0.                                                   *)

LineFields ==
  [program |-> {"is", "blob"}, start |-> {"is", "pc", "gas", "regs"},
   ecalli |-> {"is", "index", "pc", "gas", "regs"},
   memread |-> {"is", "addr", "bytes"}, memwrite |-> {"is", "addr", "bytes"},
   setreg |-> {"is", "reg", "value"}, setgas |-> {"is", "gas"},
   termination |-> {"is", "type", "pc", "gas", "regs", "code"}]

IsDump(dump) == DOMAIN dump \subseteq Reg /\ dump \in [DOMAIN dump -> Nat \ {0}]

IsLine(line) ==
  /\ line.is \in DOMAIN LineFields /\ line = [f \in LineFields[line.is] |-> line[f]]
  /\ "gas" \in DOMAIN line => line.gas \in Nat
  /\ "regs" \in DOMAIN line => IsDump(line.regs)
  /\ "bytes" \in DOMAIN line => line.bytes \in Seq(Nat)

IsTrace(ls) == ls \in Seq(Range(ls)) /\ \A i \in DOMAIN ls : IsLine(ls[i])

-----------------------------------------------------------------------------
(* parseTrace.                                                             *)

THROWN == [thrown |-> TRUE]
NoEntry == 0
NOTHING == [blob |-> NULL, initial |-> <<>>, start |-> NULL, entries |-> <<>>,
            termination |-> NULL, current |-> NoEntry]

Entry(line) ==
  [index |-> line.index, pc |-> line.pc, gas |-> line.gas, regs |-> line.regs,
   reads |-> <<>>, writes |-> <<>>, setRegs |-> <<>>, setGas |-> <<>>]

\* Lines of a host call belong to the last ecalli line that no termination
\* has closed.
ToEntry(t, field, item) ==
  IF t.current = NoEntry THEN THROWN
  ELSE [t EXCEPT !.entries[t.current][field] = Append(@, item)]

Chunk(line) == [addr |-> line.addr, bytes |-> line.bytes]

\* A chunk of no bytes prints as a bare 0x, which the patterns do not match.
Malformed(line) ==
  \/ line.is \in {"memwrite", "memread"} /\ line.bytes = <<>>
  \/ line.is = "setreg" /\ line.reg \notin Reg

ParseLine(t, line) ==
  IF t = THROWN \/ Malformed(line) THEN THROWN
  ELSE CASE line.is = "program" -> [t EXCEPT !.blob = line.blob]
         [] line.is = "start" -> [t EXCEPT !.start = line]
         [] line.is = "ecalli" -> [t EXCEPT !.entries = Append(@, Entry(line)),
                                            !.current = Len(t.entries) + 1]
         [] line.is = "memwrite" -> IF t.current = NoEntry
                                    THEN [t EXCEPT !.initial = Append(@, Chunk(line))]
                                    ELSE ToEntry(t, "writes", Chunk(line))
         [] line.is = "memread" -> ToEntry(t, "reads", Chunk(line))
         [] line.is = "setreg" -> ToEntry(t, "setRegs", [reg |-> line.reg, value |-> line.value])
         [] line.is = "setgas" -> IF t.current = NoEntry THEN THROWN
                                  ELSE [t EXCEPT !.entries[t.current].setGas = <<line.gas>>]
         [] line.is = "termination" -> [t EXCEPT !.termination = line, !.current = NoEntry]
         [] OTHER -> t

ParseTrace(ls) ==
  LET Only(S) == CHOOSE t \in S : TRUE
      parsed[n \in 0 .. Len(ls)] ==
        IF n = 0 THEN NOTHING ELSE Only({ParseLine(t, ls[n]) : t \in {parsed[n - 1]}})
      Complete(t) == t # THROWN /\ NULL \notin {t.blob, t.start, t.termination}
  IN Only({IF Complete(t) THEN t ELSE THROWN : t \in {parsed[Len(ls)]}})

-----------------------------------------------------------------------------
(* prepareProgram, from a trace.                                           *)

Dump(regs) == Restrict(regs, {r \in Reg : regs[r] # 0})
Dumped(dump, r) == IF r \in DOMAIN dump THEN dump[r] ELSE 0
EncodeRegistersFromDump(dump) == [r \in Reg |-> Dumped(dump, r)]

\* The trace does not say what kind of program it is of.
IsSpiTrace(t) ==
  \/ Dumped(t.start.regs, PTR) = ARGS_SEGMENT_START
  \/ \E i \in DOMAIN t.initial : t.initial[i].addr = ARGS_SEGMENT_START

\* Mutant of ExtractSpiArgs: only a write to the start of the segment counts.
ExtractSpiArgsFirst(t) ==
  LET w == SelectSeq(t.initial, LAMBDA x : x.addr = ARGS_SEGMENT_START)
  IN IF w = <<>> THEN <<>> ELSE w[1].bytes

\* As many bytes as register 8 says, from the writes to the segment, later
\* ones over earlier ones.
ExtractSpiArgs(t) ==
  LET len == Dumped(t.start.regs, LEN)
      Covers(w, i) == w.addr >= ARGS_SEGMENT_START /\ i - (w.addr - ARGS_SEGMENT_START) \in DOMAIN w.bytes
      byte(i) == FoldLeft(LAMBDA b, w : IF Covers(w, i) THEN w.bytes[i - (w.addr - ARGS_SEGMENT_START)] ELSE b,
                          0, t.initial)
  IN IF len > MAX_ARG_LEN THEN <<>> ELSE [i \in 1 .. len |-> byte(i)]

\* decodeSpi: the sections of the blob, and the arguments, which are read-only.
SpiRegisters(args) ==
  [r \in Reg |-> CASE r = 0 -> EXIT [] r = PTR -> ARGS_SEGMENT_START [] r = LEN -> Len(args) [] OTHER -> 0]
SpiMemory(blob, args) ==
  [a \in Addr |-> LET i == a - ARGS_SEGMENT_START + 1
                  IN IF i \in DOMAIN args THEN [access |-> "Read", byte |-> args[i]] ELSE blob.sections[a]]

\* buildInitialPages and buildInitialChunks: what was written is writable, and
\* nothing else is there.  Building a reserved page throws.
GenericMemory(t) ==
  FoldLeft(LAMBDA mem, w : [a \in Addr |-> IF a - w.addr + 1 \in DOMAIN w.bytes
                              THEN [access |-> "Write", byte |-> w.bytes[a - w.addr + 1]] ELSE mem[a]],
           Unmapped, t.initial)
Unbuildable(t) ==
  ~IsSpiTrace(t) /\ \E i \in DOMAIN t.initial : t.initial[i].addr < RESERVED_MEMORY

ProgramOf(t) ==
  IF IsSpiTrace(t)
  THEN LET args == ExtractSpiArgs(t)
       IN [code |-> t.blob.code, regs |-> SpiRegisters(args), mem |-> SpiMemory(t.blob, args)]
  ELSE [code |-> t.blob.code, regs |-> EncodeRegistersFromDump(t.start.regs), mem |-> GenericMemory(t)]

-----------------------------------------------------------------------------
(* replayTraceFile.                                                        *)

\* phase is where the loop is; entries are those still to come and entry the
\* host call at hand, with its reads and writes still to be done.
NoClient ==
  [phase |-> "idle", id |-> NoId, entries |-> <<>>, entry |-> NULL, pause |-> NULL,
   gas |-> 0, pc |-> 0, termination |-> NULL, success |-> FALSE]

In(phase) == client.phase = phase
Goes(phase) == client' = [client EXCEPT !.phase = phase]
Fails == Goes("finally")

StatusToTermination(status) == IF status \in {"HALT", "OOG"} THEN status ELSE "PANIC"

\* Parsing and preparation come before the machine is started: what throws in
\* them leaves none behind.
ReplayOpen ==
  /\ In("open")
  /\ \E t \in {ParseTrace(lines)} :
       IF t = THROWN THEN Goes("done") /\ UNCHANGED apiVars
       ELSE IF Unbuildable(t) THEN Goes("done") /\ UNCHANGED apiVars
       ELSE /\ \E p \in {ProgramOf(t)} : PrepareProgram(p.code, p.regs, p.mem)
            /\ client' = [client EXCEPT !.phase = "start", !.entries = t.entries,
                                        !.gas = t.start.gas, !.pc = t.start.pc,
                                        !.termination = t.termination]
  /\ UNCHANGED untouched

ReplayStart ==
  /\ In("start") /\ PvmStart(Len(programs))
  /\ client' = [client EXCEPT !.phase = "resume", !.id = nextPvmId']
  /\ UNCHANGED untouched

\* Mutant of AsRecorded: the gas is not compared.
AsRecordedButGas(pause, entry) ==
  /\ pause.exitCode = entry.index /\ pause.pc = entry.pc
  /\ \A r \in Reg : pause.regs[r] = Dumped(entry.regs, r)

AsRecorded(pause, entry) ==
  /\ pause.exitCode = entry.index /\ pause.pc = entry.pc /\ pause.gas = entry.gas
  /\ \A r \in Reg : pause.regs[r] = Dumped(entry.regs, r)

\* The registers and the code of the termination are parsed and not compared.
TerminatedAsRecorded(pause) ==
  /\ client.entries = <<>>
  /\ StatusToTermination(pause.status) = client.termination.type
  /\ pause.pc = client.termination.pc /\ pause.gas = client.termination.gas

ReplayResume ==
  /\ In("resume") /\ PvmResume(client.id, client.gas, client.pc)
  /\ CASE reply'.kind = "null" -> Fails
       [] reply'.kind # "null" /\ reply'.status = "HOST" ->
            IF client.entries = <<>> \/ (verify /\ ~AsRecorded(reply', Head(client.entries)))
            THEN Fails
            ELSE client' = [client EXCEPT !.phase = "reads", !.pause = reply',
                                          !.entry = Head(client.entries), !.entries = Tail(@)]
       [] OTHER -> client' = [client EXCEPT !.phase = "finally",
                                            !.success = verify => TerminatedAsRecorded(reply')]
  /\ UNCHANGED untouched

\* Reads are only looked at when verifying, which the guard of the next phase
\* leaves to this one.
ReplayRead ==
  /\ In("reads") /\ verify /\ client.entry.reads # <<>>
  /\ LET read == Head(client.entry.reads)
     IN /\ PvmReadMemory(client.id, read.addr, Len(read.bytes))
        /\ IF reply' = NULL \/ reply'.bytes # read.bytes THEN Fails
           ELSE client' = [client EXCEPT !.entry.reads = Tail(@)]
  /\ UNCHANGED untouched

ReplayWrite ==
  /\ In("reads") /\ (verify => client.entry.reads = <<>>) /\ client.entry.writes # <<>>
  /\ LET write == Head(client.entry.writes)
     IN /\ PvmWriteMemory(client.id, write.addr, write.bytes)
        /\ IF ~reply'.ok THEN Fails
           ELSE client' = [client EXCEPT !.entry.writes = Tail(@)]
  /\ UNCHANGED untouched

Set(regs, w) == [regs EXCEPT ![w.reg] = w.value]

\* Registers are those of the pause with the recorded changes, all of which
\* are written back.
ReplayAnswer ==
  /\ In("reads") /\ (verify => client.entry.reads = <<>>) /\ client.entry.writes = <<>>
  /\ LET regs == FoldLeft(Set, client.pause.regs, client.entry.setRegs)
     IN PvmSetRegisters(client.id, [i \in 1 .. NO_OF_REGISTERS |-> regs[i - 1]])
  /\ client' = [client EXCEPT !.phase = "resume", !.pc = client.pause.nextPc,
                              !.gas = IF client.entry.setGas # <<>> THEN client.entry.setGas[1]
                                      ELSE client.pause.gas]
  /\ UNCHANGED untouched

\* Whether it succeeded or threw.
ReplayFinally == In("finally") /\ PvmDestroy(client.id) /\ Goes("done") /\ UNCHANGED untouched

-----------------------------------------------------------------------------
(* The run command: it answers the log host call and none else.            *)

RunPrepare(p, gas, pc) ==
  /\ In("prepare") /\ PrepareProgram(p.code, p.regs, p.mem)
  /\ client' = [client EXCEPT !.phase = "launch", !.gas = gas, !.pc = pc]
  /\ UNCHANGED untouched

RunStart ==
  /\ In("launch") /\ PvmStart(Len(programs))
  /\ client' = [client EXCEPT !.phase = "run", !.id = nextPvmId']
  /\ UNCHANGED untouched

\* Any other pause, a termination included, ends the run.
RunResume ==
  /\ In("run") /\ PvmResume(client.id, client.gas, client.pc)
  /\ IF reply'.status = "HOST" /\ reply'.exitCode = LOG_HOST_CALL_INDEX
     THEN client' = [client EXCEPT !.phase = "log", !.pause = reply']
     ELSE Fails
  /\ UNCHANGED untouched

LogGas == IF client.pause.gas >= LOG_GAS_COST THEN client.pause.gas - LOG_GAS_COST ELSE 0

\* Mutant of RunLog: every pause is resumed with the gas of the command.
RunLogRefuelled ==
  /\ In("log")
  /\ LET regs == [client.pause.regs EXCEPT ![PTR] = WHAT]
     IN PvmSetRegisters(client.id, [i \in 1 .. NO_OF_REGISTERS |-> regs[i - 1]])
  /\ client' = [client EXCEPT !.phase = "run", !.pc = client.pause.nextPc]
  /\ UNCHANGED untouched

RunLog ==
  /\ In("log")
  /\ LET regs == [client.pause.regs EXCEPT ![PTR] = WHAT]
     IN PvmSetRegisters(client.id, [i \in 1 .. NO_OF_REGISTERS |-> regs[i - 1]])
  /\ client' = [client EXCEPT !.phase = "run", !.pc = client.pause.nextPc, !.gas = LogGas]
  /\ UNCHANGED untouched

ClientNext ==
  \/ ReplayOpen \/ ReplayStart \/ ReplayResume \/ ReplayRead \/ ReplayWrite \/ ReplayAnswer
  \/ ReplayFinally
  \/ \E p \in StandardPrograms, gas \in GasValues, pc \in PcValues : RunPrepare(p, gas, pc)
  \/ RunStart \/ RunResume \/ RunLog

\* Anybody else uses the table directly.
UserNext == In("idle") /\ Next /\ UNCHANGED <<client, lines, verify>>

Doing(phase) == client = [NoClient EXCEPT !.phase = phase]

ClientInit ==
  /\ Init /\ IsTrace(lines)
  /\ \/ Doing("open") /\ verify \in BOOLEAN
     \/ (Doing("prepare") \/ Doing("idle")) /\ verify = FALSE

ClientSpec == ClientInit /\ [][ClientNext \/ UserNext]_vars /\ WF_vars(ClientNext)

-----------------------------------------------------------------------------
(* What a trace means.                                                     *)

\* ConsoleTracer: the lines of a trace.
ChunkLine(is, c) == [is |-> is, addr |-> c.addr, bytes |-> c.bytes]
EntryLines(e) ==
  <<[is |-> "ecalli", index |-> e.index, pc |-> e.pc, gas |-> e.gas, regs |-> e.regs]>>
  \o [i \in DOMAIN e.reads |-> ChunkLine("memread", e.reads[i])]
  \o [i \in DOMAIN e.writes |-> ChunkLine("memwrite", e.writes[i])]
  \o [i \in DOMAIN e.setRegs |-> [is |-> "setreg", reg |-> e.setRegs[i].reg, value |-> e.setRegs[i].value]]
  \o [i \in DOMAIN e.setGas |-> [is |-> "setgas", gas |-> e.setGas[i]]]
Printed(t) ==
  <<[is |-> "program", blob |-> t.blob]>>
  \o [i \in DOMAIN t.initial |-> ChunkLine("memwrite", t.initial[i])]
  \o <<t.start>> \o FlattenSeq([i \in DOMAIN t.entries |-> EntryLines(t.entries[i])])
  \o <<t.termination>>

\* A machine that is paused at a host call, and the host's answer to it.
Seen(m, a) ==
  [index |-> m.exitCode, pc |-> m.pc, gas |-> m.gas, regs |-> Dump(m.regs),
   reads |-> [i \in DOMAIN a.reads |->
               [addr |-> a.reads[i].addr,
                bytes |-> LET r == BytesAt(m, a.reads[i].addr, Len(a.reads[i].bytes))
                          IN IF r = NULL THEN <<>> ELSE r.bytes]],
   writes |-> a.writes, setRegs |-> a.setRegs, setGas |-> a.setGas]
Wrote(m, a) == FoldLeft(LAMBDA n, w : WithBytes(n, w.addr, w.bytes), m, a.writes)
Answered(m, a) ==
  Resumed([Wrote(m, a) EXCEPT !.regs = FoldLeft(Set, m.regs, a.setRegs)],
          IF a.setGas # <<>> THEN a.setGas[1] ELSE m.gas, m.nextPc)
Granted(m, a) ==
  \A i \in DOMAIN a.writes :
    Written(Wrote(m, [a EXCEPT !.writes = SubSeq(@, 1, i - 1)]), a.writes[i].addr, a.writes[i].bytes).ok

\* What there is to record of program p that is started with these answers of
\* its host: the entries, whether each was possible, and how it stopped.
Recording(p, start, answers) ==
  LET run[n \in 0 .. Len(answers)] ==
        IF n = 0 THEN [m |-> Resumed(Fresh(p.code, p.regs, p.mem), start.gas, start.pc),
                       entries |-> <<>>, possible |-> TRUE]
        ELSE LET r == run[n - 1] a == answers[n]
             IN IF r.m.status # "HOST" THEN r
                ELSE [m |-> Answered(r.m, a), entries |-> Append(r.entries, Seen(r.m, a)),
                      possible |-> r.possible /\ Granted(r.m, a)]
  IN run[Len(answers)]

Termination(m) ==
  [is |-> "termination", type |-> StatusToTermination(m.status), pc |-> m.pc, gas |-> m.gas,
   regs |-> Dump(m.regs), code |-> m.exitCode]

\* t is a recording, but for the registers of its first and last line and its
\* exit code.
IsRecording(t) ==
  LET r == Recording(ProgramOf(t), t.start, t.entries)
      end == Termination(r.m)
  IN /\ r.possible /\ r.entries = t.entries /\ r.m.status # "HOST"
     /\ t.termination = [end EXCEPT !.regs = t.termination.regs, !.code = t.termination.code]

-----------------------------------------------------------------------------
(* Properties.                                                             *)

\* A replay that verifies succeeds exactly if the trace is what its program
\* prints when its host answers as the trace says: whatever line was changed,
\* lost, doubled or moved is noticed, unless it changes none of what is
\* compared (trace-replay.ts:83-160).
VerifiedIffRecording ==
  In("done") /\ verify =>
    LET t == ParseTrace(lines)
    IN client.success <=> (t # THROWN /\ ~Unbuildable(t) /\ IsRecording(t))

\* Every client comes to its end, with its machine released, whether it
\* succeeds, throws or never starts one: a trace has finitely many host calls,
\* and the run command charges for those it answers (trace-replay.ts:76-178,
\* index.ts:228-269).
ClientEnds == ~In("idle") => <>(In("done") /\ pvms = <<>>)
=============================================================================
