--------------------------- MODULE MCTraceReplay ---------------------------
(* Small programs, recordings of them and recordings gone wrong.           *)
EXTENDS TraceReplay

Op(op) == [op |-> op]
Of(op, reg, at) == [op |-> op, reg |-> reg, at |-> at]
To(op, at) == [op |-> op, at |-> at]

\* Loads and stores around two host calls; loops of log calls; a host call
\* before the arguments are used.
Copying == <<Of("LOAD", 0, 2), To("ECALLI", 1), Of("STORE", 0, 3), To("ECALLI", 2), Op("HALT")>>
Logging == <<Of("LOAD", 0, 2), To("ECALLI", 2), To("JUMP", 0)>>
Counting == <<Of("ADD", 0, 0), To("ECALLI", 2), To("JUMP", 0)>>
Reading == <<To("ECALLI", 1), Of("LOAD", 0, 5), Of("STORE", 0, 4), Op("TRAP")>>

Cell(access, byte) == [access |-> access, byte |-> byte]
Pages == [Unmapped EXCEPT ![2] = Cell("Write", 1), ![3] = Cell("Write", 0)]
\* What follows a page that may be written may only be read.
Mixed == [Unmapped EXCEPT ![2] = Cell("Write", 1), ![3] = Cell("Read", 0)]
Numbers == [r \in Reg |-> r]
Zeros == [r \in Reg |-> 0]

\* The programs users prepare.
Prepared ==
  {[code |-> Copying, regs |-> Numbers, mem |-> Mixed],
   [code |-> Logging, regs |-> Numbers, mem |-> Pages]}

ArgValues == {<<9, 3>>}
Writes == {[addr |-> 2, bytes |-> <<0, 1>>]}
Fuel == {3}
EntryPcs == {0, 2, NO_PC}

-----------------------------------------------------------------------------
(* Recordings.                                                             *)

At1(a, v) == [addr |-> a, bytes |-> v]
Silent == [reads |-> <<>>, writes |-> <<>>, setRegs |-> <<>>, setGas |-> <<>>]
Talking == [reads |-> <<At1(2, <<1>>)>>, writes |-> <<At1(3, <<1>>), At1(2, <<0, 0>>)>>,
            setRegs |-> <<[reg |-> 0, value |-> 5], [reg |-> PTR, value |-> 3]>>, setGas |-> <<4>>]
Refuelling == [Silent EXCEPT !.setGas = <<1>>, !.reads = <<At1(2, <<1, 0>>)>>]

Generic(code, gas, regs, mem, initial, answers) ==
  [blob |-> [code |-> code, sections |-> Unmapped], initial |-> initial, answers |-> answers,
   start |-> [is |-> "start", pc |-> 0, gas |-> gas, regs |-> Dump(regs)],
   program |-> [code |-> code, regs |-> regs, mem |-> mem]]

Spi(code, gas, args, initial, answers) ==
  LET blob == [code |-> code, sections |-> Pages]
  IN [blob |-> blob, initial |-> initial, answers |-> answers,
      start |-> [is |-> "start", pc |-> 0, gas |-> gas, regs |-> Dump(SpiRegisters(args))],
      program |-> [code |-> code, regs |-> SpiRegisters(args), mem |-> SpiMemory(blob, args)]]

\* Memory in one chunk or two, arguments in one, in two, and none at all; host
\* calls with and without answers; every way to terminate.
Worlds ==
  {Generic(Copying, 6, Numbers, Pages, <<At1(2, <<1, 0>>)>>, <<Talking, Silent>>),
   Generic(Copying, 4, Numbers, Pages, <<At1(3, <<0>>), At1(2, <<1>>)>>, <<Silent, Refuelling>>),
   Generic(Copying, 3, Zeros, Unmapped, <<>>, <<>>),
   Generic(Counting, 3, Zeros, Unmapped, <<>>, <<[Refuelling EXCEPT !.reads = <<>>]>>),
   Generic(Counting, 5, Zeros, Unmapped, <<>>, <<Silent, Silent>>),
   Spi(Reading, 5, <<1, 1>>, <<At1(4, <<1, 1>>)>>, <<Silent>>),
   Spi(Reading, 5, <<0, 1>>, <<At1(4, <<0>>), At1(5, <<1>>)>>, <<Silent>>),
   Spi(Reading, 5, <<>>, <<>>, <<Talking>>),
   Spi(Copying, 9, <<1>>, <<At1(4, <<1>>)>>, <<Talking, Talking>>)}

TraceOf(w) ==
  LET r == Recording(w.program, w.start, w.answers)
  IN [blob |-> w.blob, initial |-> w.initial, start |-> w.start, entries |-> r.entries,
      termination |-> Termination(r.m)]

\* One line is lost, doubled, changed in one field, or swapped with the next.
Changed(line, f) ==
  CASE f \in {"pc", "gas", "index", "addr", "value", "reg", "code"} -> [line EXCEPT ![f] = @ + 1]
    [] f = "bytes" -> [line EXCEPT !.bytes = [@ EXCEPT ![1] = 1 - @]]
    [] f = "regs" -> [line EXCEPT !.regs = (0 :> Dumped(@, 0) + 1) @@ @]
    [] f = "type" -> [line EXCEPT !.type = IF @ = "HALT" THEN "OOG" ELSE "HALT"]
    [] OTHER -> line

Edits(ls) ==
  {ls} \cup {RemoveAt(ls, k) : k \in DOMAIN ls}
  \cup {InsertAt(ls, k, ls[k]) : k \in DOMAIN ls}
  \cup {[ls EXCEPT ![k] = ls[k + 1], ![k + 1] = ls[k]] : k \in 1 .. Len(ls) - 1}
  \cup UNION {{ReplaceAt(ls, k, Changed(ls[k], f)) : f \in DOMAIN ls[k]} : k \in DOMAIN ls}

\* A chunk of no bytes, which the tracer prints and the parser refuses.
EmptyWrite(ls) == InsertAt(ls, 2, ChunkLine("memwrite", At1(2, <<>>)))

Recordings == {[world |-> w, lines |-> Printed(TraceOf(w))] : w \in Worlds}
Traces == UNION {Edits(r.lines) \cup {EmptyWrite(r.lines)} : r \in Recordings}

-----------------------------------------------------------------------------
MCInit ==
  /\ lines \in Traces \cup {<<>>} /\ ClientInit
  /\ In("open") <=> lines # <<>>

MCSpec == MCInit /\ [][ClientNext \/ UserNext]_vars /\ WF_vars(ClientNext)

\* No action reads what was asked and answered before it.
WithoutAnswers == <<programs, pvms, nextPvmId, uses, client, lines, verify>>

\* A recording replays: the parser reads what the tracer prints, and what it
\* was recorded of is prepared again, from the dump of the registers and the
\* chunks of the memory or of the arguments alone (trace-parse.ts:73-163,
\* 327-387, trace-replay.ts:52-75).
RecordingsReplay ==
  In("done") /\ verify =>
    \A r \in Recordings : lines = r.lines =>
      client.success /\ ProgramOf(ParseTrace(lines)) = r.world.program
=============================================================================
