------------------------------- MODULE Guest -------------------------------
(***************************************************************************)
(* A machine as its owner sees it through api-utils.ts: what one call      *)
(* makes of it and answers.  The interpreter is cut down to a program that *)
(* counts, loads, stores, calls its host and stops in every way there is;  *)
(* it is deterministic, which is what replaying a trace relies on.         *)
(* Module Interpreter has the loop in full.                                *)
(***************************************************************************)
EXTENDS Integers, Sequences

CONSTANTS
  NO_OF_REGISTERS, WORD,   \* registers hold 0 .. WORD - 1
  MEMORY_SIZE, RESERVED_MEMORY,  \* every page is one byte
  BYTE,                    \* bytes hold 0 .. BYTE - 1
  PTR, LEN,                \* the registers 7 and 8 of the calling convention
  NO_PC                    \* 0xffffffff

ASSUME GuestAssumption ==
  /\ NO_OF_REGISTERS \in Nat \ {0} /\ WORD \in Nat \ {0} /\ BYTE \in Nat \ {0}
  /\ MEMORY_SIZE \in 1 .. WORD /\ RESERVED_MEMORY \in 0 .. MEMORY_SIZE
  /\ {PTR, LEN} \subseteq 0 .. NO_OF_REGISTERS - 1
  /\ NO_PC \in Nat

Reg == 0 .. NO_OF_REGISTERS - 1
Addr == 0 .. MEMORY_SIZE - 1
Finished == {"HALT", "PANIC", "FAULT", "OOG"}

\* The memory of a program that has none: what free leaves.
Unmapped == [a \in Addr |-> [access |-> "Unmapped", byte |-> 0]]

\* vmInit. lastCode is the exit code of outcomeRes.
Fresh(code, regs, mem) ==
  [code |-> code, regs |-> regs, mem |-> mem, pc |-> 0, nextPc |-> 0, gas |-> 0,
   status |-> "OK", exitCode |-> 0, lastCode |-> 0]

Can(mem, a, access) == mem[a].access \in {"Write", access}
At(a, i) == (a + i) % MEMORY_SIZE

\* How many bytes of the range come before the first that may not be accessed.
Reach(mem, access, a, n) ==
  CHOOSE k \in 0 .. n :
    /\ \A i \in 0 .. k - 1 : Can(mem, At(a, i), access)
    /\ k < n => ~Can(mem, At(a, k), access)

-----------------------------------------------------------------------------
(* vmExecute.                                                              *)

Stopped(m, status, code) == [m EXCEPT !.status = status, !.exitCode = code]
Onward(m) == [m EXCEPT !.pc = @ + 1, !.exitCode = 0]

Faulted(m, a) ==
  [Stopped(m, IF m.mem[a].access # "Unmapped" \/ a < RESERVED_MEMORY THEN "PANIC" ELSE "FAULT",
           IF m.mem[a].access # "Unmapped" \/ a < RESERVED_MEMORY THEN 0 ELSE a)
   EXCEPT !.lastCode = a]

Instructed(m, i) ==
  CASE i.op = "ADD" -> Onward([m EXCEPT !.regs[i.reg] = (@ + 1) % WORD])
    [] i.op = "LOAD" -> IF Can(m.mem, i.at, "Read")
                        THEN Onward([m EXCEPT !.regs[i.reg] = m.mem[i.at].byte])
                        ELSE Faulted(m, i.at)
    [] i.op = "STORE" -> IF Can(m.mem, i.at, "Write")
                         THEN Onward([m EXCEPT !.mem[i.at].byte = m.regs[i.reg] % BYTE])
                         ELSE Faulted(m, i.at)
    [] i.op = "JUMP" -> [Onward(m) EXCEPT !.pc = i.at]
    [] i.op = "ECALLI" -> [Stopped(m, "HOST", i.at) EXCEPT !.lastCode = i.at, !.nextPc = m.pc + 1]
    [] i.op = "HALT" -> Stopped(m, "HALT", 0)
    [] i.op = "TRAP" -> Stopped(m, "PANIC", m.lastCode)
    [] OTHER -> Stopped(m, "PANIC", 0)  \* no instruction

\* nextSteps(1) of a machine that runs; every instruction costs 1.
Stepped(m) ==
  IF m.gas = 0 THEN Stopped(m, "OOG", 0)
  ELSE LET paid == [m EXCEPT !.gas = @ - 1]
       IN IF m.pc + 1 \in DOMAIN m.code THEN Instructed(paid, m.code[m.pc + 1])
          ELSE Stopped(paid, "PANIC", 0)

\* The head of nextSteps, once and for all steps: a host call is resumed, a
\* program counter is taken.
Begun(m) ==
  IF m.status = "HOST" \/ (m.status = "OK" /\ m.nextPc # NO_PC)
  THEN [m EXCEPT !.status = "OK", !.pc = m.nextPc, !.nextPc = NO_PC] ELSE m

\* The states of a run are bound one by one, which spares TLC from evaluating
\* each of them for every use of the next.
Executed(m) ==
  LET Only(S) == CHOOSE q \in S : TRUE
      run[n \in 0 .. m.gas + 1] ==
        IF n = 0 THEN Begun(m)
        ELSE Only({IF q.status = "OK" THEN Stepped(q) ELSE q : q \in {run[n - 1]}})
  IN run[m.gas + 1]

-----------------------------------------------------------------------------
(* One call: the machine after it, and what it answers.                    *)

NULL == [kind |-> "null"]

\* What there is to say of a machine that is not there.
Silence(op) == IF op = "write" THEN [kind |-> "written", ok |-> FALSE] ELSE NULL

\* VmPause: the registers are a copy.
Pause(m) == [kind |-> "pause", status |-> m.status, exitCode |-> m.exitCode, pc |-> m.pc,
             nextPc |-> m.nextPc, gas |-> m.gas, regs |-> m.regs]

\* readResult: the range the registers 7 and 8 delimit, if it can be read.
ResultOf(m) ==
  LET from == m.regs[PTR] % MEMORY_SIZE
      to == m.regs[LEN] % MEMORY_SIZE
  IN IF m.status = "HALT" /\ from < to /\ \A a \in from .. to - 1 : Can(m.mem, a, "Read")
     THEN [i \in 1 .. to - from |-> m.mem[from + i - 1].byte] ELSE <<>>

\* VmOutput.
Output(m) == [kind |-> "output", status |-> m.status, exitCode |-> m.exitCode, pc |-> m.pc,
              gas |-> m.gas, regs |-> m.regs, result |-> ResultOf(m)]

\* pvmSetRegisters: as many as there are, of those there are.
WithRegisters(m, values) ==
  [m EXCEPT !.regs = [r \in Reg |-> IF r + 1 \in DOMAIN values THEN values[r + 1] ELSE @[r]]]

\* pvmReadMemory.
BytesAt(m, a, n) ==
  IF Reach(m.mem, "Read", a, n) = n
  THEN [kind |-> "bytes", bytes |-> [i \in 1 .. n |-> m.mem[At(a, i - 1)].byte]] ELSE NULL

\* pvmWriteMemory: nothing unless all of it can be read, then all that can be
\* written before the first byte that cannot.
WithBytes(m, a, v) ==
  LET n == IF Reach(m.mem, "Read", a, Len(v)) = Len(v) THEN Reach(m.mem, "Write", a, Len(v)) ELSE 0
      Last(x) == CHOOSE i \in 1 .. n : At(a, i - 1) = x /\ \A j \in i + 1 .. n : At(a, j - 1) # x
  IN [m EXCEPT !.mem = [x \in Addr |->
        IF \E i \in 1 .. n : At(a, i - 1) = x THEN [@[x] EXCEPT !.byte = v[Last(x)]] ELSE @[x]]]
Written(m, a, v) ==
  [kind |-> "written", ok |-> Reach(m.mem, "Read", a, Len(v)) = Len(v)
                              /\ Reach(m.mem, "Write", a, Len(v)) = Len(v)]

\* pvmResume: gas and program counter are set even of a machine that has
\* finished.
Resumed(m, gas, pc) == Executed([m EXCEPT !.nextPc = pc, !.gas = gas])
=============================================================================
