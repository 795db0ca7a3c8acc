------------------------------- MODULE PvmApi -------------------------------
(***************************************************************************)
(* The table of machines of api-utils.ts: pvmStart, pvmResume, the access  *)
(* to registers and memory of a machine that does not run, pvmDestroy, and *)
(* runProgram, which needs no handle.                                      *)
(*                                                                         *)
(* A StandardProgram owns its registers and its memory; a machine that is  *)
(* started from it refers to them, and so does the next one.  What is the  *)
(* machine's own are its program counters, status, exit codes and gas.     *)
(***************************************************************************)
EXTENDS Guest, FiniteSets, Functions

CONSTANTS
  StandardPrograms,  \* what prepareProgram makes: code, registers, memory
  GasValues, PcValues, RegisterValues, Chunks,  \* what is asked of machines
  MaxPrograms,  \* how many programs are prepared
  MaxHandles    \* how many handles are given out

ASSUME ApiAssumption == GasValues \subseteq Nat  \* gas counters are not negative

VARIABLES
  programs,   \* StandardPrograms, in the order they were prepared
  pvms,       \* handle -> Interpreter
  nextPvmId,
  request,    \* the last call,
  reply,      \* and its answer
  uses        \* history: program -> how many machines were made of it

apiVars == <<programs, pvms, nextPvmId, request, reply, uses>>

NoId == 0
Live(id) == id \in DOMAIN pvms

\* The machine v with what it refers to in program p, and the one a handle
\* stands for.
Joined(p, v) ==
  [code |-> p.code, regs |-> p.regs, mem |-> p.mem, pc |-> v.pc, nextPc |-> v.nextPc, gas |-> v.gas,
   status |-> v.status, exitCode |-> v.exitCode, lastCode |-> v.lastCode]
Machine(id) == Joined(programs[pvms[id].program], pvms[id])

\* vmInit.
Interpreter(p) ==
  [program |-> p, pc |-> 0, nextPc |-> 0, gas |-> 0, status |-> "OK", exitCode |-> 0, lastCode |-> 0]

Init ==
  /\ programs = <<>> /\ pvms = <<>> /\ nextPvmId = 0 /\ uses = <<>>
  /\ request = [op |-> "none", id |-> NoId] /\ reply = NULL

\* The machine p refers to becomes m: registers and memory in its program,
\* the rest in the table.
Becomes(id, m) ==
  /\ pvms' = [pvms EXCEPT ![id] = [f \in DOMAIN @ |-> IF f = "program" THEN @[f] ELSE m[f]]]
  /\ programs' = [programs EXCEPT ![pvms[id].program].regs = m.regs,
                                  ![pvms[id].program].mem = m.mem]

\* prepareProgram: registers and memory are made anew.
PrepareProgram(code, regs, mem) ==
  /\ Len(programs) < MaxPrograms
  /\ programs' = Append(programs, [code |-> code, regs |-> regs, mem |-> mem])
  /\ uses' = Append(uses, 0)
  /\ request' = [op |-> "prepare", id |-> NoId] /\ reply' = NULL
  /\ UNCHANGED <<pvms, nextPvmId>>

\* Mutant of PvmStart: the next handle is one more than there are machines.
PvmStartReusing(p) ==
  LET id == Cardinality(DOMAIN pvms) + 1
  IN /\ p \in DOMAIN programs /\ nextPvmId < MaxHandles
     /\ nextPvmId' = nextPvmId + 1
     /\ pvms' = [i \in DOMAIN pvms \cup {id} |-> IF i = id THEN Interpreter(p) ELSE pvms[i]]
     /\ uses' = [uses EXCEPT ![p] = @ + 1]
     /\ request' = [op |-> "start", id |-> id] /\ reply' = [kind |-> "id", id |-> id]
     /\ UNCHANGED programs

\* pvmStart: handles are counted, and never given out again.
PvmStart(p) ==
  LET id == nextPvmId + 1
  IN /\ p \in DOMAIN programs /\ nextPvmId < MaxHandles
     /\ nextPvmId' = id
     /\ pvms' = [i \in DOMAIN pvms \cup {id} |-> IF i = id THEN Interpreter(p) ELSE pvms[i]]
     /\ uses' = [uses EXCEPT ![p] = @ + 1]
     /\ request' = [op |-> "start", id |-> id] /\ reply' = [kind |-> "id", id |-> id]
     /\ UNCHANGED programs

\* pvmDestroy: vmDestroy frees the memory, which is that of the program.
PvmDestroy(id) ==
  /\ request' = [op |-> "destroy", id |-> id]
  /\ IF Live(id)
     THEN /\ reply' = Output(Machine(id))
          /\ pvms' = Restrict(pvms, DOMAIN pvms \ {id})
          /\ programs' = [programs EXCEPT ![pvms[id].program].mem = Unmapped]
     ELSE reply' = Silence("destroy") /\ UNCHANGED <<pvms, programs>>
  /\ UNCHANGED <<nextPvmId, uses>>

PvmSetRegisters(id, values) ==
  /\ request' = [op |-> "registers", id |-> id, values |-> values] /\ reply' = NULL
  /\ IF Live(id) THEN Becomes(id, WithRegisters(Machine(id), values))
     ELSE UNCHANGED <<pvms, programs>>
  /\ UNCHANGED <<nextPvmId, uses>>

PvmReadMemory(id, a, n) ==
  /\ request' = [op |-> "read", id |-> id, addr |-> a, len |-> n]
  /\ reply' = IF Live(id) THEN BytesAt(Machine(id), a, n) ELSE Silence("read")
  /\ UNCHANGED <<programs, pvms, nextPvmId, uses>>

PvmWriteMemory(id, a, v) ==
  /\ request' = [op |-> "write", id |-> id, addr |-> a, bytes |-> v]
  /\ IF Live(id)
     THEN Becomes(id, WithBytes(Machine(id), a, v)) /\ reply' = Written(Machine(id), a, v)
     ELSE UNCHANGED <<pvms, programs>> /\ reply' = Silence("write")
  /\ UNCHANGED <<nextPvmId, uses>>

PvmResume(id, gas, pc) ==
  /\ request' = [op |-> "resume", id |-> id, gas |-> gas, pc |-> pc]
  /\ IF Live(id)
     THEN \E m \in {Resumed(Machine(id), gas, pc)} : Becomes(id, m) /\ reply' = Pause(m)
     ELSE UNCHANGED <<pvms, programs>> /\ reply' = Silence("resume")
  /\ UNCHANGED <<nextPvmId, uses>>

\* runProgram: a machine that is gone when it returns, and the memory of the
\* program with it.  The registers stay as the run left them.
RunProgram(p, gas, pc) ==
  /\ p \in DOMAIN programs /\ uses[p] < MaxHandles
  /\ \E m \in {Resumed(Joined(programs[p], Interpreter(p)), gas, pc)} :
        /\ reply' = Output(m)
        /\ programs' = [programs EXCEPT ![p].regs = m.regs, ![p].mem = Unmapped]
  /\ uses' = [uses EXCEPT ![p] = @ + 1]
  /\ request' = [op |-> "run", id |-> NoId]
  /\ UNCHANGED <<pvms, nextPvmId>>

\* Handles that were never given out are asked for like any other.
Next ==
  \/ \E p \in StandardPrograms : PrepareProgram(p.code, p.regs, p.mem)
  \/ \E p \in DOMAIN programs : PvmStart(p)
  \/ \E p \in DOMAIN programs, gas \in GasValues, pc \in PcValues : RunProgram(p, gas, pc)
  \/ \E id \in 1 .. MaxHandles :
       \/ PvmDestroy(id)
       \/ \E values \in RegisterValues : PvmSetRegisters(id, values)
       \/ \E c \in Chunks : PvmReadMemory(id, c.addr, Len(c.bytes)) \/ PvmWriteMemory(id, c.addr, c.bytes)
       \/ \E gas \in GasValues, pc \in PcValues : PvmResume(id, gas, pc)

Spec == Init /\ [][Next]_apiVars

-----------------------------------------------------------------------------
(* Properties.                                                             *)

Handles ==
  INSTANCE AbstractHandles WITH
    handles <- [id \in {i \in DOMAIN pvms : uses[pvms[i].program] = 1} |-> Machine(id)],
    gone <- 1 .. nextPvmId \ DOMAIN pvms

\* A handle whose program nobody else was started from is a machine of its
\* own, whatever is done with other handles, whether they share a program,
\* have finished or are gone; one that was destroyed stays silent
\* (api-utils.ts:131-263).
ImplementsHandles == Handles!ASpec
=============================================================================
