---------------------------- MODULE Interpreter ----------------------------
(***************************************************************************)
(* The interpreter loop: assembly/interpreter.ts with gas.ts, outcome.ts   *)
(* and the ways its users drive it (api-debugger.ts, api-internal.ts).     *)
(*                                                                         *)
(* nextSteps(n) executes up to n instructions; between two calls the       *)
(* caller may set the gas and the next program counter.  What an           *)
(* instruction computes is left open: a branch is taken or not, an access  *)
(* to memory succeeds or faults anywhere, an indirect jump has any         *)
(* address.  What is kept is the control: the order of the checks, what is *)
(* charged and when, and every way to stop and to go on.                   *)
(***************************************************************************)
EXTENDS Program

CONSTANTS
  RawPrograms, \* programs before they are decoded: see IsRaw
  MaxGas,      \* largest amount of gas a caller sets
  MaxSteps,    \* largest n of nextSteps(n)
  EntryPcs,    \* program counters callers set
  FaultAddrs,  \* addresses at which an access may fault
  JumpAddrs,   \* addresses an indirect jump may compute
  RESERVED_MEMORY, EXIT, JUMP_ALIGNMENT_FACTOR

Finished == {"HALT", "PANIC", "FAULT", "OOG"}
Status == {"OK", "HOST"} \cup Finished

\* -1 as a u32: no next program counter is set.
NO_PC == U32 - 1

\* What deblob makes of them.  There are no costs of blocks if the code is
\* empty, or so long that a block may cost more than its entry has room for.
Programs ==
  {Deblob(r, FALSE) : r \in RawPrograms}
    \cup {Deblob(r, TRUE) : r \in {x \in RawPrograms : x.code # <<>> /\ Size(x) < U24}}

ASSUME RawProgramsAssumption == \A r \in RawPrograms : IsRaw(r)
ASSUME BoundsAssumption ==
  /\ MaxGas \in Nat /\ MaxSteps \in Nat
  /\ EntryPcs \subseteq 0 .. NO_PC - 1  \* a caller who asks for NO_PC asks for nothing
  /\ FaultAddrs \subseteq 0 .. U32 - 1 /\ JumpAddrs \subseteq 0 .. U32 - 1
  /\ RESERVED_MEMORY \in 1 .. U32 - 1 /\ EXIT \in 0 .. U32 - 1
  /\ JUMP_ALIGNMENT_FACTOR \in Nat \ {0}

VARIABLES
  prog, pc, status, exitCode, nextPc, gas,
  outExit,  \* exitCode of outcomeRes, which one instruction leaves for the next
  left,     \* steps the current call of nextSteps still has; 0 between calls
  ret,      \* what the last call returned
  prepaid,  \* history: gas charged, less that of the instructions executed
  entered   \* history: the block that is being executed was entered at its start

vars == <<prog, pc, status, exitCode, nextPc, gas, outExit, left, ret, prepaid, entered>>

-----------------------------------------------------------------------------
(* Between calls.                                                          *)

\* vmInit, resetJAM and resetGeneric.
Init ==
  /\ prog \in Programs
  /\ pc = 0 /\ nextPc \in EntryPcs
  /\ gas \in 0 .. MaxGas
  /\ status = "OK" /\ exitCode = 0 /\ outExit = 0
  /\ left = 0 /\ ret = TRUE
  /\ prepaid = 0 /\ entered = TRUE

Idle == left = 0

SetNextPc(p) ==
  /\ Idle
  /\ nextPc' = p
  /\ UNCHANGED <<prog, pc, status, exitCode, gas, outExit, left, ret, prepaid, entered>>

SetGas(g) ==
  /\ Idle
  /\ gas' = g
  /\ UNCHANGED <<prog, pc, status, exitCode, nextPc, outExit, left, ret, prepaid, entered>>

\* The history variables when the machine goes to p without executing anything.
Redirected(p) ==
  /\ prepaid' = 0
  /\ entered' = (p \in prog.starts \/ ~prog.useBlockGas)

NextAfter(i) == i + 1 + SkipBytes(prog, i)

\* Mutant of Resume: the next program counter is not taken.
ResumeInPlace(n) ==
  /\ status = "HOST"
  /\ status' = "OK" /\ nextPc' = NO_PC
  /\ left' = n /\ ret' = TRUE
  /\ UNCHANGED <<prog, pc, exitCode, gas, outExit, prepaid, entered>>

\* The head of nextSteps(n): resuming after a host call goes on right away,
Resume(n) ==
  /\ status = "HOST"
  /\ status' = "OK" /\ pc' = nextPc /\ nextPc' = NO_PC
  /\ left' = n /\ ret' = TRUE
  /\ IF nextPc = NextAfter(pc) THEN UNCHANGED <<prepaid, entered>> ELSE Redirected(nextPc)
  /\ UNCHANGED <<prog, exitCode, gas, outExit>>

\* a machine that has stopped stays as it is,
Refuse ==
  /\ status \in Finished
  /\ ret' = FALSE
  /\ UNCHANGED <<prog, pc, status, exitCode, nextPc, gas, outExit, left, prepaid, entered>>

\* a program counter that was set uses up the call,
TakeNextPc ==
  /\ status = "OK" /\ nextPc # NO_PC
  /\ pc' = nextPc /\ nextPc' = NO_PC
  /\ ret' = TRUE
  /\ Redirected(nextPc)
  /\ UNCHANGED <<prog, status, exitCode, gas, outExit, left>>

\* and otherwise the loop begins.
Begin(n) ==
  /\ status = "OK" /\ nextPc = NO_PC
  /\ left' = n /\ ret' = TRUE
  /\ UNCHANGED <<prog, pc, status, exitCode, nextPc, gas, outExit, prepaid, entered>>

Call(n) == Idle /\ (Resume(n) \/ Refuse \/ TakeNextPc \/ Begin(n))

-----------------------------------------------------------------------------
(* One iteration of the loop.                                              *)

\* Mutant of Charge: the difference is not written back.
ChargeLost(cost) == gas' = IF cost > gas THEN 0 ELSE gas

\* GasCounter.sub.
Charge(cost) == gas' = IF cost > gas THEN 0 ELSE gas - cost

Stop(st, code) ==
  /\ status' = st /\ exitCode' = code
  /\ left' = 0 /\ ret' = FALSE
  /\ UNCHANGED <<prog, pc, nextPc>>

GoOn(to) ==
  /\ pc' = to /\ exitCode' = 0
  /\ left' = left - 1 /\ ret' = TRUE
  /\ UNCHANGED <<prog, status, nextPc>>

\* There is no instruction at pc.
StepNowhere ==
  /\ left > 0 /\ ~IsInstruction(prog, pc)
  /\ Charge(GAS["MISSING"])
  /\ Stop(IF GAS["MISSING"] > gas THEN "OOG" ELSE "PANIC", 0)
  /\ UNCHANGED <<outExit, prepaid, entered>>

Instruction == prog.costs[pc].op
GasCost == prog.costs[pc].gas

StepOutOfGas ==
  /\ left > 0 /\ IsInstruction(prog, pc) /\ GasCost > gas
  /\ Charge(GasCost)
  /\ Stop("OOG", 0)
  /\ UNCHANGED <<outExit, prepaid, entered>>

\* An instruction of one of the classes ops is charged for and executed.
Execute(ops) ==
  /\ left > 0 /\ IsInstruction(prog, pc) /\ GasCost <= gas
  /\ Instruction \in ops
  /\ Charge(GasCost)
  /\ entered' = (entered \/ pc \in prog.starts)
  /\ prepaid' = IF entered' THEN prepaid + GasCost - GAS[Instruction] ELSE 0

StepInvalid == Execute({"MISSING"}) /\ Stop("PANIC", 0) /\ UNCHANGED outExit

\* Outcome.Ok; of a branch, that it is not taken.
StepOk ==
  /\ Execute({"FALLTHROUGH", "ALU", "LOAD", "SBRK", "BRANCH"})
  /\ GoOn(NextAfter(pc))
  /\ UNCHANGED outExit

\* Mutant of Branch: any instruction may be branched to.
BranchAnywhere(to) ==
  IF IsInstruction(prog, to) THEN GoOn(to) ELSE Stop("PANIC", 0)

\* branch: only the start of a basic block may be branched to.
Branch(to) == IF to \in prog.starts THEN GoOn(to) ELSE Stop("PANIC", 0)

StepStaticJump ==
  /\ Execute({"JUMP", "BRANCH"})
  /\ Branch((pc + prog.arg[pc]) % U32)
  /\ UNCHANGED outExit

\* dJump: u32(address / factor) - 1 indexes the table from 0.
StepDynamicJump(address) ==
  LET index == address \div JUMP_ALIGNMENT_FACTOR
  IN /\ Execute({"JUMP_IND"})
     /\ CASE address = EXIT -> Stop("HALT", 0)
          [] address # EXIT /\ (\/ address % JUMP_ALIGNMENT_FACTOR # 0
                                \/ index \notin DOMAIN prog.jumps) -> Stop("PANIC", 0)
          [] OTHER -> IF prog.jumps[index] >= U32 THEN Stop("PANIC", 0)
                      ELSE Branch(prog.jumps[index])
     /\ UNCHANGED outExit

\* Mutant of StepHostCall: no program counter is left to resume at.
StepHostCallLost ==
  /\ Execute({"ECALLI"})
  /\ status' = "HOST" /\ exitCode' = prog.arg[pc] /\ outExit' = prog.arg[pc]
  /\ left' = 0 /\ ret' = FALSE
  /\ UNCHANGED <<prog, pc, nextPc>>

StepHostCall ==
  /\ Execute({"ECALLI"})
  /\ status' = "HOST" /\ exitCode' = prog.arg[pc] /\ outExit' = prog.arg[pc]
  /\ nextPc' = NextAfter(pc)
  /\ left' = 0 /\ ret' = FALSE
  /\ UNCHANGED <<prog, pc>>

\* okOrFault: a fault below RESERVED_MEMORY and an access fault are panics.
StepFault(address, isAccess) ==
  /\ Execute({"LOAD"})
  /\ outExit' = address
  /\ IF isAccess \/ address < RESERVED_MEMORY THEN Stop("PANIC", 0) ELSE Stop("FAULT", address)

\* sbrk out of memory: a fault whose address was never set.
StepOutOfMemory == Execute({"SBRK"}) /\ outExit' = 0 /\ Stop("PANIC", 0)

\* Result.PANIC: the code is the one outcomeRes still holds.
StepTrap == Execute({"TRAP"}) /\ Stop("PANIC", outExit) /\ UNCHANGED outExit

Step ==
  \/ StepNowhere \/ StepOutOfGas \/ StepInvalid \/ StepOk \/ StepStaticJump
  \/ \E address \in JumpAddrs : StepDynamicJump(address)
  \/ StepHostCall
  \/ \E address \in FaultAddrs, isAccess \in BOOLEAN : StepFault(address, isAccess)
  \/ StepOutOfMemory \/ StepTrap

Next ==
  \/ Step
  \/ \E n \in 0 .. MaxSteps : Call(n)
  \/ \E p \in EntryPcs : SetNextPc(p)
  \/ \E g \in 0 .. MaxGas : SetGas(g)

Spec == Init /\ [][Next]_vars

-----------------------------------------------------------------------------
(* vmExecute: one step at a time until nextSteps returns false, with        *)
(* nobody setting anything in between.                                      *)

RunNext == Step \/ (ret /\ Call(1))
-----------------------------------------------------------------------------
(* Properties.                                                             *)

\* The types of the fields of Interpreter (interpreter.ts:42-49).
TypeOK ==
  /\ prog \in Programs
  /\ pc \in 0 .. U32 - 1 /\ nextPc \in 0 .. U32 - 1
  /\ status \in Status
  /\ exitCode \in 0 .. U32 - 1 /\ outExit \in 0 .. U32 - 1
  /\ gas \in Nat /\ left \in Nat
  /\ ret \in BOOLEAN /\ prepaid \in Int /\ entered \in BOOLEAN

\* The loop only runs while the machine is fine and no program counter is
\* pending; a host call always leaves one to resume at (interpreter.ts:70-89).
Running ==
  /\ left > 0 => status = "OK" /\ nextPc = NO_PC
  /\ status = "HOST" => nextPc # NO_PC

IInv == TypeOK /\ Running

\* What has been charged and not executed when the machine is at i.
Remaining(i) == IF prog.useBlockGas THEN RestOfBlock(prog)[i] ELSE 0

\* Once a block has been entered at its start, what has been charged is at
\* every instruction exactly what was executed and what the rest of the block
\* costs: host calls in the middle of a block, calls that stop after any
\* number of steps and loops neither lose gas nor charge twice
\* (interpreter.ts:112-126, program.ts:156-176).
GasPrepaid ==
  entered =>
    /\ status = "OK" /\ nextPc = NO_PC => prepaid = Remaining(pc)
    /\ status = "HOST" => prepaid = Remaining(NextAfter(pc))

\* A panic has no exit code: the test vectors expect 0 when there is no page
\* fault address (test-w3f-common.ts:145).
PanicHasNoCode == status = "PANIC" => exitCode = 0

\* vmExecute returns, whatever the program does, as long as its gas is
\* finite: no cycle of it is free (api-internal.ts:89-125).
RunStops == <>(Idle /\ ~ret)

\* The machine as its host sees it.
Machine ==
  INSTANCE AbstractMachine WITH
    aprog <- prog, agas <- gas, astatus <- status,
    apc <- IF status \in {"OK", "HOST"} /\ nextPc # NO_PC THEN nextPc ELSE pc,
    aexit <- IF status \in {"HOST", "FAULT"} THEN exitCode ELSE 0

\* However a run is cut into calls of nextSteps, and whatever is set between
\* them, the machine executes as if one instruction followed the other: it
\* resumes behind a host call, is never revived once finished, and its gas
\* goes up only when it is set.
ImplementsMachine == Machine!ASpec
=============================================================================
