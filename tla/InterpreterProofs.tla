------------------------- MODULE InterpreterProofs -------------------------
(***************************************************************************)
(* Theorems about module Interpreter, for every set of raw programs and    *)
(* every choice of the widths and bounds: the type invariant, that the     *)
(* loop implements AbstractMachine, and that what is charged at the start  *)
(* of a block is what its instructions cost, however a run is cut into     *)
(* calls.                                                                  *)
(***************************************************************************)
EXTENDS Interpreter, ProgramProofs

LEMMA Widths == U32 \in Nat /\ U32 >= 2 /\ NO_PC \in Nat
BY WidthsAssumption DEF NO_PC

\* Of programs that are decoded all is known that is used of them.
LEMMA ProgramsAreDecoded == \A p \in Programs : IsProgram(p) /\ IsCharged(p)
BY RawProgramsAssumption, DeblobTheorem DEF Programs

\* What is known of the program that is being run.
LEMMA ProgramFacts ==
  ASSUME IInv
  PROVE  /\ prog.len \in Nat /\ prog.len <= U32 - 2
         /\ prog.starts \subseteq 0 .. prog.len - 1
         /\ prog.jumps \in Seq(Nat)
BY ProgramsAreDecoded, Widths DEF IInv, TypeOK, IsProgram

LEMMA InstructionFacts ==
  ASSUME IInv, IsInstruction(prog, pc)
  PROVE  /\ pc \in 0 .. prog.len - 1
         /\ Instruction \in Opcode /\ GasCost \in Nat
         /\ Instruction = "ECALLI" => prog.arg[pc] \in 0 .. U32 - 1
         /\ NextAfter(pc) \in Nat /\ NextAfter(pc) <= prog.len
<1>1. IsProgram(prog) /\ pc \in 0 .. U32 - 1 /\ U32 \in Nat
  BY ProgramsAreDecoded, Widths DEF IInv, TypeOK
<1>2. pc \in 0 .. prog.len - 1 /\ prog.len \in Nat
  BY <1>1 DEF IsInstruction, IsProgram
<1>3. prog.costs[pc] \in [op : Opcode, gas : Nat]
  BY <1>1, <1>2 DEF IsProgram
<1>4. NextAfter(pc) \in Nat /\ NextAfter(pc) <= prog.len
  <2>1. CASE pc + 1 < prog.len
    <3>1. prog.skip[pc + 1] \in Nat /\ pc + 1 + prog.skip[pc + 1] <= prog.len
      BY <1>1, <1>2, <2>1 DEF IsProgram
    <3> QED BY <1>2, <2>1, <3>1 DEF NextAfter, SkipBytes
  <2>2. CASE ~(pc + 1 < prog.len)
    BY <1>2, <2>2 DEF NextAfter, SkipBytes
  <2> QED BY <2>1, <2>2
<1> QED BY <1>1, <1>2, <1>3, <1>4 DEF Instruction, GasCost, IsProgram

-----------------------------------------------------------------------------
(* The invariant.                                                          *)

LEMMA InitEstablishesInv == Init => IInv
BY BoundsAssumption, Widths DEF Init, IInv, TypeOK, Running, Status, NO_PC

\* A step that stops keeps the invariant if its code is a u32,
LEMMA StopKeepsInv ==
  ASSUME IInv, NEW st \in Finished, NEW code \in 0 .. U32 - 1, Stop(st, code),
         gas' \in Nat, outExit' \in 0 .. U32 - 1, prepaid' \in Int, entered' \in BOOLEAN
  PROVE  IInv'
<1>1. /\ prog' = prog /\ pc' = pc /\ nextPc' = nextPc /\ status' = st
      /\ exitCode' = code /\ left' = 0 /\ ret' = FALSE
  BY DEF Stop
<1>2. st \in Status /\ st # "HOST" /\ st # "OK"
  BY DEF Status, Finished
<1>3. Running'
  BY <1>1, <1>2 DEF Running
<1>4. TypeOK'
  BY <1>1, <1>2 DEF IInv, TypeOK
<1> QED BY <1>3, <1>4 DEF IInv

\* and one that goes on if it goes to a u32.
LEMMA GoOnKeepsInv ==
  ASSUME IInv, left > 0, NEW to \in 0 .. U32 - 1, GoOn(to),
         gas' \in Nat, outExit' \in 0 .. U32 - 1, prepaid' \in Int, entered' \in BOOLEAN
  PROVE  IInv'
BY Widths DEF IInv, TypeOK, Running, GoOn

LEMMA ExecuteTypes ==
  ASSUME IInv, NEW ops, Execute(ops)
  PROVE  /\ left > 0 /\ IsInstruction(prog, pc) /\ Instruction \in ops
         /\ gas' \in Nat /\ prepaid' \in Int /\ entered' \in BOOLEAN
         /\ gas' = gas - GasCost /\ GasCost <= gas
<1>1. /\ left > 0 /\ IsInstruction(prog, pc) /\ GasCost <= gas /\ Instruction \in ops
      /\ gas' = IF GasCost > gas THEN 0 ELSE gas - GasCost
      /\ entered' = (entered \/ pc \in prog.starts)
      /\ prepaid' = IF entered' THEN prepaid + GasCost - GAS[Instruction] ELSE 0
  BY DEF Execute, Charge
<1>2. GasCost \in Nat /\ Instruction \in Opcode /\ gas \in Nat /\ prepaid \in Int
  BY <1>1, InstructionFacts DEF IInv, TypeOK
<1>3. GAS[Instruction] \in Nat
  BY <1>2, GasTypes
<1>4. entered' \in BOOLEAN
  BY <1>1
<1> HIDE DEF GasCost, Instruction
<1>5. gas' = gas - GasCost /\ gas' \in Nat
  BY <1>1, <1>2
<1>6. prepaid' \in Int
  BY <1>1, <1>2, <1>3
<1> QED BY <1>1, <1>4, <1>5, <1>6

LEMMA ChargeType == ASSUME IInv, NEW cost \in Nat, Charge(cost) PROVE gas' \in Nat
BY DEF IInv, TypeOK, Charge

LEMMA BranchKeepsInv ==
  ASSUME IInv, NEW ops, Execute(ops), NEW to, Branch(to), UNCHANGED outExit
  PROVE  IInv'
<1>1. /\ left > 0 /\ gas' \in Nat /\ prepaid' \in Int /\ entered' \in BOOLEAN
      /\ outExit' \in 0 .. U32 - 1 /\ 0 \in 0 .. U32 - 1
  BY ExecuteTypes, Widths DEF IInv, TypeOK
<1>2. CASE to \in prog.starts
  <2>1. to \in 0 .. U32 - 1
    BY <1>2, ProgramFacts, Widths
  <2> QED BY <1>1, <1>2, <2>1, GoOnKeepsInv DEF Branch
<1>3. CASE to \notin prog.starts
  BY <1>1, <1>3, StopKeepsInv DEF Branch, Finished
<1> QED BY <1>2, <1>3

LEMMA StepKeepsInv == ASSUME IInv, Step PROVE IInv'
<1>0. 0 \in 0 .. U32 - 1 /\ outExit \in 0 .. U32 - 1 /\ prepaid \in Int /\ entered \in BOOLEAN
  BY Widths DEF IInv, TypeOK
<1>1. CASE StepNowhere
  <2>1. gas' \in Nat
    BY <1>1, ChargeType, GasTypes DEF StepNowhere
  <2>2. PICK st \in {"OOG", "PANIC"} : Stop(st, 0)
    BY <1>1 DEF StepNowhere
  <2> QED BY <1>0, <1>1, <2>1, <2>2, StopKeepsInv DEF StepNowhere, Finished
<1>2. CASE StepOutOfGas
  <2>1. gas' \in Nat
    BY <1>2, ChargeType, InstructionFacts DEF StepOutOfGas
  <2> QED BY <1>0, <1>2, <2>1, StopKeepsInv DEF StepOutOfGas, Finished
<1>3. CASE StepInvalid
  BY <1>0, <1>3, ExecuteTypes, StopKeepsInv DEF StepInvalid, Finished
<1>4. CASE StepOk
  <2>1. NextAfter(pc) \in 0 .. U32 - 1
    BY <1>4, ExecuteTypes, InstructionFacts, ProgramFacts, Widths DEF StepOk
  <2> QED BY <1>0, <1>4, <2>1, ExecuteTypes, GoOnKeepsInv DEF StepOk
<1>5. CASE StepStaticJump
  BY <1>5, BranchKeepsInv DEF StepStaticJump
<1>6. ASSUME NEW address \in JumpAddrs, StepDynamicJump(address) PROVE IInv'
  <2> DEFINE index == address \div JUMP_ALIGNMENT_FACTOR
  <2>1. \/ \E st \in {"HALT", "PANIC"} : Stop(st, 0)
        \/ Branch(prog.jumps[index])
    BY <1>6 DEF StepDynamicJump
  <2>2. Execute({"JUMP_IND"}) /\ UNCHANGED outExit
    BY <1>6 DEF StepDynamicJump
  <2>3. ASSUME NEW st \in {"HALT", "PANIC"}, Stop(st, 0) PROVE IInv'
    BY <1>0, <2>2, <2>3, ExecuteTypes, StopKeepsInv DEF Finished
  <2>4. ASSUME Branch(prog.jumps[index]) PROVE IInv'
    BY <2>2, <2>4, BranchKeepsInv
  <2> QED BY <2>1, <2>3, <2>4
<1>7. CASE StepHostCall
  <2>1. Execute({"ECALLI"}) /\ IsInstruction(prog, pc) /\ Instruction = "ECALLI"
    BY <1>7, ExecuteTypes DEF StepHostCall
  <2>2. /\ prog.arg[pc] \in 0 .. U32 - 1 /\ NextAfter(pc) \in 0 .. U32 - 1
        /\ NextAfter(pc) # NO_PC
    BY <2>1, InstructionFacts, ProgramFacts, Widths DEF NO_PC
  <2>3. gas' \in Nat /\ prepaid' \in Int /\ entered' \in BOOLEAN
    BY <2>1, ExecuteTypes
  <2>4. /\ status' = "HOST" /\ exitCode' = prog.arg[pc] /\ outExit' = prog.arg[pc]
        /\ nextPc' = NextAfter(pc) /\ left' = 0 /\ ret' = FALSE /\ prog' = prog /\ pc' = pc
    BY <1>7 DEF StepHostCall
  <2>5. "HOST" \in Status /\ 0 \in Nat
    BY DEF Status
  <2>6. Running'
    BY <2>2, <2>4 DEF Running, NO_PC
  <2>7. TypeOK'
    BY <2>2, <2>3, <2>4, <2>5 DEF IInv, TypeOK
  <2> QED BY <2>6, <2>7 DEF IInv
<1>8. ASSUME NEW address \in FaultAddrs, NEW isAccess \in BOOLEAN, StepFault(address, isAccess)
      PROVE IInv'
  <2>1. address \in 0 .. U32 - 1 /\ Execute({"LOAD"}) /\ outExit' = address
        /\ (Stop("PANIC", 0) \/ Stop("FAULT", address))
    BY <1>8, BoundsAssumption DEF StepFault
  <2>2. CASE Stop("PANIC", 0)
    BY <1>0, <2>1, <2>2, ExecuteTypes, StopKeepsInv DEF Finished
  <2>3. CASE Stop("FAULT", address)
    BY <2>1, <2>3, ExecuteTypes, StopKeepsInv DEF Finished
  <2> QED BY <2>1, <2>2, <2>3
<1>9. CASE StepOutOfMemory
  BY <1>0, <1>9, ExecuteTypes, StopKeepsInv DEF StepOutOfMemory, Finished
<1>10. CASE StepTrap
  BY <1>0, <1>10, ExecuteTypes, StopKeepsInv DEF StepTrap, Finished
<1> QED BY <1>1, <1>2, <1>3, <1>4, <1>5, <1>6, <1>7, <1>8, <1>9, <1>10 DEF Step

LEMMA CallKeepsInv == ASSUME IInv, NEW n \in 0 .. MaxSteps, Call(n) PROVE IInv'
<1>1. left = 0 /\ n \in Nat /\ NO_PC \in 0 .. U32 - 1
  BY BoundsAssumption, Widths DEF Call, Idle, NO_PC
<1>2. CASE Resume(n)
  <2>1. /\ status' = "OK" /\ pc' = nextPc /\ nextPc' = NO_PC /\ left' = n /\ ret' = TRUE
        /\ prog' = prog /\ exitCode' = exitCode /\ gas' = gas /\ outExit' = outExit
    BY <1>2 DEF Resume
  <2>2. prepaid' \in Int /\ entered' \in BOOLEAN
    <3>1. CASE UNCHANGED <<prepaid, entered>>
      BY <3>1 DEF IInv, TypeOK
    <3>2. CASE Redirected(nextPc)
      BY <3>2 DEF Redirected
    <3> QED BY <1>2, <3>1, <3>2 DEF Resume
  <2>3. "OK" \in Status
    BY DEF Status
  <2>4. Running'
    BY <2>1 DEF Running, NO_PC
  <2>5. TypeOK'
    BY <1>1, <2>1, <2>2, <2>3 DEF IInv, TypeOK
  <2> QED BY <2>4, <2>5 DEF IInv
<1>3. CASE Refuse
  BY <1>1, <1>3 DEF Refuse, IInv, TypeOK, Running
<1>4. CASE TakeNextPc
  BY <1>1, <1>4 DEF TakeNextPc, Redirected, IInv, TypeOK, Running
<1>5. CASE Begin(n)
  BY <1>1, <1>5 DEF Begin, IInv, TypeOK, Running
<1> QED BY <1>2, <1>3, <1>4, <1>5 DEF Call

LEMMA NextKeepsInv == IInv /\ [Next]_vars => IInv'
<1> SUFFICES ASSUME IInv, [Next]_vars PROVE IInv'
  OBVIOUS
<1>1. CASE Step
  BY <1>1, StepKeepsInv
<1>2. ASSUME NEW n \in 0 .. MaxSteps, Call(n) PROVE IInv'
  BY <1>2, CallKeepsInv
<1>3. ASSUME NEW p \in EntryPcs, SetNextPc(p) PROVE IInv'
  <2>1. p \in 0 .. U32 - 1 /\ p # NO_PC
    BY BoundsAssumption, Widths DEF NO_PC
  <2> QED BY <1>3, <2>1 DEF SetNextPc, Idle, IInv, TypeOK, Running
<1>4. ASSUME NEW g \in 0 .. MaxGas, SetGas(g) PROVE IInv'
  BY <1>4, BoundsAssumption DEF SetGas, IInv, TypeOK, Running
<1>5. CASE UNCHANGED vars
  BY <1>5 DEF vars, IInv, TypeOK, Running
<1> QED BY <1>1, <1>2, <1>3, <1>4, <1>5 DEF Next

\* The fields of the interpreter keep their types, the loop never runs past a
\* status that is not OK, and a host call always leaves a place to resume at.
THEOREM InvariantTheorem == Spec => []IInv
BY InitEstablishesInv, NextKeepsInv, PTL DEF Spec

-----------------------------------------------------------------------------
(* The refinement: AbstractMachine sees the program counter that was set   *)
(* last, and a code only where one means something.                        *)

APc == IF status \in {"OK", "HOST"} /\ nextPc # NO_PC THEN nextPc ELSE pc
AExit == IF status \in {"HOST", "FAULT"} THEN exitCode ELSE 0

\* Within a call, the abstract machine is at pc and sees the same instruction.
LEMMA SameInstruction ==
  ASSUME IInv, left > 0
  PROVE  /\ status = "OK" /\ nextPc = NO_PC /\ APc = pc /\ AExit = 0
         /\ Machine!Op = IF IsInstruction(prog, pc) THEN Instruction ELSE "MISSING"
         /\ Machine!Cost = IF IsInstruction(prog, pc) THEN GasCost ELSE GAS["MISSING"]
         /\ Machine!Following = NextAfter(pc)
<1>1. status = "OK" /\ nextPc = NO_PC /\ APc = pc /\ AExit = 0
  BY DEF IInv, Running, APc, AExit
<1>2. Machine!IsInstruction(prog, pc) = IsInstruction(prog, pc)
  BY DEF Machine!IsInstruction, IsInstruction
<1>3. Machine!SkipBytes(prog, pc) = SkipBytes(prog, pc) /\ Machine!GAS = GAS
  BY DEF Machine!SkipBytes, SkipBytes, Machine!GAS, GAS, Machine!Opcode, Opcode,
         Machine!Terminating, Terminating
<1>4. Machine!Op = IF IsInstruction(prog, pc) THEN Instruction ELSE "MISSING"
  BY <1>1, <1>2 DEF Machine!Op, Instruction, APc
<1>5. Machine!Cost = IF IsInstruction(prog, pc) THEN GasCost ELSE GAS["MISSING"]
  BY <1>1, <1>2, <1>3 DEF Machine!Cost, GasCost, APc
<1>6. Machine!Following = NextAfter(pc)
  BY <1>1, <1>3 DEF Machine!Following, NextAfter, APc
<1> QED BY <1>1, <1>4, <1>5, <1>6

LEMMA ExecutePays ==
  ASSUME IInv, NEW ops, Execute(ops), prog' = prog
  PROVE  Machine!Pay /\ Machine!Op \in ops /\ left > 0
<1>1. left > 0 /\ IsInstruction(prog, pc) /\ Instruction \in ops
      /\ gas' = gas - GasCost /\ GasCost <= gas
  BY ExecuteTypes
<1> QED BY <1>1, SameInstruction DEF Machine!Pay

\* To stop is to be halted where the machine is,
LEMMA StopHalts ==
  ASSUME IInv, left > 0, NEW st \in Finished, NEW code, Stop(st, code)
  PROVE  Machine!Halted(st, IF st = "FAULT" THEN code ELSE 0) /\ prog' = prog
BY SameInstruction DEF Stop, Machine!Halted, APc, Finished

\* and to go on is to arrive.
LEMMA GoOnArrives ==
  ASSUME IInv, left > 0, NEW to, GoOn(to)
  PROVE  Machine!Arrive(to) /\ prog' = prog
BY SameInstruction DEF GoOn, Machine!Arrive, APc, AExit

\* A jump arrives at the start of a block or panics.
LEMMA BranchJumps ==
  ASSUME IInv, NEW ops \in {{"JUMP", "BRANCH"}, {"JUMP_IND"}}, Execute(ops), NEW to, Branch(to)
  PROVE  Machine!AJump \/ Machine!APanic
<1>1. CASE to \in prog.starts
  <2>1. GoOn(to)
    BY <1>1 DEF Branch
  <2> QED BY <1>1, <2>1, ExecutePays, ExecuteTypes, GoOnArrives DEF Machine!AJump
<1>2. CASE to \notin prog.starts
  <2>1. Stop("PANIC", 0) /\ "PANIC" \in Finished
    BY <1>2 DEF Branch, Finished
  <2>2. Machine!Halted("PANIC", 0) /\ prog' = prog
    BY <2>1, ExecuteTypes, StopHalts
  <2> QED BY <2>2, ExecutePays DEF Machine!APanic
<1> QED BY <1>1, <1>2

\* A step that panics is a panic of the abstract machine.
LEMMA StopPanics ==
  ASSUME IInv, NEW ops, Execute(ops), ops \cap {"FALLTHROUGH", "ALU", "ECALLI"} = {},
         NEW code, Stop("PANIC", code)
  PROVE  Machine!APanic
<1>1. Machine!Halted("PANIC", 0) /\ prog' = prog
  BY ExecuteTypes, StopHalts DEF Finished
<1> QED BY <1>1, ExecutePays DEF Machine!APanic

LEMMA StepRefines == ASSUME IInv, Step PROVE Machine!ANext
<1>1. CASE StepNowhere
  <2>1. left > 0 /\ ~IsInstruction(prog, pc) /\ Charge(GAS["MISSING"])
        /\ Stop(IF GAS["MISSING"] > gas THEN "OOG" ELSE "PANIC", 0)
    BY <1>1 DEF StepNowhere
  <2>2. Machine!Op = "MISSING" /\ Machine!Cost = GAS["MISSING"] /\ status = "OK"
    BY <2>1, SameInstruction
  <2>3. GAS["MISSING"] \in Nat /\ gas \in Nat
    BY GasTypes DEF IInv, TypeOK
  <2>4. CASE GAS["MISSING"] > gas
    <3>1. Machine!Halted("OOG", 0) /\ prog' = prog
      BY <2>1, <2>4, StopHalts DEF Finished
    <3> QED BY <2>1, <2>2, <2>4, <3>1 DEF Charge, Machine!ARunDry, Machine!ANext
  <2>5. CASE ~(GAS["MISSING"] > gas)
    <3>1. Machine!Halted("PANIC", 0) /\ prog' = prog
      BY <2>1, <2>5, StopHalts DEF Finished
    <3>2. Machine!Pay
      BY <2>1, <2>2, <2>3, <2>5, <3>1 DEF Charge, Machine!Pay
    <3> QED BY <2>2, <3>1, <3>2 DEF Machine!APanic, Machine!ANext
  <2> QED BY <2>4, <2>5
<1>2. CASE StepOutOfGas
  <2>1. left > 0 /\ IsInstruction(prog, pc) /\ GasCost > gas /\ Charge(GasCost) /\ Stop("OOG", 0)
    BY <1>2 DEF StepOutOfGas
  <2>2. Machine!Cost = GasCost /\ status = "OK" /\ Machine!Halted("OOG", 0) /\ prog' = prog
    BY <2>1, SameInstruction, StopHalts DEF Finished
  <2> QED BY <2>1, <2>2 DEF Charge, Machine!ARunDry, Machine!ANext
<1>3. CASE StepInvalid
  BY <1>3, StopPanics DEF StepInvalid, Machine!ANext
<1>4. CASE StepOk
  <2>1. /\ Execute({"FALLTHROUGH", "ALU", "LOAD", "SBRK", "BRANCH"})
        /\ GoOn(NextAfter(pc))
    BY <1>4 DEF StepOk
  <2>2. left > 0 /\ Machine!Following = NextAfter(pc)
    BY <2>1, ExecuteTypes, SameInstruction
  <2>3. Machine!Arrive(NextAfter(pc)) /\ prog' = prog
    BY <2>1, <2>2, GoOnArrives
  <2> QED BY <2>1, <2>2, <2>3, ExecutePays DEF Machine!AProceed, Machine!ANext
<1>5. CASE StepStaticJump
  BY <1>5, BranchJumps DEF StepStaticJump, Machine!ANext
<1>6. ASSUME NEW address \in JumpAddrs, StepDynamicJump(address) PROVE Machine!ANext
  <2>1. Execute({"JUMP_IND"})
    BY <1>6 DEF StepDynamicJump
  <2>2. \/ Stop("HALT", 0) \/ Stop("PANIC", 0)
        \/ Branch(prog.jumps[address \div JUMP_ALIGNMENT_FACTOR])
    BY <1>6 DEF StepDynamicJump
  <2>3. CASE Stop("HALT", 0)
    <3>1. Machine!Halted("HALT", 0) /\ prog' = prog
      BY <2>1, <2>3, ExecuteTypes, StopHalts DEF Finished
    <3> QED BY <2>1, <3>1, ExecutePays DEF Machine!AHalt, Machine!ANext
  <2>4. CASE Stop("PANIC", 0)
    BY <2>1, <2>4, StopPanics DEF Machine!ANext
  <2>5. CASE Branch(prog.jumps[address \div JUMP_ALIGNMENT_FACTOR])
    BY <2>1, <2>5, BranchJumps DEF Machine!ANext
  <2> QED BY <2>2, <2>3, <2>4, <2>5
<1>7. CASE StepHostCall
  <2>1. /\ Execute({"ECALLI"}) /\ prog' = prog
        /\ status' = "HOST" /\ exitCode' = prog.arg[pc] /\ nextPc' = NextAfter(pc)
    BY <1>7 DEF StepHostCall
  <2>2. left > 0 /\ IsInstruction(prog, pc) /\ Machine!Pay /\ Machine!Op = "ECALLI"
    BY <2>1, ExecuteTypes, ExecutePays
  <2>3. NextAfter(pc) \in Nat /\ NextAfter(pc) # NO_PC
    BY <2>2, InstructionFacts, ProgramFacts, Widths DEF NO_PC
  <2>4. Machine!Following = NextAfter(pc) /\ APc = pc
    BY <2>2, SameInstruction
  <2>5. APc' = NextAfter(pc) /\ AExit' = prog.arg[pc]
    BY <2>1, <2>3 DEF APc, AExit, NO_PC
  <2>6. Machine!AHostCall
    BY <2>1, <2>2, <2>4, <2>5 DEF Machine!AHostCall, APc, AExit
  <2> QED BY <2>6 DEF Machine!ANext
<1>8. ASSUME NEW address \in FaultAddrs, NEW isAccess \in BOOLEAN, StepFault(address, isAccess)
      PROVE Machine!ANext
  <2>1. Execute({"LOAD"})
    BY <1>8 DEF StepFault
  <2>2. CASE isAccess \/ address < RESERVED_MEMORY
    BY <1>8, <2>1, <2>2, StopPanics DEF StepFault, Machine!ANext
  <2>3. CASE ~(isAccess \/ address < RESERVED_MEMORY)
    <3>1. address \in RESERVED_MEMORY .. U32 - 1
      BY <2>3, BoundsAssumption, Widths
    <3>2. Machine!Halted("FAULT", address) /\ prog' = prog
      BY <1>8, <2>1, <2>3, ExecuteTypes, StopHalts DEF StepFault, Finished
    <3> QED BY <2>1, <3>1, <3>2, ExecutePays DEF Machine!AFault, Machine!ANext
  <2> QED BY <2>2, <2>3
<1>9. CASE StepOutOfMemory
  BY <1>9, StopPanics DEF StepOutOfMemory, Machine!ANext
<1>10. CASE StepTrap
  BY <1>10, StopPanics DEF StepTrap, Machine!ANext
<1> QED BY <1>1, <1>2, <1>3, <1>4, <1>5, <1>6, <1>7, <1>8, <1>9, <1>10 DEF Step

LEMMA NextRefines == IInv /\ [Next]_vars => [Machine!ANext]_(Machine!avars)
<1> SUFFICES ASSUME IInv, [Next]_vars PROVE Machine!ANext \/ UNCHANGED Machine!avars
  OBVIOUS
<1>0. Machine!avars = <<prog, APc, gas, status, AExit>>
  BY DEF Machine!avars, APc, AExit
<1>1. CASE Step
  BY <1>1, StepRefines
<1>2. ASSUME NEW n \in 0 .. MaxSteps, Call(n) PROVE Machine!ANext \/ UNCHANGED Machine!avars
  <2>1. CASE Resume(n)
    <3>1. /\ status = "HOST" /\ status' = "OK" /\ pc' = nextPc /\ nextPc' = NO_PC
          /\ prog' = prog /\ gas' = gas
      BY <2>1 DEF Resume
    <3>2. nextPc # NO_PC
      BY <3>1 DEF IInv, Running
    <3>3. APc' = APc /\ AExit' = 0
      BY <3>1, <3>2 DEF APc, AExit, NO_PC
    <3>4. Machine!AResume
      BY <3>1, <3>3 DEF Machine!AResume, APc, AExit
    <3> QED BY <3>4 DEF Machine!ANext
  <2>2. CASE Refuse
    BY <2>2, <1>0 DEF Refuse, APc, AExit, Machine!avars
  <2>3. CASE TakeNextPc
    BY <2>3, <1>0 DEF TakeNextPc, APc, AExit, NO_PC, Machine!avars
  <2>4. CASE Begin(n)
    BY <2>4, <1>0 DEF Begin, APc, AExit, NO_PC, Machine!avars
  <2> QED BY <1>2, <2>1, <2>2, <2>3, <2>4 DEF Call
<1>3. ASSUME NEW p \in EntryPcs, SetNextPc(p) PROVE Machine!ANext \/ UNCHANGED Machine!avars
  <2>1. /\ nextPc' = p /\ prog' = prog /\ pc' = pc /\ status' = status
        /\ exitCode' = exitCode /\ gas' = gas
    BY <1>3 DEF SetNextPc
  <2>2. p \in Nat /\ p # NO_PC
    BY BoundsAssumption, Widths DEF NO_PC
  <2>3. CASE status \in {"OK", "HOST"}
    <3>1. APc' = p /\ AExit' = AExit
      BY <2>1, <2>2, <2>3 DEF APc, AExit, NO_PC
    <3>2. Machine!ARedirect
      BY <2>1, <2>2, <2>3, <3>1 DEF Machine!ARedirect, APc, AExit
    <3> QED BY <3>2 DEF Machine!ANext
  <2>4. CASE status \notin {"OK", "HOST"}
    BY <2>1, <2>4 DEF Machine!avars
  <2> QED BY <2>3, <2>4
<1>4. ASSUME NEW g \in 0 .. MaxGas, SetGas(g) PROVE Machine!ANext \/ UNCHANGED Machine!avars
  <2>1. g \in Nat
    BY BoundsAssumption
  <2>2. Machine!ARefuel
    BY <1>4, <2>1 DEF SetGas, Machine!ARefuel, NO_PC
  <2> QED BY <2>2 DEF Machine!ANext
<1>5. CASE UNCHANGED vars
  BY <1>5 DEF vars, Machine!avars, NO_PC
<1> QED BY <1>1, <1>2, <1>3, <1>4, <1>5 DEF Next

LEMMA InitRefines == Init => Machine!AInit
BY BoundsAssumption, Widths DEF Init, Machine!AInit, NO_PC

\* The interpreter implements the machine its host is promised: cutting a run
\* into calls, resuming it and redirecting it show nothing else.
THEOREM RefinementTheorem == Spec => ImplementsMachine
<1>1. Init => Machine!AInit
  BY InitRefines
<1>2. IInv /\ [Next]_vars => [Machine!ANext]_(Machine!avars)
  BY NextRefines
<1> QED BY <1>1, <1>2, InvariantTheorem, PTL DEF Spec, ImplementsMachine, Machine!ASpec

-----------------------------------------------------------------------------
(* Gas.                                                                    *)

\* A machine that is in the middle of a block it did not enter at its start
\* has been charged nothing in advance.
GasInv == IInv /\ GasPrepaid /\ (~entered => prepaid = 0)

\* Nothing remains of a block at the start of one or at the end of the code.
LEMMA NothingRemains ==
  ASSUME IInv, NEW n \in prog.starts \cup {prog.len}
  PROVE  Remaining(n) = 0
<1>1. IsProgram(prog) /\ n \in 0 .. prog.len
  BY ProgramsAreDecoded, ProgramFacts DEF IInv, TypeOK
<1> QED BY <1>1, RestFacts DEF Remaining

\* What an instruction costs: with gas per block, the rest of the block from
\* it on if it starts one.
LEMMA CostFacts ==
  ASSUME IInv, IsInstruction(prog, pc)
  PROVE  /\ GAS[Instruction] \in Nat /\ Remaining(NextAfter(pc)) \in Nat
         /\ Remaining(pc) =
              IF pc \in prog.starts \/ ~prog.useBlockGas THEN 0
              ELSE GAS[Instruction] + Remaining(NextAfter(pc))
         /\ GasCost =
              IF pc \in prog.starts \/ ~prog.useBlockGas
              THEN GAS[Instruction] + Remaining(NextAfter(pc)) ELSE 0
         /\ Instruction \in Terminating => Remaining(NextAfter(pc)) = 0
<1>1. /\ IsProgram(prog) /\ IsCharged(prog) /\ pc \in 0 .. prog.len - 1 /\ prog.len \in Nat
      /\ prog.useBlockGas \in BOOLEAN /\ GAS[Instruction] \in Nat
  BY ProgramsAreDecoded, InstructionFacts, ProgramFacts, GasTypes
     DEF IInv, TypeOK, IsProgram
<1>2. NextAfter(pc) = NextOf(prog, pc) /\ NextAfter(pc) \in 0 .. prog.len
  BY InstructionFacts, <1>1 DEF NextAfter, NextOf
<1>3. Own(prog, pc) = GAS[Instruction]
  BY DEF Own, Instruction
<1>4. /\ RestOfBlock(prog)[NextAfter(pc)] \in Nat
      /\ RestOfBlock(prog)[pc] =
           IF pc \in prog.starts THEN 0 ELSE GAS[Instruction] + RestOfBlock(prog)[NextAfter(pc)]
  BY <1>1, <1>2, <1>3, RestFacts
<1>5. /\ GasCost = CASE ~prog.useBlockGas -> GAS[Instruction]
                     [] prog.useBlockGas /\ pc \in prog.starts ->
                          GAS[Instruction] + RestOfBlock(prog)[NextAfter(pc)]
                     [] OTHER -> 0
      /\ Instruction \in Terminating => NextAfter(pc) \in prog.starts \cup {prog.len}
  BY <1>1 DEF IsCharged, GasCost, Instruction, NextAfter
<1>6. Instruction \in Terminating => Remaining(NextAfter(pc)) = 0
  BY <1>5, NothingRemains
<1> HIDE DEF GasCost, Instruction
<1>7. CASE prog.useBlockGas
  BY <1>1, <1>4, <1>5, <1>6, <1>7 DEF Remaining
<1>8. CASE ~prog.useBlockGas
  BY <1>1, <1>5, <1>6, <1>8 DEF Remaining
<1> QED BY <1>1, <1>7, <1>8

\* Executing an instruction leaves what remains behind it.
LEMMA ExecuteSpends ==
  ASSUME GasInv, NEW ops, Execute(ops)
  PROVE  /\ ~entered' => prepaid' = 0
         /\ entered' => prepaid' = Remaining(NextAfter(pc))
         /\ ops \subseteq Terminating => Remaining(NextAfter(pc)) = 0
         /\ status = "OK" /\ nextPc = NO_PC
<1>1. /\ IInv /\ status = "OK" /\ nextPc = NO_PC /\ IsInstruction(prog, pc) /\ Instruction \in ops
      /\ entered' = (entered \/ pc \in prog.starts)
      /\ prepaid' = IF entered' THEN prepaid + GasCost - GAS[Instruction] ELSE 0
  BY DEF GasInv, Execute, IInv, Running
<1>2. (entered => prepaid = Remaining(pc)) /\ (~entered => prepaid = 0) /\ prepaid \in Int
  BY <1>1 DEF GasInv, GasPrepaid, IInv, TypeOK
<1> HIDE DEF GasCost, Instruction
<1>3. CASE pc \in prog.starts \/ ~prog.useBlockGas
  <2>1. prepaid = 0 /\ GasCost = GAS[Instruction] + Remaining(NextAfter(pc))
    BY <1>1, <1>2, <1>3, CostFacts
  <2>2. GAS[Instruction] \in Nat /\ Remaining(NextAfter(pc)) \in Nat
    BY <1>1, CostFacts
  <2> QED BY <1>1, <2>1, <2>2, CostFacts
<1>4. CASE ~(pc \in prog.starts \/ ~prog.useBlockGas)
  <2>1. /\ entered' = entered /\ GasCost = 0
        /\ Remaining(pc) = GAS[Instruction] + Remaining(NextAfter(pc))
    BY <1>1, <1>4, CostFacts DEF GasInv, IInv, TypeOK
  <2>2. GAS[Instruction] \in Nat /\ Remaining(NextAfter(pc)) \in Nat
    BY <1>1, CostFacts
  <2> QED BY <1>1, <1>2, <2>1, <2>2, CostFacts
<1> QED BY <1>3, <1>4

\* Nothing is owed by a machine that has stopped,
LEMMA StopOwesNothing ==
  ASSUME NEW st \in Finished, NEW code, Stop(st, code), IInv', ~entered' => prepaid' = 0
  PROVE  GasInv'
BY DEF Stop, Finished, GasInv, GasPrepaid

\* and one that goes on owes what remains where it goes.
LEMMA GoOnOwesRest ==
  ASSUME NEW to, GoOn(to), status = "OK", nextPc = NO_PC, IInv',
         ~entered' => prepaid' = 0, entered' => prepaid' = Remaining(to)
  PROVE  GasInv'
<1>1. status' = "OK" /\ pc' = to /\ prog' = prog
  BY DEF GoOn
<1>2. entered' => prepaid' = Remaining(pc)'
  BY <1>1 DEF Remaining
<1> QED BY <1>1, <1>2 DEF GasInv, GasPrepaid

\* Behind an instruction that terminates a block nothing remains, nor where a
\* branch may lead.
LEMMA BranchOwesNothing ==
  ASSUME GasInv, NEW ops, Execute(ops), ops \subseteq Terminating, NEW to, Branch(to), IInv'
  PROVE  GasInv'
<1>1. /\ ~entered' => prepaid' = 0
      /\ entered' => prepaid' = 0
      /\ status = "OK" /\ nextPc = NO_PC
  BY ExecuteSpends
<1>2. CASE to \in prog.starts
  <2>1. Remaining(to) = 0
    BY <1>2, NothingRemains DEF GasInv
  <2> QED BY <1>1, <1>2, <2>1, GoOnOwesRest DEF Branch
<1>3. CASE to \notin prog.starts
  BY <1>1, <1>3, StopOwesNothing DEF Branch, Finished
<1> QED BY <1>2, <1>3

LEMMA StepKeepsGas == ASSUME GasInv, Step PROVE GasInv'
<1>0. IInv' /\ (~entered => prepaid = 0)
  BY StepKeepsInv DEF GasInv
<1>1. CASE StepNowhere
  <2>1. PICK st \in {"OOG", "PANIC"} : Stop(st, 0)
    BY <1>1 DEF StepNowhere
  <2> QED BY <1>0, <1>1, <2>1, StopOwesNothing DEF StepNowhere, Finished
<1>2. CASE StepOutOfGas
  BY <1>0, <1>2, StopOwesNothing DEF StepOutOfGas, Finished
<1>3. CASE StepInvalid
  BY <1>0, <1>3, ExecuteSpends, StopOwesNothing DEF StepInvalid, Finished
<1>4. CASE StepOk
  BY <1>0, <1>4, ExecuteSpends, GoOnOwesRest DEF StepOk
<1>5. CASE StepStaticJump
  BY <1>0, <1>5, BranchOwesNothing DEF StepStaticJump, Terminating
<1>6. ASSUME NEW address \in JumpAddrs, StepDynamicJump(address) PROVE GasInv'
  <2>1. Execute({"JUMP_IND"}) /\ {"JUMP_IND"} \subseteq Terminating
    BY <1>6 DEF StepDynamicJump, Terminating
  <2>2. \/ \E st \in {"HALT", "PANIC"} : Stop(st, 0)
        \/ Branch(prog.jumps[address \div JUMP_ALIGNMENT_FACTOR])
    BY <1>6 DEF StepDynamicJump
  <2>3. ASSUME NEW st \in {"HALT", "PANIC"}, Stop(st, 0) PROVE GasInv'
    BY <1>0, <2>1, <2>3, ExecuteSpends, StopOwesNothing DEF Finished
  <2>4. CASE Branch(prog.jumps[address \div JUMP_ALIGNMENT_FACTOR])
    BY <1>0, <2>1, <2>4, BranchOwesNothing
  <2> QED BY <2>2, <2>3, <2>4
<1>7. CASE StepHostCall
  <2>1. /\ Execute({"ECALLI"}) /\ status' = "HOST" /\ pc' = pc /\ prog' = prog
    BY <1>7 DEF StepHostCall
  <2>2. /\ ~entered' => prepaid' = 0
        /\ entered' => prepaid' = Remaining(NextAfter(pc))
    BY <2>1, ExecuteSpends
  <2>3. Remaining(NextAfter(pc))' = Remaining(NextAfter(pc))
    BY <2>1 DEF Remaining, NextAfter
  <2> QED BY <1>0, <2>1, <2>2, <2>3 DEF GasInv, GasPrepaid
<1>8. ASSUME NEW address \in FaultAddrs, NEW isAccess \in BOOLEAN, StepFault(address, isAccess)
      PROVE GasInv'
  <2>1. Execute({"LOAD"}) /\ (Stop("PANIC", 0) \/ Stop("FAULT", address))
    BY <1>8 DEF StepFault
  <2> QED BY <1>0, <2>1, ExecuteSpends, StopOwesNothing DEF Finished
<1>9. CASE StepOutOfMemory
  BY <1>0, <1>9, ExecuteSpends, StopOwesNothing DEF StepOutOfMemory, Finished
<1>10. CASE StepTrap
  BY <1>0, <1>10, ExecuteSpends, StopOwesNothing DEF StepTrap, Finished
<1> QED BY <1>1, <1>2, <1>3, <1>4, <1>5, <1>6, <1>7, <1>8, <1>9, <1>10 DEF Step

\* Where a machine is sent, nothing has been charged: it is the start of a
\* block, or its block is not entered there.
LEMMA RedirectedOwesNothing ==
  ASSUME IInv, NEW p, Redirected(p), entered'
  PROVE  prepaid' = Remaining(p)
<1>1. CASE p \in prog.starts
  BY <1>1, NothingRemains DEF Redirected
<1>2. CASE ~prog.useBlockGas
  BY <1>2 DEF Redirected, Remaining
<1> QED BY <1>1, <1>2 DEF Redirected

LEMMA CallKeepsGas == ASSUME GasInv, NEW n \in 0 .. MaxSteps, Call(n) PROVE GasInv'
<1>0. IInv /\ IInv' /\ GasPrepaid /\ (~entered => prepaid = 0)
  BY CallKeepsInv DEF GasInv
<1>1. CASE Resume(n)
  <2>1. status = "HOST" /\ status' = "OK" /\ pc' = nextPc /\ prog' = prog
    BY <1>1 DEF Resume
  <2>2. (~entered' => prepaid' = 0) /\ (entered' => prepaid' = Remaining(nextPc))
    <3>1. CASE nextPc = NextAfter(pc)
      BY <1>0, <1>1, <2>1, <3>1 DEF Resume, GasPrepaid
    <3>2. CASE nextPc # NextAfter(pc)
      <4>1. Redirected(nextPc) /\ prepaid' = 0
        BY <1>1, <3>2 DEF Resume, Redirected
      <4> QED BY <1>0, <4>1, RedirectedOwesNothing
    <3> QED BY <3>1, <3>2
  <2>3. Remaining(pc)' = Remaining(nextPc)
    BY <2>1 DEF Remaining
  <2> QED BY <1>0, <2>1, <2>2, <2>3 DEF GasInv, GasPrepaid
<1>2. CASE Refuse
  BY <1>0, <1>2 DEF Refuse, Finished, GasInv, GasPrepaid
<1>3. CASE TakeNextPc
  <2>1. status' = "OK" /\ pc' = nextPc /\ prog' = prog /\ Redirected(nextPc) /\ prepaid' = 0
    BY <1>3 DEF TakeNextPc, Redirected
  <2>2. entered' => prepaid' = Remaining(nextPc)
    BY <1>0, <2>1, RedirectedOwesNothing
  <2>3. Remaining(pc)' = Remaining(nextPc)
    BY <2>1 DEF Remaining
  <2> QED BY <1>0, <2>1, <2>2, <2>3 DEF GasInv, GasPrepaid
<1>4. CASE Begin(n)
  <2>1. /\ status' = status /\ nextPc' = nextPc /\ pc' = pc /\ prog' = prog
        /\ prepaid' = prepaid /\ entered' = entered /\ status = "OK" /\ NO_PC' = NO_PC
    BY <1>4 DEF Begin, NO_PC
  <2>2. Remaining(pc)' = Remaining(pc)
    BY <2>1 DEF Remaining
  <2> QED BY <1>0, <2>1, <2>2 DEF GasInv, GasPrepaid
<1> QED BY <1>1, <1>2, <1>3, <1>4 DEF Call

\* Nothing about gas in advance changes as long as the machine does not move.
LEMMA StillKeepsGas ==
  ASSUME GasInv, IInv', UNCHANGED <<prog, pc, status, prepaid, entered>>,
         nextPc' = nextPc \/ nextPc' # NO_PC
  PROVE  GasInv'
<1>1. /\ Remaining(pc)' = Remaining(pc)
      /\ Remaining(NextAfter(pc))' = Remaining(NextAfter(pc))
      /\ NO_PC' = NO_PC
  BY DEF Remaining, NextAfter, NO_PC
<1> QED BY <1>1 DEF GasInv, GasPrepaid

LEMMA NextKeepsGas == GasInv /\ [Next]_vars => GasInv'
<1> SUFFICES ASSUME GasInv, [Next]_vars PROVE GasInv'
  OBVIOUS
<1>0. IInv'
  BY NextKeepsInv DEF GasInv
<1>1. CASE Step
  BY <1>1, StepKeepsGas
<1>2. ASSUME NEW n \in 0 .. MaxSteps, Call(n) PROVE GasInv'
  BY <1>2, CallKeepsGas
<1>3. ASSUME NEW p \in EntryPcs, SetNextPc(p) PROVE GasInv'
  <2>1. p # NO_PC
    BY BoundsAssumption, Widths DEF NO_PC
  <2> QED BY <1>0, <1>3, <2>1, StillKeepsGas DEF SetNextPc
<1>4. ASSUME NEW g \in 0 .. MaxGas, SetGas(g) PROVE GasInv'
  BY <1>0, <1>4, StillKeepsGas DEF SetGas
<1>5. CASE UNCHANGED vars
  BY <1>0, <1>5, StillKeepsGas DEF vars
<1> QED BY <1>1, <1>2, <1>3, <1>4, <1>5 DEF Next

LEMMA InitEstablishesGas == Init => GasInv
<1> SUFFICES ASSUME Init PROVE GasInv
  OBVIOUS
<1>1. IInv
  BY InitEstablishesInv
<1>2. nextPc # NO_PC /\ status = "OK" /\ entered
  BY BoundsAssumption, Widths DEF Init, NO_PC
<1> QED BY <1>1, <1>2 DEF GasInv, GasPrepaid

\* What has been charged in a block that was entered at its start is what was
\* executed and what remains, at every instruction and every host call,
\* wherever calls of nextSteps end and whatever is set between them.
THEOREM GasPrepaidTheorem == Spec => []GasPrepaid
<1>1. GasInv => GasPrepaid
  BY DEF GasInv
<1> QED BY <1>1, InitEstablishesGas, NextKeepsGas, PTL DEF Spec
=============================================================================
