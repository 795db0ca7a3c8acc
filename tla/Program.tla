------------------------------ MODULE Program ------------------------------
(***************************************************************************)
(* The decoded program: assembly/program.ts.                               *)
(*                                                                         *)
(* deblob turns a blob into the tables the interpreter runs from: how far  *)
(* the next instruction is, where basic blocks start, what an instruction  *)
(* or a block costs and where the entries of the jump table lead.  A raw   *)
(* program r is                                                            *)
(*   code  - one [op, arg] per byte; what a byte means if it is not the    *)
(*           start of an instruction is never looked at, except its op     *)
(*   mask  - one bit per byte: an instruction starts here                  *)
(*   jumps - the jump table, each item the sequence of its bytes           *)
(* Opcodes are classes of opcodes with the same control behaviour, and arg *)
(* is the offset of a jump or the index of a host call.  Positions count   *)
(* from 0, as in the code; sequences from 1.                               *)
(***************************************************************************)
EXTENDS Integers, Sequences, SequencesExt

CONSTANTS
  MAX_SKIP,   \* 24 in the code
  BYTE_BASE,  \* number of values of a byte of a jump table item, 256
  U64, U32,   \* number of values of a u64 and of a u32
  U24         \* number of values of the gas in an entry of codeAndGas: 2^24

ASSUME WidthsAssumption ==
  /\ MAX_SKIP \in Nat /\ BYTE_BASE \in Nat \ {0, 1}
  /\ U64 \in Nat \ {0} /\ U32 \in 2 .. U64 /\ U24 \in 2 .. U32

\* Classes of the entries of INSTRUCTIONS: FALLTHROUGH goes on, ALU computes,
\* LOAD stands for every access to memory, JUMP for jump and load_imm_jump,
\* BRANCH for every branch_*, JUMP_IND for both indirect jumps.
Opcode == {"TRAP", "FALLTHROUGH", "ECALLI", "ALU", "LOAD", "SBRK",
           "JUMP", "BRANCH", "JUMP_IND", "MISSING"}
Terminating == {"TRAP", "FALLTHROUGH", "JUMP", "BRANCH", "JUMP_IND"}
GAS == [op \in Opcode |-> 1]

Size(r) == Len(r.code)
OpAt(r, i) == r.code[i + 1].op

IsCode(r) ==
  /\ r.code \in Seq([op : Opcode, arg : Int]) /\ r.mask \in Seq(BOOLEAN)
  /\ Len(r.mask) = Len(r.code)

\* A raw program: code that a u32 can count, and one of its values is left to
\* stand for no position; the index of a host call is a u32.
IsRaw(r) ==
  /\ IsCode(r) /\ Size(r) <= U32 - 2
  /\ r.jumps \in Seq(Seq(0 .. BYTE_BASE - 1))
  /\ \A i \in 0 .. Size(r) - 1 : OpAt(r, i) = "ECALLI" => r.code[i + 1].arg \in 0 .. U32 - 1

-----------------------------------------------------------------------------
(* Mask.                                                                   *)

\* Bytes from i to the next instruction or to the end of the code.
LastInstructionOffset(r) ==
  LET offset[i \in 0 .. Size(r)] ==
        IF i = Size(r) \/ r.mask[i + 1] THEN 0 ELSE offset[i + 1] + 1
  IN offset

\* Mutant of BytesToSkip: the cap is forgotten.
BytesToSkipUncapped(r) == [i \in 0 .. Size(r) - 1 |-> LastInstructionOffset(r)[i]]

BytesToSkip(r) ==
  [i \in 0 .. Size(r) - 1 |->
     IF LastInstructionOffset(r)[i] < MAX_SKIP + 1
     THEN LastInstructionOffset(r)[i] ELSE MAX_SKIP + 1]

Mask(r) == [len |-> Size(r), skip |-> BytesToSkip(r)]

IsInstruction(m, i) == i < m.len /\ m.skip[i] = 0

SkipBytes(m, i) == IF i + 1 < m.len THEN m.skip[i + 1] ELSE 0

-----------------------------------------------------------------------------
(* Basic blocks and gas.                                                   *)

\* BasicBlocks: the first byte and what follows a terminating instruction.
Starts(r, m) ==
  {n \in 0 .. Size(r) - 1 :
     \/ n = 0
     \/ \E i \in 0 .. n - 1 : /\ IsInstruction(m, i) /\ OpAt(r, i) \in Terminating
                              /\ n = i + 1 + SkipBytes(m, i)}

\* The positions the first loop of GasCosts looks at, and their costs; the
\* entries it jumps over keep the zero of a new array, opcode 0 being TRAP.
InstructionCosts(r, m) ==
  LET visited[n \in 0 .. Size(r)] ==
        IF n = Size(r) THEN {}
        ELSE {n} \cup visited[n + 1 + (IF IsInstruction(m, n) THEN SkipBytes(m, n) ELSE 0)]
  IN [n \in 0 .. Size(r) - 1 |->
        IF n \notin visited[0] THEN [op |-> "TRAP", gas |-> 0]
        ELSE [op |-> OpAt(r, n),
              gas |-> IF IsInstruction(m, n) THEN GAS[OpAt(r, n)] ELSE 0]]

\* The positions the second loop looks at, in order.
BlockWalk(r, m) ==
  LET walk[n \in 0 .. Size(r)] ==
        IF n = Size(r) THEN <<>> ELSE <<n>> \o walk[n + 1 + SkipBytes(m, n)]
  IN walk[0]

\* Mutant of BlockCosts: the last block is not assigned after the loop.
BlockCostsUnfinished(r, m, starts) ==
  LET Visit(acc, n) ==
        LET reset == [acc.costs EXCEPT ![n] = [op |-> OpAt(r, n), gas |-> 0]]
        IN IF n \in starts
           THEN [costs |-> [reset EXCEPT ![acc.start] =
                              [op |-> OpAt(r, acc.start), gas |-> acc.sum % U24]],
                 start |-> n, sum |-> acc.costs[n].gas]
           ELSE [acc EXCEPT !.costs = reset, !.sum = @ + acc.costs[n].gas]
  IN FoldLeft(Visit, [costs |-> InstructionCosts(r, m), start |-> 0, sum |-> 0],
              BlockWalk(r, m)).costs

\* The second loop: the sum of a block is assigned to its start when the next
\* start is met, and after the loop; of more gas than an entry has room for,
\* the shift drops the rest.  The code may not be empty: the last assignment
\* then indexes an empty array.
BlockCosts(r, m, starts) ==
  LET Assign(costs, start, sum) ==
        [costs EXCEPT ![start] = [op |-> OpAt(r, start), gas |-> sum % U24]]
      Visit(acc, n) ==
        LET reset == [acc.costs EXCEPT ![n] = [op |-> OpAt(r, n), gas |-> 0]]
        IN IF n \in starts
           THEN [costs |-> Assign(reset, acc.start, acc.sum),
                 start |-> n, sum |-> acc.costs[n].gas]
           ELSE [acc EXCEPT !.costs = reset, !.sum = @ + acc.costs[n].gas]
      all == FoldLeft(Visit, [costs |-> InstructionCosts(r, m), start |-> 0, sum |-> 0],
                      BlockWalk(r, m))
  IN Assign(all.costs, all.start, all.sum)

-----------------------------------------------------------------------------
(* Jump table.                                                             *)

\* Mutant of JumpItem: the most significant byte first.
JumpItemSwapped(bytes) ==
  FoldLeft(LAMBDA num, b : (num * BYTE_BASE + b) % U64, 0, bytes)

\* One item, least significant byte first.  An overflow is noticed if the
\* shift, or the addition, makes the number smaller.
JumpItem(bytes) ==
  LET Shift(num, b) ==
        LET shifted == (num * BYTE_BASE) % U64
            added == (shifted + b) % U64
        IN IF shifted < num \/ added < num THEN U64 - 1 ELSE added
  IN FoldLeft(Shift, 0, Reverse(bytes))

-----------------------------------------------------------------------------
\* What the interpreter is given.
Deblob(r, useBlockGas) ==
  LET m == Mask(r)
      starts == Starts(r, m)
  IN [len |-> m.len, skip |-> m.skip, starts |-> starts,
      costs |-> IF useBlockGas THEN BlockCosts(r, m, starts) ELSE InstructionCosts(r, m),
      jumps |-> [i \in 1 .. Len(r.jumps) |-> JumpItem(r.jumps[i])],
      arg |-> [i \in 0 .. m.len - 1 |-> r.code[i + 1].arg],
      useBlockGas |-> useBlockGas]
-----------------------------------------------------------------------------
\* What deblob guarantees of its tables.
IsProgram(p) ==
  /\ p.len \in 0 .. U32 - 2
  /\ p.skip \in [0 .. p.len - 1 -> Nat]
  /\ \A i \in 0 .. p.len - 1 : i + 1 < p.len => i + 1 + p.skip[i + 1] <= p.len
  /\ p.starts \subseteq 0 .. p.len - 1
  /\ p.costs \in [0 .. p.len - 1 -> [op : Opcode, gas : Nat]]
  /\ p.arg \in [0 .. p.len - 1 -> Int]
  /\ \A i \in 0 .. p.len - 1 : p.costs[i].op = "ECALLI" => p.arg[i] \in 0 .. U32 - 1
  /\ p.jumps \in Seq(Nat)
  /\ p.useBlockGas \in BOOLEAN

\* The gas of the instructions from each position to the next start of a block.
RestOfBlock(p) ==
  LET rest[n \in 0 .. p.len] ==
        IF n = p.len \/ n \in p.starts THEN 0
        ELSE (IF IsInstruction(p, n) THEN GAS[p.costs[n].op] ELSE 0)
             + rest[n + 1 + SkipBytes(p, n)]
  IN rest

\* What deblob guarantees of the costs in them: an instruction pays for itself
\* or, with gas per block, for its block if it starts one and else for nothing;
\* and behind an instruction that terminates a block another one starts.
IsCharged(p) ==
  \A i \in 0 .. p.len - 1 :
    LET next == i + 1 + SkipBytes(p, i)
        op == p.costs[i].op
    IN IsInstruction(p, i) =>
         /\ p.costs[i].gas =
              CASE ~p.useBlockGas -> GAS[op]
                [] p.useBlockGas /\ i \in p.starts -> GAS[op] + RestOfBlock(p)[next]
                [] OTHER -> 0
         /\ op \in Terminating => next = p.len \/ next \in p.starts
=============================================================================
