---------------------------- MODULE ProgramBuild ----------------------------
(***************************************************************************)
(* wrapAsProgram: assembly/program-build.ts.  It turns bytes into a blob   *)
(* with a mask that takes them for instructions one after another.         *)
(***************************************************************************)
EXTENDS Arguments

\* The kind of the arguments of each opcode, as INSTRUCTIONS has it; opcodes
\* that are missing take none.
CONSTANT KindOf

ASSUME BuildAssumption == KindOf \in [0 .. ByteBase - 1 -> Kind]

ImmBytes(length, required) ==
  IF length < required THEN 0
  ELSE IF length - required < WIDTH THEN length - required ELSE WIDTH

\* skipBytes, of the bytes behind an opcode.
ArgumentBytes(kind, data) ==
  LET Sized(n, nibble) == n + nibble + 1 + ImmBytes(Len(data), n + nibble + 1)
      Capped(n) == IF n < WIDTH THEN n ELSE WIDTH
  IN CASE kind = "Zero" -> 0
       [] kind \in {"OneImm", "OneOff"} -> ImmBytes(Len(data), 0)
       [] kind = "TwoImm" -> Sized(1, LowNibble(data[1]))
       [] kind = "OneRegOneImm" -> 1 + ImmBytes(Len(data), 1)
       [] kind = "OneRegOneExtImm" -> 1 + 2 * WIDTH
       [] kind \in {"OneRegTwoImm", "OneRegOneImmOneOff"} -> Sized(1, HigNibble(data[1]))
       [] kind = "TwoReg" -> 1
       [] kind \in {"TwoRegOneImm", "TwoRegOneOff"} -> 1 + Capped(Len(data))
       [] kind = "TwoRegTwoImm" -> Sized(2, LowNibble(data[2]))
       [] kind = "ThreeReg" -> 2

\* Mutant of Skip: immediates are not counted.
SkipRequired(kind, data) == IF Len(data) >= RequiredBytes(kind) THEN RequiredBytes(kind) ELSE 0

\* An instruction whose required bytes are not there takes none.
Skip(kind, data) ==
  IF Len(data) >= RequiredBytes(kind) THEN ArgumentBytes(kind, data) ELSE 0

\* buildMask: where instructions start.
BuildMask(bytecode) ==
  LET n == Len(bytecode)
      starts[i \in 0 .. n] ==
        IF i = n THEN {}
        ELSE LET next == i + 1 + Skip(KindOf[bytecode[i + 1]], SubSeq(bytecode, i + 2, n))
             IN {i} \cup (IF next < n THEN starts[next] ELSE {})
  IN starts[0]

\* Mutant of PackMask: a last byte that is not full is not shifted to its end.
PackMaskUnshifted(starts, n) ==
  [k \in 1 .. (n + BITS - 1) \div BITS |->
     LET first == BITS * (k - 1)
         unused == IF first + BITS > n THEN first + BITS - n ELSE 0
         sum[i \in 0 .. BITS] ==
           IF i = BITS THEN 0
           ELSE (IF first + i \in starts THEN 2 ^ (i + unused) ELSE 0) + sum[i + 1]
     IN sum[0]]

\* The bits, the first in the lowest place of its byte.
PackMask(starts, n) ==
  [k \in 1 .. (n + BITS - 1) \div BITS |->
     LET first == BITS * (k - 1)
         sum[i \in 0 .. BITS] ==
           IF i = BITS THEN 0
           ELSE (IF first + i \in starts THEN 2 ^ i ELSE 0) + sum[i + 1]
     IN sum[0]]

WrapAsProgram(bytecode) ==
  <<0, 0>> \o EncodeVarU32(Len(bytecode)) \o bytecode
    \o PackMask(BuildMask(bytecode), Len(bytecode))
=============================================================================
