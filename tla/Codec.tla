------------------------------- MODULE Codec --------------------------------
(***************************************************************************)
(* Numbers and sections of a blob: assembly/codec.ts, and what deblob      *)
(* reads with it (assembly/program.ts).                                    *)
(*                                                                         *)
(* A byte has BITS bits.  The first byte of a number says by its leading   *)
(* ones how many bytes follow, at most BITS of them; a u32 has BITS / 2    *)
(* bytes and a u64 has BITS.                                               *)
(***************************************************************************)
EXTENDS Integers, Sequences, SequencesExt

CONSTANT BITS  \* bits of a byte, 8 in the code

ASSUME CodecAssumption == BITS \in Nat \ {0} /\ BITS % 2 = 0

ByteBase == 2 ^ BITS

\* What a byte counts that i bytes are below of; v \div Weight(i) is v >> 8 * i.
Weight(i) == 2 ^ (BITS * i)
NumberBase == Weight(BITS \div 2)

\* Least significant byte first.
Bytes(v, n) == [i \in 1 .. n |-> (v \div Weight(i - 1)) % ByteBase]
Number(bytes) == FoldRight(LAMBDA b, sum : b + ByteBase * sum, bytes, 0)

\* MASKS and variableLength: the number of leading ones.
LengthMask(n) == ByteBase - 2 ^ (BITS - n)
VariableLength(first) ==
  LET fits == {n \in 1 .. BITS : first >= LengthMask(n)}
  IN IF fits = {} THEN 0 ELSE CHOOSE n \in fits : \A k \in fits : k <= n

\* What a reader gives: the value and the offset behind it.  One that throws
\* leaves no offset to go on from.
Read(value, offset) == [ok |-> TRUE, value |-> value, offset |-> offset]
Thrown == [ok |-> FALSE, value |-> 0, offset |-> 0]

\* decodeVarU32.  What the first byte adds is shifted by the low bits of the
\* amount, as i32 are.  The check for enough bytes is one short: the last one
\* may be read behind the data, where it is whatever is there, beyond.
DecodeVarU32(data, beyond) ==
  LET length == VariableLength(data[1])
      extra == data[1] - (ByteBase - 2 ^ (BITS - length))
      msb == extra * 2 ^ ((length * BITS) % (BITS * (BITS \div 2)))
      payload == [i \in 1 .. length |-> IF i < Len(data) THEN data[i + 1] ELSE beyond]
  IN IF length = 0 THEN Read(data[1], 1)
     ELSE IF Len(data) < length THEN Thrown
     ELSE Read((Number(payload) + msb) % NumberBase, 1 + length)

\* Mutant of EncodeVarU32: the smallest number of a length gets the length below.
EncodeVarU32Tight(v) ==
  LET l == CHOOSE n \in 0 .. BITS : v <= 2 ^ ((BITS - 1) * (n + 1))
                 /\ (n = 0 \/ v > 2 ^ ((BITS - 1) * n))
  IN <<(LengthMask(l) + v \div Weight(l)) % ByteBase>> \o Bytes(v % Weight(l), l)

\* encodeVarU32: BITS bytes after a byte of ones for the biggest numbers; for
\* the others the first length, from the top, whose least number is not above.
EncodeVarU32(v) ==
  LET lengths == {n \in 0 .. BITS - 1 : v >= 2 ^ ((BITS - 1) * n)}
      l == CHOOSE n \in lengths : \A k \in lengths : k <= n
  IN IF v = 0 THEN <<0>>
     ELSE IF v >= 2 ^ ((BITS - 1) * BITS) THEN <<ByteBase - 1>> \o Bytes(v, BITS)
     ELSE <<(LengthMask(l) + v \div Weight(l)) % ByteBase>> \o Bytes(v % Weight(l), l)
-----------------------------------------------------------------------------
(* Decoder, with the offset passed along.                                  *)

\* ensureBytes: the sum is a u32.
Enough(source, offset, need) == (offset + need) % NumberBase <= Len(source)

VarU32(source, offset, beyond) ==
  IF ~Enough(source, offset, 1) THEN Thrown
  ELSE LET v == DecodeVarU32(SubSeq(source, offset + 1, Len(source)), beyond)
       IN IF v.ok THEN Read(v.value, offset + v.offset) ELSE Thrown

U8(source, offset) ==
  IF Enough(source, offset, 1) THEN Read(source[offset + 1], offset + 1) ELSE Thrown

\* bytes(len), where len is an i32: a negative one moves back.
TakeBytes(source, offset, len) ==
  LET signed == IF len < NumberBase \div 2 THEN len ELSE len - NumberBase
  IN IF Enough(source, offset, len)
     THEN Read(SubSeq(source, offset + 1, offset + signed), offset + signed) ELSE Thrown

\* One reader after another: the next starts where the one before ended, if
\* it has not thrown.
Then(read, next(_)) == IF read.ok THEN next(read.offset) ELSE Thrown

\* The sections deblob reads; what follows the mask is not looked at.
Sections(program, beyond) ==
  LET items == VarU32(program, 0, beyond)
      itemLength == Then(items, LAMBDA o : U8(program, o))
      codeLength == Then(itemLength, LAMBDA o : VarU32(program, o, beyond))
      jumps == Then(codeLength, LAMBDA o :
                 TakeBytes(program, o, (items.value * itemLength.value) % NumberBase))
      code == Then(jumps, LAMBDA o : TakeBytes(program, o, codeLength.value))
      mask == Then(code, LAMBDA o :
                TakeBytes(program, o, (codeLength.value + BITS - 1) \div BITS))
  IN [ok |-> mask.ok, itemLength |-> itemLength.value,
      jumps |-> jumps.value, code |-> code.value, mask |-> mask.value]

\* What the constructor of Mask reads out of the packed bytes: the
\* instructions among the first n bytes of the code.
UnpackMask(mask, n) ==
  {i \in 0 .. n - 1 : (mask[i \div BITS + 1] \div 2 ^ (i % BITS)) % 2 = 1}
=============================================================================
