----------------------------- MODULE Arguments ------------------------------
(***************************************************************************)
(* The arguments of an instruction: assembly/arguments.ts and              *)
(* decodeArguments of assembly/program.ts.                                 *)
(*                                                                         *)
(* code is the code from the first byte of the arguments on, to its end,   *)
(* and lim how many bytes of it are before the next instruction.  A byte   *)
(* is two nibbles of NIBBLE values; a number has WIDTH bytes.              *)
(***************************************************************************)
EXTENDS Codec

CONSTANT WIDTH  \* bytes of a u32, 4 in the code

NIBBLE == 2 ^ (BITS \div 2)  \* values of half a byte, 16 in the code

ASSUME ArgumentsAssumption == WIDTH \in Nat \ {0} /\ WIDTH < NIBBLE

Kind == {"Zero", "OneImm", "TwoImm", "OneOff", "OneRegOneImm", "OneRegOneExtImm",
         "OneRegTwoImm", "OneRegOneImmOneOff", "TwoReg", "TwoRegOneImm",
         "TwoRegOneOff", "TwoRegTwoImm", "ThreeReg"}

\* Mutant of RequiredBytes: the second byte of registers is forgotten.
RequiredBytesOne(kind) ==
  CASE kind \in {"Zero", "OneImm", "OneOff"} -> 0
    [] kind = "OneRegOneExtImm" -> 1 + 2 * WIDTH
    [] OTHER -> 1

\* REQUIRED_BYTES
RequiredBytes(kind) ==
  CASE kind \in {"Zero", "OneImm", "OneOff"} -> 0
    [] kind = "OneRegOneExtImm" -> 1 + 2 * WIDTH
    [] kind \in {"TwoRegTwoImm", "ThreeReg"} -> 2
    [] OTHER -> 1

LowNibble(byte) == byte % NIBBLE
HigNibble(byte) == byte \div NIBBLE

\* Bytes are a function of their offset.  The number of the n bytes from o on,
\* least significant first.
Little(at, o, n) ==
  LET sum[i \in 0 .. n] == IF i = n THEN 0 ELSE at[o + i] + ByteBase * sum[i + 1] IN sum[0]

\* A number of up to WIDTH bytes, its sign extended.
DecodeI32(at, start, end) ==
  IF end <= start THEN 0
  ELSE LET len == IF end - start < WIDTH THEN end - start ELSE WIDTH
           sign == IF len < WIDTH /\ at[start + len - 1] >= ByteBase \div 2
                   THEN Weight(WIDTH) - Weight(len) ELSE 0
       IN Little(at, start, len) + sign

\* The first of two numbers says its length in a nibble.
Split(nibble) == (IF nibble < WIDTH THEN nibble ELSE WIDTH) + 1

TwoImm(at, o, end) ==
  LET split == Split(LowNibble(at[o]))
  IN <<DecodeI32(at, o + 1, o + split), DecodeI32(at, o + split, end)>>

\* DECODERS, with the bytes as at and the arguments from o to end.
Decoder(kind, at, o, end) ==
  LET low == LowNibble(at[o])
      hig == HigNibble(at[o])
      split == Split(hig)
  IN CASE kind = "Zero" -> <<>>
       [] kind \in {"OneImm", "OneOff"} -> <<DecodeI32(at, o, end)>>
       [] kind = "TwoImm" -> TwoImm(at, o, end)
       [] kind = "OneRegOneImm" -> <<low, DecodeI32(at, o + 1, end)>>
       [] kind = "OneRegOneExtImm" -> <<low, Little(at, o + 1, WIDTH), Little(at, o + 1 + WIDTH, WIDTH)>>
       [] kind \in {"OneRegTwoImm", "OneRegOneImmOneOff"} ->
            <<low, DecodeI32(at, o + 1, o + split), DecodeI32(at, o + split, end)>>
       [] kind = "TwoReg" -> <<hig, low>>
       [] kind \in {"TwoRegOneImm", "TwoRegOneOff"} -> <<hig, low, DecodeI32(at, o + 1, end)>>
       [] kind = "TwoRegTwoImm" -> <<hig, low>> \o TwoImm(at, o + 1, end)
       [] kind = "ThreeReg" -> <<hig, low, LowNibble(at[o + 1])>>

\* decodeArguments.  Bytes that are missing are zeros, up to what the kind
\* requires: EXTENDED_BUF keeps behind them what an earlier call left, stale.
\* A read behind the code finds something else, the byte beyond: zero in
\* JavaScript, anything in a WebAssembly build without bound checks; one with
\* them stops there.
DecodeArguments(kind, code, lim, stale, beyond) ==
  IF Len(code) < RequiredBytes(kind)
  THEN Decoder(kind, [i \in Nat |-> IF i < Len(code) THEN code[i + 1]
                                    ELSE IF i < RequiredBytes(kind) THEN 0 ELSE stale], 0, lim)
  ELSE Decoder(kind, [i \in Nat |-> IF i < Len(code) THEN code[i + 1] ELSE beyond], 0, lim)
=============================================================================
