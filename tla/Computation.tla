---------------------------- MODULE Computation -----------------------------
(***************************************************************************)
(* What the machine computes without memory and control, over every small  *)
(* input: the tables of a program (ProgramTables), numbers and sections of *)
(* a blob (Codec), the mask of a wrapped one (ProgramBuild), arguments     *)
(* (Arguments) and results of instructions (Arithmetic) in both builds.    *)
(***************************************************************************)
EXTENDS ProgramTables, ProgramBuild

CONSTANTS
  CodeBytes,  \* bytes that code is made of
  MaxBytes,   \* longest code
  Beyond,     \* what a read behind an array may find
  MaxNumber,  \* greatest number encoded
  Values,     \* contents of registers
  Immediates, \* immediates
  BYTE        \* bits of a byte of a register

ASSUME ComputationAssumption ==
  /\ CodeBytes \cup Beyond \subseteq 0 .. ByteBase - 1
  /\ MaxBytes \in Nat /\ MaxNumber \in Nat
  /\ BYTE \in Nat \ {0} /\ \E k \in 0 .. BYTE : BYTE = 2 ^ k
  /\ Values \subseteq 0 .. 2 ^ (8 * BYTE) - 1 /\ Immediates \subseteq 0 .. 2 ^ (4 * BYTE) - 1

VARIABLES
  bytes,    \* bytes of code
  beyond,   \* what is behind an array, or left in EXTENDED_BUF
  number,   \* a number to encode
  operands  \* the contents of two registers; none at first

vars == <<raw, item, bytes, beyond, number, operands>>

Init ==
  /\ TablesInit
  /\ bytes = <<>> /\ beyond \in Beyond /\ number = 0 /\ operands = <<>>

Untouched == raw.code = <<>> /\ item = <<>>

GrowTables ==
  /\ TablesNext
  /\ bytes = <<>> /\ number = 0 /\ operands = <<>>
  /\ UNCHANGED <<bytes, beyond, number, operands>>

AddCodeByte(b) ==
  /\ Untouched /\ number = 0 /\ operands = <<>> /\ Len(bytes) < MaxBytes
  /\ bytes' = Append(bytes, b)
  /\ UNCHANGED <<raw, item, beyond, number, operands>>

AddBit(bit) ==
  /\ Untouched /\ bytes = <<>> /\ operands = <<>>
  /\ number' = 2 * number + bit /\ number' <= MaxNumber
  /\ UNCHANGED <<raw, item, bytes, beyond, operands>>

Load(x, y) ==
  /\ Untouched /\ bytes = <<>> /\ number = 0 /\ operands = <<>> /\ beyond = Min(Beyond)
  /\ operands' = <<x, y>>
  /\ UNCHANGED <<raw, item, bytes, beyond, number>>

Next ==
  \/ GrowTables
  \/ \E b \in CodeBytes : AddCodeByte(b)
  \/ \E bit \in {0, 1} : AddBit(bit)
  \/ \E x, y \in Values : Load(x, y)

Spec == Init /\ [][Next]_vars
-----------------------------------------------------------------------------
(* Numbers and blobs.                                                      *)

\* A u32 is encoded in the fewest bytes and read back from any data that
\* starts with them (codec.ts:100-162).
NumberExact ==
  LET code == EncodeVarU32(number)
  IN /\ number < NumberBase =>
          DecodeVarU32(code \o <<beyond>>, beyond) = Read(number, Len(code))
     /\ VariableLength(code[1]) = Len(code) - 1
     /\ \A n \in 1 .. Len(code) - 1 : number >= 2 ^ ((BITS - 1) * n)

\* A blob with a jump table of k bytes.
Blob(k, itemLength) ==
  LET code == SubSeq(bytes, k + 1, Len(bytes))
  IN EncodeVarU32(k \div itemLength) \o <<itemLength>> \o EncodeVarU32(Len(code)) \o bytes
       \o PackMask(BuildMask(code), Len(code))

\* The length of an array is an i32, half of the numbers of a u32.
IsArray(source) == 2 * Len(source) < NumberBase

\* A blob is taken apart into what it was put together from, and no part of
\* one is taken for a whole, whatever is behind it (program.ts:44-71).
SectionsExact ==
  \A k \in 0 .. Len(bytes), itemLength \in 1 .. 2 :
    LET blob == Blob(k, itemLength)
        whole == blob \o <<beyond>>
        read == Sections(whole, beyond)
        code == SubSeq(bytes, k + 1, Len(bytes))
    IN k % itemLength = 0 /\ IsArray(whole) =>
         /\ read.ok /\ read.jumps = SubSeq(bytes, 1, k) /\ read.code = code
         /\ UnpackMask(read.mask, Len(code)) = BuildMask(code)
         /\ \A n \in 0 .. Len(blob) - 1 : ~Sections(SubSeq(blob, 1, n), beyond).ok

-----------------------------------------------------------------------------
(* Arguments.                                                              *)

\* The arguments as they are in code that goes on with zeros for ever.
ZeroExtended(kind, code, lim) ==
  Decoder(kind, [i \in Nat |-> IF i < Len(code) THEN code[i + 1] ELSE 0], 0, lim)

\* The nibble asks for bytes of the first number that the code has not.
FirstNumberCut(kind, code) ==
  /\ Len(code) >= RequiredBytes(kind)
  /\ CASE kind = "TwoImm" -> Split(LowNibble(code[1])) > Len(code)
       [] kind \in {"OneRegTwoImm", "OneRegOneImmOneOff"} -> Split(HigNibble(code[1])) > Len(code)
       [] kind = "TwoRegTwoImm" -> 1 + Split(LowNibble(code[2])) > Len(code)
       [] OTHER -> FALSE

\* Arguments that are missing at the end of the code are zero, whatever was
\* decoded before, if no number there is cut short (program.ts:307-320); and
\* what is decoded as a number is the signed one that its bytes are.
ArgumentsExact ==
  \A lim \in 0 .. Len(bytes) :
    /\ \A kind \in Kind :
         ~FirstNumberCut(kind, bytes) =>
           DecodeArguments(kind, bytes, lim, beyond, beyond) = ZeroExtended(kind, bytes, lim)
    /\ lim \in 1 .. WIDTH =>
         LET v == Number(SubSeq(bytes, 1, lim))
         IN DecodeArguments("OneImm", bytes, lim, beyond, beyond)[1] =
              (IF 2 * v < Weight(lim) THEN v ELSE v - Weight(lim)) % Weight(WIDTH)

\* The comment at program.ts:309: "in case we have less data than needed we
\* extend the data with zeros".
MissingArgumentsAreZero ==
  \A kind \in Kind, lim \in 0 .. Len(bytes) :
    DecodeArguments(kind, bytes, lim, beyond, beyond) = ZeroExtended(kind, bytes, lim)

\* In a wrapped program an instruction that has its bytes and is followed by
\* another one decodes the same as if it stood alone (program-build.ts:35-108).
WrappedApart ==
  LET starts == BuildMask(bytes)
      Behind(i, j) == SubSeq(bytes, i + 2, j)
  IN \A i, j \in starts :
       (/\ i < j /\ \A k \in starts : k <= i \/ k >= j
        /\ Len(bytes) > i + RequiredBytes(KindOf[bytes[i + 1]])) =>
         DecodeArguments(KindOf[bytes[i + 1]], Behind(i, Len(bytes)), j - i - 1, beyond, beyond)
           = DecodeArguments(KindOf[bytes[i + 1]], Behind(i, j), j - i - 1, beyond, beyond)
-----------------------------------------------------------------------------
(* Results.  x and y are in the two registers; y is the one that holds the *)
(* shift amount, the divisor, the right side: registers[args.a].           *)

Wasm == INSTANCE Arithmetic WITH Portable <- FALSE
Js == INSTANCE Arithmetic WITH Portable <- TRUE

Loaded == operands # <<>>
x == operands[1]
y == operands[2]
Top == 2 ^ (8 * BYTE)
Half == 2 ^ (4 * BYTE)
AsSigned(v) == IF 2 * v < Top THEN v ELSE v - Top

\* In the JavaScript build immediates are signed: as the amount of a shift one
\* with a sign is reduced to another amount, and shar_r_imm_alt shifts in no sign.
PortableDiffers(op, c) ==
  \/ op = "shar_r_imm_alt"
  \/ op \in {"shlo_l_imm", "shlo_r_imm", "shar_r_imm", "shar_r_imm_32"} /\ 2 * c >= Half

\* Both builds compute the same, and only numbers that fit the register, but
\* for the instructions above (instructions/, portable.ts).
BuildsAgree ==
  Loaded =>
    /\ \A op \in Wasm!RegOps :
         Js!RegResult(op, y, x, 1) = Wasm!RegResult(op, y, x, 1)
           /\ Wasm!RegResult(op, y, x, 1) \in 0 .. Top - 1
    /\ \A op \in Wasm!BitOps :
         Js!BitCount(op, x) = Wasm!BitCount(op, x) /\ Wasm!BitCount(op, x) \in 0 .. Top - 1
    /\ \A c \in Immediates :
         /\ \A op \in Wasm!ImmOps :
              /\ Wasm!ImmResult(op, x, c, y) \in 0 .. Top - 1
              /\ ~PortableDiffers(op, c) => Js!ImmResult(op, x, c, y) = Wasm!ImmResult(op, x, c, y)
         /\ \A op \in Wasm!BranchImmOps : Js!BranchImm(op, x, c) = Wasm!BranchImm(op, x, c)
         /\ Js!EffectiveAddress(x, c) = Wasm!EffectiveAddress(x, c)

\* test/test-w3f-portable.ts:7 runs the vectors of the WebAssembly build on the
\* portable one: `runW3fTests(pvm)`.
PortableAgrees ==
  Loaded =>
    \A op \in Wasm!ImmOps, c \in Immediates :
      Js!ImmResult(op, x, c, y) = Wasm!ImmResult(op, x, c, y)

\* The instruction on registers that one with an immediate stands for.
OnRegisters ==
  [op \in Wasm!ImmOps \ {"set_gt_u_imm", "set_gt_s_imm"} |->
     CASE op = "add_imm_32" -> "add_32" [] op = "mul_imm_32" -> "mul_32"
       [] op = "neg_add_imm_32" -> "sub_32" [] op = "add_imm" -> "add_64"
       [] op = "mul_imm" -> "mul" [] op = "neg_add_imm" -> "sub"
       [] op = "and_imm" -> "and" [] op = "xor_imm" -> "xor" [] op = "or_imm" -> "or"
       [] op \in {"shlo_l_imm_32", "shlo_l_imm_alt_32"} -> "shlo_l_32"
       [] op \in {"shlo_r_imm_32", "shlo_r_imm_alt_32"} -> "shlo_r_32"
       [] op \in {"shar_r_imm_32", "shar_r_imm_alt_32"} -> "shar_r_32"
       [] op \in {"shlo_l_imm", "shlo_l_imm_alt"} -> "shlo_l"
       [] op \in {"shlo_r_imm", "shlo_r_imm_alt"} -> "shlo_r"
       [] op \in {"shar_r_imm", "shar_r_imm_alt"} -> "shar_r"
       [] op \in {"rot_r_64_imm", "rot_r_64_imm_alt"} -> "rot_r_64"
       [] op \in {"rot_r_32_imm", "rot_r_32_imm_alt"} -> "rot_r_32"
       [] op = "set_lt_u_imm" -> "set_lt_u" [] op = "set_lt_s_imm" -> "set_lt_s"
       [] op = "cmov_iz_imm" -> "cmov_iz" [] op = "cmov_nz_imm" -> "cmov_nz"]
ImmediateFirst ==
  {"neg_add_imm", "neg_add_imm_32", "shlo_l_imm_alt", "shlo_r_imm_alt", "shar_r_imm_alt",
   "shlo_l_imm_alt_32", "shlo_r_imm_alt_32", "shar_r_imm_alt_32",
   "rot_r_64_imm_alt", "rot_r_32_imm_alt", "cmov_iz_imm", "cmov_nz_imm"}

\* An instruction with an immediate computes what the one on registers does
\* after load_imm (math.ts, logic.ts, shift.ts, rot.ts, set.ts, mov.ts, branch.ts).
ImmediatesAsLoaded ==
  Loaded =>
    \A c \in Immediates :
      LET v == Wasm!LoadImm(c)
      IN /\ \A op \in DOMAIN OnRegisters :
              Wasm!ImmResult(op, x, c, y) =
                IF op \in ImmediateFirst THEN Wasm!RegResult(OnRegisters[op], x, v, y)
                ELSE Wasm!RegResult(OnRegisters[op], v, x, y)
         /\ Wasm!ImmResult("set_gt_u_imm", x, c, y) = Wasm!RegResult("set_lt_u", x, v, y)
         /\ Wasm!ImmResult("set_gt_s_imm", x, c, y) = Wasm!RegResult("set_lt_s", x, v, y)
         /\ Wasm!BranchImm("branch_eq_imm", x, c) = Wasm!Branch("branch_eq", v, x)
         /\ Wasm!BranchImm("branch_ne_imm", x, c) = Wasm!Branch("branch_ne", v, x)
         /\ Wasm!BranchImm("branch_lt_u_imm", x, c) = Wasm!Branch("branch_lt_u", v, x)
         /\ Wasm!BranchImm("branch_lt_s_imm", x, c) = Wasm!Branch("branch_lt_s", v, x)
         /\ Wasm!BranchImm("branch_ge_u_imm", x, c) = Wasm!Branch("branch_ge_u", v, x)
         /\ Wasm!BranchImm("branch_ge_s_imm", x, c) = Wasm!Branch("branch_ge_s", v, x)
         /\ Wasm!BranchImm("branch_gt_u_imm", x, c) = Wasm!Branch("branch_lt_u", x, v)
         /\ Wasm!BranchImm("branch_gt_s_imm", x, c) = Wasm!Branch("branch_lt_s", x, v)
         /\ Wasm!BranchImm("branch_le_u_imm", x, c) = Wasm!Branch("branch_ge_u", x, v)
         /\ Wasm!BranchImm("branch_le_s_imm", x, c) = Wasm!Branch("branch_ge_s", x, v)
         /\ Wasm!EffectiveAddress(x, c) = Wasm!ImmResult("add_imm", x, c, y) % Half

Reg(op) == Wasm!RegResult(op, y, x, 0)

\* The two halves of a product put together are the exact product, of signed
\* and unsigned factors (utils.ts:18-79).
ProductsExact ==
  Loaded =>
    /\ Reg("mul_upper_u_u") * Top + Reg("mul") = x * y
    /\ AsSigned(Reg("mul_upper_s_s")) * Top + Reg("mul") = AsSigned(x) * AsSigned(y)
    /\ AsSigned(Reg("mul_upper_s_u")) * Top + Reg("mul") = AsSigned(x) * y

\* Quotient and remainder belong together: the remainder is smaller than the
\* divisor and has the sign of the dividend; by zero the quotient is all ones
\* and the remainder the dividend (math.ts:76-215).
DivisionExact ==
  LET Low(v) == v % Half
      Word(v) == IF 2 * Low(v) < Half THEN Low(v) ELSE Low(v) - Half
      Exact(n, b, a, q, r) ==
        IF a = 0 THEN q % n = n - 1 /\ r = b
        ELSE /\ (q * a + r - b) % n = 0
             /\ Wasm!Magnitude(r) < Wasm!Magnitude(a)
             /\ (r < 0 => b < 0) /\ (r > 0 => b > 0)
  IN Loaded =>
       /\ Exact(Top, x, y, Reg("div_u"), Reg("rem_u"))
       /\ Exact(Top, AsSigned(x), AsSigned(y), AsSigned(Reg("div_s")), AsSigned(Reg("rem_s")))
       /\ Exact(Half, Low(x), Low(y), Low(Reg("div_u_32")), Low(Reg("rem_u_32")))
       /\ Low(y) = 0 => Reg("div_u_32") = Top - 1 /\ Reg("div_s_32") = Top - 1
       /\ Exact(Half, Word(x), Word(y), AsSigned(Reg("div_s_32")), AsSigned(Reg("rem_s_32")))

\* Shifts, rotations, counts and the order of bytes, bit by bit; the results
\* of 32 bits are extended by their sign (shift.ts, rot.ts, bit.ts).
BitsExact ==
  LET At(v, i) == (v \div 2 ^ i) % 2
      Ones(n) == {i \in 0 .. n - 1 : At(x, i) = 1}
      IsBits(r, n, bit(_)) ==
        \A i \in 0 .. 8 * BYTE - 1 : At(r, i) = bit(IF i < n THEN i ELSE n - 1)
      Exact(n, l, r, s, rl, rr) ==
        LET k == y % n
        IN /\ IsBits(Reg(l), n, LAMBDA i : IF i >= k THEN At(x, i - k) ELSE 0)
           /\ IsBits(Reg(r), n, LAMBDA i : IF i + k < n THEN At(x, i + k) ELSE 0)
           /\ IsBits(Reg(s), n, LAMBDA i : At(x, IF i + k < n THEN i + k ELSE n - 1))
           /\ IsBits(Reg(rl), n, LAMBDA i : At(x, (i - k) % n))
           /\ IsBits(Reg(rr), n, LAMBDA i : At(x, (i + k) % n))
      Counts(n, ones, leading, trailing) ==
        /\ Wasm!BitCount(ones, x) = Cardinality(Ones(n))
        /\ Wasm!BitCount(leading, x) = n - 1 - Max(Ones(n) \cup {-1})
        /\ Wasm!BitCount(trailing, x) = Min(Ones(n) \cup {n})
  IN Loaded =>
       /\ Exact(8 * BYTE, "shlo_l", "shlo_r", "shar_r", "rot_l_64", "rot_r_64")
       /\ Exact(4 * BYTE, "shlo_l_32", "shlo_r_32", "shar_r_32", "rot_l_32", "rot_r_32")
       /\ Counts(8 * BYTE, "count_set_bits_64", "leading_zero_bits_64", "trailing_zero_bits_64")
       /\ Counts(4 * BYTE, "count_set_bits_32", "leading_zero_bits_32", "trailing_zero_bits_32")
       /\ IsBits(Wasm!BitCount("reverse_bytes", x), 8 * BYTE,
                 LAMBDA i : At(x, ((7 - (i \div BYTE)) * BYTE) + (i % BYTE)))
       /\ IsBits(Wasm!BitCount("sign_extend_8", x), BYTE, LAMBDA i : At(x, i))
       /\ IsBits(Wasm!BitCount("sign_extend_16", x), 2 * BYTE, LAMBDA i : At(x, i))
=============================================================================
