----------------------------- MODULE Arithmetic -----------------------------
(***************************************************************************)
(* What the instructions without memory and control compute:               *)
(* assembly/instructions/{math,bit,logic,rot,shift,set,mov,branch,utils}.ts*)
(* and the helpers of assembly/portable.ts.                                *)
(*                                                                         *)
(* One source is built twice: into WebAssembly, where a number has the     *)
(* width of its static type, and into JavaScript, where a u64 is a BigInt  *)
(* of any size, a u32 a number and types do nothing.  Integers of TLA+ are *)
(* such BigInts; each conversion the source calls is an operator here, and *)
(* what only a type would do is done in the WebAssembly build alone.       *)
(* Sizes are in bytes of BYTE bits, so that the words can be small.        *)
(***************************************************************************)
EXTENDS Integers, FiniteSets

CONSTANTS
  Portable,  \* the JavaScript build
  BYTE       \* bits of a byte, 8 in the code

\* Bits of the words.
W8 == BYTE
W16 == 2 * BYTE
W32 == 4 * BYTE
W64 == 8 * BYTE

Bit(v, i) == (v \div 2 ^ i) % 2

\* The n-bit number with these bits.
OfBits(n, bit(_)) ==
  LET sum[i \in 0 .. n] == IF i = n THEN 0 ELSE bit(i) * 2 ^ i + sum[i + 1] IN sum[0]

\* u32(v) and u64(v) are AsU32 and AsU64; i32(v) and i64(v) are Signed.
AsU32(v) == v % 2 ^ W32
AsU64(v) == v % 2 ^ W64
Signed(v, n) == LET low == v % 2 ^ n IN IF low < 2 ^ (n - 1) THEN low ELSE low - 2 ^ n
MAX == 2 ^ W64 - 1

\* Mutant of SignExtend: the outer u64 is left out.
SignExtendSigned(v, n) == Signed(v, n)

\* Inst.u8SignExtend, u16SignExtend and u32SignExtend: declared i64, and
\* wrapped by u64, which keeps the bits and in JavaScript loses the sign.
SignExtend(v, n) == IF Portable THEN AsU64(Signed(v, n)) ELSE Signed(v, n)

\* The same where a u64 is expected: stored in a register, passed as a u64.
Extended(v) == IF Portable THEN SignExtend(v, W32) ELSE AsU64(SignExtend(v, W32))

\* An immediate as decodeI32 leaves it: in JavaScript |= makes it an int32.
Arg(c) == IF Portable THEN Signed(c, W32) ELSE c

Magnitude(v) == IF v < 0 THEN -v ELSE v

\* Mutant of Quotient: division rounds down, as \div does.
QuotientFloor(b, a) == IF a > 0 THEN b \div a ELSE (-b) \div (-a)

\* Division truncates, and the remainder has the sign of the dividend.
Quotient(b, a) ==
  LET q == Magnitude(b) \div Magnitude(a) IN IF (b < 0) = (a < 0) THEN q ELSE -q
Remainder(b, a) == b - a * Quotient(b, a)

\* << and >> of a BigInt or of a word whose width is cut off afterwards.
Shl(v, s) == v * 2 ^ s
Shr(v, s) == v \div 2 ^ s
Not(v) == -v - 1
-----------------------------------------------------------------------------
(* portable.ts.  The counts of one half, and bswap of one half, are Math   *)
(* functions and bit tricks; here they are what these compute.             *)

Low(v) == AsU32(v)
High(v) == AsU32(Shr(v, W32))

Swap32(v) == OfBits(W32, LAMBDA i : Bit(v, ((3 - (i \div BYTE)) * BYTE) + (i % BYTE)))
Popcnt32(v) == Cardinality({i \in 0 .. W32 - 1 : Bit(v, i) = 1})
Clz32(v) == Cardinality({i \in 0 .. W32 - 1 : v < 2 ^ i})
Ctz32(v) == Cardinality({i \in 0 .. W32 - 1 : v % 2 ^ (i + 1) = 0})

\* Mutant of Swap64: the halves keep their places.
Swap64Halves(v) == Shl(Swap32(High(v)), W32) + Swap32(Low(v))

Swap64(v) == Shl(Swap32(Low(v)), W32) + Swap32(High(v))
Popcnt64(v) == Popcnt32(Low(v)) + Popcnt32(High(v))
Clz64(v) == IF High(v) # 0 THEN Clz32(High(v)) ELSE W32 + Clz32(Low(v))
Ctz64(v) == IF Low(v) # 0 THEN Ctz32(Low(v)) ELSE W32 + Ctz32(High(v))

Or(n, x, y) == OfBits(n, LAMBDA i : IF Bit(x, i) + Bit(y, i) > 0 THEN 1 ELSE 0)
And(n, x, y) == OfBits(n, LAMBDA i : Bit(x, i) * Bit(y, i))
Xor(n, x, y) == OfBits(n, LAMBDA i : (Bit(x, i) + Bit(y, i)) % 2)

RotR(n, v, shift) == LET s == shift % n IN Or(n, Shr(v, s), Shl(v, n - s))
RotL(n, v, shift) == LET s == shift % n IN Or(n, Shl(v, s), Shr(v, n - s))

-----------------------------------------------------------------------------
(* utils.ts: the upper half of a product.                                  *)

\* Mutant of MulUpperUnsigned: the carry of the middle column is dropped.
MulUpperUnsignedNoCarry(a, b) ==
  AsU64(High(a) * High(b) + Shr(Low(a) * High(b), W32) + Shr(High(a) * Low(b), W32))

MulUpperUnsigned(a, b) ==
  LET lowLow == AsU64(Low(a) * Low(b))
      lowHigh == AsU64(Low(a) * High(b))
      highLow == AsU64(High(a) * Low(b))
      highHigh == AsU64(High(a) * High(b))
      carry == AsU64(Shr(lowLow, W32) + Low(lowHigh) + Low(highLow))
  IN AsU64(highHigh + Shr(lowHigh, W32) + Shr(highLow, W32) + Shr(carry, W32))

\* ~ of a double word: the upper half takes the carry of + 1 if the lower
\* half is 0.
Negated(a, b) ==
  AsU64(Not(MulUpperUnsigned(a, b)) + (IF AsU64(a * b) = 0 THEN 1 ELSE 0))

MulUpperSigned(a, b) ==
  LET Abs(v) == IF v < 0 THEN AsU64(Not(v) + 1) ELSE v
  IN IF (a < 0) # (b < 0) THEN Negated(Abs(a), Abs(b)) ELSE MulUpperUnsigned(Abs(a), Abs(b))

MulUpperSignedUnsigned(a, b) ==
  IF a < 0 THEN Negated(AsU64(Not(a) + 1), b) ELSE MulUpperUnsigned(a, b)
-----------------------------------------------------------------------------
(* The instructions, by the names of their functions.  In those with three *)
(* registers, a and b are registers[args.a] and registers[args.b], and d   *)
(* is what the register written to holds; in those with an immediate, x is *)
(* registers[args.a] and c is args.c.                                      *)

MathImm(op, x, c) ==
  CASE op = "add_imm_32" -> Extended(AsU64(x + Extended(c)))
    [] op = "mul_imm_32" -> Extended(AsU64(x * AsU64(Arg(c))))
    [] op = "neg_add_imm_32" -> Extended(AsU64(Or(W64, AsU64(Arg(c)), 2 ^ W32) - x))
    [] op = "add_imm" -> AsU64(x + Extended(c))
    [] op = "mul_imm" -> AsU64(x * Extended(c))
    [] op = "neg_add_imm" -> AsU64(Extended(c) - x)

Math32(op, a, b) ==
  LET sa == Signed(a, W32)
      sb == Signed(b, W32)
  IN CASE op = "add_32" -> Extended(AsU32(a) + AsU32(b))
       [] op = "sub_32" -> Extended(AsU64(b + (2 ^ W32 - AsU32(a))))
       [] op = "mul_32" -> Extended(AsU64(a * b))
       [] op = "div_u_32" -> IF AsU32(a) = 0 THEN MAX ELSE Extended(AsU32(b) \div AsU32(a))
       [] op = "div_s_32" -> IF sa = 0 THEN MAX
                             ELSE IF sa = -1 /\ sb = -(2 ^ (W32 - 1)) THEN AsU64(sb)
                             ELSE AsU64(Quotient(sb, sa))
       [] op = "rem_u_32" -> IF AsU32(a) = 0 THEN Extended(AsU32(b)) ELSE Extended(AsU32(b) % AsU32(a))
       [] op = "rem_s_32" -> IF sa = 0 THEN AsU64(sb)
                             ELSE IF sa = -1 /\ sb = -(2 ^ (W32 - 1)) THEN 0
                             ELSE AsU64(Remainder(sb, sa))

Math64(op, a, b) ==
  LET sa == Signed(a, W64)
      sb == Signed(b, W64)
      overflow == sa = -1 /\ sb = -(2 ^ (W64 - 1))
  IN CASE op = "add_64" -> AsU64(a + b)
       [] op = "sub" -> AsU64(b - a)
       [] op = "mul" -> AsU64(a * b)
       [] op = "div_u" -> IF a = 0 THEN MAX ELSE b \div a
       [] op = "div_s" -> IF sa = 0 THEN MAX ELSE IF overflow THEN AsU64(sb)
                          ELSE AsU64(Quotient(sb, sa))
       [] op = "rem_u" -> IF a = 0 THEN b ELSE b % a
       [] op = "rem_s" -> IF sa = 0 THEN AsU64(sb) ELSE IF overflow THEN 0
                          ELSE AsU64(Remainder(sb, sa))
       [] op = "mul_upper_s_s" -> MulUpperSigned(sb, sa)
       [] op = "mul_upper_u_u" -> MulUpperUnsigned(b, a)
       [] op = "mul_upper_s_u" -> MulUpperSignedUnsigned(sb, a)
       [] op = "max" -> AsU64(IF sa < sb THEN sb ELSE sa)
       [] op = "max_u" -> IF a < b THEN b ELSE a
       [] op = "min" -> AsU64(IF sa > sb THEN sb ELSE sa)
       [] op = "min_u" -> IF a > b THEN b ELSE a

BitCount(op, x) ==
  CASE op = "count_set_bits_64" -> Popcnt64(x)
    [] op = "count_set_bits_32" -> Popcnt32(AsU32(x))
    [] op = "leading_zero_bits_64" -> Clz64(x)
    [] op = "leading_zero_bits_32" -> Clz32(AsU32(x))
    [] op = "trailing_zero_bits_64" -> Ctz64(x)
    [] op = "trailing_zero_bits_32" -> Ctz32(AsU32(x))
    [] op = "sign_extend_8" -> AsU64(SignExtend(x, W8))
    [] op = "sign_extend_16" -> AsU64(SignExtend(x, W16))
    [] op = "zero_extend_16" -> x % 2 ^ W16
    [] op = "reverse_bytes" -> Swap64(x)

Logic(op, a, b) ==
  CASE op = "and" -> And(W64, b, a)
    [] op = "xor" -> Xor(W64, b, a)
    [] op = "or" -> Or(W64, b, a)
    [] op = "and_inv" -> And(W64, b, Not(a))
    [] op = "or_inv" -> Or(W64, b, Not(a))
    [] op = "xnor" -> AsU64(Not(Xor(W64, b, a)))

LogicImm(op, x, c) ==
  CASE op = "and_imm" -> And(W64, x, Extended(c))
    [] op = "xor_imm" -> Xor(W64, x, Extended(c))
    [] op = "or_imm" -> Or(W64, x, Extended(c))

\* A shift amount.  A negative number has a negative remainder, which u32
\* makes a huge one; shifts of 32-bit numbers use its low bits only.
ArgShift(c, n) == AsU32(Remainder(Arg(c), n))

\* u64(v << u64(s)): a BigInt of so many bits cannot be, and the call throws.
THROWS == -1
ShlBig(v, s) == IF v # 0 /\ s > W64 THEN THROWS ELSE AsU64(Shl(v, s))

ShiftImm32(op, x, c) ==
  LET s == ArgShift(c, W32)
      t == x % W32
  IN CASE op = "shlo_l_imm_32" -> Extended(Shl(AsU32(x), s % W32))
       [] op = "shlo_r_imm_32" -> Extended(Shr(AsU32(x), s % W32))
       [] op = "shar_r_imm_32" -> AsU64(Shr(Signed(x, W32), s))
       [] op = "shlo_l_imm_alt_32" -> Extended(Shl(c, t))
       [] op = "shlo_r_imm_alt_32" -> Extended(Shr(AsU32(Arg(c)), t))
       [] op = "shar_r_imm_alt_32" -> Extended(Shr(Signed(c, W32), t))

ShiftImm(op, x, c) ==
  LET s == ArgShift(c, W64)
      t == x % W64
  IN CASE op = "shlo_l_imm" -> ShlBig(x, s)
       [] op = "shlo_r_imm" -> Shr(x, s)
       [] op = "shar_r_imm" -> AsU64(Shr(Signed(x, W64), s))
       [] op = "shlo_l_imm_alt" -> AsU64(Shl(SignExtend(c, W32), t))
       [] op = "shlo_r_imm_alt" -> Shr(AsU64(SignExtend(c, W32)), t)
       \* the one shift to the right of an immediate without i64(...)
       [] op = "shar_r_imm_alt" -> Extended(AsU32(Shr(SignExtend(c, W32), t)))

Shift(op, a, b) ==
  LET s == a % W32
      t == a % W64
  IN CASE op = "shlo_l_32" -> Extended(Shl(AsU32(b), s))
       [] op = "shlo_r_32" -> Extended(Shr(AsU32(b), s))
       [] op = "shar_r_32" -> Extended(Shr(Signed(b, W32), s))
       [] op = "shlo_l" -> AsU64(Shl(b, t))
       [] op = "shlo_r" -> Shr(b, t)
       [] op = "shar_r" -> AsU64(Shr(Signed(b, W64), t))

Rotate(op, a, b) ==
  CASE op = "rot_l_64" -> RotL(W64, b, a)
    [] op = "rot_r_64" -> RotR(W64, b, a)
    [] op = "rot_l_32" -> Extended(RotL(W32, AsU32(b), AsU32(a)))
    [] op = "rot_r_32" -> Extended(RotR(W32, AsU32(b), AsU32(a)))

RotateImm(op, x, c) ==
  CASE op = "rot_r_64_imm" -> RotR(W64, x, Extended(c))
    [] op = "rot_r_64_imm_alt" -> RotR(W64, Extended(c), x)
    [] op = "rot_r_32_imm" -> Extended(RotR(W32, AsU32(x), AsU32(c)))
    [] op = "rot_r_32_imm_alt" -> Extended(RotR(W32, AsU32(c), AsU32(x)))

Flag(cond) == IF cond THEN 1 ELSE 0

SetIf(op, a, b) ==
  CASE op = "set_lt_u" -> Flag(b < a)
    [] op = "set_lt_s" -> Flag(Signed(b, W64) < Signed(a, W64))

\* Mutant of SetImm: unsigned comparisons take the immediate as it is.
SetImmRaw(op, x, c) ==
  CASE op = "set_lt_u_imm" -> Flag(x < c)
    [] op = "set_lt_s_imm" -> Flag(Signed(x, W64) < Signed(Extended(c), W64))
    [] op = "set_gt_u_imm" -> Flag(x > c)
    [] op = "set_gt_s_imm" -> Flag(Signed(x, W64) > Signed(Extended(c), W64))

SetImm(op, x, c) ==
  CASE op = "set_lt_u_imm" -> Flag(x < Extended(c))
    [] op = "set_lt_s_imm" -> Flag(Signed(x, W64) < Signed(Extended(c), W64))
    [] op = "set_gt_u_imm" -> Flag(x > Extended(c))
    [] op = "set_gt_s_imm" -> Flag(Signed(x, W64) > Signed(Extended(c), W64))

Move(op, a, b, d) ==
  CASE op = "move_reg" -> a
    [] op = "cmov_iz" -> IF a = 0 THEN b ELSE d
    [] op = "cmov_nz" -> IF a # 0 THEN b ELSE d

MoveImm(op, x, c, d) ==
  CASE op = "cmov_iz_imm" -> IF x = 0 THEN Extended(c) ELSE d
    [] op = "cmov_nz_imm" -> IF x # 0 THEN Extended(c) ELSE d

\* Whether the branch is taken.
Branch(op, a, b) ==
  CASE op = "branch_eq" -> a = b
    [] op = "branch_ne" -> a # b
    [] op = "branch_lt_u" -> b < a
    [] op = "branch_lt_s" -> Signed(b, W64) < Signed(a, W64)
    [] op = "branch_ge_u" -> b >= a
    [] op = "branch_ge_s" -> Signed(b, W64) >= Signed(a, W64)

\* Here the immediate is args.b.
BranchImm(op, x, c) ==
  LET y == Extended(c)
      sx == Signed(x, W64)
      sy == Signed(y, W64)
  IN CASE op = "branch_eq_imm" -> x = y
       [] op = "branch_ne_imm" -> x # y
       [] op = "branch_lt_u_imm" -> x < y
       [] op = "branch_le_u_imm" -> x <= y
       [] op = "branch_ge_u_imm" -> x >= y
       [] op = "branch_gt_u_imm" -> x > y
       [] op = "branch_lt_s_imm" -> sx < sy
       [] op = "branch_le_s_imm" -> sx <= sy
       [] op = "branch_ge_s_imm" -> sx >= sy
       [] op = "branch_gt_s_imm" -> sx > sy

\* load_imm; load_imm_64 with the halves b and c; the address that indirect
\* loads, stores and jumps use.
LoadImm(c) == Extended(c)
LoadImm64(b, c) == AsU64(b + Shl(c, W32))
EffectiveAddress(x, c) == AsU32(AsU64(x + Extended(c)))
-----------------------------------------------------------------------------
Math32Ops == {"add_32", "sub_32", "mul_32", "div_u_32", "div_s_32", "rem_u_32", "rem_s_32"}
Math64Ops == {"add_64", "sub", "mul", "div_u", "div_s", "rem_u", "rem_s", "mul_upper_s_s",
              "mul_upper_u_u", "mul_upper_s_u", "max", "max_u", "min", "min_u"}
LogicOps == {"and", "xor", "or", "and_inv", "or_inv", "xnor"}
ShiftOps == {"shlo_l_32", "shlo_r_32", "shar_r_32", "shlo_l", "shlo_r", "shar_r"}
RotateOps == {"rot_l_64", "rot_r_64", "rot_l_32", "rot_r_32"}
SetOps == {"set_lt_u", "set_lt_s"}
MoveOps == {"move_reg", "cmov_iz", "cmov_nz"}
BitOps == {"count_set_bits_64", "count_set_bits_32", "leading_zero_bits_64",
           "leading_zero_bits_32", "trailing_zero_bits_64", "trailing_zero_bits_32",
           "sign_extend_8", "sign_extend_16", "zero_extend_16", "reverse_bytes"}
RegOps == Math32Ops \cup Math64Ops \cup LogicOps \cup ShiftOps \cup RotateOps
            \cup SetOps \cup MoveOps

Shift32ImmOps == {"shlo_l_imm_32", "shlo_r_imm_32", "shar_r_imm_32",
                  "shlo_l_imm_alt_32", "shlo_r_imm_alt_32", "shar_r_imm_alt_32"}
Shift64ImmOps == {"shlo_l_imm", "shlo_r_imm", "shar_r_imm",
                  "shlo_l_imm_alt", "shlo_r_imm_alt", "shar_r_imm_alt"}
MathImmOps == {"add_imm_32", "mul_imm_32", "neg_add_imm_32", "add_imm", "mul_imm", "neg_add_imm"}
LogicImmOps == {"and_imm", "xor_imm", "or_imm"}
RotateImmOps == {"rot_r_64_imm", "rot_r_64_imm_alt", "rot_r_32_imm", "rot_r_32_imm_alt"}
SetImmOps == {"set_lt_u_imm", "set_lt_s_imm", "set_gt_u_imm", "set_gt_s_imm"}
ImmOps == MathImmOps \cup LogicImmOps \cup Shift32ImmOps \cup Shift64ImmOps
            \cup RotateImmOps \cup SetImmOps \cup {"cmov_iz_imm", "cmov_nz_imm"}

BranchOps == {"branch_eq", "branch_ne", "branch_lt_u", "branch_lt_s", "branch_ge_u", "branch_ge_s"}
BranchImmOps == {"branch_eq_imm", "branch_ne_imm", "branch_lt_u_imm", "branch_le_u_imm",
                 "branch_ge_u_imm", "branch_gt_u_imm", "branch_lt_s_imm", "branch_le_s_imm",
                 "branch_ge_s_imm", "branch_gt_s_imm"}

\* What is in the register written to, after the instruction.
RegResult(op, a, b, d) ==
  CASE op \in Math32Ops -> Math32(op, a, b)
    [] op \in Math64Ops -> Math64(op, a, b)
    [] op \in LogicOps -> Logic(op, a, b)
    [] op \in ShiftOps -> Shift(op, a, b)
    [] op \in RotateOps -> Rotate(op, a, b)
    [] op \in SetOps -> SetIf(op, a, b)
    [] op \in MoveOps -> Move(op, a, b, d)

ImmResult(op, x, c, d) ==
  CASE op \in MathImmOps -> MathImm(op, x, c)
    [] op \in LogicImmOps -> LogicImm(op, x, c)
    [] op \in Shift32ImmOps -> ShiftImm32(op, x, c)
    [] op \in Shift64ImmOps -> ShiftImm(op, x, c)
    [] op \in RotateImmOps -> RotateImm(op, x, c)
    [] op \in SetImmOps -> SetImm(op, x, c)
    [] OTHER -> MoveImm(op, x, c, d)
=============================================================================
