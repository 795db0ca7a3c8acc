--------------------------- MODULE ProgramTables ---------------------------
(***************************************************************************)
(* Every small program and every small jump table item, grown byte by      *)
(* byte, and what the tables of module Program promise about them.         *)
(***************************************************************************)
EXTENDS Program, FiniteSetsExt

CONSTANTS
  Ops,        \* opcodes that bytes of the code are taken from
  MaxCode,    \* longest code
  MaxItem,    \* longest jump table item
  WORD_BYTES  \* bytes of a u64: 8 in the code

\* A byte has a number of bits, and a u64 has WORD_BYTES times as many.
ASSUME TablesAssumption ==
  /\ Ops \subseteq Opcode /\ MaxCode \in Nat /\ MaxItem \in Nat /\ WORD_BYTES \in Nat
  /\ \E bits \in 1 .. BYTE_BASE : BYTE_BASE = 2 ^ bits /\ U64 = 2 ^ (bits * WORD_BYTES)

VARIABLES
  raw,  \* the code and its mask
  item  \* the bytes of a jump table item, least significant first

tvars == <<raw, item>>

TablesInit == raw = [code |-> <<>>, mask |-> <<>>, jumps |-> <<>>] /\ item = <<>>

AddByte(op, bit) ==
  /\ Size(raw) < MaxCode /\ item = <<>>
  /\ raw' = [raw EXCEPT !.code = Append(@, [op |-> op, arg |-> 0]), !.mask = Append(@, bit)]
  /\ UNCHANGED item

AddItemByte(b) ==
  /\ Len(item) < MaxItem /\ Size(raw) = 0
  /\ item' = Append(item, b)
  /\ UNCHANGED raw

TablesNext ==
  \/ \E op \in Ops, bit \in BOOLEAN : AddByte(op, bit)
  \/ \E b \in 0 .. BYTE_BASE - 1 : AddItemByte(b)
-----------------------------------------------------------------------------
m == Mask(raw)
Instructions == {i \in 0 .. Size(raw) - 1 : IsInstruction(m, i)}
StartSet == Starts(raw, m)

\* From an instruction the machine goes on to the next bit of the mask, or to
\* the end of the code if there is none, unless that is out of reach
\* (program.ts:85-103,119-125).  Out of reach is what is more than MAX_SKIP
\* bytes away, and the skip is MAX_SKIP + 1 then, as program.test.ts:37-41
\* tabulates; that words of the repository say otherwise is SkipBounded.
SkipExact ==
  \A i \in Instructions :
    LET rest == {j \in i + 1 .. Size(raw) - 1 : raw.mask[j + 1]} \cup {Size(raw)}
        distance == Min(rest) - (i + 1)
    IN SkipBytes(m, i) = IF distance <= MAX_SKIP THEN distance ELSE MAX_SKIP + 1

\* No more than MAX_SKIP bytes are skipped: "`skip` function is bounded by an
\* upper limit of `24` bytes" (program.ts:116-117), "should not allow skipping
\* more than 24 bytes" (program.test.ts:33).
SkipBounded == \A i \in Instructions : SkipBytes(m, i) <= MAX_SKIP

\* A block is paid for at its start: the sum over the instructions from there
\* to the next start, as far as an entry has room for it; entering a block
\* anywhere else is free (program.ts:156-176).
\* Whatever is charged, both tables carry the opcode of every instruction, which
\* the interpreter takes from them (program.ts:141-152, interpreter.ts:117).
BlockGasExact ==
  raw.code # <<>> =>
    /\ \A i \in Instructions :
         /\ InstructionCosts(raw, m)[i] = [op |-> OpAt(raw, i), gas |-> GAS[OpAt(raw, i)]]
         /\ BlockCosts(raw, m, StartSet)[i].op = OpAt(raw, i)
    /\ \A n \in 0 .. Size(raw) - 1 :
         BlockCosts(raw, m, StartSet)[n].gas =
           IF n \in StartSet
           THEN LET end == Min({s \in StartSet : s > n} \cup {Size(raw)})
                IN MapThenSumSet(LAMBDA i : GAS[OpAt(raw, i)],
                                 {i \in Instructions : n <= i /\ i < end}) % U24
           ELSE 0

\* The number that the bytes of the item stand for.
Value(bytes) ==
  LET value[k \in 0 .. Len(bytes)] ==
        IF k = Len(bytes) THEN 0 ELSE bytes[k + 1] + BYTE_BASE * value[k + 1]
  IN value[0]

\* An item of up to eight bytes is decoded exactly (program.ts:263-274).
JumpItemExact == Len(item) <= WORD_BYTES => JumpItem(item) = Value(item)
=============================================================================
