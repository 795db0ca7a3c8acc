------------------------- MODULE ComputationProofs --------------------------
(***************************************************************************)
(* Results about what is computed of inputs of any length and for bytes    *)
(* and registers of any width.  Of programs, from the blob to the          *)
(* arguments of instructions: that the machine goes on from one            *)
(* instruction to the next, items of the jump table, that each block is    *)
(* charged once for the whole of it, numbers of a blob, arguments that are *)
(* missing or a number, wrapped code, and sections.  Of instructions:      *)
(* products, quotients and remainders, whole and in halves; immediates;    *)
(* the two builds, that they agree; shifts, rotations and counts, bit by   *)
(* bit.                                                                    *)
(***************************************************************************)
EXTENDS Computation, ProgramProofs

-----------------------------------------------------------------------------
(* The tables of skips and of costs.                                      *)

\* Code and mask are of the same length.
RawOK ==
  /\ raw.code \in Seq([op : Ops, arg : {0}]) /\ raw.mask \in Seq(BOOLEAN)
  /\ Len(raw.mask) = Len(raw.code)
  /\ raw = [code |-> raw.code, mask |-> raw.mask, jumps |-> raw.jumps]

LEMMA RawInvariant == Spec => []RawOK
<1>1. Init => RawOK
  BY DEF Init, TablesInit, RawOK
<1>2. RawOK /\ [Next]_vars => RawOK'
  <2> SUFFICES ASSUME RawOK, [Next]_vars PROVE RawOK'
    OBVIOUS
  <2>1. raw' = raw \/ \E op \in Ops, bit \in BOOLEAN : AddByte(op, bit)
    BY DEF Next, vars, GrowTables, TablesNext, AddItemByte, AddCodeByte, AddBit, Load
  <2>2. CASE raw' = raw
    BY <2>2 DEF RawOK
  <2>3. ASSUME NEW op \in Ops, NEW bit \in BOOLEAN, AddByte(op, bit) PROVE RawOK'
    <3> DEFINE c == raw.code  k == raw.mask  b == [op |-> op, arg |-> 0]
    <3>1. raw' = [code |-> Append(c, b), mask |-> Append(k, bit), jumps |-> raw.jumps]
      BY <2>3 DEF AddByte, RawOK
    <3>2. b \in [op : Ops, arg : {0}]
      OBVIOUS
    <3>3. /\ c \in Seq([op : Ops, arg : {0}]) /\ k \in Seq(BOOLEAN) /\ Len(k) = Len(c)
      BY DEF RawOK
    <3> HIDE DEF b, c, k
    <3>4. /\ Append(c, b) \in Seq([op : Ops, arg : {0}]) /\ Append(k, bit) \in Seq(BOOLEAN)
          /\ Len(Append(k, bit)) = Len(Append(c, b))
      BY <3>2, <3>3
    <3> QED BY <3>1, <3>4 DEF RawOK
  <2> QED BY <2>1, <2>2, <2>3
<1> QED BY <1>1, <1>2, PTL DEF Spec

LEMMA SkipsAreExact == ASSUME RawOK PROVE SkipExact
<1>1. Size(raw) \in Nat /\ MAX_SKIP \in Nat
  BY WidthsAssumption DEF RawOK, Size
<1> DEFINE size == Size(raw)
           offset == LastInstructionOffset(raw)
<1>2. SUFFICES ASSUME NEW i \in Instructions
      PROVE  LET distance == Min({j \in i + 1 .. size - 1 : raw.mask[j + 1]} \cup {size}) - (i + 1)
             IN SkipBytes(m, i) = IF distance <= MAX_SKIP THEN distance ELSE MAX_SKIP + 1
  BY DEF SkipExact
<1> DEFINE rest == {j \in i + 1 .. size - 1 : raw.mask[j + 1]} \cup {size}
           to == i + 1 + offset[i + 1]
<1>3. i \in 0 .. size - 1 /\ i + 1 \in 0 .. size
  BY <1>1 DEF Instructions
<1>4. /\ offset[i + 1] \in Nat /\ to \in Marked(raw) \cup {size} /\ i + 1 <= to
      /\ \A j \in i + 1 .. to - 1 : j \notin Marked(raw)
  <2> HIDE DEF Size
  <2> QED BY <1>1, <1>3, OffsetFacts, OffsetLeads
<1>5. Min(rest) = to
  <2>1. rest = {j \in Marked(raw) \cup {size} : i + 1 <= j}
    BY <1>1, <1>3 DEF Marked
  <2>2. to \in rest /\ \A j \in rest : to <= j
    <3>1. ASSUME NEW j \in rest PROVE to <= j
      <4>1. j \in Int /\ i + 1 <= j /\ (j = size \/ j \in Marked(raw)) /\ to <= size
        BY <1>1, <1>3, <1>4, <2>1 DEF Marked
      <4> QED BY <1>1, <1>3, <1>4, <4>1
    <3> QED BY <1>4, <2>1, <3>1
  <2>3. \A j \in rest : j \in Int
    BY <1>1, <1>3
  <2> HIDE DEF rest, to
  <2>4. \A j \in rest : (\A k \in rest : j <= k) => j = to
    BY <2>2, <2>3
  <2> QED BY <2>2, <2>4 DEF Min
<1>6. m.len = size /\ m.skip = BytesToSkip(raw)
  BY DEF m, Mask
<1>7. CASE i + 1 < size
  <2>1. i + 1 \in 0 .. size - 1
    BY <1>1, <1>3, <1>7
  <2>2. SkipBytes(m, i) = IF offset[i + 1] < MAX_SKIP + 1 THEN offset[i + 1] ELSE MAX_SKIP + 1
    BY <1>6, <1>7, <2>1 DEF SkipBytes, BytesToSkip
  <2>3. to - (i + 1) = offset[i + 1]
    BY <1>3, <1>4
  <2> HIDE DEF rest, to, offset
  <2> QED BY <1>1, <1>4, <1>5, <2>2, <2>3 DEF rest
<1>8. CASE ~(i + 1 < size)
  <2>1. i + 1 = size /\ SkipBytes(m, i) = 0
    BY <1>1, <1>3, <1>6, <1>8 DEF SkipBytes
  <2>2. to = size
    BY <1>1, <1>4, <2>1 DEF Marked
  <2> HIDE DEF rest, to, offset
  <2> QED BY <1>1, <1>5, <2>1, <2>2 DEF rest
<1> QED BY <1>7, <1>8

\* From an instruction the machine goes on to the next bit of the mask, or to
\* the end of the code, unless that is farther away than the cap; for code of
\* any length, and where the cap itself ends too.
THEOREM SkipExactTheorem == Spec => []SkipExact
BY RawInvariant, SkipsAreExact, PTL

\* Code and mask are what ProgramProofs is about.
LEMMA RawIsCode == ASSUME RawOK PROVE IsCode(raw) /\ Instructions = Marked(raw)
<1> DEFINE c == raw.code  S == [op : Ops, arg : {0}]  T == [op : Opcode, arg : Int]
<1>1. c \in Seq(S)
  BY DEF RawOK
<1>2. S \subseteq T
  BY TablesAssumption
<1> HIDE DEF c, S, T
<1>3. c \in Seq(T)
  <2>1. Len(c) \in Nat /\ DOMAIN c = 1 .. Len(c) /\ c = [i \in 1 .. Len(c) |-> c[i]]
        /\ \A i \in 1 .. Len(c) : c[i] \in S
    BY <1>1
  <2> QED BY <1>2, <2>1
<1>4. IsCode(raw)
  BY <1>3 DEF RawOK, IsCode, c, T
<1>5. /\ Marked(raw) \subseteq 0 .. Size(raw) - 1
      /\ \A n \in 0 .. Size(raw) - 1 : IsInstruction(Mask(raw), n) <=> n \in Marked(raw)
  BY <1>4, CodeFacts
<1> QED BY <1>4, <1>5 DEF Instructions, m

LEMMA BlockGasIsExact == ASSUME RawOK PROVE BlockGasExact
<1> SUFFICES ASSUME raw.code # <<>> PROVE BlockGasExact
  BY DEF BlockGasExact
<1>1. IsCode(raw) /\ Instructions = Marked(raw) /\ m = Mask(raw) /\ StartSet = StartsOf(raw)
  BY RawIsCode DEF m, StartSet, StartsOf
<1> DEFINE ics == InstructionCosts(raw, m)
           bcs == BlockCosts(raw, m, StartSet)
<1>2. /\ \A i \in Marked(raw) : ics[i] = [op |-> OpAt(raw, i), gas |-> Price(raw)[i]]
                                /\ bcs[i].op = OpAt(raw, i) /\ i \in 0 .. Size(raw) - 1
      /\ \A n \in 0 .. Size(raw) - 1 :
           bcs[n].gas = IF n \in StartsOf(raw) THEN BlockCharge(raw, n) % U24 ELSE 0
  BY <1>1, InstructionCostsAre, BlockCostsAre, CodeFacts
<1> HIDE DEF ics, bcs
<1>3. /\ \A i \in Instructions :
           /\ ics[i] = [op |-> OpAt(raw, i), gas |-> GAS[OpAt(raw, i)]]
           /\ bcs[i].op = OpAt(raw, i)
      /\ \A n \in 0 .. Size(raw) - 1 :
           bcs[n].gas = IF n \in StartSet THEN BlockCharge(raw, n) % U24 ELSE 0
  BY <1>1, <1>2 DEF Price
<1>4. ASSUME NEW n
      PROVE  BlockCharge(raw, n) =
               LET end == Min({s \in StartSet : s > n} \cup {Size(raw)})
               IN MapThenSumSet(LAMBDA i : GAS[OpAt(raw, i)],
                                {i \in Instructions : n <= i /\ i < end})
  BY <1>1 DEF BlockCharge, BlockEnd, ChargeOf
<1> QED BY <1>3, <1>4 DEF BlockGasExact, ics, bcs

\* For every program: the table of costs has every instruction with its price,
\* and that of blocks has at each start the sum over its block, nothing
\* elsewhere, and the opcode of every instruction.
THEOREM BlockGasExactTheorem == Spec => []BlockGasExact
BY RawInvariant, BlockGasIsExact, PTL

-----------------------------------------------------------------------------
(* Items of the jump table, as numbers.                                    *)

LEMMA Base ==
  /\ BYTE_BASE \in Nat /\ BYTE_BASE >= 2 /\ U64 \in Nat \ {0} /\ WORD_BYTES \in Nat
  /\ \A d \in Digit : d \in Nat /\ d + 1 <= BYTE_BASE
BY WidthsAssumption, TablesAssumption DEF Digit

\* The number that bytes stand for, as its equation says.
LEMMA ValueIs ==
  ASSUME NEW n \in Nat, NEW its \in [1 .. n -> Digit], Len(its) = n
  PROVE  \E w : /\ w[n] = 0 /\ Value(its) = w[0]
                /\ \A k \in 0 .. n - 1 : w[k] = its[k + 1] + BYTE_BASE * w[k + 1]
<1> DEFINE Is(f) == f = [k \in 0 .. Len(its) |->
                           IF k = Len(its) THEN 0 ELSE its[k + 1] + BYTE_BASE * f[k + 1]]
           value == CHOOSE f : Is(f)
           F == [p \in Nat \X (1 .. n) |-> its[n - p[2] + 1] + BYTE_BASE * p[1]]
<1>1. Value(its) = value[0]
  BY DEF Value
<1>2. ASSUME NEW a \in Nat, NEW i \in 1 .. n PROVE its[n - i + 1] + BYTE_BASE * a \in Nat
  <2>1. n - i + 1 \in 1 .. n
    OBVIOUS
  <2>2. its[n - i + 1] \in Nat
    BY <2>1, Base
  <2>3. BYTE_BASE * a \in Nat
    BY Base
  <2> QED BY <2>2, <2>3
<1>3. /\ F \in [Nat \X (1 .. n) -> Nat]
      /\ \A a \in Nat, i \in 1 .. n : F[<<a, i>>] = its[n - i + 1] + BYTE_BASE * a
  BY <1>2
<1> HIDE DEF F
<1>4. PICK g \in [SUBSET (1 .. n) -> Nat] : \A s \in SUBSET (1 .. n) :
             g[s] = IF s = {} THEN 0 ELSE F[<<g[s \ {Max(s)}], Max(s)>>]
  <2> DEFINE V == Nat
  <2>1. 0 \in V /\ F \in [V \X (1 .. n) -> V]
    BY <1>3
  <2> HIDE DEF Is, V
  <2>2. \E g \in [SUBSET (1 .. n) -> V] : IsAlong(g, n, 0, F)
    BY <2>1, FoldAlong
  <2> QED BY <2>2 DEF V, IsAlong
<1> DEFINE f == [k \in 0 .. n |-> g[1 .. n - k]]
<1>5. ASSUME NEW k \in 0 .. n
      PROVE  f[k] = IF k = n THEN 0 ELSE its[k + 1] + BYTE_BASE * f[k + 1]
  <2>1. CASE k = n
    <3>1. 1 .. n - k = {}
      BY <2>1
    <3> QED BY <1>4, <2>1, <3>1
  <2>2. CASE k # n
    <3> DEFINE i == n - k
    <3>1. /\ i \in 1 .. n /\ i \in Nat \ {0} /\ 1 .. i \in SUBSET (1 .. n) /\ n - (k + 1) = i - 1
          /\ n - i + 1 = k + 1 /\ 1 .. i - 1 \in SUBSET (1 .. n) /\ k + 1 \in 0 .. n
      BY <2>2
    <3> HIDE DEF i
    <3>2. 1 .. i # {} /\ Max(1 .. i) = i /\ (1 .. i) \ {i} = 1 .. i - 1
      BY <3>1, UpToGreatest
    <3>3. g[1 .. i] = F[<<g[1 .. i - 1], i>>] /\ g[1 .. i - 1] \in Nat
      BY <1>4, <3>1, <3>2
    <3>4. g[1 .. i] = its[k + 1] + BYTE_BASE * g[1 .. i - 1]
      BY <1>3, <3>1, <3>3
    <3>5. f[k] = g[1 .. i] /\ f[k + 1] = g[1 .. i - 1]
      BY <3>1 DEF i
    <3> HIDE DEF f
    <3> QED BY <2>2, <3>4, <3>5
  <2> QED BY <2>1, <2>2
<1>6. f = [k \in 0 .. n |-> f[k]]
  OBVIOUS
<1> HIDE DEF f
<1>7. Is(f)
  BY <1>5, <1>6
<1> HIDE DEF Is
<1>8. Is(value)
  BY <1>7
<1> HIDE DEF value
<1>9. ASSUME NEW k \in 0 .. n
      PROVE  value[k] = IF k = n THEN 0 ELSE its[k + 1] + BYTE_BASE * value[k + 1]
  BY <1>8 DEF Is
<1>10. value[n] = 0 /\ \A k \in 0 .. n - 1 : value[k] = its[k + 1] + BYTE_BASE * value[k + 1]
  BY <1>9
<1> QED BY <1>1, <1>10

\* As long as they fit, nothing overflows.
LEMMA ShiftedExact ==
  ASSUME NEW a \in Nat, NEW d \in Digit, NEW p \in Nat, a < p, BYTE_BASE * p <= U64
  PROVE  Shifted(a, d) = d + BYTE_BASE * a /\ d + BYTE_BASE * a \in Nat /\ d + BYTE_BASE * a < BYTE_BASE * p
<1>1. BYTE_BASE * (a + 1) <= BYTE_BASE * p
  BY Base, TimesMonotone
<1>2. /\ BYTE_BASE * (a + 1) = BYTE_BASE * a + BYTE_BASE /\ a * BYTE_BASE = BYTE_BASE * a
      /\ BYTE_BASE * a \in Nat /\ BYTE_BASE * p \in Nat
  BY Base
<1>3. a <= BYTE_BASE * a
  <2>1. a * 1 <= a * BYTE_BASE
    BY Base, TimesMonotone
  <2> QED BY <1>2, <2>1
<1> DEFINE q == BYTE_BASE * a  t == BYTE_BASE * p  u == BYTE_BASE * (a + 1)
<1>4. q \in Nat /\ t \in Nat /\ u = q + BYTE_BASE /\ u <= t /\ a <= q /\ t <= U64 /\ a * BYTE_BASE = q
  BY <1>1, <1>2, <1>3
<1> HIDE DEF q, t, u
<1>5. d \in Nat /\ d + 1 <= BYTE_BASE /\ BYTE_BASE \in Nat /\ U64 \in Nat \ {0}
  BY Base
<1>6. q + d < t /\ q \in 0 .. U64 - 1 /\ q + d \in 0 .. U64 - 1
  BY <1>4, <1>5
<1>7. q % U64 = q /\ (q + d) % U64 = q + d
  BY <1>5, <1>6, ModSmall
<1>8. Shifted(a, d) = q + d
  BY <1>4, <1>5, <1>6, <1>7 DEF Shifted
<1> QED BY <1>4, <1>5, <1>6, <1>8 DEF q, t

LEMMA JumpItemIsValue ==
  ASSUME NEW n \in Nat, NEW its \in [1 .. n -> Digit], Len(its) = n, n <= WORD_BYTES
  PROVE  JumpItem(its) = Value(its)
<1>1. PICK v : /\ v[0] = 0 /\ JumpItem(its) = v[n]
               /\ \A i \in 1 .. n : v[i] = Shifted(v[i - 1], its[n - i + 1])
  BY JumpItemFolds
<1>2. PICK w : /\ w[n] = 0 /\ Value(its) = w[0]
               /\ \A k \in 0 .. n - 1 : w[k] = its[k + 1] + BYTE_BASE * w[k + 1]
  BY ValueIs
<1>3. PICK bits \in 1 .. BYTE_BASE : BYTE_BASE = 2 ^ bits /\ U64 = 2 ^ (bits * WORD_BYTES)
  BY TablesAssumption
<1>4. bits \in Nat
  BY <1>3, Base
<1> DEFINE P(i) == 2 ^ (bits * i)
           Exact(i) == v[i] = w[n - i] /\ v[i] \in Nat /\ v[i] < P(i)
           bad == {i \in 0 .. n : ~Exact(i)}
<1>5. SUFFICES ASSUME bad # {} PROVE FALSE
  <2>1. Exact(n)
    <3> HIDE DEF Exact
    <3> QED BY <1>5
  <2>2. n - n = 0
    OBVIOUS
  <2> QED BY <1>1, <1>2, <2>1, <2>2
<1>6. PICK i \in bad : \A j \in bad : i <= j
  <2>1. bad \subseteq Nat
    OBVIOUS
  <2> HIDE DEF bad
  <2> QED BY <1>5, <2>1, LeastElement
<1>7. i \in 0 .. n /\ ~Exact(i)
  <2> HIDE DEF Exact
  <2> QED BY <1>6
<1>8. CASE i = 0
  <2>1. bits * 0 = 0 /\ 0 \in Nat
    BY <1>4
  <2>2. P(0) \in Nat \ {0}
    BY <2>1, PowerFacts
  <2>3. n - 0 = n
    OBVIOUS
  <2> HIDE DEF P
  <2> QED BY <1>1, <1>2, <1>7, <1>8, <2>2, <2>3
<1>9. CASE i # 0
  <2>1. i \in 1 .. n /\ i - 1 \in 0 .. n /\ n - i + 1 \in 1 .. n /\ n - i \in 0 .. n - 1
        /\ n - (i - 1) = n - i + 1
    BY <1>7, <1>9
  <2>2. Exact(i - 1)
    <3>1. i - 1 \notin bad
      <4> HIDE DEF bad
      <4> QED BY <1>6, <2>1
    <3> HIDE DEF Exact
    <3> QED BY <2>1, <3>1
  <2>3. P(i) = BYTE_BASE * P(i - 1) /\ P(i - 1) \in Nat
    <3>1. bits * i = bits + bits * (i - 1) /\ bits * (i - 1) \in Nat
      BY <1>4, <2>1
    <3> QED BY <1>3, <1>4, <3>1, PowerAdds, PowerFacts
  <2>4. P(i) <= U64 /\ P(i) \in Nat
    <3> DEFINE c == bits * i  e == bits * (WORD_BYTES - i)
    <3>1. c \in Nat /\ e \in Nat /\ bits * WORD_BYTES = c + e
      BY <1>4, <2>1, Base
    <3> HIDE DEF c, e
    <3>2. U64 = 2 ^ c * 2 ^ e /\ 2 ^ c \in Nat \ {0} /\ 2 ^ e \in Nat \ {0}
      BY <1>3, <3>1, PowerAdds, PowerFacts
    <3>3. 2 ^ c * 1 <= 2 ^ c * 2 ^ e
      BY <3>2, TimesMonotone
    <3> QED BY <3>2, <3>3 DEF c
  <2> DEFINE d == its[n - i + 1]  a == v[i - 1]
  <2>5. d \in Digit
    BY <2>1
  <2>6. a \in Nat /\ a < P(i - 1) /\ a = w[n - i + 1]
    BY <2>1, <2>2
  <2>7. v[i] = Shifted(a, d)
    BY <1>1, <2>1
  <2>8. w[n - i] = d + BYTE_BASE * a
    BY <1>2, <2>1, <2>6
  <2> HIDE DEF P, d, a
  <2>9. v[i] = d + BYTE_BASE * a /\ v[i] \in Nat /\ v[i] < P(i)
    BY <2>3, <2>4, <2>5, <2>6, <2>7, ShiftedExact
  <2> QED BY <1>7, <2>8, <2>9
<1> QED BY <1>8, <1>9

ItemOK == item \in Seq(Digit)

LEMMA ItemInvariant == Spec => []ItemOK
<1>1. Init => ItemOK
  BY DEF Init, TablesInit, ItemOK
<1>2. ItemOK /\ [Next]_vars => ItemOK'
  <2> SUFFICES ASSUME ItemOK, [Next]_vars PROVE ItemOK'
    OBVIOUS
  <2>1. item' = item \/ \E b \in Digit : item' = Append(item, b)
    BY DEF Next, vars, GrowTables, TablesNext, AddByte, AddItemByte, AddCodeByte, AddBit, Load, Digit
  <2> QED BY <2>1 DEF ItemOK
<1> QED BY <1>1, <1>2, PTL DEF Spec

\* An item of up to as many bytes as a u64 has is decoded exactly, for bytes
\* and words of any width: nothing overflows, and no overflow is seen where
\* there is none (program.ts:263-274).
THEOREM JumpItemExactTheorem == Spec => []JumpItemExact
<1>1. ItemOK => JumpItemExact
  <2> SUFFICES ASSUME ItemOK, Len(item) <= WORD_BYTES PROVE JumpItem(item) = Value(item)
    BY DEF JumpItemExact
  <2>1. Len(item) \in Nat /\ item \in [1 .. Len(item) -> Digit]
    BY DEF ItemOK
  <2> QED BY <2>1, JumpItemIsValue
<1> QED BY <1>1, ItemInvariant, PTL

-----------------------------------------------------------------------------
(* Numbers of a blob.                                                      *)

LEMMA WeightFacts ==
  /\ BITS \in Nat /\ BITS >= 2 /\ BITS \div 2 \in Nat /\ 2 * (BITS \div 2) = BITS
  /\ ByteBase \in Nat /\ ByteBase >= 4 /\ Weight(0) = 1
  /\ \A n \in Nat : /\ Weight(n) \in Nat \ {0} /\ Weight(n + 1) = Weight(n) * ByteBase
                    /\ BITS * n \in Nat
<1>1. /\ BITS \in Nat /\ BITS >= 2 /\ BITS \div 2 \in Nat /\ 2 * (BITS \div 2) = BITS
  BY CodecAssumption
<1>2. \A n \in Nat : BITS * n \in Nat
  BY <1>1
<1>3. ByteBase \in Nat /\ ByteBase >= 4
  <2>1. 2 ^ 2 <= 2 ^ BITS /\ 2 ^ BITS \in Nat
    BY <1>1, PowerMonotone, PowerFacts
  <2>2. 2 ^ 2 = 4
    OBVIOUS
  <2> QED BY <2>1, <2>2 DEF ByteBase
<1>4. Weight(0) = 1
  <2>1. BITS * 0 = 0 /\ 2 ^ 0 = 1
    BY <1>1
  <2> QED BY <2>1 DEF Weight
<1>5. ASSUME NEW n \in Nat PROVE Weight(n) \in Nat \ {0} /\ Weight(n + 1) = Weight(n) * ByteBase
  <2>1. BITS * (n + 1) = BITS * n + BITS
    BY <1>1
  <2>2. 2 ^ (BITS * n + BITS) = 2 ^ (BITS * n) * 2 ^ BITS
    BY <1>1, <1>2, PowerAdds
  <2>3. 2 ^ (BITS * n) \in Nat \ {0}
    BY <1>2, PowerFacts
  <2> QED BY <2>1, <2>2, <2>3 DEF Weight, ByteBase
<1> QED BY <1>1, <1>2, <1>3, <1>4, <1>5

\* What is put into bytes is read back from them.
LEMMA NumberOfBytes ==
  ASSUME NEW n \in Nat, NEW v \in 0 .. Weight(n) - 1
  PROVE  Number(Bytes(v, n)) = v
<1> DEFINE seq == Bytes(v, n)
           Is(g) == g = [s \in SUBSET DOMAIN seq |->
                           IF s = {} THEN 0 ELSE seq[Min(s)] + ByteBase * g[s \ {Min(s)}]]
           fold == CHOOSE g : Is(g)
           pick == [s \in SUBSET (1 .. n) |-> Min(s)]
           F == [p \in Nat \X (1 .. n) |-> seq[p[2]] + ByteBase * p[1]]
<1>0. v \in Nat /\ v < Weight(n) /\ ByteBase \in Nat \ {0}
  BY WeightFacts
<1>1. Number(seq) = fold[DOMAIN seq]
  BY DEF Number, FoldRight, MapThenFoldSet
<1>2. /\ DOMAIN seq = 1 .. n
      /\ \A i \in 1 .. n : seq[i] = (v \div Weight(i - 1)) % ByteBase /\ seq[i] \in Nat
  <2>1. DOMAIN seq = 1 .. n /\ \A i \in 1 .. n : seq[i] = (v \div Weight(i - 1)) % ByteBase
    BY DEF Bytes
  <2>2. ASSUME NEW i \in 1 .. n PROVE (v \div Weight(i - 1)) % ByteBase \in Nat
    <3>1. i - 1 \in Nat
      OBVIOUS
    <3>2. Weight(i - 1) \in Nat \ {0}
      BY <3>1, WeightFacts
    <3> QED BY <1>0, <3>2, QuotientNat
  <2> QED BY <2>1, <2>2
<1> HIDE DEF seq
<1>3. F \in [Nat \X (1 .. n) -> Nat] /\ \A a \in Nat, i \in 1 .. n : F[<<a, i>>] = seq[i] + ByteBase * a
  <2>1. ASSUME NEW a \in Nat, NEW i \in 1 .. n PROVE seq[i] + ByteBase * a \in Nat
    <3>1. ByteBase * a \in Nat /\ seq[i] \in Nat
      BY <1>0, <1>2
    <3> QED BY <3>1
  <2> QED BY <2>1
<1>4. \A s \in SUBSET (1 .. n) : pick[s] = Min(s) /\ (s # {} => pick[s] \in s)
  <2>1. ASSUME NEW s \in SUBSET (1 .. n), s # {} PROVE Min(s) \in s
    <3>1. s \subseteq Nat
      OBVIOUS
    <3>2. PICK k \in s : \A j \in s : k <= j
      BY <2>1, <3>1, LeastElement
    <3> QED BY <3>1, <3>2, MinIs
  <2> QED BY <2>1
<1> HIDE DEF F, pick
<1>5. PICK g \in [SUBSET (1 .. n) -> Nat] : IsFold(g, 1 .. n, 0, F, pick)
  <2> DEFINE V == Nat
  <2>1. 0 \in V /\ F \in [V \X (1 .. n) -> V]
    BY <1>3
  <2> HIDE DEF V, Is
  <2>2. IsFiniteSet(1 .. n)
    BY FS_Interval
  <2>3. \E g \in [SUBSET (1 .. n) -> V] : IsFold(g, 1 .. n, 0, F, pick)
    BY <1>4, <2>1, <2>2, FoldExists
  <2> QED BY <2>3 DEF V
<1>6. ASSUME NEW s \in SUBSET (1 .. n)
      PROVE  g[s] = IF s = {} THEN 0 ELSE seq[Min(s)] + ByteBase * g[s \ {Min(s)}]
  <2>1. CASE s = {}
    BY <1>5, <2>1 DEF IsFold
  <2>2. CASE s # {}
    <3>1. Min(s) = pick[s] /\ Min(s) \in 1 .. n /\ g[s \ {Min(s)}] \in Nat
      BY <1>4, <2>2
    <3> QED BY <1>3, <1>5, <2>2, <3>1 DEF IsFold
  <2> QED BY <2>1, <2>2
<1>7. Is(g)
  BY <1>2, <1>6
<1> HIDE DEF Is
<1>8. Is(fold)
  BY <1>7
<1> HIDE DEF fold
<1>9. \A s \in SUBSET (1 .. n) :
        fold[s] = IF s = {} THEN 0 ELSE seq[Min(s)] + ByteBase * fold[s \ {Min(s)}]
  BY <1>2, <1>8 DEF Is
<1> DEFINE bad == {k \in 0 .. n : fold[n - k + 1 .. n] # v \div Weight(n - k)}
<1>10. bad = {}
  <2> SUFFICES ASSUME bad # {} PROVE FALSE
    OBVIOUS
  <2>1. PICK k \in bad : \A j \in bad : k <= j
    <3>1. bad \subseteq Nat
      OBVIOUS
    <3> HIDE DEF bad
    <3> QED BY <3>1, LeastElement
  <2>2. k \in 0 .. n /\ fold[n - k + 1 .. n] # v \div Weight(n - k)
    BY <2>1
  <2>3. CASE k = 0
    <3>1. n - k + 1 .. n = {} /\ {} \in SUBSET (1 .. n) /\ n - k = n
      BY <2>3
    <3>2. fold[{}] = 0
      BY <1>9, <3>1
    <3>3. v \div Weight(n) = 0
      BY <1>0, WeightFacts, ModSmall
    <3> QED BY <2>2, <3>1, <3>2, <3>3
  <2>4. CASE k # 0
    <3> DEFINE i == n - k + 1
    <3>1. /\ i \in 1 .. n /\ k - 1 \in 0 .. n /\ n - (k - 1) + 1 = i + 1 /\ n - (k - 1) = i
          /\ n - k = i - 1 /\ i - 1 \in Nat
      BY <2>2, <2>4
    <3>2. fold[i + 1 .. n] = v \div Weight(i)
      <4>1. k - 1 \notin bad
        <5> HIDE DEF bad
        <5> QED BY <2>1, <2>2, <3>1
      <4> QED BY <3>1, <4>1
    <3> HIDE DEF i
    <3>3. Min(i .. n) = i /\ (i .. n) \ {i} = i + 1 .. n /\ i .. n # {} /\ i .. n \in SUBSET (1 .. n)
      <4>1. i \in i .. n /\ i .. n \subseteq Nat /\ \A j \in i .. n : i <= j
        BY <3>1
      <4>2. (i .. n) \ {i} = i + 1 .. n /\ i .. n \in SUBSET (1 .. n)
        BY <3>1
      <4>3. Min(i .. n) = i
        BY <4>1, MinIs
      <4> QED BY <4>1, <4>2, <4>3
    <3>4. fold[i .. n] = seq[i] + ByteBase * fold[i + 1 .. n]
      BY <1>9, <3>3
    <3> DEFINE q == v \div Weight(i - 1)
    <3>5. Weight(i) = Weight(i - 1) * ByteBase /\ Weight(i - 1) \in Nat \ {0}
      <4>1. (i - 1) + 1 = i
        BY <3>1
      <4> QED BY <3>1, <4>1, WeightFacts
    <3>6. v \div Weight(i) = q \div ByteBase /\ q \in Int
      <4>1. v \div (Weight(i - 1) * ByteBase) = q \div ByteBase
        BY <1>0, <3>5, DivDiv
      <4>2. q \in Nat
        BY <1>0, <3>5, QuotientNat
      <4> QED BY <3>5, <4>1, <4>2
    <3>7. seq[i] = q % ByteBase
      BY <1>2, <3>1
    <3> HIDE DEF q
    <3>8. q = ByteBase * (q \div ByteBase) + (q % ByteBase) /\ q \div ByteBase \in Int
          /\ q % ByteBase \in Int
      <4> DEFINE b == ByteBase
      <4>1. b \in Nat \ {0}
        BY <1>0
      <4> HIDE DEF b
      <4>2. q = b * (q \div b) + (q % b) /\ q \div b \in Int /\ q % b \in 0 .. b - 1
        BY <3>6, <4>1, DivMod
      <4> QED BY <4>1, <4>2 DEF b
    <3> DEFINE d == q \div ByteBase  r == q % ByteBase  bd == ByteBase * d
    <3>9. bd \in Int /\ r \in Int /\ q = bd + r /\ fold[i .. n] = r + bd
      BY <1>0, <3>2, <3>4, <3>6, <3>7, <3>8
    <3> HIDE DEF d, r, bd
    <3>10. fold[i .. n] = q
      BY <3>9
    <3> QED BY <2>2, <3>1, <3>10 DEF i, q
  <2> QED BY <2>3, <2>4
<1>11. fold[1 .. n] = v
  <2>1. n \in 0 .. n /\ n - n + 1 = 1 /\ n - n = 0
    OBVIOUS
  <2>2. fold[1 .. n] = v \div Weight(0)
    BY <1>10, <2>1
  <2>3. v = 1 * v + 0 /\ v \in Int /\ 0 \in 0 .. 1 - 1 /\ 1 \in Nat \ {0}
    BY <1>0
  <2>4. v \div 1 = v
    BY <2>3, DivModUnique
  <2> QED BY <2>2, <2>4, WeightFacts
<1> QED BY <1>1, <1>2, <1>11 DEF seq

\* The masks of the lengths: each is half of what is left nearer to ByteBase.
LEMMA Masks ==
  ASSUME NEW n \in 0 .. BITS
  PROVE  /\ LengthMask(n) \in Nat /\ LengthMask(n) < ByteBase /\ LengthMask(0) = 0
         /\ 2 ^ (BITS - n) \in Nat \ {0} /\ LengthMask(n) = ByteBase - 2 ^ (BITS - n)
         /\ n < BITS => /\ LengthMask(n + 1) = LengthMask(n) + 2 ^ (BITS - 1 - n)
                        /\ 2 ^ (BITS - 1 - n) \in Nat \ {0}
         /\ \A k \in n .. BITS : LengthMask(n) <= LengthMask(k)
<1>0. BITS \in Nat /\ BITS >= 2
  BY WeightFacts
<1>1. BITS - n \in Nat /\ BITS - n <= BITS
  BY <1>0
<1>2. 2 ^ (BITS - n) \in Nat \ {0} /\ 2 ^ (BITS - n) <= 2 ^ BITS /\ 2 ^ BITS \in Nat
  BY <1>0, <1>1, PowerMonotone, PowerFacts
<1>3. LengthMask(n) = ByteBase - 2 ^ (BITS - n) /\ ByteBase = 2 ^ BITS /\ LengthMask(0) = 0
  <2>1. BITS - 0 = BITS
    BY <1>0
  <2>2. ByteBase - ByteBase = 0
    BY WeightFacts
  <2> QED BY <2>1, <2>2 DEF LengthMask, ByteBase
<1>4. ASSUME n < BITS
      PROVE  /\ LengthMask(n + 1) = LengthMask(n) + 2 ^ (BITS - 1 - n)
             /\ 2 ^ (BITS - 1 - n) \in Nat \ {0}
  <2>1. BITS - 1 - n \in Nat /\ BITS - n = (BITS - 1 - n) + 1 /\ BITS - (n + 1) = BITS - 1 - n
    BY <1>0, <1>4
  <2>2. 2 ^ (BITS - n) = 2 ^ (BITS - 1 - n) * 2 ^ 1
    <3>1. 2 ^ ((BITS - 1 - n) + 1) = 2 ^ (BITS - 1 - n) * 2 ^ 1
      BY <2>1, PowerAdds
    <3> QED BY <2>1, <3>1
  <2>3. 2 ^ 1 = 2
    OBVIOUS
  <2>4. LengthMask(n + 1) = ByteBase - 2 ^ (BITS - 1 - n)
    BY <2>1 DEF LengthMask
  <2> DEFINE a == 2 ^ (BITS - 1 - n)  b == 2 ^ (BITS - n)
  <2>5. a \in Nat \ {0} /\ b = 2 * a
    <3>1. 2 ^ (BITS - 1 - n) \in Nat \ {0}
      BY <2>1, PowerFacts
    <3> QED BY <2>2, <2>3, <3>1
  <2>6. LengthMask(n) = ByteBase - b /\ LengthMask(n + 1) = ByteBase - a /\ ByteBase \in Nat
    BY <1>3, <2>4, WeightFacts
  <2> HIDE DEF a, b
  <2>7. LengthMask(n + 1) = LengthMask(n) + a
    BY <2>5, <2>6
  <2> QED BY <2>5, <2>7 DEF a
<1>5. ASSUME NEW k \in n .. BITS PROVE LengthMask(n) <= LengthMask(k)
  <2>1. BITS - k \in Nat /\ BITS - k <= BITS - n
    BY <1>0, <1>5
  <2>2. 2 ^ (BITS - k) <= 2 ^ (BITS - n) /\ 2 ^ (BITS - k) \in Nat
    BY <1>1, <2>1, PowerMonotone, PowerFacts
  <2>3. LengthMask(k) = ByteBase - 2 ^ (BITS - k)
    BY DEF LengthMask
  <2> QED BY <1>2, <1>3, <2>2, <2>3, WeightFacts
<1> QED BY <1>2, <1>3, <1>4, <1>5

LEMMA VariableLengthIs ==
  ASSUME NEW l \in 0 .. BITS, NEW first \in Nat, l # 0 => LengthMask(l) <= first,
         l # BITS => first < LengthMask(l + 1)
  PROVE  VariableLength(first) = l
<1> DEFINE fits == {n \in 1 .. BITS : first >= LengthMask(n)}
<1>0. BITS \in Nat /\ BITS >= 2
  BY WeightFacts
<1>1. ASSUME NEW n \in 1 .. BITS PROVE n \in fits <=> n <= l
  <2>1. n \in 0 .. BITS /\ LengthMask(n) \in Nat
    BY <1>0, Masks
  <2>2. CASE n <= l
    <3>1. l \in n .. BITS /\ l # 0
      BY <1>0, <2>2
    <3>2. LengthMask(n) <= LengthMask(l) /\ LengthMask(l) \in Nat
      BY <2>1, <3>1, Masks
    <3> QED BY <2>1, <2>2, <3>1, <3>2
  <2>3. CASE l < n
    <3>1. l + 1 \in 0 .. BITS /\ n \in l + 1 .. BITS /\ l # BITS
      BY <1>0, <2>3
    <3>2. LengthMask(l + 1) <= LengthMask(n) /\ LengthMask(l + 1) \in Nat
      BY <3>1, Masks
    <3> QED BY <2>1, <2>3, <3>1, <3>2
  <2> QED BY <1>0, <2>2, <2>3
<1>2. VariableLength(first) = IF fits = {} THEN 0 ELSE CHOOSE n \in fits : \A k \in fits : k <= n
  BY DEF VariableLength
<1>3. fits \subseteq 1 .. BITS
  OBVIOUS
<1> HIDE DEF fits
<1>4. CASE l = 0
  <2>1. fits = {}
    BY <1>0, <1>1, <1>3, <1>4
  <2> QED BY <1>2, <1>4, <2>1
<1>5. CASE l # 0
  <2>1. l \in fits /\ \A k \in fits : k <= l
    BY <1>0, <1>1, <1>3, <1>5
  <2>2. \A n \in fits : (\A k \in fits : k <= n) => n = l
    <3>1. ASSUME NEW n \in fits, \A k \in fits : k <= n PROVE n = l
      <4>1. n \in Int /\ l \in Int /\ l <= n /\ n <= l
        BY <1>3, <2>1, <3>1
      <4> QED BY <4>1
    <3> QED BY <3>1
  <2> QED BY <1>2, <2>1, <2>2
<1> QED BY <1>4, <1>5

\* A number with l bytes of its own besides the first, of which it takes the
\* bits that the length leaves.
IsEncoded(v, l, top, code) ==
  /\ l \in 0 .. BITS - 1 /\ top \in Nat /\ top < 2 ^ (BITS - 1 - l)
  /\ v = Weight(l) * top + (v % Weight(l))
  /\ code = <<LengthMask(l) + top>> \o Bytes(v % Weight(l), l)
  /\ \A n \in 1 .. l : v >= 2 ^ ((BITS - 1) * n)

\* What encodeVarU32 writes.
LEMMA Encoded ==
  ASSUME NEW v \in Nat \ {0}, v < 2 ^ ((BITS - 1) * BITS)
  PROVE  \E l \in Nat, top \in Nat : IsEncoded(v, l, top, EncodeVarU32(v))
<1> DEFINE lengths == {n \in 0 .. BITS - 1 : v >= 2 ^ ((BITS - 1) * n)}
           l == CHOOSE n \in lengths : \A k \in lengths : k <= n
           W == Weight(l)
           top == v \div W
<1>0. /\ BITS \in Nat /\ BITS >= 2 /\ BITS - 1 \in Nat
      /\ \A n \in Nat : (BITS - 1) * n \in Nat /\ 2 ^ ((BITS - 1) * n) \in Nat \ {0}
  <2>1. BITS \in Nat /\ BITS >= 2 /\ BITS - 1 \in Nat
    BY WeightFacts
  <2>2. ASSUME NEW n \in Nat PROVE (BITS - 1) * n \in Nat
    BY <2>1
  <2> QED BY <2>1, <2>2, PowerFacts
<1>1. EncodeVarU32(v) = <<(LengthMask(l) + v \div Weight(l)) % ByteBase>> \o Bytes(v % Weight(l), l)
  BY <1>0 DEF EncodeVarU32
<1>2. l \in lengths /\ \A k \in lengths : k <= l
  <2>1. 0 \in lengths
    <3>1. (BITS - 1) * 0 = 0 /\ 2 ^ 0 = 1 /\ 0 \in 0 .. BITS - 1
      BY <1>0
    <3>2. 2 ^ ((BITS - 1) * 0) = 1
      BY <3>1
    <3>3. v >= 2 ^ ((BITS - 1) * 0)
      BY <3>2
    <3> QED BY <3>1, <3>3
  <2>2. lengths \subseteq 0 .. BITS - 1
    OBVIOUS
  <2> DEFINE T == {BITS - 1 - n : n \in lengths}
  <2> HIDE DEF lengths
  <2>3. T \subseteq Nat /\ T # {}
    BY <1>0, <2>1, <2>2
  <2>4. PICK k \in T : \A j \in T : k <= j
    <3> HIDE DEF T
    <3> QED BY <2>3, LeastElement
  <2>5. PICK n \in lengths : k = BITS - 1 - n
    BY <2>4
  <2>6. \A j \in lengths : j <= n
    <3>1. ASSUME NEW j \in lengths PROVE j <= n
      <4>1. BITS - 1 - j \in T /\ j \in Int /\ n \in Int
        BY <2>2, <2>5
      <4>2. BITS - 1 - n <= BITS - 1 - j
        BY <2>4, <2>5, <4>1
      <4> QED BY <1>0, <4>1, <4>2
    <3> QED BY <3>1
  <2> QED BY <2>5, <2>6
<1>3. l \in 0 .. BITS - 1 /\ l \in Nat /\ v >= 2 ^ ((BITS - 1) * l)
  BY <1>0, <1>2
<1>4. v < 2 ^ ((BITS - 1) * (l + 1))
  <2>1. CASE l + 1 = BITS
    BY <2>1
  <2>2. CASE l + 1 # BITS
    <3>1. l + 1 \in 0 .. BITS - 1 /\ ~(l + 1 <= l) /\ l + 1 \in Nat
      BY <1>0, <1>3, <2>2
    <3>2. l + 1 \notin lengths
      <4> HIDE DEF lengths, l
      <4> QED BY <1>2, <3>1
    <3>3. 2 ^ ((BITS - 1) * (l + 1)) \in Nat
      BY <1>0, <3>1
    <3> HIDE DEF l
    <3>4. ~(v >= 2 ^ ((BITS - 1) * (l + 1)))
      BY <3>1, <3>2
    <3> QED BY <3>3, <3>4
  <2> QED BY <2>1, <2>2
<1>5. ASSUME NEW n \in 1 .. l PROVE v >= 2 ^ ((BITS - 1) * n)
  <2> HIDE DEF l
  <2>1. n \in Nat /\ n <= l /\ (BITS - 1) * n <= (BITS - 1) * l
    BY <1>0, <1>3, TimesMonotone
  <2>2. 2 ^ ((BITS - 1) * n) <= 2 ^ ((BITS - 1) * l)
    BY <1>0, <1>3, <2>1, PowerMonotone
  <2> QED BY <1>0, <1>3, <2>1, <2>2
<1> HIDE DEF l, lengths
<1>6. W \in Nat \ {0} /\ top \in Nat /\ v = W * top + (v % W)
  <2>1. W \in Nat \ {0}
    BY <1>3, WeightFacts
  <2> HIDE DEF W
  <2>2. v \div W \in Nat /\ v \in Int
    BY <2>1, QuotientNat
  <2>3. v = W * (v \div W) + (v % W)
    BY <2>1, <2>2, DivMod
  <2> QED BY <2>1, <2>2, <2>3
<1>7. top < 2 ^ (BITS - 1 - l)
  <2> DEFINE p == 2 ^ (BITS - 1 - l)
  <2>1. BITS - 1 - l \in Nat /\ BITS * l \in Nat /\ (BITS - 1) * (l + 1) = BITS * l + (BITS - 1 - l)
    <3>1. BITS - 1 - l \in Nat
      BY <1>0, <1>3
    <3>2. (BITS - 1) * (l + 1) = BITS * l + (BITS - 1 - l)
      BY <1>0, <1>3
    <3> QED BY <1>3, <3>1, <3>2, WeightFacts
  <2>2. 2 ^ ((BITS - 1) * (l + 1)) = W * p
    <3>1. 2 ^ (BITS * l + (BITS - 1 - l)) = 2 ^ (BITS * l) * 2 ^ (BITS - 1 - l)
      BY <2>1, PowerAdds
    <3> QED BY <2>1, <3>1 DEF Weight
  <2>3. p \in Nat \ {0}
    BY <2>1, PowerFacts
  <2> HIDE DEF p, W
  <2>4. v \in 0 .. p * W - 1
    <3>1. W * p = p * W /\ p * W \in Nat
      BY <1>6, <2>3
    <3> QED BY <1>4, <2>2, <3>1
  <2>5. v \div W \in 0 .. p - 1
    BY <1>6, <2>3, <2>4, DivModRange
  <2> QED BY <2>3, <2>5 DEF p
<1>8. (LengthMask(l) + top) % ByteBase = LengthMask(l) + top
  <2> DEFINE mask == LengthMask(l)  p == 2 ^ (BITS - 1 - l)
  <2>1. l \in 0 .. BITS /\ l < BITS /\ l + 1 \in 0 .. BITS
    BY <1>0, <1>3
  <2>2. mask \in Nat /\ LengthMask(l + 1) = mask + p /\ p \in Nat /\ LengthMask(l + 1) < ByteBase
    BY <2>1, Masks
  <2> HIDE DEF mask, p, top
  <2>3. mask + top \in 0 .. ByteBase - 1 /\ ByteBase \in Nat \ {0}
    BY <1>6, <1>7, <2>2, WeightFacts DEF p
  <2> QED BY <2>3, ModSmall DEF mask
<1>9. IsEncoded(v, l, top, EncodeVarU32(v))
  BY <1>1, <1>3, <1>5, <1>6, <1>7, <1>8 DEF IsEncoded
<1> QED BY <1>3, <1>6, <1>9

\* Bytes of a number and a byte before them.
LEMMA BytesFacts ==
  ASSUME NEW u \in Nat, NEW n \in Nat
  PROVE  /\ Bytes(u, n) \in Seq(Nat) /\ Len(Bytes(u, n)) = n
         /\ Bytes(u, n) = [i \in 1 .. n |-> Bytes(u, n)[i]]
<1>1. ASSUME NEW i \in 1 .. n PROVE (u \div Weight(i - 1)) % ByteBase \in Nat
  <2>1. i - 1 \in Nat
    OBVIOUS
  <2>2. Weight(i - 1) \in Nat \ {0}
    BY <2>1, WeightFacts
  <2>3. ByteBase \in Nat \ {0}
    BY WeightFacts
  <2> QED BY <2>2, <2>3, QuotientNat
<1> DEFINE tail == Bytes(u, n)
<1>2. tail \in [1 .. n -> Nat]
  BY <1>1 DEF Bytes
<1> HIDE DEF tail
<1>3. tail \in Seq(Nat) /\ Len(tail) = n /\ tail = [i \in 1 .. n |-> tail[i]]
  BY <1>2
<1> QED BY <1>3 DEF tail

\* What decodeVarU32 gets from what encodeVarU32 writes.
LEMMA Decoded ==
  ASSUME NEW v \in Nat, NEW l \in Nat, NEW top \in Nat, NEW code, NEW behind, NEW S, NEW data \in Seq(S),
         v < NumberBase, IsEncoded(v, l, top, code), Len(data) >= l + 1,
         \A i \in 1 .. l + 1 : data[i] = code[i]
  PROVE  DecodeVarU32(data, behind) = Read(v, 1 + l)
<1> DEFINE rest == v % Weight(l)
           half == BITS \div 2
           payload == [i \in 1 .. l |-> IF i < Len(data) THEN data[i + 1] ELSE behind]
           shift == (l * BITS) % (BITS * half)
<1>1. /\ BITS \in Nat /\ BITS >= 2 /\ half \in Nat \ {0} /\ l \in Nat /\ l < BITS /\ top \in Nat
      /\ ByteBase \in Nat /\ ByteBase >= 4 /\ Weight(0) = 1 /\ Weight(l) \in Nat \ {0}
      /\ v = Weight(l) * top + rest /\ code = <<LengthMask(l) + top>> \o Bytes(rest, l)
      /\ l \in 0 .. BITS
  <2>1. BITS \in Nat /\ BITS >= 2 /\ half \in Nat /\ 2 * half = BITS
    BY WeightFacts
  <2>2. half # 0
    BY <2>1
  <2>3. l \in Nat /\ l < BITS /\ l \in 0 .. BITS
    BY <2>1 DEF IsEncoded
  <2> QED BY <2>1, <2>2, <2>3, WeightFacts DEF IsEncoded
<1>2. rest \in 0 .. Weight(l) - 1
  <2> DEFINE w == Weight(l)
  <2>1. w \in Nat \ {0} /\ v \in Int
    BY <1>1
  <2> HIDE DEF w
  <2>2. v % w \in 0 .. w - 1
    BY <2>1, DivMod
  <2> QED BY <2>2 DEF w
<1> HIDE DEF rest
<1>3. /\ Len(Bytes(rest, l)) = l /\ Bytes(rest, l) \in Seq(Nat)
      /\ Bytes(rest, l) = [i \in 1 .. l |-> Bytes(rest, l)[i]]
  <2>1. rest \in Nat
    BY <1>1, <1>2
  <2> QED BY <1>1, <2>1, BytesFacts
<1>4. /\ LengthMask(l) \in Nat /\ LengthMask(l) = ByteBase - 2 ^ (BITS - l)
      /\ LengthMask(l) + top \in Nat /\ LengthMask(0) = 0
  <2>1. LengthMask(l) \in Nat
    BY <1>1, Masks
  <2>2. LengthMask(l) = ByteBase - 2 ^ (BITS - l) /\ LengthMask(0) = 0
    BY <1>1, Masks
  <2>3. LengthMask(l) + top \in Nat
    BY <1>1, <2>1
  <2> QED BY <2>1, <2>2, <2>3
<1>5. /\ data[1] = LengthMask(l) + top /\ Len(data) \in Nat
      /\ \A i \in 1 .. l : data[i + 1] = Bytes(rest, l)[i] /\ i < Len(data)
  <2> DEFINE tail == Bytes(rest, l)  head == LengthMask(l) + top
  <2>1. tail \in Seq(Nat) /\ Len(tail) = l /\ head \in Nat /\ code = <<head>> \o tail
    BY <1>1, <1>3, <1>4
  <2> HIDE DEF tail, head
  <2> DEFINE front == <<head>> \o tail
  <2>2. code[1] = head /\ \A i \in 1 .. l : code[i + 1] = tail[i]
    <3>1. front[1] = head /\ \A i \in 1 .. l : front[i + 1] = tail[i]
      BY <1>1, <2>1
    <3> QED BY <2>1, <3>1
  <2>3. 1 \in 1 .. l + 1 /\ Len(data) \in Nat /\ \A i \in 1 .. l : i + 1 \in 1 .. l + 1 /\ i < Len(data)
    BY <1>1
  <2> QED BY <2>2, <2>3 DEF tail, head
<1>6. payload = Bytes(rest, l)
  <2>1. \A i \in 1 .. l : payload[i] = Bytes(rest, l)[i]
    BY <1>1, <1>5
  <2> QED BY <1>3, <2>1
<1>7. VariableLength(data[1]) = l
  <2> DEFINE mask == LengthMask(l)  p == 2 ^ (BITS - 1 - l)
  <2>1. mask \in Nat /\ p \in Nat /\ LengthMask(l + 1) = mask + p
    BY <1>1, Masks
  <2>2. top < p
    BY DEF IsEncoded
  <2> HIDE DEF p
  <2>3. LengthMask(l) <= mask + top /\ mask + top < LengthMask(l + 1) /\ mask + top \in Nat
    BY <1>1, <2>1, <2>2
  <2> HIDE DEF mask
  <2>4. VariableLength(mask + top) = l
    BY <1>1, <2>3, VariableLengthIs
  <2> QED BY <1>5, <2>4 DEF mask
<1>8. data[1] - (ByteBase - 2 ^ (BITS - l)) = top
  BY <1>1, <1>4, <1>5
<1>9. DecodeVarU32(data, behind) =
        IF l = 0 THEN Read(data[1], 1)
        ELSE IF Len(data) < l THEN Thrown
        ELSE Read((Number(payload) + top * 2 ^ shift) % NumberBase, 1 + l)
  BY <1>7, <1>8 DEF DecodeVarU32
<1>10. CASE l = 0
  <2>1. rest = 0 /\ v = top
    BY <1>1, <1>2, <1>10
  <2>2. data[1] = v
    BY <1>1, <1>4, <1>5, <1>10, <2>1
  <2> QED BY <1>9, <1>10, <2>2
<1>11. CASE l # 0
  <2>1. Number(payload) = rest
    BY <1>1, <1>2, <1>6, NumberOfBytes
  <2>2. ~(Len(data) < l)
    BY <1>1, <1>5
  <2>3. rest + top * 2 ^ shift = v
    <3>1. CASE l < half
      <4>1. shift = BITS * l
        <5> DEFINE all == BITS * half  part == BITS * l
        <5>1. all \in Nat \ {0} /\ part \in 0 .. all - 1 /\ l * BITS = part
          <6>0. BITS \in Nat /\ BITS >= 2
            BY <1>1
          <6>1. BITS * (l + 1) <= BITS * half /\ BITS * (l + 1) = BITS * l + BITS
            <7>1. l + 1 <= half /\ l + 1 \in Int
              BY <1>1, <3>1
            <7>2. BITS * (l + 1) <= BITS * half
              BY <1>1, <7>1, TimesMonotone
            <7> QED BY <1>1, <7>2
          <6>2. BITS * l \in Nat /\ BITS * half \in Nat /\ l * BITS = BITS * l
            BY <1>1
          <6>3. part \in Nat /\ all \in Nat /\ part + BITS <= all
            BY <6>0, <6>1, <6>2
          <6>4. l * BITS = part
            BY <6>2
          <6> HIDE DEF all, part
          <6> QED BY <6>0, <6>3, <6>4
        <5> HIDE DEF all, part
        <5>2. part % all = part
          BY <5>1, ModSmall
        <5> QED BY <5>1, <5>2 DEF all, part
      <4> HIDE DEF shift
      <4>2. 2 ^ shift = Weight(l)
        BY <4>1 DEF Weight
      <4> DEFINE w == Weight(l)
      <4>3. w \in Nat /\ v = w * top + rest /\ 2 ^ shift = w /\ rest \in Int
        BY <1>1, <1>2, <4>2
      <4> HIDE DEF w
      <4>4. rest + top * w = v
        BY <1>1, <4>3
      <4> QED BY <4>3, <4>4
    <3>2. CASE l >= half
      <4>1. NumberBase <= Weight(l)
        <5>1. BITS * half <= BITS * l /\ BITS * half \in Nat /\ BITS * l \in Nat
          BY <1>1, <3>2, TimesMonotone
        <5>2. 2 ^ (BITS * half) <= 2 ^ (BITS * l)
          BY <5>1, PowerMonotone
        <5> QED BY <5>2 DEF NumberBase, Weight
      <4>2. top = 0
        <5> DEFINE w == Weight(l)
        <5>1. w \in Nat \ {0} /\ v = w * top + rest /\ v < w /\ rest \in Nat
          <6>1. NumberBase \in Nat
            BY <1>1, WeightFacts DEF NumberBase
          <6> QED BY <1>1, <1>2, <4>1, <6>1
        <5> HIDE DEF w
        <5>2. CASE top >= 1
          <6>1. w * 1 <= w * top
            BY <1>1, <5>1, <5>2, TimesMonotone
          <6>2. w * top \in Nat
            BY <1>1, <5>1
          <6> QED BY <5>1, <6>1, <6>2
        <5> QED BY <1>1, <5>2
      <4>3. v = rest /\ rest \in Nat
        BY <1>1, <1>2, <4>2
      <4>4. 2 ^ shift \in Nat
        <5>1. shift \in Nat
          <6> DEFINE all == BITS * half  part == l * BITS
          <6>1. all \in Nat \ {0} /\ part \in Nat
            BY <1>1
          <6> HIDE DEF all, part
          <6>2. part % all \in Nat
            BY <6>1
          <6> QED BY <6>2 DEF all, part
        <5> HIDE DEF shift
        <5> QED BY <5>1, PowerFacts
      <4> HIDE DEF shift
      <4> QED BY <4>2, <4>3, <4>4
    <3> QED BY <1>1, <3>1, <3>2
  <2>4. v % NumberBase = v
    <3>1. NumberBase \in Nat \ {0}
      BY <1>1, WeightFacts DEF NumberBase
    <3>2. v \in 0 .. NumberBase - 1
      BY <3>1
    <3> QED BY <3>1, <3>2, ModSmall
  <2> QED BY <1>9, <1>11, <2>1, <2>2, <2>3, <2>4
<1> QED BY <1>1, <1>10, <1>11

\* A number of u32 or more, whose first byte is all ones.
LEMMA Longest ==
  ASSUME NEW v \in Nat, v >= 2 ^ ((BITS - 1) * BITS)
  PROVE  /\ EncodeVarU32(v) = <<ByteBase - 1>> \o Bytes(v, BITS) /\ v >= NumberBase
         /\ VariableLength(ByteBase - 1) = BITS
         /\ \A n \in 1 .. BITS : v >= 2 ^ ((BITS - 1) * n)
<1>1. /\ BITS \in Nat /\ BITS >= 2 /\ BITS - 1 \in Nat /\ BITS \in 0 .. BITS
      /\ BITS \div 2 \in Nat /\ 2 * (BITS \div 2) = BITS /\ (BITS - 1) * BITS \in Nat
  <2>1. BITS \in Nat /\ BITS >= 2 /\ BITS \div 2 \in Nat /\ 2 * (BITS \div 2) = BITS
    BY WeightFacts
  <2>2. BITS - 1 \in Nat /\ (BITS - 1) * BITS \in Nat
    BY <2>1
  <2> QED BY <2>1, <2>2
<1>2. ASSUME NEW k \in Nat, k <= (BITS - 1) * BITS PROVE v >= 2 ^ k /\ 2 ^ k >= 1 /\ 2 ^ k \in Nat
  <2>1. 2 ^ k <= 2 ^ ((BITS - 1) * BITS) /\ 2 ^ k \in Nat \ {0} /\ 2 ^ ((BITS - 1) * BITS) \in Nat
    BY <1>1, <1>2, PowerMonotone, PowerFacts
  <2> QED BY <2>1
<1>3. v # 0
  <2>1. 2 ^ ((BITS - 1) * BITS) \in Nat \ {0}
    BY <1>1, PowerFacts
  <2> QED BY <2>1
<1>4. EncodeVarU32(v) = <<ByteBase - 1>> \o Bytes(v, BITS)
  BY <1>3 DEF EncodeVarU32
<1>5. v >= NumberBase
  <2> DEFINE half == BITS \div 2
  <2>1. half \in Nat /\ half <= BITS - 1
    BY <1>1
  <2> HIDE DEF half
  <2>2. BITS * half <= BITS * (BITS - 1) /\ BITS * half \in Nat /\ BITS * (BITS - 1) = (BITS - 1) * BITS
    BY <1>1, <2>1, TimesMonotone
  <2>3. v >= 2 ^ (BITS * half)
    BY <1>1, <1>2, <2>2
  <2> QED BY <2>3 DEF NumberBase, Weight, half
<1>6. \A n \in 1 .. BITS : v >= 2 ^ ((BITS - 1) * n)
  <2>1. ASSUME NEW n \in 1 .. BITS PROVE v >= 2 ^ ((BITS - 1) * n)
    <3>1. n \in Nat /\ n <= BITS
      BY <1>1
    <3>2. (BITS - 1) * n <= (BITS - 1) * BITS /\ (BITS - 1) * n \in Nat
      BY <1>1, <3>1, TimesMonotone
    <3> QED BY <1>2, <3>2
  <2> QED BY <2>1
<1>7. VariableLength(ByteBase - 1) = BITS
  <2>1. LengthMask(BITS) <= ByteBase - 1 /\ ByteBase - 1 \in Nat
    <3>1. LengthMask(BITS) \in Nat /\ LengthMask(BITS) < ByteBase
      BY <1>1, Masks
    <3> QED BY <3>1, WeightFacts
  <2> QED BY <1>1, <2>1, VariableLengthIs
<1> QED BY <1>4, <1>5, <1>6, <1>7

\* Zero too is written in a byte that says so.
LEMMA EncodedAny ==
  ASSUME NEW v \in Nat, v < 2 ^ ((BITS - 1) * BITS)
  PROVE  \E l \in Nat, top \in Nat : IsEncoded(v, l, top, EncodeVarU32(v))
<1>1. CASE v # 0
  BY <1>1, Encoded
<1>2. CASE v = 0
  <2>1. EncodeVarU32(v) = <<0>>
    BY <1>2 DEF EncodeVarU32
  <2>2. LengthMask(0) + 0 = 0 /\ 2 ^ (BITS - 1 - 0) \in Nat \ {0} /\ 0 \in 0 .. BITS - 1
    <3>1. BITS \in Nat /\ BITS >= 2
      BY WeightFacts
    <3>2. BITS - 1 - 0 \in Nat /\ 0 \in 0 .. BITS /\ 0 \in 0 .. BITS - 1
      BY <3>1
    <3>3. LengthMask(0) = 0
      BY <3>2, Masks
    <3> QED BY <3>2, <3>3, PowerFacts
  <2>3. Bytes(0 % Weight(0), 0) = << >>
    BY DEF Bytes
  <2>4. 0 = Weight(0) * 0 + (0 % Weight(0))
    BY WeightFacts
  <2>5. <<0>> = <<LengthMask(0) + 0>> \o Bytes(0 % Weight(0), 0)
    BY <2>2, <2>3
  <2>6. IsEncoded(0, 0, 0, <<0>>)
    BY <2>2, <2>4, <2>5 DEF IsEncoded
  <2> QED BY <1>2, <2>1, <2>6
<1> QED BY <1>1, <1>2

LEMMA NumberIsExact ==
  ASSUME number \in Nat
  PROVE  NumberExact
<1> DEFINE v == number  code == EncodeVarU32(v)
<1>1. NumberExact =
        /\ v < NumberBase => DecodeVarU32(code \o <<beyond>>, beyond) = Read(v, Len(code))
        /\ VariableLength(code[1]) = Len(code) - 1
        /\ \A n \in 1 .. Len(code) - 1 : v >= 2 ^ ((BITS - 1) * n)
  BY DEF NumberExact
<1>2. ASSUME NEW b \in Nat, NEW n \in Nat, NEW u \in Nat
      PROVE  Len(<<b>> \o Bytes(u, n)) = n + 1 /\ (<<b>> \o Bytes(u, n))[1] = b
  <2> DEFINE tail == Bytes(u, n)
  <2>1. tail \in Seq(Nat) /\ Len(tail) = n
    BY BytesFacts
  <2> HIDE DEF tail
  <2>2. Len(<<b>> \o tail) = n + 1 /\ (<<b>> \o tail)[1] = b
    BY <2>1
  <2> QED BY <2>2 DEF tail
<1>3. CASE v >= 2 ^ ((BITS - 1) * BITS)
  <2>1. /\ code = <<ByteBase - 1>> \o Bytes(v, BITS) /\ v >= NumberBase
        /\ VariableLength(ByteBase - 1) = BITS
        /\ \A n \in 1 .. BITS : v >= 2 ^ ((BITS - 1) * n)
    BY <1>3, Longest
  <2>2. ByteBase - 1 \in Nat /\ BITS \in Nat /\ NumberBase \in Nat
    BY WeightFacts DEF NumberBase
  <2>3. Len(code) = BITS + 1 /\ code[1] = ByteBase - 1
    BY <1>2, <2>1, <2>2
  <2> HIDE DEF code
  <2>4. ~(v < NumberBase) /\ Len(code) - 1 = BITS
    BY <2>1, <2>2, <2>3
  <2> QED BY <1>1, <2>1, <2>3, <2>4
<1>4. CASE ~(v >= 2 ^ ((BITS - 1) * BITS))
  <2>1. v < 2 ^ ((BITS - 1) * BITS)
    <3>1. (BITS - 1) * BITS \in Nat
      <4>1. BITS \in Nat /\ BITS - 1 \in Nat
        BY WeightFacts
      <4> QED BY <4>1
    <3>2. 2 ^ ((BITS - 1) * BITS) \in Nat
      BY <3>1, PowerFacts
    <3> QED BY <1>4, <3>2
  <2>2. \E l \in Nat, top \in Nat : IsEncoded(v, l, top, code)
    BY <2>1, EncodedAny
  <2> HIDE DEF code
  <2>3. PICK l \in Nat, top \in Nat : IsEncoded(v, l, top, code)
    BY <2>2
  <2> DEFINE first == LengthMask(l) + top
  <2>4. /\ l \in 0 .. BITS /\ l # BITS /\ first \in Nat /\ LengthMask(l) <= first
        /\ first < LengthMask(l + 1)
    <3>1. BITS \in Nat /\ l \in 0 .. BITS - 1
      BY <2>3, WeightFacts DEF IsEncoded
    <3>2. l \in 0 .. BITS /\ l # BITS /\ l < BITS
      BY <3>1
    <3>3. LengthMask(l) \in Nat /\ LengthMask(l + 1) = LengthMask(l) + 2 ^ (BITS - 1 - l)
          /\ 2 ^ (BITS - 1 - l) \in Nat
      BY <3>2, Masks
    <3>4. top < 2 ^ (BITS - 1 - l)
      BY <2>3 DEF IsEncoded
    <3> DEFINE p == 2 ^ (BITS - 1 - l)
    <3>5. LengthMask(l + 1) = LengthMask(l) + p /\ p \in Nat /\ top < p
      BY <3>3, <3>4
    <3> HIDE DEF p
    <3> QED BY <3>2, <3>3, <3>5
  <2>5. VariableLength(first) = l
    BY <2>4, VariableLengthIs
  <2>6. Len(code) = l + 1 /\ code[1] = first /\ code \in Seq(Nat)
    <3> DEFINE tail == Bytes(v % Weight(l), l)
    <3>1. code = <<first>> \o tail
      BY <2>3 DEF IsEncoded
    <3>2. tail \in Seq(Nat) /\ Len(tail) = l
      <4>1. v % Weight(l) \in Nat
        BY WeightFacts
      <4> QED BY <4>1, BytesFacts
    <3> HIDE DEF first, tail
    <3> QED BY <2>4, <3>1, <3>2
  <2>7. \A n \in 1 .. l : v >= 2 ^ ((BITS - 1) * n)
    BY <2>3 DEF IsEncoded
  <2>8. v < NumberBase => DecodeVarU32(code \o <<beyond>>, beyond) = Read(v, 1 + l)
    <3> DEFINE S == Nat \cup {beyond}  data == code \o <<beyond>>
    <3>1. data \in Seq(S) /\ Len(data) >= l + 1 /\ \A i \in 1 .. l + 1 : data[i] = code[i]
      BY <2>6
    <3> HIDE DEF S, data
    <3>2. v < NumberBase => DecodeVarU32(data, beyond) = Read(v, 1 + l)
      BY <2>3, <3>1, Decoded
    <3> QED BY <3>2 DEF data
  <2> HIDE DEF first
  <2>9. Len(code) - 1 = l /\ 1 + l = Len(code)
    BY <2>6
  <2> QED BY <1>1, <2>5, <2>6, <2>7, <2>8, <2>9
<1> QED BY <1>3, <1>4

\* What is encoded is a number.
LEMMA NumberInvariant == Spec => [](number \in Nat)
<1>1. Init => number \in Nat
  BY DEF Init
<1>2. number \in Nat /\ [Next]_vars => (number \in Nat)'
  <2> SUFFICES ASSUME number \in Nat, [Next]_vars PROVE number' \in Nat
    OBVIOUS
  <2>1. number' = number \/ \E bit \in {0, 1} : number' = 2 * number + bit
    BY DEF Next, vars, GrowTables, AddCodeByte, AddBit, Load
  <2> QED BY <2>1
<1> QED BY <1>1, <1>2, PTL DEF Spec

\* A number is encoded in the fewest bytes, whatever a byte and a number are
\* wide, and one that fits a u32 is decoded as it was (codec.ts:100-162).
THEOREM NumberExactTheorem == Spec => []NumberExact
BY NumberIsExact, NumberInvariant, PTL

-----------------------------------------------------------------------------
(* Arguments.                                                              *)

\* The number of the n bytes of at from o on, added up from the highest.
IsLittle(g, at, o, n) ==
  \A i \in 0 .. n : g[i] = IF i = n THEN 0 ELSE at[o + i] + ByteBase * g[i + 1]

\* The sum is the one its equation describes, however that is chosen.
LEMMA LittleIs ==
  ASSUME NEW n \in Nat, NEW o \in Nat, NEW at, \A i \in 0 .. n - 1 : at[o + i] \in Nat
  PROVE  \E g \in [0 .. n -> Nat] : IsLittle(g, at, o, n) /\ Little(at, o, n) = g[0]
<1> DEFINE Is(f) == f = [i \in 0 .. n |-> IF i = n THEN 0 ELSE at[o + i] + ByteBase * f[i + 1]]
           sum == CHOOSE f : Is(f)
           next == [i \in 0 .. n - 1 |-> i + 1]
           H == [p \in (0 .. n - 1) \X Nat |-> at[o + p[1]] + ByteBase * p[2]]
<1>1. Little(at, o, n) = sum[0]
  BY DEF Little
<1>2. ByteBase \in Nat
  BY WeightFacts
<1>3. /\ H \in [(0 .. n - 1) \X Nat -> Nat]
      /\ \A i \in 0 .. n - 1, v \in Nat : H[<<i, v>>] = at[o + i] + ByteBase * v
  <2>1. ASSUME NEW i \in 0 .. n - 1, NEW v \in Nat PROVE at[o + i] + ByteBase * v \in Nat
    <3>1. ByteBase * v \in Nat
      BY <1>2
    <3>2. at[o + i] \in Nat
      OBVIOUS
    <3> QED BY <3>1, <3>2
  <2> QED BY <2>1
<1>4. /\ next \in [0 .. n - 1 -> 0 .. n] /\ \A i \in 0 .. n - 1 : i < next[i] /\ next[i] = i + 1
  OBVIOUS
<1> HIDE DEF H, next
<1>5. PICK g \in [0 .. n -> Nat] : IsRecursion(g, n, 0, H, next)
  <2> DEFINE V == Nat
  <2>1. 0 \in V /\ H \in [(0 .. n - 1) \X V -> V]
    BY <1>3
  <2> HIDE DEF V, Is
  <2>2. \E g \in [0 .. n -> V] : IsRecursion(g, n, 0, H, next)
    BY <1>4, <2>1, RecursionExists
  <2> QED BY <2>2 DEF V
<1>6. ASSUME NEW i \in 0 .. n PROVE g[i] = IF i = n THEN 0 ELSE at[o + i] + ByteBase * g[i + 1]
  <2>1. CASE i = n
    BY <1>5, <2>1 DEF IsRecursion
  <2>2. CASE i # n
    <3>1. i \in 0 .. n - 1 /\ i + 1 \in 0 .. n
      BY <2>2
    <3>2. next[i] = i + 1 /\ g[i + 1] \in Nat
      BY <1>4, <3>1
    <3> QED BY <1>3, <1>5, <2>2, <3>1, <3>2 DEF IsRecursion
  <2> QED BY <2>1, <2>2
<1>7. Is(g)
  <2>1. g = [i \in 0 .. n |-> g[i]]
    OBVIOUS
  <2> QED BY <1>6, <2>1
<1> HIDE DEF Is
<1>8. Is(sum)
  BY <1>7
<1> HIDE DEF sum
<1>9. \A i \in 0 .. n : sum[i] = IF i = n THEN 0 ELSE at[o + i] + ByteBase * sum[i + 1]
  BY <1>8 DEF Is
<1>10. sum = [i \in 0 .. n |-> sum[i]]
  BY <1>8 DEF Is
<1>11. ASSUME NEW i \in 0 .. n PROVE sum[i] \in Nat
  <2> DEFINE bad == {k \in 0 .. n : sum[n - k] \notin Nat}
  <2>1. bad = {}
    <3> SUFFICES ASSUME bad # {} PROVE FALSE
      OBVIOUS
    <3>1. PICK k \in bad : \A j \in bad : k <= j
      <4>1. bad \subseteq Nat
        OBVIOUS
      <4> HIDE DEF bad
      <4> QED BY <4>1, LeastElement
    <3>2. k \in 0 .. n /\ n - k \in 0 .. n /\ sum[n - k] \notin Nat
      BY <3>1
    <3>3. n - k # n
      BY <1>9, <3>2
    <3>4. k - 1 \in 0 .. n /\ n - (k - 1) = n - k + 1 /\ k - 1 < k /\ n - k \in 0 .. n - 1
      BY <3>2, <3>3
    <3>5. k - 1 \notin bad
      <4> HIDE DEF bad
      <4> QED BY <3>1, <3>2, <3>4
    <3>6. sum[n - k + 1] \in Nat
      BY <3>4, <3>5
    <3>7. sum[n - k] = at[o + (n - k)] + ByteBase * sum[n - k + 1] /\ at[o + (n - k)] \in Nat
      BY <1>9, <3>2, <3>3, <3>4
    <3>8. ByteBase * sum[n - k + 1] \in Nat
      BY <1>2, <3>6
    <3> QED BY <3>2, <3>7, <3>8
  <2>2. n - i \in 0 .. n /\ n - (n - i) = i
    OBVIOUS
  <2> QED BY <2>1, <2>2
<1>12. sum \in [0 .. n -> Nat]
  BY <1>10, <1>11
<1> QED BY <1>1, <1>9, <1>12 DEF IsLittle

\* It depends on these bytes only.
LEMMA LittleSame ==
  ASSUME NEW n \in Nat, NEW o \in Nat, NEW f, NEW g,
         \A i \in 0 .. n - 1 : f[o + i] \in Nat /\ g[o + i] = f[o + i]
  PROVE  Little(f, o, n) = Little(g, o, n)
<1>1. PICK a \in [0 .. n -> Nat] : IsLittle(a, f, o, n) /\ Little(f, o, n) = a[0]
  BY LittleIs
<1>2. PICK b \in [0 .. n -> Nat] : IsLittle(b, g, o, n) /\ Little(g, o, n) = b[0]
  BY LittleIs
<1> DEFINE bad == {k \in 0 .. n : a[n - k] # b[n - k]}
<1>3. bad = {}
  <2> SUFFICES ASSUME bad # {} PROVE FALSE
    OBVIOUS
  <2>1. PICK k \in bad : \A j \in bad : k <= j
    <3>1. bad \subseteq Nat
      OBVIOUS
    <3> HIDE DEF bad
    <3> QED BY <3>1, LeastElement
  <2>2. k \in 0 .. n /\ n - k \in 0 .. n /\ a[n - k] # b[n - k]
    BY <2>1
  <2>3. n - k # n
    BY <1>1, <1>2, <2>2 DEF IsLittle
  <2>4. k - 1 \in 0 .. n /\ n - (k - 1) = n - k + 1 /\ k - 1 < k /\ n - k \in 0 .. n - 1
    BY <2>2, <2>3
  <2>5. k - 1 \notin bad
    <3> HIDE DEF bad
    <3> QED BY <2>1, <2>2, <2>4
  <2>6. a[n - k + 1] = b[n - k + 1]
    BY <2>4, <2>5
  <2>7. f[o + (n - k)] = g[o + (n - k)]
    BY <2>4
  <2> QED BY <1>1, <1>2, <2>2, <2>3, <2>6, <2>7 DEF IsLittle
<1>4. n \in 0 .. n /\ n - n = 0
  OBVIOUS
<1>5. a[0] = b[0]
  BY <1>3, <1>4
<1> QED BY <1>1, <1>2, <1>5

\* So does the signed number.
LEMMA DecodeSame ==
  ASSUME NEW start \in Nat, NEW end \in Nat, NEW f, NEW g,
         \A i \in start .. end - 1 : f[i] \in Nat /\ g[i] = f[i]
  PROVE  DecodeI32(f, start, end) = DecodeI32(g, start, end)
<1>1. CASE end <= start
  BY <1>1 DEF DecodeI32
<1>2. CASE start < end
  <2> DEFINE len == IF end - start < WIDTH THEN end - start ELSE WIDTH
  <2>1. len \in Nat \ {0} /\ start + len <= end
    BY <1>2, ArgumentsAssumption
  <2> HIDE DEF len
  <2>2. Little(f, start, len) = Little(g, start, len)
    <3>1. ASSUME NEW i \in 0 .. len - 1 PROVE f[start + i] \in Nat /\ g[start + i] = f[start + i]
      <4>1. start + i \in start .. end - 1
        BY <2>1
      <4> QED BY <4>1
    <3> QED BY <2>1, <3>1, LittleSame
  <2>3. f[start + len - 1] = g[start + len - 1]
    <3>1. start + len - 1 \in start .. end - 1
      BY <2>1
    <3> QED BY <3>1
  <2>4. ~(end <= start)
    BY <1>2
  <2> QED BY <2>2, <2>3, <2>4 DEF DecodeI32, len
<1> QED BY <1>1, <1>2

\* Behind the first number, if there are two: its length is in a nibble.
FirstEnd(kind, at) ==
  CASE kind = "TwoImm" -> Split(LowNibble(at[0]))
    [] kind \in {"OneRegTwoImm", "OneRegOneImmOneOff"} -> Split(HigNibble(at[0]))
    [] kind = "TwoRegTwoImm" -> 1 + Split(LowNibble(at[1]))
    [] OTHER -> 0

\* Two nibbles are a byte, and a length in one of them is a number.
LEMMA NibbleFacts ==
  /\ NIBBLE \in Nat \ {0} /\ NIBBLE * NIBBLE = ByteBase /\ WIDTH \in Nat \ {0}
  /\ \A b \in Nat : LowNibble(b) \in Nat /\ HigNibble(b) \in Nat
  /\ LowNibble(0) = 0 /\ HigNibble(0) = 0 /\ Split(0) = 1
  /\ \A n \in Nat : Split(n) \in Nat \ {0} /\ Split(n) <= n + 1
<1> DEFINE half == BITS \div 2
<1>1. half \in Nat /\ half + half = BITS
  BY WeightFacts
<1>2. 2 ^ half \in Nat \ {0} /\ 2 ^ (half + half) = 2 ^ half * 2 ^ half
  BY <1>1, PowerFacts, PowerAdds
<1>3. NIBBLE \in Nat \ {0} /\ NIBBLE * NIBBLE = ByteBase
  BY <1>1, <1>2 DEF NIBBLE, ByteBase
<1>4. ASSUME NEW b \in Nat PROVE LowNibble(b) \in Nat /\ HigNibble(b) \in Nat
  BY <1>3, QuotientNat DEF LowNibble, HigNibble
<1>5. 0 % NIBBLE = 0 /\ 0 \div NIBBLE = 0
  BY <1>3, ModSmall
<1>6. WIDTH \in Nat \ {0}
  BY ArgumentsAssumption
<1> QED BY <1>3, <1>4, <1>5, <1>6 DEF LowNibble, HigNibble, Split

\* What is decoded depends only on the bytes that are required, those before
\* the next instruction, and those of the first of two numbers.
LEMMA DecoderSame ==
  ASSUME NEW kind \in Kind, NEW f \in [Nat -> Nat], NEW g \in [Nat -> Nat], NEW lim \in Nat,
         \A i \in 0 .. RequiredBytes(kind) - 1 : g[i] = f[i],
         \A i \in 0 .. FirstEnd(kind, f) - 1 : g[i] = f[i],
         \A i \in 0 .. lim - 1 : g[i] = f[i]
  PROVE  Decoder(kind, f, 0, lim) = Decoder(kind, g, 0, lim)
<1>0. /\ WIDTH \in Nat \ {0}
      /\ \A b \in Nat : Split(LowNibble(b)) \in Nat \ {0} /\ Split(HigNibble(b)) \in Nat \ {0}
  BY NibbleFacts
<1>1. ASSUME NEW start \in Nat
      PROVE  DecodeI32(f, start, lim) = DecodeI32(g, start, lim)
  <2>1. ASSUME NEW i \in start .. lim - 1 PROVE f[i] \in Nat /\ g[i] = f[i]
    <3>1. i \in 0 .. lim - 1 /\ i \in Nat
      OBVIOUS
    <3> QED BY <3>1
  <2> QED BY <2>1, DecodeSame
<1>2. ASSUME NEW start \in Nat, NEW end \in Nat, end <= FirstEnd(kind, f), FirstEnd(kind, f) \in Nat
      PROVE  DecodeI32(f, start, end) = DecodeI32(g, start, end)
  <2>1. ASSUME NEW i \in start .. end - 1 PROVE f[i] \in Nat /\ g[i] = f[i]
    <3>1. i \in 0 .. FirstEnd(kind, f) - 1 /\ i \in Nat
      BY <1>2
    <3> QED BY <3>1
  <2> QED BY <2>1, DecodeSame
<1>3. RequiredBytes(kind) \in Nat
  BY <1>0 DEF RequiredBytes
<1>4. RequiredBytes(kind) >= 1 => g[0] = f[0]
  BY <1>3
<1>5. RequiredBytes(kind) >= 2 => g[1] = f[1]
  BY <1>3
<1>6. f[0] \in Nat /\ f[1] \in Nat
  OBVIOUS
<1>7. CASE kind = "Zero"
  BY <1>7 DEF Decoder
<1>8. CASE kind \in {"OneImm", "OneOff"}
  BY <1>1, <1>8 DEF Decoder
<1>9. CASE kind = "TwoImm"
  <2> DEFINE split == Split(LowNibble(f[0]))
  <2>1. split = FirstEnd(kind, f) /\ split \in Nat
    BY <1>0, <1>6, <1>9 DEF FirstEnd
  <2>2. g[0] = f[0]
    BY <1>4, <1>9 DEF RequiredBytes
  <2>3. DecodeI32(f, 0 + 1, 0 + split) = DecodeI32(g, 0 + 1, 0 + split)
    BY <1>2, <2>1
  <2>4. DecodeI32(f, 0 + split, lim) = DecodeI32(g, 0 + split, lim)
    BY <1>1, <2>1
  <2>5. Decoder(kind, f, 0, lim) = TwoImm(f, 0, lim) /\ Decoder(kind, g, 0, lim) = TwoImm(g, 0, lim)
    BY <1>9 DEF Decoder
  <2> QED BY <2>2, <2>3, <2>4, <2>5 DEF TwoImm
<1>10. CASE kind = "OneRegOneImm"
  <2>1. g[0] = f[0]
    BY <1>4, <1>10 DEF RequiredBytes
  <2>2. DecodeI32(f, 0 + 1, lim) = DecodeI32(g, 0 + 1, lim)
    BY <1>1
  <2> QED BY <1>10, <2>1, <2>2 DEF Decoder
<1>11. CASE kind = "OneRegOneExtImm"
  <2>1. RequiredBytes(kind) = 1 + 2 * WIDTH
    BY <1>11 DEF RequiredBytes
  <2>2. g[0] = f[0]
    BY <1>0, <1>4, <2>1
  <2>3. ASSUME NEW o \in Nat, o >= 1, o + WIDTH <= RequiredBytes(kind) PROVE Little(f, o, WIDTH) = Little(g, o, WIDTH)
    <3>1. ASSUME NEW i \in 0 .. WIDTH - 1 PROVE f[o + i] \in Nat /\ g[o + i] = f[o + i]
      <4>1. o + i \in 0 .. RequiredBytes(kind) - 1 /\ o + i \in Nat
        BY <1>0, <2>1, <2>3
      <4> QED BY <4>1
    <3> QED BY <1>0, <3>1, LittleSame
  <2>4. Little(f, 0 + 1, WIDTH) = Little(g, 0 + 1, WIDTH)
        /\ Little(f, 0 + 1 + WIDTH, WIDTH) = Little(g, 0 + 1 + WIDTH, WIDTH)
    <3>1. /\ 0 + 1 \in Nat /\ 0 + 1 >= 1 /\ 0 + 1 + WIDTH <= RequiredBytes(kind)
          /\ 0 + 1 + WIDTH \in Nat /\ 0 + 1 + WIDTH >= 1
          /\ 0 + 1 + WIDTH + WIDTH <= RequiredBytes(kind)
      BY <1>0, <2>1
    <3> QED BY <2>3, <3>1
  <2> QED BY <1>11, <2>2, <2>4 DEF Decoder
<1>12. CASE kind \in {"OneRegTwoImm", "OneRegOneImmOneOff"}
  <2> DEFINE split == Split(HigNibble(f[0]))
  <2>1. split = FirstEnd(kind, f) /\ split \in Nat
    BY <1>0, <1>6, <1>12 DEF FirstEnd
  <2>2. g[0] = f[0]
    BY <1>4, <1>12 DEF RequiredBytes
  <2>3. DecodeI32(f, 0 + 1, 0 + split) = DecodeI32(g, 0 + 1, 0 + split)
    BY <1>2, <2>1
  <2>4. DecodeI32(f, 0 + split, lim) = DecodeI32(g, 0 + split, lim)
    BY <1>1, <2>1
  <2> QED BY <1>12, <2>2, <2>3, <2>4 DEF Decoder
<1>13. CASE kind = "TwoReg"
  <2>1. g[0] = f[0]
    BY <1>4, <1>13 DEF RequiredBytes
  <2> QED BY <1>13, <2>1 DEF Decoder
<1>14. CASE kind \in {"TwoRegOneImm", "TwoRegOneOff"}
  <2>1. g[0] = f[0]
    BY <1>4, <1>14 DEF RequiredBytes
  <2>2. DecodeI32(f, 0 + 1, lim) = DecodeI32(g, 0 + 1, lim)
    BY <1>1
  <2> QED BY <1>14, <2>1, <2>2 DEF Decoder
<1>15. CASE kind = "TwoRegTwoImm"
  <2> DEFINE split == Split(LowNibble(f[1]))
  <2>1. 1 + split = FirstEnd(kind, f) /\ split \in Nat
    BY <1>0, <1>6, <1>15 DEF FirstEnd
  <2>2. g[0] = f[0] /\ g[1] = f[1]
    BY <1>4, <1>5, <1>15 DEF RequiredBytes
  <2>3. DecodeI32(f, 1 + 1, 1 + split) = DecodeI32(g, 1 + 1, 1 + split)
    BY <1>2, <2>1
  <2>4. DecodeI32(f, 1 + split, lim) = DecodeI32(g, 1 + split, lim)
    BY <1>1, <2>1
  <2>5. TwoImm(f, 1, lim) = TwoImm(g, 1, lim)
    BY <2>2, <2>3, <2>4 DEF TwoImm
  <2>6. TwoImm(f, 0 + 1, lim) = TwoImm(g, 0 + 1, lim)
    BY <2>5
  <2> QED BY <1>15, <2>2, <2>6 DEF Decoder
<1>16. CASE kind = "ThreeReg"
  <2>1. g[0] = f[0] /\ g[1] = f[1] /\ 0 + 1 = 1
    BY <1>4, <1>5, <1>16 DEF RequiredBytes
  <2> QED BY <1>16, <2>1 DEF Decoder
<1> QED BY <1>7, <1>8, <1>9, <1>10, <1>11, <1>12, <1>13, <1>14, <1>15, <1>16 DEF Kind

\* Where a fold over an interval goes on.
LEMMA DropLeast == ASSUME NEW i \in Nat, NEW n \in Nat PROVE (i .. n) \ {i} = i + 1 .. n
OBVIOUS

\* A number is the sum of its bytes as they are decoded from code.
LEMMA NumberIsLittle ==
  ASSUME NEW n \in Nat, NEW seq \in [1 .. n -> Nat], NEW at, \A i \in 0 .. n - 1 : at[i] = seq[i + 1]
  PROVE  Number(seq) = Little(at, 0, n)
<1> DEFINE Is(g) == g = [s \in SUBSET DOMAIN seq |->
                           IF s = {} THEN 0 ELSE seq[Min(s)] + ByteBase * g[s \ {Min(s)}]]
           fold == CHOOSE g : Is(g)
           pick == [s \in SUBSET (1 .. n) |-> Min(s)]
           F == [p \in Nat \X (1 .. n) |-> seq[p[2]] + ByteBase * p[1]]
<1>0. ByteBase \in Nat \ {0}
  BY WeightFacts
<1>1. Number(seq) = fold[DOMAIN seq]
  BY DEF Number, FoldRight, MapThenFoldSet
<1>2. DOMAIN seq = 1 .. n /\ \A i \in 1 .. n : seq[i] \in Nat
  OBVIOUS
<1>3. F \in [Nat \X (1 .. n) -> Nat] /\ \A a \in Nat, i \in 1 .. n : F[<<a, i>>] = seq[i] + ByteBase * a
  <2>1. ASSUME NEW a \in Nat, NEW i \in 1 .. n PROVE seq[i] + ByteBase * a \in Nat
    <3>1. ByteBase * a \in Nat /\ seq[i] \in Nat
      BY <1>0, <1>2
    <3> QED BY <3>1
  <2> QED BY <2>1
<1>4. \A s \in SUBSET (1 .. n) : pick[s] = Min(s) /\ (s # {} => pick[s] \in s)
  <2>1. ASSUME NEW s \in SUBSET (1 .. n), s # {} PROVE Min(s) \in s
    <3>1. s \subseteq Nat
      OBVIOUS
    <3>2. PICK k \in s : \A j \in s : k <= j
      BY <2>1, <3>1, LeastElement
    <3> QED BY <3>1, <3>2, MinIs
  <2> QED BY <2>1
<1> HIDE DEF F, pick
<1>5. PICK g \in [SUBSET (1 .. n) -> Nat] : IsFold(g, 1 .. n, 0, F, pick)
  <2> DEFINE V == Nat
  <2>1. 0 \in V /\ F \in [V \X (1 .. n) -> V]
    BY <1>3
  <2> HIDE DEF V, Is
  <2>2. IsFiniteSet(1 .. n)
    BY FS_Interval
  <2>3. \E g \in [SUBSET (1 .. n) -> V] : IsFold(g, 1 .. n, 0, F, pick)
    BY <1>4, <2>1, <2>2, FoldExists
  <2> QED BY <2>3 DEF V
<1>6. ASSUME NEW s \in SUBSET (1 .. n)
      PROVE  g[s] = IF s = {} THEN 0 ELSE seq[Min(s)] + ByteBase * g[s \ {Min(s)}]
  <2>1. CASE s = {}
    BY <1>5, <2>1 DEF IsFold
  <2>2. CASE s # {}
    <3>1. Min(s) = pick[s] /\ Min(s) \in 1 .. n /\ g[s \ {Min(s)}] \in Nat
      BY <1>4, <2>2
    <3> QED BY <1>3, <1>5, <2>2, <3>1 DEF IsFold
  <2> QED BY <2>1, <2>2
<1>7. Is(g)
  BY <1>2, <1>6
<1> HIDE DEF Is
<1>8. Is(fold)
  BY <1>7
<1> HIDE DEF fold
<1>9. \A s \in SUBSET (1 .. n) :
        fold[s] = IF s = {} THEN 0 ELSE seq[Min(s)] + ByteBase * fold[s \ {Min(s)}]
  BY <1>2, <1>8 DEF Is
<1>10. PICK w \in [0 .. n -> Nat] : IsLittle(w, at, 0, n) /\ Little(at, 0, n) = w[0]
  <2>1. ASSUME NEW i \in 0 .. n - 1 PROVE at[0 + i] \in Nat
    <3>1. at[i] = seq[i + 1] /\ i + 1 \in 1 .. n /\ 0 + i = i
      OBVIOUS
    <3> QED BY <1>2, <3>1
  <2> QED BY <2>1, LittleIs
<1> DEFINE bad == {k \in 0 .. n : fold[n - k + 1 .. n] # w[n - k]}
<1>11. bad = {}
  <2> SUFFICES ASSUME bad # {} PROVE FALSE
    OBVIOUS
  <2>1. PICK k \in bad : \A j \in bad : k <= j
    <3>1. bad \subseteq Nat
      OBVIOUS
    <3> HIDE DEF bad
    <3> QED BY <3>1, LeastElement
  <2>2. k \in 0 .. n /\ fold[n - k + 1 .. n] # w[n - k]
    BY <2>1
  <2>3. CASE k = 0
    <3>1. n - k + 1 .. n = {} /\ {} \in SUBSET (1 .. n) /\ n - k = n /\ n \in 0 .. n
      BY <2>3
    <3>2. fold[{}] = 0 /\ w[n] = 0
      BY <1>9, <1>10, <3>1 DEF IsLittle
    <3> QED BY <2>2, <3>1, <3>2
  <2>4. CASE k # 0
    <3> DEFINE i == n - k + 1
    <3>1. /\ i \in 1 .. n /\ k - 1 \in 0 .. n /\ n - (k - 1) + 1 = i + 1 /\ n - (k - 1) = i
          /\ n - k = i - 1 /\ i - 1 \in 0 .. n - 1
      BY <2>2, <2>4
    <3>2. fold[i + 1 .. n] = w[i]
      <4>1. k - 1 \notin bad
        <5> HIDE DEF bad
        <5> QED BY <2>1, <2>2, <3>1
      <4> QED BY <3>1, <4>1
    <3> HIDE DEF i
    <3>3. Min(i .. n) = i /\ (i .. n) \ {i} = i + 1 .. n /\ i .. n # {} /\ i .. n \in SUBSET (1 .. n)
      <4>1. i \in i .. n /\ i .. n \subseteq Nat /\ \A j \in i .. n : i <= j
        BY <3>1
      <4>2. (i .. n) \ {i} = i + 1 .. n /\ i .. n \in SUBSET (1 .. n)
        <5>1. i \in Nat /\ i >= 1 /\ n \in Nat
          BY <3>1
        <5>2. (i .. n) \ {i} = i + 1 .. n
          BY <5>1, DropLeast
        <5>3. i .. n \in SUBSET (1 .. n)
          BY <5>1
        <5> QED BY <5>2, <5>3
      <4>3. Min(i .. n) = i
        BY <4>1, MinIs
      <4> QED BY <4>1, <4>2, <4>3
    <3>4. fold[i .. n] = seq[i] + ByteBase * fold[i + 1 .. n]
      BY <1>9, <3>3
    <3>5. w[i - 1] = at[0 + (i - 1)] + ByteBase * w[(i - 1) + 1]
      BY <1>10, <3>1 DEF IsLittle
    <3>6. at[0 + (i - 1)] = seq[i] /\ (i - 1) + 1 = i
      <4>1. 0 + (i - 1) = i - 1 /\ (i - 1) + 1 = i
        BY <3>1
      <4> QED BY <3>1, <4>1
    <3>7. fold[i .. n] = w[i - 1]
      BY <3>2, <3>4, <3>5, <3>6
    <3> QED BY <2>2, <3>1, <3>7 DEF i
  <2> QED BY <2>3, <2>4
<1>12. fold[1 .. n] = w[0]
  <2>1. n \in 0 .. n /\ n - n + 1 = 1 /\ n - n = 0
    OBVIOUS
  <2> QED BY <1>11, <2>1
<1> QED BY <1>1, <1>2, <1>10, <1>12

\* The highest byte says how big the number is.
LEMMA LittleRange ==
  ASSUME NEW n \in Nat \ {0}, NEW at, \A i \in 0 .. n - 1 : at[i] \in 0 .. ByteBase - 1
  PROVE  Little(at, 0, n) - at[n - 1] * Weight(n - 1) \in 0 .. Weight(n - 1) - 1
<1> DEFINE B == ByteBase  t == at[n - 1]
<1>1. B \in Nat /\ B >= 4 /\ Weight(0) = 1
      /\ \A k \in Nat : Weight(k) \in Nat \ {0} /\ Weight(k + 1) = Weight(k) * B
  BY WeightFacts
<1>2. n - 1 \in 0 .. n - 1 /\ n - 1 \in Nat /\ t \in Nat
  <2>1. n - 1 \in 0 .. n - 1 /\ n - 1 \in Nat
    OBVIOUS
  <2>2. t \in 0 .. ByteBase - 1
    BY <2>1
  <2> QED BY <1>1, <2>1, <2>2
<1>3. PICK w \in [0 .. n -> Nat] : IsLittle(w, at, 0, n) /\ Little(at, 0, n) = w[0]
  <2>1. ASSUME NEW i \in 0 .. n - 1 PROVE at[0 + i] \in Nat
    <3>1. 0 + i = i /\ at[i] \in 0 .. ByteBase - 1
      OBVIOUS
    <3> QED BY <1>1, <3>1
  <2> QED BY <2>1, LittleIs
<1>4. \A i \in 0 .. n - 1 : w[i] = at[i] + B * w[i + 1] /\ at[i] \in 0 .. B - 1
  <2>1. ASSUME NEW i \in 0 .. n - 1 PROVE w[i] = at[i] + B * w[i + 1]
    <3>1. i \in 0 .. n /\ i # n /\ 0 + i = i
      OBVIOUS
    <3> QED BY <1>3, <3>1 DEF IsLittle
  <2> QED BY <2>1
<1>5. w[n] = 0
  <2>1. n \in 0 .. n
    OBVIOUS
  <2> QED BY <1>3, <2>1 DEF IsLittle
<1> HIDE DEF B, t
<1> DEFINE Low(k) == w[n - 1 - k] - t * Weight(k) \in 0 .. Weight(k) - 1
           bad == {k \in 0 .. n - 1 : ~Low(k)}
<1>6. bad = {}
  <2> SUFFICES ASSUME bad # {} PROVE FALSE
    OBVIOUS
  <2>1. PICK k \in bad : \A j \in bad : k <= j
    <3>1. bad \subseteq Nat
      OBVIOUS
    <3> HIDE DEF bad
    <3> QED BY <3>1, LeastElement
  <2>2. k \in 0 .. n - 1 /\ ~Low(k)
    BY <2>1
  <2>3. CASE k = 0
    <3>1. w[n - 1] = t + B * w[n - 1 + 1] /\ n - 1 + 1 = n /\ n - 1 - 0 = n - 1
      BY <1>2, <1>4 DEF t
    <3>2. B * 0 = 0 /\ t * 1 = t
      BY <1>1, <1>2
    <3>3. w[n - 1 - 0] - t * Weight(0) = 0
      BY <1>1, <1>2, <1>5, <3>1, <3>2
    <3>4. Low(0)
      <4>1. 0 \in 0 .. Weight(0) - 1
        BY <1>1
      <4> QED BY <3>3, <4>1
    <3> HIDE DEF Low
    <3> QED BY <2>2, <2>3, <3>4
  <2>4. CASE k # 0
    <3> DEFINE i == n - 1 - k  P == Weight(k - 1)
    <3>1. /\ k - 1 \in 0 .. n - 1 /\ k - 1 \in Nat /\ k - 1 < k /\ (k - 1) + 1 = k
          /\ n - 1 - (k - 1) = i + 1 /\ i \in 0 .. n - 1 /\ i + 1 \in 0 .. n
      BY <2>2, <2>4
    <3>2. Low(k - 1)
      <4>1. k - 1 \notin bad
        <5> HIDE DEF bad
        <5> QED BY <2>1, <2>2, <3>1
      <4> HIDE DEF Low
      <4> QED BY <3>1, <4>1
    <3>3. P \in Nat \ {0} /\ Weight(k) = P * B
      BY <1>1, <3>1
    <3> DEFINE u == w[i + 1]  a == at[i]  r == u - t * P  pb == P * B
    <3>4. u \in Nat /\ r \in 0 .. P - 1 /\ w[i] = a + B * u /\ a \in 0 .. B - 1
      BY <1>4, <3>1, <3>2
    <3>5. w[i] - t * Weight(k) = a + B * r
      <4>1. t * (P * B) = B * (t * P) /\ t * P \in Int
        <5> HIDE DEF P
        <5> QED BY <1>1, <1>2, <3>3
      <4> DEFINE tp == t * P
      <4>2. tp \in Int /\ r = u - tp /\ w[i] - t * Weight(k) = (a + B * u) - B * tp
        BY <3>3, <3>4, <4>1
      <4> HIDE DEF tp, r, a, u
      <4>3. a \in Int /\ u \in Int
        BY <1>1, <3>4
      <4>4. (a + B * u) - B * tp = a + B * (u - tp)
        BY <1>1, <4>2, <4>3
      <4> QED BY <4>2, <4>4
    <3>6. a + B * r \in 0 .. pb - 1
      <4> HIDE DEF r, a, u, P, pb
      <4>1. r \in Nat /\ r <= P - 1 /\ a \in Nat /\ a <= B - 1 /\ P \in Nat
        BY <1>1, <3>3, <3>4
      <4>2. B * r <= B * (P - 1) /\ B * (P - 1) = B * P - B /\ B * P = P * B /\ B * r \in Nat
        <5>1. B * r <= B * (P - 1)
          BY <1>1, <4>1, TimesMonotone
        <5> QED BY <1>1, <4>1, <5>1
      <4>3. pb \in Nat /\ pb = P * B
        BY <1>1, <4>1 DEF pb
      <4> DEFINE br == B * r  bp == B * (P - 1)
      <4>4. br \in Nat /\ br <= bp /\ bp = pb - B
        BY <4>2, <4>3
      <4> HIDE DEF br, bp
      <4>5. a + br \in 0 .. pb - 1
        BY <1>1, <4>1, <4>3, <4>4
      <4> QED BY <4>5 DEF br
    <3>7. Low(k)
      BY <3>3, <3>5, <3>6
    <3> HIDE DEF Low
    <3> QED BY <2>2, <3>7
  <2> QED BY <2>3, <2>4
<1>7. Low(n - 1)
  <2> HIDE DEF Low
  <2> QED BY <1>2, <1>6
<1>8. n - 1 - (n - 1) = 0
  OBVIOUS
<1> QED BY <1>3, <1>7, <1>8 DEF t

\* What is in a byte.
Octet == 0 .. ByteBase - 1

\* What is missing is zero, however the extension is written.
LEMMA MissingAreZero ==
  ASSUME NEW code \in Seq(Octet), NEW behind \in Octet, NEW kind \in Kind, NEW lim \in 0 .. Len(code),
         ~FirstNumberCut(kind, code)
  PROVE  DecodeArguments(kind, code, lim, behind, behind) = ZeroExtended(kind, code, lim)
<1> DEFINE len == Len(code)  required == RequiredBytes(kind)
           g == [i \in Nat |-> IF i < len THEN code[i + 1] ELSE 0]
           short == [i \in Nat |-> IF i < len THEN code[i + 1]
                                   ELSE IF i < required THEN 0 ELSE behind]
           whole == [i \in Nat |-> IF i < len THEN code[i + 1] ELSE behind]
           f == IF len < required THEN short ELSE whole
<1>0. /\ len \in Nat /\ behind \in Nat /\ lim \in Nat /\ lim <= len
      /\ \A i \in 1 .. len : code[i] \in Nat
  <2>1. ByteBase \in Nat
    BY WeightFacts
  <2>2. \A i \in 1 .. len : code[i] \in Octet
    OBVIOUS
  <2> QED BY <2>1, <2>2 DEF Octet
<1>1. required \in Nat
  BY ArgumentsAssumption DEF RequiredBytes
<1>2. DecodeArguments(kind, code, lim, behind, behind) = Decoder(kind, f, 0, lim)
  BY DEF DecodeArguments
<1>3. ZeroExtended(kind, code, lim) = Decoder(kind, g, 0, lim)
  BY DEF ZeroExtended
<1> HIDE DEF required
<1>4. ASSUME NEW i \in Nat, i < len PROVE code[i + 1] \in Nat
  <2>1. i + 1 \in 1 .. len
    BY <1>0, <1>4
  <2> QED BY <1>0, <2>1
<1>5. f \in [Nat -> Nat] /\ g \in [Nat -> Nat]
  <2>1. short \in [Nat -> Nat]
    BY <1>0, <1>4
  <2>2. whole \in [Nat -> Nat]
    BY <1>0, <1>4
  <2>3. g \in [Nat -> Nat]
    BY <1>0, <1>4
  <2> HIDE DEF short, whole, g
  <2> QED BY <2>1, <2>2, <2>3
<1>6. \A i \in Nat : i < len \/ (len < required /\ i < required) => g[i] = f[i]
  <2>1. CASE len < required
    BY <1>0, <1>1, <2>1
  <2>2. CASE ~(len < required)
    BY <1>0, <1>1, <2>2
  <2> QED BY <2>1, <2>2
<1>7. \A i \in 0 .. lim - 1 : g[i] = f[i]
  <2> HIDE DEF f, g
  <2> QED BY <1>0, <1>6
<1>8. \A i \in 0 .. required - 1 : g[i] = f[i]
  <2> HIDE DEF f, g
  <2>1. ASSUME NEW i \in 0 .. required - 1 PROVE i \in Nat /\ (i < len \/ (len < required /\ i < required))
    BY <1>0, <1>1
  <2> QED BY <1>6, <2>1
<1>9. \A i \in 0 .. FirstEnd(kind, f) - 1 : g[i] = f[i]
  <2>1. CASE len < required
    <3>1. FirstEnd(kind, f) <= required /\ FirstEnd(kind, f) \in Nat
      <4>1. CASE kind = "TwoImm"
        <5>1. required = 1 /\ f[0] = 0
          BY <1>0, <2>1, <4>1 DEF required, RequiredBytes
        <5> HIDE DEF f
        <5> QED BY <4>1, <5>1, NibbleFacts DEF FirstEnd
      <4>2. CASE kind \in {"OneRegTwoImm", "OneRegOneImmOneOff"}
        <5>1. required = 1 /\ f[0] = 0
          BY <1>0, <2>1, <4>2 DEF required, RequiredBytes
        <5> HIDE DEF f
        <5> QED BY <4>2, <5>1, NibbleFacts DEF FirstEnd
      <4>3. CASE kind = "TwoRegTwoImm"
        <5>1. required = 2
          BY <4>3 DEF required, RequiredBytes
        <5>2. f[1] = 0
          BY <1>0, <2>1, <5>1
        <5> HIDE DEF f
        <5> QED BY <4>3, <5>1, <5>2, NibbleFacts DEF FirstEnd
      <4>4. CASE kind \notin {"TwoImm", "OneRegTwoImm", "OneRegOneImmOneOff", "TwoRegTwoImm"}
        <5> HIDE DEF f
        <5>1. FirstEnd(kind, f) = 0
          BY <4>4 DEF FirstEnd
        <5> QED BY <1>1, <5>1
      <4> QED BY <4>1, <4>2, <4>3, <4>4
    <3> HIDE DEF f
    <3>2. ASSUME NEW i \in 0 .. FirstEnd(kind, f) - 1 PROVE i \in 0 .. required - 1
      BY <1>1, <3>1
    <3> QED BY <1>8, <3>2
  <2>2. CASE ~(len < required)
    <3>1. len >= required
      BY <1>0, <1>1, <2>2
    <3>2. FirstEnd(kind, f) <= len /\ FirstEnd(kind, f) \in Nat
      <4>1. CASE kind = "TwoImm"
        <5>1. required = 1
          BY <4>1 DEF required, RequiredBytes
        <5>2. f[0] = code[1] /\ 0 \in Nat
          BY <1>0, <2>2, <3>1, <5>1
        <5>3. ~(Split(LowNibble(code[1])) > len)
          BY <3>1, <4>1 DEF FirstNumberCut, required
        <5>4. f[0] \in Nat
          <6> HIDE DEF f
          <6> QED BY <1>5
        <5> HIDE DEF f
        <5>5. FirstEnd(kind, f) = Split(LowNibble(code[1]))
          BY <4>1, <5>2 DEF FirstEnd
        <5>6. Split(LowNibble(code[1])) \in Nat
          BY <5>2, <5>4, NibbleFacts
        <5> QED BY <1>0, <5>3, <5>5, <5>6
      <4>2. CASE kind \in {"OneRegTwoImm", "OneRegOneImmOneOff"}
        <5>1. required = 1
          BY <4>2 DEF required, RequiredBytes
        <5>2. f[0] = code[1] /\ 0 \in Nat
          BY <1>0, <2>2, <3>1, <5>1
        <5>3. ~(Split(HigNibble(code[1])) > len)
          BY <3>1, <4>2 DEF FirstNumberCut, required
        <5>4. f[0] \in Nat
          <6> HIDE DEF f
          <6> QED BY <1>5
        <5> HIDE DEF f
        <5>5. FirstEnd(kind, f) = Split(HigNibble(code[1]))
          BY <4>2, <5>2 DEF FirstEnd
        <5>6. Split(HigNibble(code[1])) \in Nat
          BY <5>2, <5>4, NibbleFacts
        <5> QED BY <1>0, <5>3, <5>5, <5>6
      <4>3. CASE kind = "TwoRegTwoImm"
        <5>1. required = 2
          BY <4>3 DEF required, RequiredBytes
        <5>2. f[1] = code[2] /\ 1 \in Nat
          BY <1>0, <2>2, <3>1, <5>1
        <5>3. ~(1 + Split(LowNibble(code[2])) > len)
          BY <3>1, <4>3 DEF FirstNumberCut, required
        <5>4. f[1] \in Nat
          <6> HIDE DEF f
          <6> QED BY <1>5
        <5> HIDE DEF f
        <5>5. FirstEnd(kind, f) = 1 + Split(LowNibble(code[2]))
          BY <4>3, <5>2 DEF FirstEnd
        <5>6. Split(LowNibble(code[2])) \in Nat
          BY <5>2, <5>4, NibbleFacts
        <5> QED BY <1>0, <5>3, <5>5, <5>6
      <4>4. CASE kind \notin {"TwoImm", "OneRegTwoImm", "OneRegOneImmOneOff", "TwoRegTwoImm"}
        <5> HIDE DEF f
        <5>1. FirstEnd(kind, f) = 0
          BY <4>4 DEF FirstEnd
        <5> QED BY <1>0, <5>1
      <4> QED BY <4>1, <4>2, <4>3, <4>4
    <3> HIDE DEF f, g
    <3>3. ASSUME NEW i \in 0 .. FirstEnd(kind, f) - 1 PROVE i \in Nat /\ i < len
      BY <1>0, <3>2
    <3> QED BY <1>6, <3>3
  <2> QED BY <2>1, <2>2
<1> HIDE DEF f, g
<1>10. Decoder(kind, f, 0, lim) = Decoder(kind, g, 0, lim)
  BY <1>0, <1>5, <1>7, <1>8, <1>9, DecoderSame DEF required
<1> QED BY <1>2, <1>3, <1>10

\* Numbers that are decoded are signed.
LEMMA DecodedSigned ==
  ASSUME NEW code \in Seq(Octet), NEW behind \in Octet, NEW lim \in 1 .. WIDTH, lim <= Len(code)
  PROVE  LET v == Number(SubSeq(code, 1, lim))
         IN DecodeArguments("OneImm", code, lim, behind, behind)[1] =
              (IF 2 * v < Weight(lim) THEN v ELSE v - Weight(lim)) % Weight(WIDTH)
<1> DEFINE at == [i \in Nat |-> IF i < Len(code) THEN code[i + 1] ELSE behind]
           seq == SubSeq(code, 1, lim)
           v == Little(at, 0, lim)
           W == Weight(lim)  P == Weight(lim - 1)  WW == Weight(WIDTH)  half == ByteBase \div 2
           t == at[lim - 1]
<1>0. /\ WIDTH \in Nat /\ lim \in Nat \ {0} /\ lim <= WIDTH /\ lim - 1 \in Nat /\ (lim - 1) + 1 = lim
      /\ Len(code) \in Nat
  BY ArgumentsAssumption
<1>1. /\ ByteBase \in Nat /\ half \in Nat /\ ByteBase = 2 * half
  <2>1. BITS - 1 \in Nat /\ (BITS - 1) + 1 = BITS /\ ByteBase \in Nat
    BY WeightFacts
  <2>2. 2 ^ BITS = 2 ^ (BITS - 1) * 2 /\ 2 ^ (BITS - 1) \in Nat
    BY <2>1, PowerDoubles
  <2> DEFINE h == 2 ^ (BITS - 1)
  <2>3. h \in Nat /\ ByteBase = 2 * h + 0 /\ 2 \in Nat \ {0} /\ 0 \in 0 .. 2 - 1
    BY <2>1, <2>2 DEF ByteBase
  <2> HIDE DEF h
  <2>4. half = h
    BY <2>1, <2>3, DivModUnique
  <2> QED BY <2>1, <2>3, <2>4
<1>2. /\ W = P * ByteBase /\ P \in Nat \ {0} /\ W \in Nat \ {0} /\ WW \in Nat \ {0} /\ W <= WW
  <2>1. W = P * ByteBase /\ P \in Nat \ {0} /\ W \in Nat \ {0} /\ WW \in Nat \ {0}
    BY <1>0, WeightFacts
  <2>2. BITS * lim <= BITS * WIDTH /\ BITS * lim \in Nat /\ BITS * WIDTH \in Nat
    <3>1. BITS \in Nat
      BY WeightFacts
    <3>2. BITS * lim <= BITS * WIDTH
      BY <1>0, <3>1, TimesMonotone
    <3> QED BY <1>0, <3>1, <3>2
  <2>3. 2 ^ (BITS * lim) <= 2 ^ (BITS * WIDTH)
    BY <2>2, PowerMonotone
  <2> QED BY <2>1, <2>3 DEF Weight
<1>3. \A i \in 0 .. lim - 1 : at[i] = code[i + 1] /\ at[i] \in Octet
  <2>1. ASSUME NEW i \in 0 .. lim - 1 PROVE i + 1 \in 1 .. Len(code) /\ i \in Nat /\ i < Len(code)
    BY <1>0
  <2>2. \A i \in 1 .. Len(code) : code[i] \in Octet
    OBVIOUS
  <2> QED BY <2>1, <2>2
<1>4. DecodeArguments("OneImm", code, lim, behind, behind)[1] = DecodeI32(at, 0, lim)
  BY <1>0 DEF DecodeArguments, Decoder, RequiredBytes
<1> HIDE DEF at
<1>5. Number(seq) = v
  <2>1. Len(seq) = lim /\ seq \in [1 .. lim -> Nat] /\ \A i \in 0 .. lim - 1 : at[i] = seq[i + 1]
    <3>1. seq = [i \in 1 .. lim |-> code[i]]
      BY <1>0
    <3>2. \A i \in 1 .. lim : code[i] \in Nat
      <4>1. ASSUME NEW i \in 1 .. lim PROVE code[i] \in Nat
        <5>1. i \in 1 .. Len(code)
          BY <1>0
        <5>2. code[i] \in Octet
          BY <5>1
        <5> QED BY <1>1, <5>2 DEF Octet
      <4> QED BY <4>1
    <3>3. seq \in [1 .. lim -> Nat]
      BY <3>1, <3>2
    <3>4. Len(seq) = lim
      BY <1>0
    <3>5. \A i \in 0 .. lim - 1 : at[i] = seq[i + 1]
      <4>1. ASSUME NEW i \in 0 .. lim - 1 PROVE at[i] = seq[i + 1]
        <5>1. i + 1 \in 1 .. lim
          BY <1>0
        <5>2. seq[i + 1] = code[i + 1]
          BY <3>1, <5>1
        <5> QED BY <1>3, <5>2
      <4> QED BY <4>1
    <3> QED BY <3>3, <3>4, <3>5
  <2> HIDE DEF seq
  <2> QED BY <1>0, <2>1, NumberIsLittle
<1>6. v - t * P \in 0 .. P - 1 /\ t \in Octet
  <2>1. lim - 1 \in 0 .. lim - 1
    BY <1>0
  <2> QED BY <1>0, <1>3, <2>1, LittleRange DEF Octet
<1> DEFINE tp == t * P  r == v - tp  hp == half * P
<1>7. v \in Int /\ tp \in Nat /\ r \in 0 .. P - 1 /\ t \in Nat /\ t < ByteBase
  <2>1. t \in Nat /\ t < ByteBase
    BY <1>1, <1>6 DEF Octet
  <2>2. tp \in Nat
    <3> HIDE DEF P, t
    <3> QED BY <1>2, <2>1
  <2>3. v \in Nat
    <3>1. \A i \in 0 .. lim - 1 : at[0 + i] \in Nat
      BY <1>1, <1>3 DEF Octet
    <3>2. 0 \in Nat /\ lim \in Nat
      BY <1>0
    <3>3. \E w \in [0 .. lim -> Nat] : IsLittle(w, at, 0, lim) /\ Little(at, 0, lim) = w[0]
      BY <3>1, <3>2, LittleIs
    <3> QED BY <1>0, <3>3
  <2> QED BY <1>6, <2>1, <2>2, <2>3
<1> HIDE DEF v, P, W, WW, half, t
<1>8. W = 2 * hp /\ hp \in Nat
  BY <1>1, <1>2
<1>9. /\ t < half => v < hp
      /\ ~(t < half) => v >= hp
      /\ v \in 0 .. W - 1
  <2>1. ASSUME t < half PROVE v < hp
    <3>1. P * t <= P * (half - 1) /\ P * (half - 1) = hp - P /\ P * t = tp
      <4>1. t <= half - 1 /\ half - 1 \in Int
        BY <1>1, <1>7, <2>1
      <4>2. P * t <= P * (half - 1)
        BY <1>2, <1>7, <4>1, TimesMonotone
      <4> QED BY <1>1, <1>2, <1>7, <4>2
    <3> DEFINE q == P * (half - 1)
    <3>2. tp <= q /\ q = hp - P
      BY <3>1
    <3> HIDE DEF tp, hp, q
    <3> QED BY <1>2, <1>7, <1>8, <3>2 DEF r
  <2>2. ASSUME ~(t < half) PROVE v >= hp
    <3>1. P * half <= P * t /\ P * half = hp /\ P * t = tp
      <4>1. P * half <= P * t
        BY <1>1, <1>2, <1>7, <2>2, TimesMonotone
      <4> QED BY <1>1, <1>2, <1>7, <4>1
    <3> HIDE DEF tp, hp
    <3> QED BY <1>2, <1>7, <1>8, <3>1 DEF r
  <2>3. v \in 0 .. W - 1
    <3>1. P * t <= P * (ByteBase - 1) /\ P * (ByteBase - 1) = W - P /\ P * t = tp
      <4>1. t <= ByteBase - 1
        BY <1>1, <1>7
      <4>2. P * t <= P * (ByteBase - 1)
        BY <1>1, <1>2, <1>7, <4>1, TimesMonotone
      <4> QED BY <1>1, <1>2, <1>7, <4>2
    <3> DEFINE q == P * (ByteBase - 1)
    <3>2. tp <= q /\ q = W - P
      BY <3>1
    <3> HIDE DEF tp, q
    <3> QED BY <1>2, <1>7, <3>2 DEF r
  <2> QED BY <2>1, <2>2, <2>3
<1>10. DecodeI32(at, 0, lim) = v + (IF lim < WIDTH /\ t >= half THEN WW - W ELSE 0)
  <2>1. ~(lim <= 0) /\ lim - 0 = lim /\ 0 + lim - 1 = lim - 1
        /\ (IF lim - 0 < WIDTH THEN lim - 0 ELSE WIDTH) = lim
    BY <1>0
  <2> QED BY <2>1 DEF DecodeI32, v, t, W, WW, half
<1>11. DecodeI32(at, 0, lim) = (IF 2 * v < W THEN v ELSE v - W) % WW
  <2> HIDE DEF hp, tp, r
  <2>1. CASE t < half
    <3>1. 2 * v < W /\ v \in 0 .. WW - 1
      BY <1>2, <1>7, <1>8, <1>9, <2>1
    <3>2. v % WW = v
      BY <1>2, <3>1, ModSmall
    <3>3. ~(t >= half)
      BY <1>1, <1>7, <2>1
    <3> QED BY <1>7, <1>10, <3>1, <3>2, <3>3
  <2>2. CASE ~(t < half)
    <3>1. ~(2 * v < W) /\ t >= half /\ v - W \in Int
      BY <1>1, <1>2, <1>7, <1>8, <1>9, <2>2
    <3>2. v - W = WW * (-1) + (v - W + WW) /\ v - W + WW \in 0 .. WW - 1
      BY <1>2, <1>7, <1>9
    <3>3. (v - W) % WW = v - W + WW
      <4> DEFINE a == v - W  e == v - W + WW
      <4>1. a \in Int /\ e \in 0 .. WW - 1 /\ a = WW * (-1) + e /\ -1 \in Int
        BY <3>1, <3>2
      <4> HIDE DEF a, e
      <4>2. a % WW = e
        BY <1>2, <4>1, DivModUnique
      <4> QED BY <4>2 DEF a, e
    <3>4. DecodeI32(at, 0, lim) = v - W + WW
      <4>1. CASE lim < WIDTH
        BY <1>2, <1>7, <1>10, <3>1, <4>1
      <4>2. CASE ~(lim < WIDTH)
        <5>1. lim = WIDTH
          BY <1>0, <4>2
        <5>2. W = WW
          BY <5>1 DEF W, WW
        <5> QED BY <1>2, <1>7, <1>10, <4>2, <5>2
      <4> QED BY <4>1, <4>2
    <3> QED BY <3>1, <3>3, <3>4
  <2> QED BY <2>1, <2>2
<1> QED BY <1>4, <1>5, <1>11 DEF W, WW

\* The code and what is read behind it are bytes, of any number.
BytesOK == bytes \in Seq(Octet) /\ beyond \in Octet

LEMMA BytesInvariant == Spec => []BytesOK
<1>1. CodeBytes \subseteq Octet /\ Beyond \subseteq Octet
  BY ComputationAssumption DEF Octet
<1>2. Init => BytesOK
  BY <1>1 DEF Init, BytesOK
<1>3. BytesOK /\ [Next]_vars => BytesOK'
  <2> SUFFICES ASSUME BytesOK, [Next]_vars PROVE BytesOK'
    OBVIOUS
  <2>1. (bytes' = bytes \/ \E b \in CodeBytes : bytes' = Append(bytes, b)) /\ beyond' = beyond
    BY DEF Next, vars, GrowTables, AddCodeByte, AddBit, Load
  <2>2. CASE bytes' = bytes
    BY <2>1, <2>2 DEF BytesOK
  <2>3. ASSUME NEW b \in CodeBytes, bytes' = Append(bytes, b) PROVE BytesOK'
    <3>1. b \in Octet
      BY <1>1
    <3> QED BY <2>1, <2>3, <3>1 DEF BytesOK
  <2> QED BY <2>1, <2>2, <2>3
<1> QED BY <1>2, <1>3, PTL DEF Spec

\* Both: missing bytes, and one number on its own.
LEMMA ArgumentsAreExact == ASSUME BytesOK PROVE ArgumentsExact
<1> SUFFICES ASSUME NEW lim \in 0 .. Len(bytes)
             PROVE  /\ \A kind \in Kind :
                         ~FirstNumberCut(kind, bytes) =>
                           DecodeArguments(kind, bytes, lim, beyond, beyond)
                             = ZeroExtended(kind, bytes, lim)
                    /\ lim \in 1 .. WIDTH =>
                         LET v == Number(SubSeq(bytes, 1, lim))
                         IN DecodeArguments("OneImm", bytes, lim, beyond, beyond)[1] =
                              (IF 2 * v < Weight(lim) THEN v ELSE v - Weight(lim)) % Weight(WIDTH)
  BY DEF ArgumentsExact
<1>1. bytes \in Seq(Octet) /\ beyond \in Octet
  BY DEF BytesOK
<1>2. \A kind \in Kind :
        ~FirstNumberCut(kind, bytes) =>
          DecodeArguments(kind, bytes, lim, beyond, beyond) = ZeroExtended(kind, bytes, lim)
  BY <1>1, MissingAreZero
<1>3. lim \in 1 .. WIDTH =>
        LET v == Number(SubSeq(bytes, 1, lim))
        IN DecodeArguments("OneImm", bytes, lim, beyond, beyond)[1] =
             (IF 2 * v < Weight(lim) THEN v ELSE v - Weight(lim)) % Weight(WIDTH)
  <2>1. lim <= Len(bytes)
    BY <1>1
  <2> QED BY <1>1, <2>1, DecodedSigned
<1> QED BY <1>2, <1>3

\* Arguments that are missing at the end of the code are decoded as zeros, for
\* bytes and numbers of any width, as long as no first number is cut short; and
\* a number is the signed one that its bytes stand for (program.ts:307-320).
THEOREM ArgumentsExactTheorem == Spec => []ArgumentsExact
BY BytesInvariant, ArgumentsAreExact, PTL

-----------------------------------------------------------------------------
(* The mask of wrapped code.                                               *)

\* The bytes behind the opcode at i and before j, what takes them, and
\* where the mask has its next start.
Behind(code, i, j) == SubSeq(code, i + 2, j)
KindAt(code, i) == KindOf[code[i + 1]]
NextStart(code, i) == i + 1 + Skip(KindAt(code, i), Behind(code, i, Len(code)))

\* An instruction takes what is required and, of two numbers, the whole first.
LEMMA SkipFacts ==
  ASSUME NEW kind \in Kind, NEW data \in Seq(Octet)
  PROVE  /\ Skip(kind, data) \in Nat /\ RequiredBytes(kind) \in Nat
         /\ Len(data) >= RequiredBytes(kind) =>
              /\ RequiredBytes(kind) <= Skip(kind, data)
              /\ kind = "TwoImm" => Split(LowNibble(data[1])) <= Skip(kind, data)
              /\ kind \in {"OneRegTwoImm", "OneRegOneImmOneOff"} =>
                   Split(HigNibble(data[1])) <= Skip(kind, data)
              /\ kind = "TwoRegTwoImm" => 1 + Split(LowNibble(data[2])) <= Skip(kind, data)
<1>0. WIDTH \in Nat /\ RequiredBytes(kind) \in Nat
  BY ArgumentsAssumption DEF RequiredBytes
<1>1. CASE ~(Len(data) >= RequiredBytes(kind))
  BY <1>0, <1>1 DEF Skip
<1>2. CASE Len(data) >= RequiredBytes(kind)
  <2>1. Skip(kind, data) = ArgumentBytes(kind, data)
    BY <1>2 DEF Skip
  <2>2. \A i \in 1 .. Len(data) : data[i] \in Nat
    <3>1. ByteBase \in Nat
      BY WeightFacts
    <3>2. \A i \in 1 .. Len(data) : data[i] \in Octet
      OBVIOUS
    <3> QED BY <3>1, <3>2 DEF Octet
  <2>3. Len(data) \in Nat
    OBVIOUS
  <2>4. \A r \in Nat : ImmBytes(Len(data), r) \in Nat
    BY <1>0, <2>3 DEF ImmBytes
  <2> DEFINE Sized(n, nibble) == n + nibble + 1 + ImmBytes(Len(data), n + nibble + 1)
  <2>5. ASSUME NEW n \in Nat, NEW nibble \in Nat
        PROVE  Sized(n, nibble) \in Nat /\ n + Split(nibble) <= Sized(n, nibble)
    <3> DEFINE imm == ImmBytes(Len(data), n + nibble + 1)
    <3>1. imm \in Nat
      <4>1. n + nibble + 1 \in Nat
        OBVIOUS
      <4> QED BY <2>4, <4>1
    <3>2. Split(nibble) \in Nat /\ Split(nibble) <= nibble + 1
      BY NibbleFacts
    <3> HIDE DEF imm
    <3>3. n + nibble + 1 + imm \in Nat /\ n + Split(nibble) <= n + nibble + 1 + imm
      BY <3>1, <3>2
    <3> QED BY <3>3 DEF imm
  <2>6. CASE kind = "TwoImm"
    <3>1. RequiredBytes(kind) = 1 /\ data[1] \in Nat
      <4>1. RequiredBytes(kind) = 1
        BY <2>6 DEF RequiredBytes
      <4> QED BY <1>2, <2>2, <2>3, <4>1
    <3>2. LowNibble(data[1]) \in Nat /\ Split(LowNibble(data[1])) \in Nat \ {0}
      BY <3>1, NibbleFacts
    <3>3. Skip(kind, data) = Sized(1, LowNibble(data[1]))
      BY <2>1, <2>6 DEF ArgumentBytes
    <3> HIDE DEF Sized
    <3>4. Skip(kind, data) \in Nat /\ 1 + Split(LowNibble(data[1])) <= Skip(kind, data)
      BY <2>5, <3>2, <3>3
    <3> QED BY <1>0, <2>6, <3>1, <3>2, <3>4
  <2>7. CASE kind \in {"OneRegTwoImm", "OneRegOneImmOneOff"}
    <3>1. RequiredBytes(kind) = 1 /\ data[1] \in Nat
      <4>1. RequiredBytes(kind) = 1
        BY <2>7 DEF RequiredBytes
      <4> QED BY <1>2, <2>2, <2>3, <4>1
    <3>2. HigNibble(data[1]) \in Nat /\ Split(HigNibble(data[1])) \in Nat \ {0}
      BY <3>1, NibbleFacts
    <3>3. Skip(kind, data) = Sized(1, HigNibble(data[1]))
      BY <2>1, <2>7 DEF ArgumentBytes
    <3> HIDE DEF Sized
    <3>4. Skip(kind, data) \in Nat /\ 1 + Split(HigNibble(data[1])) <= Skip(kind, data)
      BY <2>5, <3>2, <3>3
    <3> QED BY <1>0, <2>7, <3>1, <3>2, <3>4
  <2>8. CASE kind = "TwoRegTwoImm"
    <3>1. RequiredBytes(kind) = 2 /\ data[2] \in Nat
      <4>1. RequiredBytes(kind) = 2
        BY <2>8 DEF RequiredBytes
      <4> QED BY <1>2, <2>2, <2>3, <4>1
    <3>2. LowNibble(data[2]) \in Nat /\ Split(LowNibble(data[2])) \in Nat \ {0}
      BY <3>1, NibbleFacts
    <3>3. Skip(kind, data) = Sized(2, LowNibble(data[2]))
      BY <2>1, <2>8 DEF ArgumentBytes
    <3> HIDE DEF Sized
    <3>4. Skip(kind, data) \in Nat /\ 2 + Split(LowNibble(data[2])) <= Skip(kind, data)
      BY <2>5, <3>2, <3>3
    <3> QED BY <1>0, <2>8, <3>1, <3>2, <3>4
  <2>9. CASE kind \in {"Zero", "OneImm", "OneOff"}
    <3>1. RequiredBytes(kind) = 0 /\ Skip(kind, data) \in {0, ImmBytes(Len(data), 0)}
      BY <2>1, <2>9 DEF RequiredBytes, ArgumentBytes
    <3>2. Skip(kind, data) \in Nat
      BY <2>4, <3>1
    <3> QED BY <2>9, <3>1, <3>2
  <2>10. CASE kind \in {"OneRegOneImm", "TwoReg", "TwoRegOneImm", "TwoRegOneOff"}
    <3> DEFINE capped == IF Len(data) < WIDTH THEN Len(data) ELSE WIDTH
    <3>1. RequiredBytes(kind) = 1 /\ Skip(kind, data) \in {1, 1 + ImmBytes(Len(data), 1), 1 + capped}
      BY <2>1, <2>10 DEF RequiredBytes, ArgumentBytes
    <3>2. ImmBytes(Len(data), 1) \in Nat /\ capped \in Nat
      BY <1>0, <2>3, <2>4
    <3> HIDE DEF capped
    <3>3. Skip(kind, data) \in Nat /\ 1 <= Skip(kind, data)
      BY <3>1, <3>2
    <3> QED BY <2>10, <3>1, <3>3
  <2>11. CASE kind \in {"OneRegOneExtImm", "ThreeReg"}
    <3>1. Skip(kind, data) = RequiredBytes(kind)
      BY <2>1, <2>11 DEF RequiredBytes, ArgumentBytes
    <3> QED BY <1>0, <2>11, <3>1
  <2> QED BY <2>6, <2>7, <2>8, <2>9, <2>10, <2>11 DEF Kind
<1> QED BY <1>1, <1>2

\* They are the bytes of the code.
LEMMA BehindFacts ==
  ASSUME NEW code \in Seq(Octet), NEW i \in 0 .. Len(code) - 1, NEW j \in i + 1 .. Len(code)
  PROVE  /\ Behind(code, i, j) \in Seq(Octet) /\ Len(Behind(code, i, j)) = j - i - 1
         /\ \A k \in 1 .. j - i - 1 : Behind(code, i, j)[k] = code[i + 1 + k]
         /\ KindAt(code, i) \in Kind
<1>1. j - (i + 2) + 1 = j - i - 1 /\ Len(code) \in Nat
  OBVIOUS
<1>2. Behind(code, i, j) = [k \in 1 .. j - i - 1 |-> code[i + 1 + k]]
  <2>1. Behind(code, i, j) = [k \in 1 .. j - (i + 2) + 1 |-> code[k + (i + 2) - 1]]
    BY DEF Behind
  <2>2. ASSUME NEW k \in 1 .. j - i - 1 PROVE k + (i + 2) - 1 = i + 1 + k
    OBVIOUS
  <2> QED BY <1>1, <2>1, <2>2
<1>3. \A k \in 1 .. Len(code) : code[k] \in Octet
  OBVIOUS
<1>4. ASSUME NEW k \in 1 .. j - i - 1 PROVE code[i + 1 + k] \in Octet
  <2>1. i + 1 + k \in 1 .. Len(code)
    BY <1>1
  <2> QED BY <1>3, <2>1
<1>5. j - i - 1 \in Nat
  OBVIOUS
<1>6. KindAt(code, i) \in Kind
  <2>1. i + 1 \in 1 .. Len(code)
    BY <1>1
  <2> QED BY <1>3, <2>1, BuildAssumption DEF KindAt, Octet
<1> DEFINE b == Behind(code, i, j)  l == j - i - 1
<1>7. b \in [1 .. l -> Octet] /\ l \in Nat
  BY <1>2, <1>4, <1>5
<1> HIDE DEF b, l
<1>8. b \in Seq(Octet) /\ Len(b) = l
  BY <1>7
<1> QED BY <1>2, <1>6, <1>8 DEF b, l

\* The starts from a position on, as BuildMask goes through the code.
IsStarts(s, code) ==
  LET n == Len(code)
  IN \A i \in 0 .. n :
       s[i] = IF i = n THEN {}
              ELSE {i} \cup (IF NextStart(code, i) < n THEN s[NextStart(code, i)] ELSE {})

\* The next start is further on,
LEMMA NextFacts ==
  ASSUME NEW code \in Seq(Octet), NEW i \in 0 .. Len(code) - 1
  PROVE  NextStart(code, i) \in Nat /\ i < NextStart(code, i)
<1>1. Len(code) \in i + 1 .. Len(code) /\ i \in Nat
  OBVIOUS
<1>2. Behind(code, i, Len(code)) \in Seq(Octet) /\ KindAt(code, i) \in Kind
  BY <1>1, BehindFacts
<1> DEFINE skip == Skip(KindAt(code, i), Behind(code, i, Len(code)))
<1>3. skip \in Nat
  BY <1>2, SkipFacts
<1> HIDE DEF skip
<1>4. i + 1 + skip \in Nat /\ i < i + 1 + skip
  BY <1>1, <1>3
<1> QED BY <1>4 DEF NextStart, skip

\* so the starts are described by their equation,
LEMMA MaskIs ==
  ASSUME NEW code \in Seq(Octet)
  PROVE  \E s : IsStarts(s, code) /\ BuildMask(code) = s[0]
<1> DEFINE n == Len(code)
           Is(f) == f = [i \in 0 .. n |->
                           IF i = n THEN {}
                           ELSE LET next == i + 1 + Skip(KindOf[code[i + 1]], SubSeq(code, i + 2, n))
                                IN {i} \cup (IF next < n THEN f[next] ELSE {})]
           starts == CHOOSE f : Is(f)
           onward == [i \in 0 .. n - 1 |-> IF NextStart(code, i) < n THEN NextStart(code, i) ELSE n]
           V == SUBSET Nat
           H == [p \in (0 .. n - 1) \X V |-> {p[1]} \cup p[2]]
<1>1. BuildMask(code) = starts[0]
  BY DEF BuildMask
<1>2. n \in Nat
  OBVIOUS
<1>3. /\ onward \in [0 .. n - 1 -> 0 .. n]
      /\ \A i \in 0 .. n - 1 : i < onward[i]
      /\ \A i \in 0 .. n - 1 : onward[i] = IF NextStart(code, i) < n THEN NextStart(code, i) ELSE n
  <2>1. \A i \in 0 .. n - 1 : NextStart(code, i) \in Nat /\ i < NextStart(code, i)
    BY NextFacts
  <2> HIDE DEF n
  <2> QED BY <1>2, <2>1
<1>4. /\ {} \in V /\ H \in [(0 .. n - 1) \X V -> V]
      /\ \A i \in 0 .. n - 1, t \in V : H[<<i, t>>] = {i} \cup t
  <2>1. ASSUME NEW i \in 0 .. n - 1, NEW t \in V PROVE {i} \cup t \in V
    BY <1>2
  <2>2. ASSUME NEW p \in (0 .. n - 1) \X V PROVE {p[1]} \cup p[2] \in V
    <3>1. p[1] \in 0 .. n - 1 /\ p[2] \in V
      OBVIOUS
    <3> HIDE DEF V
    <3> QED BY <2>1, <3>1
  <2>3. {} \in V
    OBVIOUS
  <2> HIDE DEF V, n
  <2> QED BY <2>1, <2>2, <2>3
<1> HIDE DEF n, onward, H, V
<1>5. PICK s \in [0 .. n -> V] : IsRecursion(s, n, {}, H, onward)
  BY <1>2, <1>3, <1>4, RecursionExists
<1>7. ASSUME NEW i \in 0 .. n
      PROVE  s[i] = IF i = n THEN {}
                    ELSE {i} \cup (IF NextStart(code, i) < n THEN s[NextStart(code, i)] ELSE {})
  <2>1. CASE i = n
    BY <1>5, <2>1 DEF IsRecursion
  <2>2. CASE i # n
    <3>1. i \in 0 .. n - 1
      BY <1>2, <2>2
    <3>2. onward[i] \in 0 .. n /\ n \in 0 .. n
      BY <1>2, <1>3, <3>1
    <3>3. s[onward[i]] \in V /\ s[n] = {}
      BY <1>5, <3>2 DEF IsRecursion
    <3>4. s[i] = H[<<i, s[onward[i]]>>]
      BY <1>5, <2>2 DEF IsRecursion
    <3>5. s[i] = {i} \cup s[onward[i]]
      BY <1>4, <3>1, <3>3, <3>4
    <3> QED BY <1>3, <2>2, <3>1, <3>3, <3>5
  <2> QED BY <2>1, <2>2
<1> DEFINE Entry(f, i) ==
             IF i = n THEN {}
             ELSE {i} \cup (IF NextStart(code, i) < n THEN f[NextStart(code, i)] ELSE {})
<1>8. \A f : Is(f) <=> f = [i \in 0 .. n |-> Entry(f, i)]
  <2>1. \A i \in 0 .. n : i + 1 + Skip(KindOf[code[i + 1]], SubSeq(code, i + 2, n)) = NextStart(code, i)
    BY DEF NextStart, KindAt, Behind, n
  <2> QED BY <2>1
<1>9. Is(s)
  <2>1. s = [i \in 0 .. n |-> s[i]]
    BY <1>5
  <2>2. \A i \in 0 .. n : s[i] = Entry(s, i)
    BY <1>7
  <2> HIDE DEF Is, Entry
  <2> QED BY <1>8, <2>1, <2>2
<1>10. starts = [i \in 0 .. n |-> Entry(starts, i)]
  <2> HIDE DEF Is, Entry
  <2> QED BY <1>8, <1>9
<1>11. \A i \in 0 .. n : starts[i] = Entry(starts, i)
  <2> HIDE DEF starts, Entry
  <2> QED BY <1>10
<1>12. IsStarts(starts, code)
  <2> HIDE DEF starts
  <2> QED BY <1>11 DEF IsStarts, n
<1> QED BY <1>1, <1>12

\* Behind a start is the next one, and none is between them.
LEMMA Gaps ==
  ASSUME NEW code \in Seq(Octet), NEW s, IsStarts(s, code)
  PROVE  /\ s[0] \subseteq 0 .. Len(code) - 1
         /\ \A j, k \in s[0] : j < k => NextStart(code, j) \in s[0] /\ NextStart(code, j) <= k
<1> DEFINE n == Len(code)
           T(i) == /\ s[i] \subseteq i .. n - 1
                   /\ \A j, k \in s[i] : j < k => NextStart(code, j) \in s[i] /\ NextStart(code, j) <= k
           bad == {k \in 0 .. n : ~T(n - k)}
<1>1. n \in Nat
  OBVIOUS
<1>2. \A i \in 0 .. n :
        s[i] = IF i = n THEN {}
               ELSE {i} \cup (IF NextStart(code, i) < n THEN s[NextStart(code, i)] ELSE {})
  BY DEF IsStarts
<1>3. \A i \in 0 .. n - 1 : NextStart(code, i) \in Nat /\ i < NextStart(code, i)
  BY NextFacts
<1> HIDE DEF n, T
<1>4. bad = {}
  <2> SUFFICES ASSUME bad # {} PROVE FALSE
    OBVIOUS
  <2>1. PICK k \in bad : \A j \in bad : k <= j
    <3>1. bad \subseteq Nat
      BY <1>1
    <3> HIDE DEF bad
    <3> QED BY <3>1, LeastElement
  <2> DEFINE i == n - k
  <2>2. k \in 0 .. n /\ i \in 0 .. n /\ i \in Nat /\ ~T(i)
    BY <1>1, <2>1
  <2>3. CASE i = n
    <3>1. s[i] = {}
      BY <1>2, <2>2, <2>3
    <3> HIDE DEF i
    <3>2. T(i)
      BY <3>1 DEF T
    <3> QED BY <2>2, <3>2
  <2>4. CASE i # n
    <3> DEFINE next == NextStart(code, i)
    <3>1. i \in 0 .. n - 1
      BY <1>1, <2>2, <2>4
    <3>2. next \in Nat /\ i < next
      BY <1>3, <3>1
    <3>3. s[i] = {i} \cup (IF next < n THEN s[next] ELSE {})
      BY <1>2, <2>2, <2>4
    <3>4. ASSUME next < n PROVE T(next) /\ next \in s[next]
      <4> HIDE DEF next, i
      <4>0. k = n - i
        BY <1>1, <2>2 DEF i
      <4>1. n - next \in 0 .. n /\ n - next < k /\ n - (n - next) = next /\ next \in 0 .. n /\ next # n
        BY <1>1, <2>2, <3>2, <3>4, <4>0
      <4>2. ~(k <= n - next)
        BY <2>2, <4>1
      <4>3. n - next \notin bad
        <5> HIDE DEF bad
        <5> QED BY <2>1, <4>2
      <4> QED BY <1>2, <4>1, <4>3
    <3> DEFINE rest == IF next < n THEN s[next] ELSE {}
    <3>5. /\ rest \subseteq next .. n - 1
          /\ rest # {} => next \in rest
          /\ \A j, l \in rest : j < l => NextStart(code, j) \in rest /\ NextStart(code, j) <= l
      BY <3>4 DEF T
    <3>6. s[i] = {i} \cup rest
      BY <3>3
    <3> HIDE DEF rest, next, i
    <3>7. s[i] \subseteq i .. n - 1
      BY <1>1, <3>1, <3>2, <3>5, <3>6
    <3>8. ASSUME NEW j \in s[i], NEW l \in s[i], j < l
          PROVE  NextStart(code, j) \in s[i] /\ NextStart(code, j) <= l
      <4>1. l \in rest
        <5>1. j \in i .. n - 1
          BY <3>7
        <5>2. l # i
          BY <3>1, <3>8, <5>1
        <5> QED BY <3>6, <5>2
      <4>2. CASE j = i
        BY <3>2, <3>5, <3>6, <4>1, <4>2 DEF next
      <4>3. CASE j # i
        BY <3>5, <3>6, <3>8, <4>1, <4>3
      <4> QED BY <4>2, <4>3
    <3>9. T(i)
      BY <3>7, <3>8 DEF T
    <3> QED BY <2>2, <3>9
  <2> QED BY <2>3, <2>4
<1>5. T(0)
  <2>1. n \in 0 .. n /\ n - n = 0
    BY <1>1
  <2> QED BY <1>4, <2>1
<1> QED BY <1>5 DEF T, n

\* Of the mask: behind a start follows the next one, if there is any.
LEMMA BuildMaskFacts ==
  ASSUME NEW code \in Seq(Octet)
  PROVE  /\ BuildMask(code) \subseteq 0 .. Len(code) - 1
         /\ \A i, j \in BuildMask(code) :
              i < j => NextStart(code, i) \in BuildMask(code) /\ NextStart(code, i) <= j
<1>1. \E s : IsStarts(s, code) /\ BuildMask(code) = s[0]
  BY MaskIs
<1>2. PICK s : IsStarts(s, code) /\ BuildMask(code) = s[0]
  BY <1>1
<1> QED BY <1>2, Gaps

\* An instruction reads no byte that is not its own.
LEMMA WrappedIsApart == ASSUME BytesOK PROVE WrappedApart
<1> DEFINE n == Len(bytes)
           At(b) == [o \in Nat |-> IF o < Len(b) THEN b[o + 1] ELSE beyond]
<1>0. bytes \in Seq(Octet) /\ beyond \in Octet /\ n \in Nat
  BY DEF BytesOK
<1>1. SUFFICES ASSUME NEW i \in BuildMask(bytes), NEW j \in BuildMask(bytes), i < j,
                      \A k \in BuildMask(bytes) : k <= i \/ k >= j,
                      n > i + RequiredBytes(KindAt(bytes, i))
               PROVE  DecodeArguments(KindAt(bytes, i), Behind(bytes, i, n), j - i - 1, beyond, beyond)
                        = DecodeArguments(KindAt(bytes, i), Behind(bytes, i, j), j - i - 1, beyond, beyond)
  BY DEF WrappedApart, KindAt, Behind, n
<1> DEFINE kind == KindAt(bytes, i)
           lim == j - i - 1
           data == Behind(bytes, i, n)
           own == Behind(bytes, i, j)
<1>2. i \in 0 .. n - 1 /\ j \in i + 1 .. n /\ i \in Nat /\ lim \in Nat /\ n - i - 1 \in Nat
  BY <1>0, <1>1, BuildMaskFacts
<1>3. j = NextStart(bytes, i)
  <2> DEFINE next == NextStart(bytes, i)
  <2>1. next \in BuildMask(bytes) /\ next <= j
    BY <1>0, <1>1, BuildMaskFacts
  <2>2. next \in Nat /\ i < next
    BY <1>0, <1>2, NextFacts
  <2>3. next <= i \/ next >= j
    BY <1>1, <2>1
  <2> HIDE DEF next
  <2>4. next = j
    BY <1>2, <2>1, <2>2, <2>3
  <2> QED BY <2>4 DEF next
<1>4. /\ data \in Seq(Octet) /\ Len(data) = n - i - 1 /\ own \in Seq(Octet) /\ Len(own) = lim
      /\ kind \in Kind /\ \A k \in 1 .. n - i - 1 : data[k] = bytes[i + 1 + k]
      /\ \A k \in 1 .. lim : own[k] = bytes[i + 1 + k]
  <2>1. n \in i + 1 .. n
    BY <1>0, <1>2
  <2> QED BY <1>0, <1>2, <2>1, BehindFacts
<1>5. lim = Skip(kind, data)
  <2> DEFINE skip == Skip(kind, data)
  <2>1. j = i + 1 + skip
    BY <1>3 DEF NextStart
  <2>2. skip \in Nat
    BY <1>4, SkipFacts
  <2> HIDE DEF skip
  <2>3. lim = skip
    BY <1>2, <2>1, <2>2
  <2> QED BY <2>3 DEF skip
<1>6. RequiredBytes(kind) \in Nat /\ RequiredBytes(kind) <= Len(data)
  <2> DEFINE required == RequiredBytes(kind)
  <2>1. required \in Nat
    BY <1>4, SkipFacts
  <2>2. n > i + required
    BY <1>1
  <2> HIDE DEF required, n, kind, data
  <2>3. required <= n - i - 1
    BY <1>0, <1>2, <2>1, <2>2
  <2> QED BY <1>4, <2>1, <2>3 DEF required
<1> HIDE DEF n, kind, lim, data, own
<1>7. /\ RequiredBytes(kind) <= lim
      /\ kind = "TwoImm" => Split(LowNibble(data[1])) <= lim
      /\ kind \in {"OneRegTwoImm", "OneRegOneImmOneOff"} => Split(HigNibble(data[1])) <= lim
      /\ kind = "TwoRegTwoImm" => 1 + Split(LowNibble(data[2])) <= lim
  BY <1>4, <1>5, <1>6, SkipFacts
<1>8. lim <= n - i - 1
  BY <1>0, <1>2 DEF lim
<1>9. /\ At(data) \in [Nat -> Nat] /\ At(own) \in [Nat -> Nat]
      /\ \A k \in 0 .. Len(data) - 1 : At(data)[k] = data[k + 1]
      /\ \A k \in 0 .. lim - 1 : At(own)[k] = At(data)[k]
  <2>1. Octet \subseteq Nat
    <3>1. ByteBase \in Nat
      BY WeightFacts
    <3> QED BY <3>1 DEF Octet
  <2>2. ASSUME NEW b \in Seq(Octet) PROVE At(b) \in [Nat -> Nat]
    <3>1. ASSUME NEW o \in Nat PROVE (IF o < Len(b) THEN b[o + 1] ELSE beyond) \in Nat
      <4>1. CASE o < Len(b)
        <5>1. o + 1 \in 1 .. Len(b)
          BY <4>1
        <5>2. b[o + 1] \in Octet
          BY <5>1
        <5> QED BY <2>1, <4>1, <5>2
      <4>2. CASE ~(o < Len(b))
        BY <1>0, <2>1, <4>2
      <4> QED BY <4>1, <4>2
    <3> QED BY <3>1
  <2>3. ASSUME NEW k \in 0 .. Len(data) - 1 PROVE At(data)[k] = data[k + 1]
    <3>1. k \in Nat /\ k < Len(data)
      BY <1>4
    <3> QED BY <3>1
  <2>4. ASSUME NEW k \in 0 .. lim - 1 PROVE At(own)[k] = At(data)[k]
    <3>1. k \in Nat /\ k < Len(own) /\ k \in 0 .. Len(data) - 1 /\ k + 1 \in 1 .. lim /\ k + 1 \in 1 .. n - i - 1
      BY <1>0, <1>2, <1>4, <1>8
    <3>2. own[k + 1] = data[k + 1]
      BY <1>4, <3>1
    <3> QED BY <2>3, <3>1, <3>2
  <2> QED BY <1>4, <2>2, <2>3, <2>4
<1>10. ASSUME NEW b, Len(b) \in Nat, Len(b) >= RequiredBytes(kind)
       PROVE  DecodeArguments(kind, b, lim, beyond, beyond) = Decoder(kind, At(b), 0, lim)
  <2>1. ~(Len(b) < RequiredBytes(kind))
    BY <1>6, <1>10
  <2> QED BY <2>1 DEF DecodeArguments
<1> HIDE DEF At
<1>11. FirstEnd(kind, At(data)) <= lim /\ FirstEnd(kind, At(data)) \in Nat
  <2> DEFINE a == At(data)
  <2>1. \A b \in Nat : Split(LowNibble(b)) \in Nat /\ Split(HigNibble(b)) \in Nat
    BY NibbleFacts
  <2>2. a[0] \in Nat /\ a[1] \in Nat
    BY <1>9
  <2>3. kind # "TwoRegTwoImm" /\ RequiredBytes(kind) >= 1 => a[0] = data[1]
    <3>1. ASSUME RequiredBytes(kind) >= 1 PROVE 0 \in 0 .. Len(data) - 1 /\ 0 + 1 = 1
      BY <1>4, <1>6, <3>1
    <3> QED BY <1>9, <3>1
  <2>4. RequiredBytes(kind) >= 2 => a[1] = data[2]
    <3>1. ASSUME RequiredBytes(kind) >= 2 PROVE 1 \in 0 .. Len(data) - 1 /\ 1 + 1 = 2
      BY <1>4, <1>6, <3>1
    <3> QED BY <1>9, <3>1
  <2> HIDE DEF a
  <2>5. CASE kind = "TwoImm"
    <3>1. FirstEnd(kind, a) = Split(LowNibble(a[0])) /\ RequiredBytes(kind) = 1
      BY <2>5 DEF FirstEnd, RequiredBytes
    <3> QED BY <1>7, <2>1, <2>2, <2>3, <2>5, <3>1 DEF a
  <2>6. CASE kind \in {"OneRegTwoImm", "OneRegOneImmOneOff"}
    <3>1. FirstEnd(kind, a) = Split(HigNibble(a[0])) /\ RequiredBytes(kind) = 1
      BY <2>6 DEF FirstEnd, RequiredBytes
    <3> QED BY <1>7, <2>1, <2>2, <2>3, <2>6, <3>1 DEF a
  <2>7. CASE kind = "TwoRegTwoImm"
    <3>1. FirstEnd(kind, a) = 1 + Split(LowNibble(a[1])) /\ RequiredBytes(kind) = 2
      BY <2>7 DEF FirstEnd, RequiredBytes
    <3>2. 1 + Split(LowNibble(a[1])) \in Nat
      <4>1. Split(LowNibble(a[1])) \in Nat
        BY <2>1, <2>2
      <4> QED BY <4>1
    <3> QED BY <1>7, <2>4, <2>7, <3>1, <3>2 DEF a
  <2>8. CASE kind \notin {"TwoImm", "OneRegTwoImm", "OneRegOneImmOneOff", "TwoRegTwoImm"}
    <3>1. FirstEnd(kind, a) = 0
      BY <2>8 DEF FirstEnd
    <3> QED BY <1>2, <3>1 DEF a, lim
  <2> QED BY <2>5, <2>6, <2>7, <2>8
<1>12. Decoder(kind, At(data), 0, lim) = Decoder(kind, At(own), 0, lim)
  <2> DEFINE f == At(data)  g == At(own)  required == RequiredBytes(kind)  end == FirstEnd(kind, f)
  <2>1. /\ required \in Nat /\ required <= lim /\ end \in Nat /\ end <= lim /\ lim \in Nat
        /\ f \in [Nat -> Nat] /\ g \in [Nat -> Nat] /\ \A k \in 0 .. lim - 1 : g[k] = f[k]
    BY <1>2, <1>6, <1>7, <1>9, <1>11 DEF lim
  <2>2. /\ \A k \in 0 .. required - 1 : k \in 0 .. lim - 1
        /\ \A k \in 0 .. end - 1 : k \in 0 .. lim - 1
    <3> HIDE DEF required, end, f, g
    <3> QED BY <2>1
  <2>3. /\ \A k \in 0 .. RequiredBytes(kind) - 1 : g[k] = f[k]
        /\ \A k \in 0 .. FirstEnd(kind, f) - 1 : g[k] = f[k]
    BY <2>1, <2>2
  <2> HIDE DEF f, g
  <2>4. Decoder(kind, f, 0, lim) = Decoder(kind, g, 0, lim)
    BY <1>4, <2>1, <2>3, DecoderSame
  <2> QED BY <2>4 DEF f, g
<1>13. Len(data) \in Nat /\ Len(data) >= RequiredBytes(kind) /\ Len(own) \in Nat /\ Len(own) >= RequiredBytes(kind)
  BY <1>4, <1>6, <1>7
<1>14. DecodeArguments(kind, data, lim, beyond, beyond) = DecodeArguments(kind, own, lim, beyond, beyond)
  BY <1>10, <1>12, <1>13
<1> QED BY <1>14 DEF kind, data, own, lim, n

\* In wrapped code of any length, over bytes and opcodes of any kind, every
\* instruction that has the bytes it requires and is followed by another one is
\* decoded as if it stood alone (program-build.ts:35-108).
THEOREM WrappedApartTheorem == Spec => []WrappedApart
BY BytesInvariant, WrappedIsApart, PTL

-----------------------------------------------------------------------------
(* What is read of what is written.                                        *)

\* A u32 is even many, and has a length in its first byte.
LEMMA NumberBaseFacts ==
  /\ NumberBase \in Nat \ {0} /\ NumberBase >= 4
  /\ NumberBase <= 2 ^ ((BITS - 1) * BITS) /\ 2 ^ ((BITS - 1) * BITS) \in Nat
  /\ NumberBase \div 2 \in Nat /\ 2 * (NumberBase \div 2) = NumberBase
<1> DEFINE half == BITS \div 2
<1>1. BITS \in Nat /\ BITS >= 2 /\ half \in Nat /\ 2 * half = BITS
  BY WeightFacts
<1> HIDE DEF half
<1>2. half <= BITS - 1 /\ 1 <= half /\ BITS - 1 \in Nat
  BY <1>1
<1>3. BITS * half <= BITS * (BITS - 1) /\ BITS * (BITS - 1) = (BITS - 1) * BITS /\ BITS * half \in Nat
      /\ (BITS - 1) * BITS \in Nat /\ BITS * 1 <= BITS * half
  BY <1>1, <1>2, TimesMonotone
<1>4. 2 ^ (BITS * half) <= 2 ^ ((BITS - 1) * BITS) /\ 2 ^ (BITS * half) \in Nat \ {0}
      /\ 2 ^ ((BITS - 1) * BITS) \in Nat
  BY <1>3, PowerMonotone, PowerFacts
<1>5. 2 ^ 2 <= 2 ^ (BITS * half)
  <2>1. 2 <= BITS * half
    BY <1>1, <1>3
  <2> QED BY <1>3, <2>1, PowerMonotone
<1>6. NumberBase = 2 ^ (BITS * half) /\ 2 ^ 2 = 4
  BY DEF NumberBase, Weight, half
<1>7. NumberBase \div 2 \in Nat /\ 2 * (NumberBase \div 2) = NumberBase
  <2> DEFINE e == BITS * half - 1  p == 2 ^ e  b == NumberBase
  <2>1. e \in Nat /\ e + 1 = BITS * half
    BY <1>1, <1>3
  <2> HIDE DEF e
  <2>2. p \in Nat /\ 2 ^ (e + 1) = p * 2
    BY <2>1, PowerFacts, PowerDoubles
  <2>3. b = p * 2 /\ b \in Nat
    BY <1>4, <1>6, <2>1, <2>2
  <2> HIDE DEF p, b
  <2>4. b = 2 * p + 0 /\ b \in Int /\ p \in Int /\ 0 \in 0 .. 2 - 1 /\ 2 \in Nat \ {0}
    BY <2>2, <2>3
  <2>5. b \div 2 = p
    BY <2>4, DivModUnique
  <2>6. b \div 2 \in Nat /\ 2 * (b \div 2) = b
    BY <2>2, <2>3, <2>5
  <2> QED BY <2>6 DEF b
<1> QED BY <1>4, <1>5, <1>6, <1>7

\* What a u32 is written as: l bytes behind a byte that says so.
Written(v, l, code) == \E top \in Nat : IsEncoded(v, l, top, code)

\* Each u32 is written.
LEMMA WrittenFacts ==
  ASSUME NEW v \in Nat, v < NumberBase
  PROVE  \E l \in Nat : /\ Written(v, l, EncodeVarU32(v))
                        /\ EncodeVarU32(v) \in Seq(Nat) /\ Len(EncodeVarU32(v)) = l + 1
<1>1. v < 2 ^ ((BITS - 1) * BITS)
  BY NumberBaseFacts
<1> DEFINE code == EncodeVarU32(v)
<1>2. \E l \in Nat, top \in Nat : IsEncoded(v, l, top, code)
  BY <1>1, EncodedAny
<1> HIDE DEF code
<1>3. PICK l \in Nat, top \in Nat : IsEncoded(v, l, top, code)
  BY <1>2
<1> DEFINE tail == Bytes(v % Weight(l), l)  head == LengthMask(l) + top
<1>4. code = <<head>> \o tail
  BY <1>3 DEF IsEncoded
<1>5. tail \in Seq(Nat) /\ Len(tail) = l
  <2>1. v % Weight(l) \in Nat
    BY WeightFacts
  <2> QED BY <2>1, BytesFacts
<1>6. head \in Nat
  <2>1. l \in 0 .. BITS
    <3>1. l \in 0 .. BITS - 1 /\ BITS \in Nat
      BY <1>3, WeightFacts DEF IsEncoded
    <3> QED BY <3>1
  <2>2. LengthMask(l) \in Nat
    BY <2>1, Masks
  <2> QED BY <2>2
<1> HIDE DEF tail, head
<1>7. code \in Seq(Nat) /\ Len(code) = l + 1
  BY <1>4, <1>5, <1>6
<1> QED BY <1>3, <1>7 DEF Written, code

\* The first byte alone says how long a number is.
LEMMA FirstByte ==
  ASSUME NEW v \in Nat, NEW l \in Nat, NEW code, Written(v, l, code)
  PROVE  VariableLength(code[1]) = l
<1>1. PICK top \in Nat : IsEncoded(v, l, top, code)
  BY DEF Written
<1> DEFINE p == 2 ^ (BITS - 1 - l)  mask == LengthMask(l)  first == mask + top
           tail == Bytes(v % Weight(l), l)
<1>2. l \in 0 .. BITS /\ l # BITS /\ l < BITS
  <2>1. l \in 0 .. BITS - 1 /\ BITS \in Nat
    BY <1>1, WeightFacts DEF IsEncoded
  <2> QED BY <2>1
<1>3. mask \in Nat /\ LengthMask(l + 1) = mask + p /\ p \in Nat /\ top < p
  BY <1>1, <1>2, Masks DEF IsEncoded
<1>4. code = <<first>> \o tail
  BY <1>1 DEF IsEncoded
<1>5. tail \in Seq(Nat)
  <2>1. v % Weight(l) \in Nat
    BY WeightFacts
  <2> QED BY <2>1, BytesFacts
<1> HIDE DEF p, tail
<1>6. first \in Nat /\ LengthMask(l) <= first /\ first < LengthMask(l + 1)
  <2>1. LengthMask(l) = mask
    OBVIOUS
  <2> HIDE DEF mask
  <2> QED BY <1>3, <2>1
<1> HIDE DEF first, mask
<1>7. VariableLength(first) = l
  BY <1>2, <1>6, VariableLengthIs
<1>8. (<<first>> \o tail)[1] = first
  BY <1>5, <1>6
<1> QED BY <1>4, <1>7, <1>8

\* The reader of a number, from behind the first o bytes of a source that goes
\* on with it or ends within it: it gets the number, or it stops behind the end.
LEMMA VarU32At ==
  ASSUME NEW source \in Seq(Nat), NEW o \in Nat, o + 1 < NumberBase, NEW behind,
         NEW v \in Nat, v < NumberBase, NEW l \in Nat, NEW code, Written(v, l, code),
         \A i \in 1 .. l + 1 : o + i <= Len(source) => source[o + i] = code[i]
  PROVE  /\ o + l + 1 <= Len(source) => VarU32(source, o, behind) = Read(v, o + l + 1)
         /\ o + l + 1 > Len(source) =>
              \/ ~VarU32(source, o, behind).ok
              \/ VarU32(source, o, behind).offset = o + l + 1
<1> DEFINE n == Len(source)  data == SubSeq(source, o + 1, n)  d == DecodeVarU32(data, behind)
<1>0. n \in Nat /\ NumberBase \in Nat \ {0}
  BY NumberBaseFacts
<1>1. Enough(source, o, 1) <=> o + 1 <= n
  <2>1. (o + 1) % NumberBase = o + 1
    <3> DEFINE a == o + 1
    <3>1. a \in 0 .. NumberBase - 1
      BY <1>0
    <3> HIDE DEF a
    <3> QED BY <1>0, <3>1, ModSmall DEF a
  <2> QED BY <2>1 DEF Enough
<1>2. VarU32(source, o, behind) = IF ~(o + 1 <= n) THEN Thrown
                                  ELSE IF d.ok THEN Read(d.value, o + d.offset) ELSE Thrown
  BY <1>1 DEF VarU32
<1>3. CASE ~(o + 1 <= n)
  <2>1. ~VarU32(source, o, behind).ok
    BY <1>2, <1>3 DEF Thrown
  <2>2. ~(o + l + 1 <= n)
    BY <1>0, <1>3
  <2> QED BY <2>1, <2>2
<1>4. CASE o + 1 <= n
  <2>1. data \in Seq(Nat) /\ Len(data) = n - o /\ \A i \in 1 .. n - o : data[i] = source[o + i]
    <3> DEFINE len == n - o
    <3>1. len \in Nat /\ n - (o + 1) + 1 = len
      BY <1>0, <1>4
    <3>2. data = [i \in 1 .. len |-> source[i + (o + 1) - 1]]
      BY <3>1
    <3>3. \A i \in 1 .. len : source[i + (o + 1) - 1] = source[o + i] /\ source[o + i] \in Nat
      <4>1. ASSUME NEW i \in 1 .. len PROVE i + (o + 1) - 1 = o + i /\ o + i \in 1 .. n
        BY <1>0
      <4> QED BY <4>1
    <3> HIDE DEF data, len
    <3>4. data \in [1 .. len -> Nat] /\ \A i \in 1 .. len : data[i] = source[o + i]
      BY <3>2, <3>3
    <3>5. data \in Seq(Nat) /\ Len(data) = len
      BY <3>1, <3>4
    <3> QED BY <3>4, <3>5 DEF len
  <2>2. VarU32(source, o, behind) = IF d.ok THEN Read(d.value, o + d.offset) ELSE Thrown
    BY <1>2, <1>4
  <2>3. \A i \in 1 .. l + 1 : i <= n - o => data[i] = code[i]
    <3>1. ASSUME NEW i \in 1 .. l + 1, i <= n - o PROVE i \in 1 .. n - o /\ o + i <= Len(source)
      BY <1>0, <3>1
    <3> QED BY <2>1, <3>1
  <2> HIDE DEF data
  <2>4. ASSUME o + l + 1 <= n PROVE VarU32(source, o, behind) = Read(v, o + l + 1)
    <3>1. PICK top \in Nat : IsEncoded(v, l, top, code)
      BY DEF Written
    <3>2. Len(data) >= l + 1 /\ \A i \in 1 .. l + 1 : data[i] = code[i]
      <4>1. l + 1 <= n - o
        BY <1>0, <2>4
      <4>2. \A i \in 1 .. l + 1 : i <= n - o
        BY <1>0, <4>1
      <4> HIDE DEF n
      <4>3. Len(data) >= l + 1
        BY <1>0, <2>1, <4>1
      <4> QED BY <2>3, <4>2, <4>3
    <3>3. d = Read(v, 1 + l)
      <4> DEFINE S == Nat
      <4>1. data \in Seq(S) /\ top \in Nat
        BY <2>1, <3>1
      <4> HIDE DEF S
      <4>2. DecodeVarU32(data, behind) = Read(v, 1 + l)
        BY <3>1, <3>2, <4>1, Decoded
      <4> QED BY <4>2
    <3>4. d.ok /\ d.value = v /\ d.offset = 1 + l
      BY <3>3 DEF Read
    <3>5. o + (1 + l) = o + l + 1
      OBVIOUS
    <3> QED BY <2>2, <3>4, <3>5
  <2>5. ASSUME o + l + 1 > n
        PROVE  ~VarU32(source, o, behind).ok \/ VarU32(source, o, behind).offset = o + l + 1
    <3>1. 1 \in 1 .. l + 1 /\ 1 <= n - o /\ l # 0
      BY <1>0, <1>4, <2>5
    <3>2. data[1] = code[1]
      BY <2>3, <3>1
    <3>3. VariableLength(data[1]) = l
      BY <3>2, FirstByte
    <3>4. d = Thrown \/ \E u : d = Read(u, 1 + l)
      BY <3>1, <3>3 DEF DecodeVarU32
    <3>5. CASE d = Thrown
      BY <2>2, <3>5 DEF Thrown
    <3>6. CASE \E u : d = Read(u, 1 + l)
      <4>1. d.ok /\ d.offset = 1 + l
        BY <3>6 DEF Read
      <4>2. VarU32(source, o, behind).offset = o + (1 + l)
        BY <2>2, <4>1 DEF Read
      <4>3. o + (1 + l) = o + l + 1
        OBVIOUS
      <4> QED BY <4>2, <4>3
    <3> QED BY <3>4, <3>5, <3>6
  <2>6. o + l + 1 <= n \/ o + l + 1 > n
    BY <1>0
  <2> QED BY <2>4, <2>5
<1> QED BY <1>0, <1>3, <1>4

\* A byte of a packed mask has the bits of the positions it stands for.
LEMMA PackedByte ==
  ASSUME NEW starts, NEW n \in Nat, NEW q \in Nat, q + 1 \in 1 .. (n + BITS - 1) \div BITS
  PROVE  /\ PackMask(starts, n)[q + 1] \in Nat
         /\ \A r \in 0 .. BITS - 1 :
              (PackMask(starts, n)[q + 1] \div 2 ^ r) % 2 = IF BITS * q + r \in starts THEN 1 ELSE 0
<1> DEFINE b == [i \in 0 .. BITS - 1 |-> IF BITS * q + i \in starts THEN 1 ELSE 0]
           Body(g) == [i \in 0 .. BITS |->
                         IF i = BITS THEN 0
                         ELSE (IF BITS * q + i \in starts THEN 2 ^ i ELSE 0) + g[i + 1]]
           sum == CHOOSE g : g = Body(g)
<1>0. BITS \in Nat /\ BITS >= 2
  BY WeightFacts
<1>1. PackMask(starts, n)[q + 1] = sum[0]
  <2>1. (q + 1) - 1 = q
    OBVIOUS
  <2> QED BY <2>1 DEF PackMask
<1>2. b \in [0 .. BITS - 1 -> {0, 1}]
      /\ \A i \in 0 .. BITS - 1 : b[i] = IF BITS * q + i \in starts THEN 1 ELSE 0
  OBVIOUS
<1> HIDE DEF b
<1>3. ASSUME NEW i \in 0 .. BITS, i # BITS
      PROVE  i \in 0 .. BITS - 1 /\ (IF BITS * q + i \in starts THEN 2 ^ i ELSE 0) = b[i] * 2 ^ i
  <2>1. i \in 0 .. BITS - 1
    BY <1>0, <1>3
  <2> DEFINE p == 2 ^ i
  <2>2. p \in Nat
    BY <2>1, PowerFacts
  <2> HIDE DEF p
  <2>3. 1 * p = p /\ 0 * p = 0
    BY <2>2
  <2> QED BY <1>2, <2>1, <2>3 DEF p
<1>4. \A g : g = Body(g) => IsBitSum(g, BITS, b)
  <2>1. ASSUME NEW g, g = Body(g), NEW i \in 0 .. BITS
        PROVE  g[i] = IF i = BITS THEN 0 ELSE b[i] * 2 ^ i + g[i + 1]
    <3>1. g[i] = IF i = BITS THEN 0
                 ELSE (IF BITS * q + i \in starts THEN 2 ^ i ELSE 0) + g[i + 1]
      BY <2>1
    <3> QED BY <1>3, <3>1
  <2> HIDE DEF Body
  <2> QED BY <2>1 DEF IsBitSum
<1>5. \E g : g = Body(g)
  <2>1. \E g \in [0 .. BITS -> Nat] : IsBitSum(g, BITS, b)
    BY <1>0, <1>2, BitSumExists
  <2>2. PICK g \in [0 .. BITS -> Nat] : IsBitSum(g, BITS, b)
    BY <2>1
  <2>3. ASSUME NEW i \in 0 .. BITS
        PROVE  g[i] = IF i = BITS THEN 0
                      ELSE (IF BITS * q + i \in starts THEN 2 ^ i ELSE 0) + g[i + 1]
    BY <1>3, <2>2 DEF IsBitSum
  <2>4. g = Body(g)
    BY <2>3
  <2> HIDE DEF Body
  <2> QED BY <2>4
<1>6. IsBitSum(sum, BITS, b)
  <2> HIDE DEF Body
  <2> QED BY <1>4, <1>5
<1> HIDE DEF sum
<1>7. sum[0] \in 0 .. 2 ^ BITS - 1 /\ \A r \in 0 .. BITS - 1 : (sum[0] \div 2 ^ r) % 2 = b[r]
  BY <1>0, <1>2, <1>6, BitSum
<1>8. sum[0] \in Nat
  <2>1. 2 ^ BITS \in Nat
    BY <1>0, PowerFacts
  <2> QED BY <1>7, <2>1
<1> QED BY <1>1, <1>2, <1>7, <1>8

\* What is packed is found again.
LEMMA Packed ==
  ASSUME NEW n \in Nat, NEW starts, starts \subseteq 0 .. n - 1
  PROVE  /\ (n + BITS - 1) \div BITS \in Nat
         /\ PackMask(starts, n) \in Seq(Nat)
         /\ Len(PackMask(starts, n)) = (n + BITS - 1) \div BITS
         /\ UnpackMask(PackMask(starts, n), n) = starts
<1> DEFINE packed == PackMask(starts, n)  bits == BITS  len == (n + bits - 1) \div bits
<1>0. bits \in Nat \ {0} /\ bits >= 2
  BY WeightFacts
<1>1. len \in Nat /\ n <= bits * len
  <2> DEFINE a == n + bits - 1
  <2>1. a \in Nat
    BY <1>0
  <2> HIDE DEF a, bits
  <2>2. a \div bits \in Nat /\ a \in Int
    BY <1>0, <2>1, QuotientNat
  <2>3. a % bits \in 0 .. bits - 1 /\ a = bits * (a \div bits) + (a % bits)
    BY <1>0, <2>2, DivMod
  <2> DEFINE q == a \div bits  r == a % bits  t == bits * q
  <2>4. a = t + r /\ r \in 0 .. bits - 1 /\ t \in Nat /\ a = n + bits - 1
    BY <1>0, <2>2, <2>3 DEF a
  <2> HIDE DEF q, r, t
  <2>5. n <= t
    BY <1>0, <2>4
  <2> QED BY <2>2, <2>5 DEF a, q, t
<1>2. ASSUME NEW i \in 0 .. n - 1
      PROVE  /\ i \div bits \in Nat /\ i \div bits + 1 \in 1 .. len /\ i % bits \in 0 .. bits - 1
             /\ bits * (i \div bits) + (i % bits) = i
  <2> HIDE DEF bits, len
  <2>1. i \in Nat /\ i \in Int /\ i < n
    OBVIOUS
  <2>2. i \div bits \in Nat
    BY <1>0, <2>1, QuotientNat
  <2>3. i % bits \in 0 .. bits - 1 /\ i = bits * (i \div bits) + (i % bits)
    BY <1>0, <2>1, DivMod
  <2> DEFINE q == i \div bits  r == i % bits
  <2>4. q \in Nat /\ r \in Nat /\ i = bits * q + r
    BY <1>0, <2>2, <2>3
  <2> HIDE DEF q, r
  <2>5. q < len
    <3>1. CASE len <= q
      <4>1. bits * len <= bits * q
        BY <1>0, <1>1, <2>4, <3>1, TimesMonotone
      <4>2. bits * len \in Nat /\ bits * q \in Nat
        BY <1>0, <1>1, <2>4
      <4> DEFINE s == bits * len  t == bits * q
      <4>3. s <= t /\ s \in Nat /\ t \in Nat /\ i = t + r /\ n <= s
        BY <1>1, <2>4, <4>1, <4>2
      <4> HIDE DEF s, t
      <4> QED BY <2>1, <2>4, <4>3
    <3> QED BY <1>1, <2>4, <3>1
  <2>6. q + 1 \in 1 .. len
    BY <1>1, <2>4, <2>5
  <2> QED BY <2>2, <2>3, <2>6 DEF q
<1>3. packed \in Seq(Nat) /\ Len(packed) = len
  <2>1. ASSUME NEW k \in 1 .. len PROVE packed[k] \in Nat
    <3> DEFINE q == k - 1
    <3>1. q \in Nat /\ k = q + 1
      BY <1>1
    <3> HIDE DEF q
    <3>2. q + 1 \in 1 .. (n + BITS - 1) \div BITS
      BY <3>1
    <3> QED BY <3>1, <3>2, PackedByte
  <2>2. packed = [k \in 1 .. len |-> packed[k]]
    BY DEF PackMask
  <2> HIDE DEF packed, len
  <2>3. packed \in [1 .. len -> Nat]
    BY <2>1, <2>2
  <2> QED BY <1>1, <2>3
<1>4. ASSUME NEW i \in 0 .. n - 1
      PROVE  (packed[i \div BITS + 1] \div 2 ^ (i % BITS)) % 2 = 1 <=> i \in starts
  <2> DEFINE q == i \div bits  r == i % bits
  <2>1. q \in Nat /\ q + 1 \in 1 .. len /\ r \in 0 .. bits - 1 /\ bits * q + r = i
    BY <1>2
  <2> HIDE DEF q, r
  <2>2. (packed[q + 1] \div 2 ^ r) % 2 = IF BITS * q + r \in starts THEN 1 ELSE 0
    BY <2>1, PackedByte
  <2>3. (packed[q + 1] \div 2 ^ r) % 2 = IF i \in starts THEN 1 ELSE 0
    BY <2>1, <2>2
  <2> QED BY <2>3 DEF q, r
<1>5. UnpackMask(packed, n) = starts
  <2> HIDE DEF packed
  <2>1. UnpackMask(packed, n) = {i \in 0 .. n - 1 : i \in starts}
    BY <1>4 DEF UnpackMask
  <2> QED BY <2>1
<1> QED BY <1>1, <1>3, <1>5

\* What is asked of an array that is short enough for the sum to be exact.
LEMMA TakeAt ==
  ASSUME NEW source \in Seq(Nat), NEW o \in Nat, NEW len \in Nat, o + len < NumberBase, 2 * len < NumberBase
  PROVE  /\ Enough(source, o, len) <=> o + len <= Len(source)
         /\ TakeBytes(source, o, len) =
              IF o + len <= Len(source) THEN Read(SubSeq(source, o + 1, o + len), o + len) ELSE Thrown
<1> DEFINE sum == o + len
<1>1. Enough(source, o, len) <=> sum <= Len(source)
  <2>1. sum \in 0 .. NumberBase - 1 /\ NumberBase \in Nat \ {0}
    BY NumberBaseFacts
  <2> HIDE DEF sum
  <2>2. sum % NumberBase = sum
    BY <2>1, ModSmall
  <2> QED BY <2>2 DEF Enough, sum
<1>2. len < NumberBase \div 2
  <2> DEFINE h == NumberBase \div 2
  <2>1. h \in Nat /\ 2 * h = NumberBase
    BY NumberBaseFacts
  <2> HIDE DEF h
  <2>2. len < h
    BY <2>1
  <2> QED BY <2>2 DEF h
<1>3. TakeBytes(source, o, len) =
        IF Enough(source, o, len) THEN Read(SubSeq(source, o + 1, o + len), o + len) ELSE Thrown
  BY <1>2 DEF TakeBytes
<1> QED BY <1>1, <1>3

\* Likewise of a byte.
LEMMA U8At ==
  ASSUME NEW source \in Seq(Nat), NEW o \in Nat, o + 1 < NumberBase
  PROVE  U8(source, o) = IF o + 1 <= Len(source) THEN Read(source[o + 1], o + 1) ELSE Thrown
<1>1. 2 * 1 < NumberBase
  BY NumberBaseFacts
<1>2. Enough(source, o, 1) <=> o + 1 <= Len(source)
  BY <1>1, TakeAt
<1> QED BY <1>2 DEF U8

\* A source that starts as a blob does, whose jump table has k bytes.
Starts3(source, items, itemLength, length, l, r) ==
  /\ \A i \in 1 .. l + 1 : i <= Len(source) => source[i] = EncodeVarU32(items)[i]
  /\ l + 2 <= Len(source) => source[l + 2] = itemLength
  /\ \A i \in 1 .. r + 1 : l + 2 + i <= Len(source) => source[l + 2 + i] = EncodeVarU32(length)[i]

\* All sections from o on, if nothing is cut off them, or no program.
SectionsGive(source, behind, k, length, b, o) ==
  /\ o + k + length + b <= Len(source) =>
       LET read == Sections(source, behind)
       IN /\ read.ok
          /\ read.jumps = SubSeq(source, o + 1, o + k)
          /\ read.code = SubSeq(source, o + k + 1, o + k + length)
          /\ read.mask = SubSeq(source, o + k + length + 1, o + k + length + b)
  /\ o + k + length + b > Len(source) => ~Sections(source, behind).ok

\* The readers, one after another, find all sections or one of them throws.
LEMMA SectionsAre ==
  ASSUME NEW source \in Seq(Nat), NEW behind, NEW items \in Nat, NEW itemLength \in Nat,
         NEW length \in Nat, NEW k \in Nat, NEW l \in Nat, NEW r \in Nat, NEW b \in Nat, NEW o \in Nat,
         Starts3(source, items, itemLength, length, l, r),
         items < NumberBase, length < NumberBase, k = items * itemLength,
         Written(items, l, EncodeVarU32(items)), Written(length, r, EncodeVarU32(length)),
         b = (length + BITS - 1) \div BITS, o = l + r + 3, 2 * (o + k + length + b) < NumberBase
  PROVE  SectionsGive(source, behind, k, length, b, o)
<1> DEFINE n == Len(source)
           r1 == VarU32(source, 0, behind)
           r2 == IF r1.ok THEN U8(source, r1.offset) ELSE Thrown
           r3 == IF r2.ok THEN VarU32(source, r2.offset, behind) ELSE Thrown
           r4 == IF r3.ok THEN TakeBytes(source, r3.offset, (r1.value * r2.value) % NumberBase) ELSE Thrown
           r5 == IF r4.ok THEN TakeBytes(source, r4.offset, r3.value) ELSE Thrown
           r6 == IF r5.ok THEN TakeBytes(source, r5.offset, (r3.value + BITS - 1) \div BITS) ELSE Thrown
<1>1. Sections(source, behind) = [ok |-> r6.ok, itemLength |-> r2.value, jumps |-> r4.value,
                                  code |-> r5.value, mask |-> r6.value]
  BY DEF Sections, Then
<1>2. n \in Nat /\ NumberBase \in Nat \ {0} /\ ~Thrown.ok
  BY NumberBaseFacts DEF Thrown
<1>3. \A v, e : Read(v, e).ok /\ Read(v, e).value = v /\ Read(v, e).offset = e
  BY DEF Read
<1> HIDE DEF n
<1>0. o \in Nat /\ k \in Nat /\ length \in Nat /\ b \in Nat /\ n \in Nat /\ l \in Nat /\ r \in Nat /\ o = l + r + 3
      /\ 2 * (o + k + length + b) < NumberBase /\ NumberBase \in Nat
  BY <1>2
<1>20. /\ l + 1 \in Nat /\ l + 1 + 1 < NumberBase /\ l + 1 + 1 = l + 2
       /\ l + 2 \in Nat /\ l + 2 + 1 < NumberBase /\ l + 2 + r + 1 = o
       /\ o + k \in Nat /\ o + k + length \in Nat
       /\ o + k <= o + k + length + b /\ o + k + length <= o + k + length + b
       /\ o <= n => l + 2 <= n
       /\ o + k <= n => o <= n
       /\ o + k + length <= n => o + k <= n /\ o <= n
       /\ o + k + length + b <= n => o + k + length <= n /\ o + k <= n
       /\ o + k + length + b > n => ~(o + k + length + b <= n)
  BY ONLY <1>0
<1>4. /\ l + 1 <= n => r1 = Read(items, l + 1)
      /\ l + 1 > n => ~r1.ok \/ r1.offset = l + 1
  <2> DEFINE at == 0
  <2>1. at \in Nat /\ at + 1 < NumberBase /\ at + l + 1 = l + 1
    BY NumberBaseFacts
  <2>2. \A i \in 1 .. l + 1 : at + i <= Len(source) => source[at + i] = EncodeVarU32(items)[i]
    BY DEF Starts3
  <2> HIDE DEF at
  <2>3. /\ at + l + 1 <= Len(source) => VarU32(source, at, behind) = Read(items, at + l + 1)
        /\ at + l + 1 > Len(source) =>
              ~VarU32(source, at, behind).ok \/ VarU32(source, at, behind).offset = at + l + 1
    BY <2>1, <2>2, VarU32At
  <2>4. /\ l + 1 <= n => VarU32(source, at, behind) = Read(items, l + 1)
        /\ l + 1 > n => ~VarU32(source, at, behind).ok \/ VarU32(source, at, behind).offset = l + 1
    BY <2>1, <2>3 DEF n
  <2> QED BY <2>4 DEF at
<1>5. U8(source, l + 1) = IF l + 2 <= n THEN Read(itemLength, l + 2) ELSE Thrown
  <2>1. l + 1 \in Nat /\ l + 1 + 1 < NumberBase /\ l + 1 + 1 = l + 2
    BY <1>20
  <2>2. U8(source, l + 1) = IF l + 1 + 1 <= n THEN Read(source[l + 1 + 1], l + 1 + 1) ELSE Thrown
    BY <2>1, U8At DEF n
  <2> QED BY <2>1, <2>2 DEF Starts3, n
<1>6. /\ o <= n => VarU32(source, l + 2, behind) = Read(length, o)
      /\ o > n => ~VarU32(source, l + 2, behind).ok \/ VarU32(source, l + 2, behind).offset = o
  <2>1. l + 2 \in Nat /\ l + 2 + 1 < NumberBase /\ l + 2 + r + 1 = o
    BY <1>20
  <2>2. \A i \in 1 .. r + 1 : l + 2 + i <= Len(source) => source[l + 2 + i] = EncodeVarU32(length)[i]
    BY DEF Starts3
  <2> DEFINE at == l + 2
  <2>4. at \in Nat /\ at + 1 < NumberBase /\ at + r + 1 = o
    BY <2>1
  <2>5. \A i \in 1 .. r + 1 : at + i <= Len(source) => source[at + i] = EncodeVarU32(length)[i]
    BY <2>2
  <2> HIDE DEF at
  <2>6. /\ at + r + 1 <= Len(source) => VarU32(source, at, behind) = Read(length, at + r + 1)
        /\ at + r + 1 > Len(source) =>
              ~VarU32(source, at, behind).ok \/ VarU32(source, at, behind).offset = at + r + 1
    BY <2>4, <2>5, VarU32At
  <2>3. /\ l + 2 + r + 1 <= Len(source) => VarU32(source, l + 2, behind) = Read(length, l + 2 + r + 1)
        /\ l + 2 + r + 1 > Len(source) =>
              \/ ~VarU32(source, l + 2, behind).ok
              \/ VarU32(source, l + 2, behind).offset = l + 2 + r + 1
    BY <2>6 DEF at
  <2> QED BY <2>1, <2>3 DEF n
<1>7. ASSUME NEW e \in Nat, NEW len \in Nat, e + len <= o + k + length + b
      PROVE  TakeBytes(source, e, len) =
               IF e + len <= n THEN Read(SubSeq(source, e + 1, e + len), e + len) ELSE Thrown
  <2>1. e + len < NumberBase /\ 2 * len < NumberBase
    BY <1>2, <1>7
  <2> QED BY <2>1, TakeAt DEF n
<1>8. (items * itemLength) % NumberBase = k
  <2>1. k \in 0 .. NumberBase - 1
    BY <1>2
  <2> QED BY <1>2, <2>1, ModSmall
<1>9. l + 2 <= n => r1 = Read(items, l + 1) /\ r2 = Read(itemLength, l + 2)
  <2>1. l + 2 <= n => l + 1 <= n
    BY <1>2
  <2> QED BY <1>3, <1>4, <1>5, <2>1
<1>10. ~(l + 2 <= n) => ~r2.ok
  <2>1. r1.ok => r1.offset = l + 1
    BY <1>2, <1>3, <1>4
  <2> QED BY <1>2, <1>5, <2>1
<1> HIDE DEF r1, r2
<1>11. o <= n => r3 = Read(length, o)
  <2>1. o <= n => l + 2 <= n
    BY <1>20
  <2> QED BY <1>3, <1>6, <1>9, <2>1
<1>12. r3.ok => l + 2 <= n /\ r3.offset = o
  <2>1. ~(l + 2 <= n) => ~r3.ok
    BY <1>2, <1>10
  <2>2. l + 2 <= n => r3 = VarU32(source, l + 2, behind)
    BY <1>3, <1>9
  <2>3. VarU32(source, l + 2, behind).ok => VarU32(source, l + 2, behind).offset = o
    BY <1>2, <1>3, <1>6
  <2> HIDE DEF r3
  <2> QED BY <2>1, <2>2, <2>3
<1> HIDE DEF r3
<1>13. /\ o + k <= n => r4 = Read(SubSeq(source, o + 1, o + k), o + k)
       /\ ~(o + k <= n) => ~r4.ok
  <2>1. o + k <= o + k + length + b
    BY <1>20
  <2>2. TakeBytes(source, o, k) =
          IF o + k <= n THEN Read(SubSeq(source, o + 1, o + k), o + k) ELSE Thrown
    BY <1>7, <2>1
  <2>3. r3.ok => r4 = TakeBytes(source, o, k)
    <3>1. ASSUME r3.ok PROVE r1.value = items /\ r2.value = itemLength
      BY <1>3, <1>9, <1>12, <3>1
    <3> QED BY <1>8, <1>12, <3>1
  <2>4. o + k <= n => o <= n
    BY <1>20
  <2>5. o + k <= n => r3.ok
    BY <1>3, <1>11, <2>4
  <2>6. ~r3.ok => ~r4.ok
    BY <1>2
  <2> HIDE DEF r4
  <2> QED BY <1>2, <2>2, <2>3, <2>5, <2>6
<1> HIDE DEF r4
<1>14. /\ o + k + length <= n => r5 = Read(SubSeq(source, o + k + 1, o + k + length), o + k + length)
       /\ ~(o + k + length <= n) => ~r5.ok
  <2>1. o + k + length <= o + k + length + b /\ o + k \in Nat
    BY <1>20
  <2>2. TakeBytes(source, o + k, length) =
          IF o + k + length <= n THEN Read(SubSeq(source, o + k + 1, o + k + length), o + k + length) ELSE Thrown
    BY <1>7, <2>1
  <2>3. o + k + length <= n => o + k <= n
    BY <1>20
  <2>4. o + k <= n => r4.ok /\ r4.offset = o + k /\ r3.value = length
    <3>1. o + k <= n => o <= n
      BY <1>20
    <3> QED BY <1>3, <1>11, <1>13, <3>1
  <2>5. r4.ok => o + k <= n
    BY <1>13
  <2>6. r4.ok => r5 = TakeBytes(source, o + k, length)
    BY <2>4, <2>5
  <2>7. ~r4.ok => ~r5.ok
    BY <1>2
  <2> HIDE DEF r5
  <2> QED BY <1>2, <2>2, <2>3, <2>4, <2>6, <2>7
<1> HIDE DEF r5
<1> DEFINE end == o + k + length + b
<1>15. /\ end <= n => r6 = Read(SubSeq(source, o + k + length + 1, end), end)
       /\ ~(end <= n) => ~r6.ok
  <2>0. end \in Nat
    BY <1>20
  <2>1. end <= o + k + length + b /\ o + k + length \in Nat
    BY <1>20, <2>0
  <2>2. TakeBytes(source, o + k + length, b) =
          IF end <= n THEN Read(SubSeq(source, o + k + length + 1, end), end) ELSE Thrown
    BY <1>7, <2>1
  <2>3. end <= n => o + k + length <= n
    BY <1>20
  <2>4. o + k + length <= n => r5.ok /\ r5.offset = o + k + length /\ r3.value = length
    <3>1. o + k + length <= n => o <= n
      BY <1>20
    <3> QED BY <1>3, <1>11, <1>14, <3>1
  <2>5. r5.ok => o + k + length <= n
    BY <1>14
  <2>6. r5.ok => r6 = TakeBytes(source, o + k + length, b)
    BY <2>4, <2>5
  <2>7. ~r5.ok => ~r6.ok
    BY <1>2
  <2> HIDE DEF r6, end
  <2> QED BY <1>2, <2>2, <2>3, <2>4, <2>6, <2>7
<1> HIDE DEF r6
<1>16. end <= n => o + k <= n /\ o + k + length <= n
  BY <1>20
<1>17. end > n => ~(end <= n)
  BY <1>20
<1> HIDE DEF end
<1>21. /\ Sections(source, behind).ok = r6.ok /\ Sections(source, behind).jumps = r4.value
       /\ Sections(source, behind).code = r5.value /\ Sections(source, behind).mask = r6.value
  BY <1>1
<1>18. end <= n => /\ Sections(source, behind).ok
                   /\ Sections(source, behind).jumps = SubSeq(source, o + 1, o + k)
                   /\ Sections(source, behind).code = SubSeq(source, o + k + 1, o + k + length)
                   /\ Sections(source, behind).mask = SubSeq(source, o + k + length + 1, end)
  <2>1. end <= n => r6.ok /\ r6.value = SubSeq(source, o + k + length + 1, end)
    <3> DEFINE v == SubSeq(source, o + k + length + 1, end)
    <3>1. end <= n => r6 = Read(v, end)
      BY <1>15
    <3> HIDE DEF v
    <3>2. end <= n => r6.ok /\ r6.value = v
      BY <1>3, <3>1
    <3> QED BY <3>2 DEF v
  <2>2. end <= n => r4.value = SubSeq(source, o + 1, o + k)
    BY ONLY <1>3, <1>13, <1>16
  <2>3. end <= n => r5.value = SubSeq(source, o + k + 1, o + k + length)
    BY ONLY <1>3, <1>14, <1>16
  <2> QED BY <1>21, <2>1, <2>2, <2>3
<1>19. end > n => ~Sections(source, behind).ok
  BY <1>15, <1>17, <1>21
<1> QED BY <1>18, <1>19 DEF end, n, SectionsGive

-----------------------------------------------------------------------------
(* The sections of a blob.                                                 *)

\* Sequences put together have the items of both.
LEMMA Joined ==
  ASSUME NEW p \in Seq(Nat), NEW q \in Seq(Nat)
  PROVE  /\ p \o q \in Seq(Nat) /\ Len(p \o q) = Len(p) + Len(q) /\ Len(p) \in Nat /\ Len(q) \in Nat
         /\ \A i \in 1 .. Len(p) : (p \o q)[i] = p[i]
         /\ \A i \in 1 .. Len(q) : (p \o q)[Len(p) + i] = q[i]
<1>1. p \o q \in Seq(Nat) /\ Len(p \o q) = Len(p) + Len(q) /\ Len(p) \in Nat /\ Len(q) \in Nat
  OBVIOUS
<1>2. \A i \in 1 .. Len(p) : (p \o q)[i] = p[i]
  OBVIOUS
<1>3. ASSUME NEW i \in 1 .. Len(q) PROVE (p \o q)[Len(p) + i] = q[i]
  <2>1. Len(p) + i \in 1 .. Len(p) + Len(q) /\ ~(Len(p) + i <= Len(p)) /\ Len(p) + i - Len(p) = i
    BY <1>1
  <2> QED BY <2>1
<1> QED BY <1>1, <1>2, <1>3

\* The n elements behind the first a.
Part(s, a, n) == SubSeq(s, a + 1, a + n)
SameFrom(s, t, a, b, n) == \A i \in 1 .. n : s[a + i] = t[b + i]

\* Where two sequences are the same, so are parts of them.
LEMMA SameParts ==
  ASSUME NEW s, NEW t, NEW a \in Nat, NEW b \in Nat, NEW n \in Nat, SameFrom(s, t, a, b, n)
  PROVE  Part(s, a, n) = Part(t, b, n)
<1>1. SubSeq(s, a + 1, a + n) = [i \in 1 .. n |-> s[a + i]]
  <2>1. a + n - (a + 1) + 1 = n /\ \A i \in 1 .. n : i + (a + 1) - 1 = a + i
    OBVIOUS
  <2>2. SubSeq(s, a + 1, a + n) = [i \in 1 .. a + n - (a + 1) + 1 |-> s[i + (a + 1) - 1]]
    OBVIOUS
  <2> QED BY <2>1, <2>2
<1>2. SubSeq(t, b + 1, b + n) = [i \in 1 .. n |-> t[b + i]]
  <2>1. b + n - (b + 1) + 1 = n /\ \A i \in 1 .. n : i + (b + 1) - 1 = b + i
    OBVIOUS
  <2>2. SubSeq(t, b + 1, b + n) = [i \in 1 .. b + n - (b + 1) + 1 |-> t[i + (b + 1) - 1]]
    OBVIOUS
  <2> QED BY <2>1, <2>2
<1> QED BY <1>1, <1>2 DEF Part, SameFrom

\* What is written is bytes, whatever the number is.
LEMMA EncodedSeq == ASSUME NEW v \in Nat PROVE EncodeVarU32(v) \in Seq(Nat)
<1> DEFINE top == 2 ^ ((BITS - 1) * BITS)
<1>1. BITS \in Nat /\ top \in Nat
  BY NumberBaseFacts, WeightFacts
<1>2. CASE v >= top
  <2>1. EncodeVarU32(v) = <<ByteBase - 1>> \o Bytes(v, BITS)
    BY <1>2, Longest
  <2>2. ByteBase - 1 \in Nat
    BY WeightFacts
  <2>3. Bytes(v, BITS) \in Seq(Nat)
    BY <1>1, BytesFacts
  <2> QED BY <2>1, <2>2, <2>3
<1>3. CASE v < top
  <2>1. \E l \in Nat, t \in Nat : IsEncoded(v, l, t, EncodeVarU32(v))
    BY <1>3, EncodedAny
  <2>2. PICK l \in Nat, t \in Nat : IsEncoded(v, l, t, EncodeVarU32(v))
    BY <2>1
  <2>3. EncodeVarU32(v) = <<LengthMask(l) + t>> \o Bytes(v % Weight(l), l)
    BY <2>2 DEF IsEncoded
  <2>4. v % Weight(l) \in Nat
    BY WeightFacts
  <2>5. LengthMask(l) + t \in Nat
    <3>1. l \in 0 .. BITS
      <4>1. l \in 0 .. BITS - 1
        BY <2>2 DEF IsEncoded
      <4> QED BY <1>1, <4>1
    <3>2. LengthMask(l) \in Nat
      BY <3>1, Masks
    <3> QED BY <3>2
  <2>6. Bytes(v % Weight(l), l) \in Seq(Nat)
    BY <2>4, BytesFacts
  <2> QED BY <2>3, <2>5, <2>6
<1> HIDE DEF top
<1> QED BY <1>1, <1>2, <1>3

\* Where the sections of a blob are: o is behind the three numbers.
HasParts(blob, h, e, f, g, t, o) ==
  /\ blob \in Seq(Nat) /\ Len(blob) = o + Len(g) + Len(t)
  /\ \A i \in 1 .. Len(h) : blob[i] = h[i]
  /\ blob[Len(h) + 1] = e
  /\ \A i \in 1 .. Len(f) : blob[Len(h) + 1 + i] = f[i]
  /\ \A i \in 1 .. Len(g) : blob[o + i] = g[i]
  /\ \A i \in 1 .. Len(t) : blob[o + Len(g) + i] = t[i]

\* So has a blob its parts.
LEMMA BlobParts ==
  ASSUME NEW h \in Seq(Nat), NEW e \in Nat, NEW f \in Seq(Nat), NEW g \in Seq(Nat), NEW t \in Seq(Nat),
         NEW o, o = Len(h) + 1 + Len(f)
  PROVE  HasParts(h \o <<e>> \o f \o g \o t, h, e, f, g, t, o)
<1> DEFINE p1 == h \o <<e>>  p2 == p1 \o f  p3 == p2 \o g  p4 == p3 \o t
<1>1. /\ p1 \in Seq(Nat) /\ Len(p1) = Len(h) + 1
      /\ \A i \in 1 .. Len(h) : p1[i] = h[i]
      /\ p1[Len(h) + 1] = e
  <2>1. <<e>> \in Seq(Nat) /\ Len(<<e>>) = 1 /\ <<e>>[1] = e /\ 1 \in 1 .. 1
    OBVIOUS
  <2> DEFINE q == <<e>>
  <2> HIDE DEF q
  <2>2. /\ h \o q \in Seq(Nat) /\ Len(h \o q) = Len(h) + Len(q)
        /\ \A i \in 1 .. Len(h) : (h \o q)[i] = h[i]
        /\ \A i \in 1 .. Len(q) : (h \o q)[Len(h) + i] = q[i]
    BY <2>1, Joined DEF q
  <2> QED BY <2>1, <2>2 DEF q
<1>0. Len(h) \in Nat /\ Len(f) \in Nat /\ Len(g) \in Nat /\ Len(t) \in Nat
  OBVIOUS
<1> HIDE DEF p1
<1>2. /\ p2 \in Seq(Nat) /\ Len(p2) = Len(p1) + Len(f)
  BY <1>1, Joined
<1>3. /\ Len(p2) = o /\ o \in Nat /\ Len(p1) \in Nat
      /\ \A i \in 1 .. Len(f) : p2[Len(h) + 1 + i] = f[i]
      /\ \A i \in 1 .. Len(h) : p2[i] = h[i]
      /\ p2[Len(h) + 1] = e
  <2>1. \A i \in 1 .. Len(p1) : p2[i] = p1[i]
    BY <1>1, Joined
  <2>2. \A i \in 1 .. Len(f) : p2[Len(p1) + i] = f[i]
    BY <1>1, Joined
  <2>3. Len(p2) = o /\ o \in Nat /\ Len(p1) \in Nat
    BY <1>0, <1>1, <1>2
  <2>4. Len(h) + 1 \in 1 .. Len(p1) /\ \A i \in 1 .. Len(h) : i \in 1 .. Len(p1)
    BY <1>0, <1>1
  <2> HIDE DEF p2
  <2> QED BY <1>1, <2>1, <2>2, <2>3, <2>4
<1>4. p2 \in Seq(Nat)
  BY <1>2
<1> HIDE DEF p2
<1>5. /\ p3 \in Seq(Nat) /\ Len(p3) = o + Len(g)
      /\ \A i \in 1 .. o : p3[i] = p2[i]
      /\ \A i \in 1 .. Len(g) : p3[o + i] = g[i]
  <2>1. p3 \in Seq(Nat) /\ Len(p3) = Len(p2) + Len(g)
    BY <1>4, Joined
  <2>2. \A i \in 1 .. Len(p2) : p3[i] = p2[i]
    BY <1>4, Joined
  <2>3. \A i \in 1 .. Len(g) : p3[Len(p2) + i] = g[i]
    BY <1>4, Joined
  <2> HIDE DEF p3
  <2> QED BY <1>3, <2>1, <2>2, <2>3
<1> HIDE DEF p3
<1>6. /\ p4 \in Seq(Nat) /\ Len(p4) = o + Len(g) + Len(t)
      /\ \A i \in 1 .. o + Len(g) : p4[i] = p3[i]
      /\ \A i \in 1 .. Len(t) : p4[o + Len(g) + i] = t[i]
  <2>1. p4 \in Seq(Nat) /\ Len(p4) = Len(p3) + Len(t)
    BY <1>5, Joined
  <2>2. \A i \in 1 .. Len(p3) : p4[i] = p3[i]
    BY <1>5, Joined
  <2>3. \A i \in 1 .. Len(t) : p4[Len(p3) + i] = t[i]
    BY <1>5, Joined
  <2> HIDE DEF p4
  <2> QED BY <1>5, <2>1, <2>2, <2>3
<1> HIDE DEF p4
<1>7. \A i \in 1 .. o : p4[i] = p2[i]
  <2>1. \A i \in 1 .. o : i \in 1 .. o + Len(g)
    BY <1>0, <1>3
  <2> QED BY <1>5, <1>6, <2>1
<1>8. \A i \in 1 .. Len(g) : p4[o + i] = g[i]
  <2>1. \A i \in 1 .. Len(g) : o + i \in 1 .. o + Len(g)
    BY <1>0, <1>3
  <2> QED BY <1>5, <1>6, <2>1
<1>9. /\ \A i \in 1 .. Len(h) : p4[i] = h[i]
      /\ p4[Len(h) + 1] = e
      /\ \A i \in 1 .. Len(f) : p4[Len(h) + 1 + i] = f[i]
  <2>1. /\ \A i \in 1 .. Len(h) : i \in 1 .. o
        /\ Len(h) + 1 \in 1 .. o
        /\ \A i \in 1 .. Len(f) : Len(h) + 1 + i \in 1 .. o
    BY <1>0, <1>3
  <2> QED BY <1>3, <1>7, <2>1
<1>10. h \o <<e>> \o f \o g \o t = p4
  BY DEF p1, p2, p3, p4
<1> QED BY <1>6, <1>8, <1>9, <1>10 DEF HasParts

\* A source that is a blob as far as both go.
Agree(source, blob) ==
  source \in Seq(Nat) /\ \A i \in 1 .. Len(blob) : i <= Len(source) => source[i] = blob[i]

\* A blob as it was written, cut anywhere, and with anything behind it.
LEMMA SectionsAreExact == ASSUME BytesOK PROVE SectionsExact
<1> DEFINE N == Len(bytes)
<1>0. bytes \in Seq(Octet) /\ beyond \in Octet /\ N \in Nat /\ Octet \subseteq Nat /\ bytes \in Seq(Nat)
  <2>1. ByteBase \in Nat
    BY WeightFacts
  <2>2. Octet \subseteq Nat
    BY <2>1 DEF Octet
  <2>3. bytes \in Seq(Octet) /\ beyond \in Octet
    BY DEF BytesOK
  <2>4. bytes \in Seq(Nat)
    <3>1. bytes \in [1 .. N -> Octet] /\ N \in Nat
      BY <2>3
    <3>2. bytes \in [1 .. N -> Nat]
      BY <2>2, <3>1
    <3> QED BY <3>1, <3>2
  <2> QED BY <2>2, <2>3, <2>4
<1>1. SUFFICES ASSUME NEW k \in 0 .. N, NEW itemLength \in 1 .. 2, k % itemLength = 0,
                      IsArray(Blob(k, itemLength) \o <<beyond>>)
               PROVE  LET blob == Blob(k, itemLength)
                          read == Sections(blob \o <<beyond>>, beyond)
                          code == SubSeq(bytes, k + 1, N)
                      IN /\ read.ok /\ read.jumps = SubSeq(bytes, 1, k) /\ read.code = code
                         /\ UnpackMask(read.mask, Len(code)) = BuildMask(code)
                         /\ \A n \in 0 .. Len(blob) - 1 : ~Sections(SubSeq(blob, 1, n), beyond).ok
  BY DEF SectionsExact, N
<1> DEFINE blob == Blob(k, itemLength)
           whole == blob \o <<beyond>>
           code == SubSeq(bytes, k + 1, N)
           items == k \div itemLength
           c == Len(code)
           h == EncodeVarU32(items)
           f == EncodeVarU32(c)
           mask == PackMask(BuildMask(code), c)
           b == (c + BITS - 1) \div BITS
           o == Len(h) + 1 + Len(f)
<1>2. items \in Nat /\ k = items * itemLength /\ items <= k
  <2>1. itemLength \in Nat \ {0} /\ k \in Int /\ k \in Nat
    OBVIOUS
  <2>2. k \div itemLength \in Nat
    BY <2>1, QuotientNat
  <2>3. k = itemLength * (k \div itemLength) + (k % itemLength)
    BY <2>1, DivMod
  <2> HIDE DEF items
  <2> DEFINE q == k \div itemLength
  <2>4. q \in Nat /\ k = itemLength * q + 0
    BY <1>1, <2>2, <2>3
  <2>5. q = items
    BY DEF items
  <2> HIDE DEF q
  <2>6. k = q * itemLength /\ q <= k
    BY <2>1, <2>4
  <2> QED BY <2>4, <2>5, <2>6
<1>3. code \in Seq(Octet) /\ c = N - k /\ c \in Nat
  <2> DEFINE len == N - k
  <2>1. len \in Nat /\ N - (k + 1) + 1 = len
    BY <1>0
  <2>2. code = [i \in 1 .. len |-> bytes[i + (k + 1) - 1]]
    BY <2>1
  <2>3. \A i \in 1 .. len : bytes[i + (k + 1) - 1] \in Octet
    <3>1. ASSUME NEW i \in 1 .. len PROVE i + (k + 1) - 1 \in 1 .. N
      BY <1>0
    <3> QED BY <1>0, <3>1
  <2> HIDE DEF code, len
  <2>4. code \in [1 .. len -> Octet]
    BY <2>2, <2>3
  <2>5. code \in Seq(Octet) /\ Len(code) = len
    BY <2>1, <2>4
  <2> QED BY <2>1, <2>5 DEF len
<1> HIDE DEF items, code
<1>4. /\ b \in Nat /\ mask \in Seq(Nat) /\ Len(mask) = b /\ UnpackMask(mask, c) = BuildMask(code)
  <2>1. BuildMask(code) \subseteq 0 .. c - 1
    BY <1>3, BuildMaskFacts
  <2> HIDE DEF c
  <2> QED BY <1>3, <2>1, Packed
<1> HIDE DEF mask, b
<1>5. h \in Seq(Nat) /\ f \in Seq(Nat)
  <2> HIDE DEF c
  <2> QED BY <1>2, <1>3, EncodedSeq
<1>6. blob = h \o <<itemLength>> \o f \o bytes \o mask
  BY DEF Blob, items, code, mask, N
<1> HIDE DEF h, f, o, c, blob
<1>7. /\ blob \in Seq(Nat) /\ Len(blob) = o + N + b
      /\ \A i \in 1 .. Len(h) : blob[i] = h[i]
      /\ blob[Len(h) + 1] = itemLength
      /\ \A i \in 1 .. Len(f) : blob[Len(h) + 1 + i] = f[i]
      /\ \A i \in 1 .. N : blob[o + i] = bytes[i]
      /\ \A i \in 1 .. b : blob[o + N + i] = mask[i]
  <2>1. o = Len(h) + 1 + Len(f) /\ itemLength \in Nat
    BY DEF o
  <2> DEFINE w == h \o <<itemLength>> \o f \o bytes \o mask
  <2>2. HasParts(w, h, itemLength, f, bytes, mask, o)
    <3>1. bytes \in Seq(Nat) /\ mask \in Seq(Nat) /\ h \in Seq(Nat) /\ f \in Seq(Nat)
      BY <1>0, <1>4, <1>5
    <3> QED BY <2>1, <3>1, BlobParts
  <2> HIDE DEF w
  <2>3. blob = w /\ Len(bytes) = N /\ Len(mask) = b
    BY <1>4, <1>6 DEF w
  <2> QED BY <2>2, <2>3 DEF HasParts
<1>8. Len(h) \in Nat /\ Len(f) \in Nat /\ o \in Nat /\ o = Len(h) + 1 + Len(f)
  BY <1>5 DEF o
<1> DEFINE L == Len(blob)
<1>9. /\ whole \in Seq(Nat) /\ Len(whole) = L + 1 /\ L \in Nat
      /\ \A i \in 1 .. L : whole[i] = blob[i]
  <2>1. <<beyond>> \in Seq(Nat) /\ Len(<<beyond>>) = 1
    BY <1>0
  <2> QED BY <1>7, <2>1, Joined
<1> HIDE DEF whole
<1>10. 2 * (L + 1) < NumberBase /\ L = o + k + c + b /\ items < NumberBase /\ c < NumberBase
       /\ NumberBase \in Nat
  <2>1. 2 * Len(whole) < NumberBase
    BY <1>1 DEF IsArray, whole, blob
  <2>2. NumberBase \in Nat
    BY NumberBaseFacts
  <2>3. L = o + k + c + b
    BY <1>0, <1>3, <1>4, <1>7, <1>8
  <2> HIDE DEF L
  <2>4. 2 * (L + 1) < NumberBase
    BY <1>9, <2>1
  <2>5. items <= L /\ c <= L
    BY <1>2, <1>3, <1>4, <1>8, <2>3
  <2> QED BY <1>2, <1>3, <1>9, <2>2, <2>3, <2>4, <2>5
<1>11. \E l \in Nat : Written(items, l, h) /\ Len(h) = l + 1
  BY <1>2, <1>10, WrittenFacts DEF h
<1>12. PICK l \in Nat : Written(items, l, h) /\ Len(h) = l + 1
  BY <1>11
<1>13. \E r \in Nat : Written(c, r, f) /\ Len(f) = r + 1
  BY <1>3, <1>10, WrittenFacts DEF f
<1>14. PICK r \in Nat : Written(c, r, f) /\ Len(f) = r + 1
  BY <1>13
<1> HIDE DEF L
<1>15. ASSUME NEW source, Agree(source, blob)
       PROVE  /\ L <= Len(source) =>
                   LET read == Sections(source, beyond)
                   IN /\ read.ok
                      /\ read.jumps = SubSeq(source, o + 1, o + k)
                      /\ read.code = SubSeq(source, o + k + 1, o + k + c)
                      /\ read.mask = SubSeq(source, o + k + c + 1, o + k + c + b)
              /\ L > Len(source) => ~Sections(source, beyond).ok
  <2>1. source \in Seq(Nat) /\ Len(source) \in Nat
        /\ \A i \in 1 .. L : i <= Len(source) => source[i] = blob[i]
    BY <1>15 DEF Agree, L
  <2>2. o = l + r + 3 /\ Len(h) = l + 1 /\ Len(f) = r + 1
    BY <1>8, <1>12, <1>14
  <2>3. /\ \A i \in 1 .. l + 1 : i \in 1 .. L /\ i \in 1 .. Len(h)
        /\ l + 2 \in 1 .. L /\ Len(h) + 1 = l + 2
        /\ \A i \in 1 .. r + 1 : l + 2 + i \in 1 .. L /\ i \in 1 .. Len(f)
    BY <1>3, <1>4, <1>9, <1>10, <2>2
  <2>4. Starts3(source, items, itemLength, c, l, r)
    <3>1. \A i \in 1 .. l + 1 : i <= Len(source) => source[i] = h[i]
      BY <1>7, <2>1, <2>3
    <3>2. l + 2 <= Len(source) => source[l + 2] = itemLength
      BY <1>7, <2>1, <2>3
    <3>3. \A i \in 1 .. r + 1 : l + 2 + i <= Len(source) => source[l + 2 + i] = f[i]
      BY <1>7, <2>1, <2>3
    <3> QED BY <3>1, <3>2, <3>3 DEF Starts3, h, f
  <2>5. /\ items \in Nat /\ itemLength \in Nat /\ c \in Nat /\ k \in Nat
        /\ items < NumberBase /\ c < NumberBase /\ k = items * itemLength
        /\ 2 * (o + k + c + b) < NumberBase /\ o + k + c + b = L
    <3>1. k \in Nat /\ itemLength \in Nat
      OBVIOUS
    <3>2. 2 * L < NumberBase
      BY <1>9, <1>10
    <3> QED BY <1>2, <1>3, <1>10, <3>1, <3>2
  <2>6. Written(items, l, EncodeVarU32(items)) /\ Written(c, r, EncodeVarU32(c))
    BY <1>12, <1>14 DEF h, f
  <2>7. b \in Nat /\ b = (c + BITS - 1) \div BITS
    BY <1>4 DEF b
  <2>8. SectionsGive(source, beyond, k, c, b, o)
    BY <1>8, <2>1, <2>2, <2>4, <2>5, <2>6, <2>7, SectionsAre
  <2> QED BY <2>5, <2>8 DEF SectionsGive
<1> DEFINE read == Sections(whole, beyond)
<1>16. /\ read.ok
       /\ read.jumps = SubSeq(whole, o + 1, o + k)
       /\ read.code = SubSeq(whole, o + k + 1, o + k + c)
       /\ read.mask = SubSeq(whole, o + k + c + 1, o + k + c + b)
  <2>1. Agree(whole, blob)
    BY <1>9 DEF Agree, L
  <2>2. L <= Len(whole)
    BY <1>9
  <2> HIDE DEF read
  <2> QED BY <1>15, <2>1, <2>2 DEF read
<1>17. /\ \A i \in 1 .. N : whole[o + i] = bytes[i]
       /\ \A i \in 1 .. b : whole[o + k + c + i] = mask[i]
  <2>1. o + k + c = o + N
    BY <1>0, <1>3, <1>8
  <2>2. /\ \A i \in 1 .. N : o + i \in 1 .. L
        /\ \A i \in 1 .. b : o + N + i \in 1 .. L
    <3>1. L = o + N + b /\ o \in Nat /\ N \in Nat /\ b \in Nat
      BY <1>0, <1>4, <1>7, <1>8 DEF L
    <3> QED BY ONLY <3>1
  <2> QED BY <1>7, <1>9, <2>1, <2>2
<1>18. SubSeq(whole, o + 1, o + k) = SubSeq(bytes, 1, k)
  <2>1. \A i \in 1 .. k : whole[o + i] = bytes[0 + i]
    <3>1. \A i \in 1 .. k : i \in 1 .. N /\ 0 + i = i
      BY <1>0
    <3> QED BY <1>17, <3>1
  <2>2. k \in Nat /\ 0 \in Nat /\ 0 + 1 = 1 /\ 0 + k = k
    OBVIOUS
  <2>3. Part(whole, o, k) = Part(bytes, 0, k)
    <3>1. SameFrom(whole, bytes, o, 0, k)
      BY <2>1 DEF SameFrom
    <3> QED BY <1>8, <2>2, <3>1, SameParts
  <2> QED BY <2>2, <2>3 DEF Part
<1>19. SubSeq(whole, o + k + 1, o + k + c) = code
  <2> DEFINE a == o + k
  <2>1. a \in Nat /\ k \in Nat /\ k + c = N
    BY <1>0, <1>3, <1>8
  <2>2. \A i \in 1 .. c : whole[a + i] = bytes[k + i]
    <3>1. \A i \in 1 .. c : k + i \in 1 .. N /\ a + i = o + (k + i)
      BY <1>0, <1>3, <1>8
    <3> QED BY <1>17, <3>1
  <2> HIDE DEF a
  <2>3. Part(whole, a, c) = Part(bytes, k, c)
    <3>1. SameFrom(whole, bytes, a, k, c)
      BY <2>2 DEF SameFrom
    <3> QED BY <1>3, <2>1, <3>1, SameParts
  <2> QED BY <2>1, <2>3 DEF Part, a, code
<1>20. SubSeq(whole, o + k + c + 1, o + k + c + b) = mask
  <2> DEFINE a == o + k + c
  <2>1. a \in Nat
    BY <1>3, <1>8
  <2>2. \A i \in 1 .. b : whole[a + i] = mask[0 + i]
    <3>1. \A i \in 1 .. b : 0 + i = i
      BY <1>4
    <3> QED BY <1>17, <3>1
  <2> HIDE DEF a
  <2>3. Part(whole, a, b) = Part(mask, 0, b)
    <3>1. SameFrom(whole, mask, a, 0, b)
      BY <2>2 DEF SameFrom
    <3> QED BY <1>4, <2>1, <3>1, SameParts
  <2>4. 0 + 1 = 1 /\ 0 + b = b
    BY <1>4
  <2>5. SubSeq(mask, 1, b) = mask
    BY <1>4
  <2> QED BY <2>3, <2>4, <2>5 DEF Part, a
<1>21. ASSUME NEW n \in 0 .. L - 1 PROVE ~Sections(SubSeq(blob, 1, n), beyond).ok
  <2> DEFINE part == SubSeq(blob, 1, n)
  <2>1. part \in Seq(Nat) /\ Len(part) = n /\ \A i \in 1 .. n : part[i] = blob[i]
    BY <1>7, <1>9 DEF L
  <2> HIDE DEF part
  <2>2. Agree(part, blob)
    <3>1. \A i \in 1 .. Len(blob) : i <= n => i \in 1 .. n
      BY <1>9
    <3> QED BY <2>1, <3>1 DEF Agree
  <2>3. L > Len(part)
    BY <1>9, <2>1
  <2>4. ~Sections(part, beyond).ok
    BY <1>15, <2>2, <2>3
  <2> QED BY <2>4 DEF part
<1>22. /\ read.ok /\ read.jumps = SubSeq(bytes, 1, k) /\ read.code = code
       /\ UnpackMask(read.mask, c) = BuildMask(code)
       /\ \A n \in 0 .. L - 1 : ~Sections(SubSeq(blob, 1, n), beyond).ok
  <2> HIDE DEF read
  <2>1. read.mask = mask
    BY <1>16, <1>20
  <2> QED BY <1>4, <1>16, <1>18, <1>19, <1>21, <2>1
<1> QED BY <1>22 DEF read, whole, blob, code, c, L

\* A blob of any array's length, over bytes of any size, is taken apart into the
\* sections it was put together from, and no part of one that is cut short is
\* taken for a whole, whatever is read behind it (program.ts:44-71).
THEOREM SectionsExactTheorem == Spec => []SectionsExact
BY BytesInvariant, SectionsAreExact, PTL

-----------------------------------------------------------------------------
(* Halves of a register.                                                   *)

\* A register is two halves, and a half has at least 16 values.
LEMMA HalfTop == Half \in Nat /\ Half >= 16 /\ Top = Half * Half /\ Top \in Nat /\ Top >= 256
<1>1. BYTE \in Nat \ {0}
  BY ComputationAssumption
<1>2. 4 * BYTE \in Nat /\ 8 * BYTE = 4 * BYTE + 4 * BYTE /\ 4 * BYTE = 4 + 4 * (BYTE - 1)
      /\ 4 * (BYTE - 1) \in Nat
  BY <1>1
<1>3. Half \in Nat \ {0} /\ Top = Half * Half
  BY <1>2, PowerAdds, PowerFacts DEF Half, Top
<1>4. Half = 16 * 2 ^ (4 * (BYTE - 1)) /\ 2 ^ (4 * (BYTE - 1)) \in Nat \ {0}
  <2>1. 2 ^ (4 + 4 * (BYTE - 1)) = 2 ^ 4 * 2 ^ (4 * (BYTE - 1))
    BY <1>2, PowerAdds
  <2>2. 2 ^ 4 = 16
    OBVIOUS
  <2> QED BY <1>2, <2>1, <2>2, PowerFacts DEF Half
<1> DEFINE h == Half  e == 2 ^ (4 * (BYTE - 1))
<1>5. h \in Nat /\ h = 16 * e /\ e \in Nat \ {0} /\ Top = h * h
  BY <1>3, <1>4
<1> HIDE DEF h, e
<1>6. h >= 16
  BY <1>5
<1>7. 16 * h <= h * h /\ h * h \in Nat
  BY <1>5, <1>6, TimesMonotone
<1> QED BY <1>5, <1>6, <1>7 DEF h

-----------------------------------------------------------------------------
(* The upper half of a product, for registers of any width.                *)

LEMMA WasmWords ==
  /\ Wasm!W32 = 4 * BYTE /\ Wasm!W64 = 8 * BYTE
  /\ \A v : Wasm!AsU64(v) = v % Top /\ Wasm!AsU32(v) = v % Half
  /\ \A v : Wasm!Low(v) = v % Half /\ Wasm!High(v) = (v \div Half) % Half
  /\ \A v : Wasm!Shr(v, Wasm!W32) = v \div Half
BY DEF Wasm!W32, Wasm!W64, Wasm!AsU64, Wasm!AsU32, Wasm!Low, Wasm!High, Wasm!Shr, Top, Half

LEMMA Halves ==
  ASSUME NEW a \in 0 .. Top - 1
  PROVE  /\ Wasm!Low(a) \in 0 .. Half - 1 /\ Wasm!High(a) \in 0 .. Half - 1
         /\ a = Half * Wasm!High(a) + Wasm!Low(a)
<1> DEFINE H == Half
<1>1. H \in Nat \ {0} /\ a \in 0 .. H * H - 1 /\ a \in Int
  BY HalfTop
<1>2. a \div H \in 0 .. H - 1 /\ a % H \in 0 .. H - 1 /\ a = H * (a \div H) + (a % H)
  BY <1>1, DivMod, DivModRange
<1>3. (a \div H) % H = a \div H
  BY <1>1, <1>2, ModSmall
<1> QED BY <1>2, <1>3, WasmWords

LEMMA TimesBounds ==
  ASSUME NEW a \in Nat, NEW b \in Nat, NEW c \in Nat, NEW d \in Nat, a <= c, b <= d
  PROVE  a * b \in Nat /\ a * b <= c * d
<1>1. a * b <= a * d
  BY TimesMonotone
<1>2. d * a <= d * c
  BY TimesMonotone
<1>3. a * b \in Nat /\ a * d = d * a /\ c * d = d * c /\ a * d \in Nat /\ c * d \in Nat
  OBVIOUS
<1> QED BY <1>1, <1>2, <1>3

\* The product of two halves, in halves of its own.
LEMMA HalfProduct ==
  ASSUME NEW a \in 0 .. Half - 1, NEW b \in 0 .. Half - 1
  PROVE  /\ Wasm!AsU64(a * b) = a * b /\ a * b \in 0 .. Top - 1
         /\ (a * b) \div Half \in 0 .. Half - 1 /\ (a * b) % Half \in 0 .. Half - 1
         /\ a * b = Half * ((a * b) \div Half) + ((a * b) % Half)
<1> DEFINE H == Half  c == a * b
<1>1. H \in Nat /\ H >= 16 /\ Top = H * H /\ Top \in Nat \ {0}
  BY HalfTop
<1>2. a \in Nat /\ b \in Nat /\ a <= H - 1 /\ b <= H - 1 /\ H - 1 \in Nat
  BY <1>1
<1>3. c \in Nat /\ c <= (H - 1) * (H - 1)
  BY <1>2, TimesBounds
<1> HIDE DEF H, c
<1>4. (H - 1) * (H - 1) = H * H - 2 * H + 1 /\ H * H \in Nat
  BY <1>1
<1>5. c \in 0 .. H * H - 1
  BY <1>1, <1>3, <1>4
<1>6. c % Top = c /\ c \in 0 .. Top - 1
  BY <1>1, <1>5, ModSmall
<1>7. c \div H \in 0 .. H - 1 /\ c % H \in 0 .. H - 1 /\ c = H * (c \div H) + (c % H)
  <2>1. H \in Nat \ {0} /\ c \in Int
    BY <1>1, <1>3
  <2> QED BY <1>5, <2>1, DivMod, DivModRange
<1> QED BY <1>6, <1>7, WasmWords DEF H, c

LEMMA UpperExact ==
  ASSUME NEW a \in 0 .. Top - 1, NEW b \in 0 .. Top - 1
  PROVE  Wasm!MulUpperUnsigned(a, b) = (a * b) \div Top
<1> DEFINE H == Half  T == Top
           p == Wasm!High(a)  q == Wasm!Low(a)
           r == Wasm!High(b)  s == Wasm!Low(b)
           c1 == (q * s) \div H  d1 == (q * s) % H
           c2 == (q * r) \div H  d2 == (q * r) % H
           c3 == (p * s) \div H  d3 == (p * s) % H
           carry == c1 + d2 + d3
           e == carry \div H  f == carry % H
           u == p * r + c2 + c3 + e
<1>1. H \in Nat \ {0} /\ H >= 16 /\ T = H * H /\ T \in Nat \ {0}
  BY HalfTop
<1>2. /\ p \in 0 .. H - 1 /\ q \in 0 .. H - 1 /\ r \in 0 .. H - 1 /\ s \in 0 .. H - 1
      /\ a = H * p + q /\ b = H * r + s
  BY Halves
<1>3. Wasm!MulUpperUnsigned(a, b) =
        (p * r + c2 + c3 + (((c1 + d2 + d3) % T) \div H)) % T
  <2>1. /\ Wasm!AsU64(q * s) = q * s /\ Wasm!AsU64(q * r) = q * r
        /\ Wasm!AsU64(p * s) = p * s /\ Wasm!AsU64(p * r) = p * r
    <3> HIDE DEF p, q, r, s
    <3> QED BY <1>2, HalfProduct
  <2> QED BY <2>1, WasmWords DEF Wasm!MulUpperUnsigned
<1>4. /\ c1 \in 0 .. H - 1 /\ d1 \in 0 .. H - 1 /\ q * s = H * c1 + d1
      /\ c2 \in 0 .. H - 1 /\ d2 \in 0 .. H - 1 /\ q * r = H * c2 + d2
      /\ c3 \in 0 .. H - 1 /\ d3 \in 0 .. H - 1 /\ p * s = H * c3 + d3
  <2> HIDE DEF p, q, r, s
  <2> QED BY <1>2, HalfProduct
<1> HIDE DEF c1, c2, c3, d1, d2, d3
<1>5. carry \in 0 .. T - 1
  <2>1. 16 * H <= H * H
    BY <1>1, TimesMonotone
  <2> QED BY <1>1, <1>4, <2>1
<1>6. carry % T = carry
  BY <1>1, <1>5, ModSmall
<1>7. e \in 0 .. H - 1 /\ f \in 0 .. H - 1 /\ carry = H * e + f
  <2> HIDE DEF carry
  <2>1. carry \in Int /\ carry \in 0 .. H * H - 1
    BY <1>1, <1>5
  <2> QED BY <1>1, <2>1, DivMod, DivModRange
<1> HIDE DEF e, f
<1>8. p * r \in Nat
  <2> HIDE DEF p, r
  <2> QED BY <1>2
<1>9. a * b = T * u + (H * f + d1)
  <2>1. a * b = (H * p + q) * (H * r + s)
    BY <1>2
  <2> HIDE DEF p, q, r, s
  <2>2. (H * p + q) * (H * r + s) = (H * H) * (p * r) + H * (q * r) + H * (p * s) + q * s
    BY <1>1, <1>2
  <2>3. H * (q * r) = H * (H * c2 + d2) /\ H * (p * s) = H * (H * c3 + d3)
    BY <1>4
  <2>4. H * (H * c2 + d2) = (H * H) * c2 + H * d2 /\ H * (H * c3 + d3) = (H * H) * c3 + H * d3
    BY <1>1, <1>4
  <2>5. H * (c1 + d2 + d3) = H * c1 + H * d2 + H * d3
    BY <1>1, <1>4
  <2>6. H * (c1 + d2 + d3) = H * (H * e + f)
    BY <1>7
  <2>7. H * (H * e + f) = (H * H) * e + H * f
    BY <1>1, <1>7
  <2> DEFINE w == p * r
  <2>8. w \in Int /\ (H * H) * (w + c2 + c3 + e) = (H * H) * w + (H * H) * c2 + (H * H) * c3 + (H * H) * e
    <3>1. w \in Int
      BY <1>8
    <3> HIDE DEF w
    <3> QED BY <1>1, <1>4, <1>7, <3>1
  <2>9. /\ H * c1 \in Int /\ H * d2 \in Int /\ H * d3 \in Int /\ H * f \in Int /\ (H * H) * w \in Int
        /\ (H * H) * c2 \in Int /\ (H * H) * c3 \in Int /\ (H * H) * e \in Int
    BY <1>1, <1>4, <1>7, <2>8
  <2> DEFINE hc == H * c1  hd2 == H * d2  hd3 == H * d3  hf == H * f
             tw == (H * H) * w  t2 == (H * H) * c2  t3 == (H * H) * c3  te == (H * H) * e
             ab == a * b
             tu == T * u
  <2>10. /\ ab = tw + (t2 + hd2) + (t3 + hd3) + (hc + d1)
         /\ hc + hd2 + hd3 = te + hf /\ tu = tw + t2 + t3 + te
    BY <1>1, <1>4, <2>1, <2>2, <2>3, <2>4, <2>5, <2>6, <2>7, <2>8
  <2>11. hc \in Int /\ hd2 \in Int /\ hd3 \in Int /\ hf \in Int /\ tw \in Int /\ t2 \in Int
         /\ t3 \in Int /\ te \in Int
    BY <2>9
  <2> HIDE DEF hc, hd2, hd3, hf, tw, t2, t3, te, ab, tu
  <2>12. ab = tu + (hf + d1)
    BY <1>4, <2>10, <2>11
  <2> QED BY <2>12 DEF ab, tu, hf
<1>10. H * f + d1 \in 0 .. T - 1
  <2>1. H * f <= H * (H - 1) /\ 0 <= H * f
    BY <1>1, <1>7, TimesMonotone
  <2>2. H * (H - 1) = H * H - H /\ H * f \in Int /\ H * H \in Int
    BY <1>1, <1>7
  <2> QED BY <1>1, <1>4, <2>1, <2>2
<1>11. u \in Nat
  BY <1>4, <1>7, <1>8
<1>12. (a * b) \div T = u
  <2> DEFINE ab == a * b  rest == H * f + d1
  <2>1. ab \in Int /\ u \in Int /\ rest \in 0 .. T - 1 /\ ab = T * u + rest /\ T \in Nat \ {0}
    BY <1>1, <1>9, <1>10, <1>11, HalfTop
  <2> HIDE DEF ab, rest, u, T
  <2>2. ab \div T = u
    BY <2>1, DivModUnique
  <2> QED BY <2>2 DEF ab
<1>13. u \in 0 .. T - 1
  <2>1. a * b \in 0 .. T * T - 1
    <3>1. a \in Nat /\ b \in Nat /\ a <= T - 1 /\ b <= T - 1 /\ T - 1 \in Nat
      BY <1>1
    <3>2. a * b \in Nat /\ a * b <= (T - 1) * (T - 1)
      BY <3>1, TimesBounds
    <3> HIDE DEF T
    <3>3. (T - 1) * (T - 1) = T * T - 2 * T + 1
      BY <1>1
    <3> QED BY <1>1, <3>2, <3>3
  <2>2. (a * b) \div T \in 0 .. T - 1
    BY <1>1, <2>1, DivModRange
  <2> QED BY <1>12, <2>2
<1>14. u % T = u
  <2> HIDE DEF u, T
  <2> QED BY <1>1, <1>13, ModSmall
<1> QED BY <1>3, <1>6, <1>12, <1>14 DEF carry, e

\* Half of the numbers of a register have a sign.
LEMMA SignBit ==
  \E d \in Nat : d >= 128 /\ Top = 2 * d /\ 2 ^ (Wasm!W64 - 1) = d
<1>1. 8 * BYTE - 1 \in Nat /\ 8 * BYTE = (8 * BYTE - 1) + 1
  BY ComputationAssumption
<1>2. Top = 2 ^ (8 * BYTE - 1) * 2 ^ 1
  <2>1. 2 ^ ((8 * BYTE - 1) + 1) = 2 ^ (8 * BYTE - 1) * 2 ^ 1
    BY <1>1, PowerAdds
  <2> QED BY <1>1, <2>1 DEF Top
<1>3. 2 ^ 1 = 2
  OBVIOUS
<1> DEFINE d == 2 ^ (8 * BYTE - 1)
<1>4. d \in Nat /\ Top = 2 * d
  BY <1>1, <1>2, <1>3, PowerFacts
<1>5. Wasm!W64 - 1 = 8 * BYTE - 1
  BY WasmWords
<1> HIDE DEF d
<1> QED BY <1>4, <1>5, HalfTop DEF d

LEMMA SignedIs ==
  ASSUME NEW v \in 0 .. Top - 1
  PROVE  /\ Wasm!Signed(v, Wasm!W64) = AsSigned(v)
         /\ AsSigned(v) = v \/ AsSigned(v) = v + Top * (-1)
         /\ 2 * AsSigned(v) < Top /\ -Top <= 2 * AsSigned(v) /\ AsSigned(v) \in Int
<1>1. PICK d \in Nat : d >= 128 /\ Top = 2 * d /\ 2 ^ (Wasm!W64 - 1) = d
  BY SignBit
<1>2. v % Top = v /\ 2 ^ Wasm!W64 = Top
  BY <1>1, ModSmall, WasmWords DEF Top
<1>3. Wasm!Signed(v, Wasm!W64) = IF v < d THEN v ELSE v - Top
  BY <1>1, <1>2 DEF Wasm!Signed
<1> QED BY <1>1, <1>3 DEF AsSigned

LEMMA SignedBack ==
  ASSUME NEW u \in Int, 2 * u < Top, -Top <= 2 * u
  PROVE  AsSigned(u % Top) = u
<1>1. Top \in Nat \ {0}
  BY HalfTop
<1>2. CASE u >= 0
  <2>1. u % Top = u
    BY <1>1, <1>2, ModSmall
  <2> QED BY <2>1 DEF AsSigned
<1>3. CASE u < 0
  <2> DEFINE t == Top  w == u + t * 1
  <2>1. w \in 0 .. t - 1 /\ w = u + t
    BY <1>1, <1>3
  <2>2. w % t = u % t /\ w % t = w
    BY <1>1, <2>1, ModShift, ModSmall
  <2> QED BY <1>1, <1>3, <2>1, <2>2 DEF AsSigned
<1> QED BY <1>2, <1>3

\* Changing a factor by a multiple of Top changes the product by one.
LEMMA ProductShift ==
  ASSUME NEW a \in Int, NEW b \in Int, NEW k \in Int
  PROVE  ((a + Top * k) * b) % Top = (a * b) % Top
<1> DEFINE t == Top  ab == a * b  kb == k * b
<1>1. t \in Nat \ {0} /\ ab \in Int /\ kb \in Int
  BY HalfTop
<1>2. (a + t * k) * b = ab + t * kb
  <2>1. t \in Int
    BY <1>1
  <2> HIDE DEF t
  <2> QED BY <2>1
<1> HIDE DEF t, ab, kb
<1>3. (ab + t * kb) % t = ab % t
  BY <1>1, ModShift
<1> QED BY <1>2, <1>3 DEF t, ab, kb

LEMMA SignedProduct ==
  ASSUME NEW a \in 0 .. Top - 1, NEW b \in 0 .. Top - 1
  PROVE  /\ (AsSigned(a) * b) % Top = (a * b) % Top
         /\ (AsSigned(a) * AsSigned(b)) % Top = (a * b) % Top
<1>1. a \in Int /\ b \in Int /\ AsSigned(a) \in Int /\ AsSigned(b) \in Int
  BY SignedIs, HalfTop
<1>2. PICK k \in Int : AsSigned(a) = a + Top * k
  <2>1. a = a + Top * 0
    BY <1>1, HalfTop
  <2> QED BY <2>1, SignedIs
<1>3. PICK n \in Int : AsSigned(b) = b + Top * n
  <2>1. b = b + Top * 0
    BY <1>1, HalfTop
  <2> QED BY <2>1, SignedIs
<1>4. \A c \in Int : ((a + Top * k) * c) % Top = (a * c) % Top
  BY <1>1, ProductShift
<1>5. \A c \in Int : ((b + Top * n) * c) % Top = (b * c) % Top
  BY <1>1, ProductShift
<1>6. (AsSigned(a) * b) % Top = (a * b) % Top
      /\ (AsSigned(a) * AsSigned(b)) % Top = (a * AsSigned(b)) % Top
  BY <1>1, <1>2, <1>4
<1>7. (AsSigned(b) * a) % Top = (b * a) % Top
  BY <1>1, <1>3, <1>5
<1>8. AsSigned(b) * a = a * AsSigned(b) /\ b * a = a * b
  BY <1>1
<1> QED BY <1>6, <1>7, <1>8

LEMMA NegatedExact ==
  ASSUME NEW a \in 0 .. Top - 1, NEW b \in 0 .. Top - 1
  PROVE  Wasm!Negated(a, b) = ((-(a * b)) \div Top) % Top
<1> DEFINE t == Top  c == a * b  u == c \div t  l == c % t  up == Wasm!MulUpperUnsigned(a, b)
<1>1. t \in Nat \ {0} /\ c \in Int
  BY HalfTop
<1>2. up = u
  BY UpperExact
<1>3. Wasm!Negated(a, b) = ((-up - 1) + (IF l = 0 THEN 1 ELSE 0)) % t
  BY WasmWords DEF Wasm!Negated, Wasm!Not
<1> HIDE DEF t, c
<1>4. u \in Int /\ l \in 0 .. t - 1 /\ c = t * u + l
  BY <1>1, DivMod
<1> HIDE DEF u, l, up
<1>5. CASE l = 0
  <2>1. -c = t * (-u) + 0 /\ -u \in Int /\ -c \in Int /\ 0 \in 0 .. t - 1
    BY <1>1, <1>4, <1>5
  <2>2. (-c) \div t = -u
    BY <1>1, <2>1, DivModUnique
  <2>3. (-up - 1) + (IF l = 0 THEN 1 ELSE 0) = -u
    BY <1>2, <1>4, <1>5
  <2> QED BY <1>3, <2>2, <2>3 DEF t, c
<1>6. CASE l # 0
  <2> DEFINE v == -u - 1  rest == t - l  mc == -c
  <2>1. mc = t * v + rest
    <3>1. t * v = -(t * u) - t /\ t * u \in Int
      BY <1>1, <1>4
    <3> QED BY <1>1, <1>4, <3>1
  <2>2. v \in Int /\ mc \in Int /\ rest \in 0 .. t - 1
    BY <1>1, <1>4, <1>6
  <2>4. (-up - 1) + (IF l = 0 THEN 1 ELSE 0) = v
    BY <1>2, <1>4, <1>6
  <2>3. mc \div t = v
    <3> HIDE DEF v, rest, mc
    <3> QED BY <1>1, <2>1, <2>2, DivModUnique
  <2>5. Wasm!Negated(a, b) = (mc \div t) % t
    BY <1>3, <2>3, <2>4
  <2> QED BY <2>5 DEF t, c
<1> QED BY <1>5, <1>6

\* The upper half of an unsigned product fits a register.
LEMMA UpperInRange ==
  ASSUME NEW a \in 0 .. Top - 1, NEW b \in 0 .. Top - 1
  PROVE  Wasm!MulUpperUnsigned(a, b) = ((a * b) \div Top) % Top
<1> DEFINE t == Top  c == a * b
<1>1. t \in Nat \ {0} /\ a \in Nat /\ b \in Nat /\ a <= t - 1 /\ b <= t - 1 /\ t - 1 \in Nat
  BY HalfTop
<1>2. c \in Nat /\ c <= (t - 1) * (t - 1)
  BY <1>1, TimesBounds
<1> HIDE DEF t, c
<1>3. (t - 1) * (t - 1) = t * t - 2 * t + 1
  BY <1>1
<1>4. c \in 0 .. t * t - 1
  BY <1>1, <1>2, <1>3
<1>5. c \div t \in 0 .. t - 1
  BY <1>1, <1>4, DivModRange
<1>6. (c \div t) % t = c \div t
  BY <1>1, <1>5, ModSmall
<1> QED BY <1>6, UpperExact DEF t, c

\* The sign of a product is that of one factor or the other; the upper half of
\* the product of the absolute values is negated with it.
LEMMA UpperSigned ==
  ASSUME NEW a \in Int, 2 * a < Top, -Top <= 2 * a, NEW b \in Int, 2 * b < Top, -Top <= 2 * b
  PROVE  Wasm!MulUpperSigned(a, b) = ((a * b) \div Top) % Top
<1> DEFINE Abs(v) == IF v < 0 THEN Wasm!AsU64(Wasm!Not(v) + 1) ELSE v
           Size2(v) == IF v < 0 THEN -v ELSE v
<1>1. ASSUME NEW v \in Int, 2 * v < Top, -Top <= 2 * v
      PROVE  Abs(v) = Size2(v) /\ Size2(v) \in 0 .. Top - 1
  <2>1. Top \in Nat \ {0} /\ Top >= 256
    BY HalfTop
  <2>2. CASE v < 0
    <3>1. Wasm!Not(v) + 1 = -v /\ -v \in 0 .. Top - 1
      BY <1>1, <2>1, <2>2 DEF Wasm!Not
    <3>2. Wasm!AsU64(-v) = -v
      BY <2>1, <3>1, ModSmall, WasmWords
    <3> QED BY <2>2, <3>1, <3>2
  <2>3. CASE ~(v < 0)
    BY <1>1, <2>1, <2>3
  <2> QED BY <2>2, <2>3
<1>2. Wasm!MulUpperSigned(a, b) = IF (a < 0) # (b < 0) THEN Wasm!Negated(Abs(a), Abs(b))
                                  ELSE Wasm!MulUpperUnsigned(Abs(a), Abs(b))
  BY DEF Wasm!MulUpperSigned
<1>3. /\ Abs(a) = Size2(a) /\ Size2(a) \in 0 .. Top - 1
      /\ Abs(b) = Size2(b) /\ Size2(b) \in 0 .. Top - 1
  BY <1>1
<1> HIDE DEF Abs
<1>4. CASE (a < 0) # (b < 0)
  <2>1. -(Size2(a) * Size2(b)) = a * b
    BY <1>4
  <2> HIDE DEF Size2
  <2> QED BY <1>2, <1>3, <1>4, <2>1, NegatedExact
<1>5. CASE ~((a < 0) # (b < 0))
  <2>1. Size2(a) * Size2(b) = a * b
    BY <1>5
  <2> HIDE DEF Size2
  <2> QED BY <1>2, <1>3, <1>5, <2>1, UpperInRange
<1> QED BY <1>4, <1>5

LEMMA UpperSignedUnsigned ==
  ASSUME NEW a \in Int, 2 * a < Top, -Top <= 2 * a, NEW b \in 0 .. Top - 1
  PROVE  Wasm!MulUpperSignedUnsigned(a, b) = ((a * b) \div Top) % Top
<1>1. Top \in Nat \ {0} /\ Top >= 256
  BY HalfTop
<1>2. CASE a < 0
  <2>1. Wasm!Not(a) + 1 = -a /\ -a \in 0 .. Top - 1
    BY <1>1, <1>2 DEF Wasm!Not
  <2>2. Wasm!AsU64(-a) = -a
    BY <1>1, <2>1, ModSmall, WasmWords
  <2>3. Wasm!MulUpperSignedUnsigned(a, b) = Wasm!Negated(-a, b)
    BY <1>2, <2>1, <2>2 DEF Wasm!MulUpperSignedUnsigned
  <2>4. -((-a) * b) = a * b
    OBVIOUS
  <2>5. Wasm!Negated(-a, b) = ((-((-a) * b)) \div Top) % Top
    BY <2>1, NegatedExact
  <2> QED BY <2>3, <2>4, <2>5
<1>3. CASE ~(a < 0)
  <2>1. a \in 0 .. Top - 1
    BY <1>1, <1>3
  <2> QED BY <1>3, <2>1, UpperInRange DEF Wasm!MulUpperSignedUnsigned
<1> QED BY <1>2, <1>3

-----------------------------------------------------------------------------
(* What the two registers hold, and what the instructions make of it.      *)

OperandsOK == operands = <<>> \/ \E u, v \in Values : operands = <<u, v>>

LEMMA OperandsInvariant == Spec => []OperandsOK
<1>1. Init => OperandsOK
  BY DEF Init, OperandsOK
<1>2. OperandsOK /\ [Next]_vars => OperandsOK'
  BY DEF OperandsOK, Next, vars, GrowTables, AddCodeByte, AddBit, Load
<1> QED BY <1>1, <1>2, PTL DEF Spec

LEMMA Contents ==
  ASSUME OperandsOK, Loaded
  PROVE  x \in 0 .. Top - 1 /\ y \in 0 .. Top - 1
<1>1. Values \subseteq 0 .. Top - 1
  BY ComputationAssumption DEF Top
<1> HIDE DEF Top
<1> QED BY <1>1 DEF OperandsOK, Loaded, x, y

LEMMA RegIs ==
  /\ \A op \in Wasm!Math32Ops : Reg(op) = Wasm!Math32(op, y, x)
  /\ \A op \in Wasm!Math64Ops : Reg(op) = Wasm!Math64(op, y, x)
<1> DEFINE Rest == Wasm!LogicOps \cup Wasm!ShiftOps \cup Wasm!RotateOps \cup Wasm!SetOps \cup Wasm!MoveOps
<1>1. /\ \A op \in Wasm!Math32Ops : op \notin Wasm!Math64Ops /\ op \notin Rest
      /\ \A op \in Wasm!Math64Ops : op \notin Rest
  BY DEF Wasm!Math32Ops, Wasm!Math64Ops, Wasm!LogicOps, Wasm!ShiftOps, Wasm!RotateOps,
         Wasm!SetOps, Wasm!MoveOps
<1>2. ASSUME NEW op \in Wasm!Math32Ops PROVE Reg(op) = Wasm!Math32(op, y, x)
  BY <1>1 DEF Reg, Wasm!RegResult
<1>3. ASSUME NEW op \in Wasm!Math64Ops PROVE Reg(op) = Wasm!Math64(op, y, x)
  BY <1>1 DEF Reg, Wasm!RegResult
<1> QED BY <1>2, <1>3

LEMMA ProductsAre ==
  /\ Reg("mul") = Wasm!AsU64(y * x)
  /\ Reg("mul_upper_u_u") = Wasm!MulUpperUnsigned(x, y)
  /\ Reg("mul_upper_s_s") = Wasm!MulUpperSigned(Wasm!Signed(x, Wasm!W64), Wasm!Signed(y, Wasm!W64))
  /\ Reg("mul_upper_s_u") = Wasm!MulUpperSignedUnsigned(Wasm!Signed(x, Wasm!W64), y)
<1>1. Reg("mul") = Wasm!Math64("mul", y, x)
  BY RegIs DEF Wasm!Math64Ops
<1>2. Reg("mul_upper_u_u") = Wasm!Math64("mul_upper_u_u", y, x)
  BY RegIs DEF Wasm!Math64Ops
<1>3. Reg("mul_upper_s_s") = Wasm!Math64("mul_upper_s_s", y, x)
  BY RegIs DEF Wasm!Math64Ops
<1>4. Reg("mul_upper_s_u") = Wasm!Math64("mul_upper_s_u", y, x)
  BY RegIs DEF Wasm!Math64Ops
<1> QED BY <1>1, <1>2, <1>3, <1>4 DEF Wasm!Math64

\* A product that is known modulo Top, and its upper half, are the product.
LEMMA Together ==
  ASSUME NEW p \in Int
  PROVE  (p \div Top) * Top + (p % Top) = p
<1> DEFINE t == Top  q == p \div t  r == p % t
<1>1. t \in Nat \ {0}
  BY HalfTop
<1> HIDE DEF t
<1>2. q \in Int /\ r \in Int /\ p = t * q + r
  BY <1>1, DivMod
<1> HIDE DEF t, q, r
<1>3. q * t + r = p
  BY <1>1, <1>2
<1> QED BY <1>3 DEF t, q, r

\* The upper half of a product of which one factor is signed is a signed number.
LEMMA UpperHalfSigned ==
  ASSUME NEW a \in Int, 2 * a < Top, -Top <= 2 * a, NEW b \in Int, b < Top, -Top < b
  PROVE  (a * b) \div Top \in Int /\ 2 * ((a * b) \div Top) < Top /\ -Top <= 2 * ((a * b) \div Top)
<1> DEFINE t == Top  p == a * b  q == p \div t  r == p % t
<1>1. PICK d \in Nat : d >= 128 /\ t = 2 * d
  BY SignBit
<1>2. t \in Nat \ {0} /\ p \in Int /\ q \in Int /\ r \in 0 .. t - 1 /\ p = t * q + r
  <2>1. t \in Nat \ {0} /\ p \in Int
    BY <1>1
  <2> HIDE DEF t, p
  <2> QED BY <2>1, DivMod
<1>3. -(d * (t - 1)) <= p /\ p <= d * (t - 1)
  <2> DEFINE A == Wasm!Magnitude(a)  B == Wasm!Magnitude(b)
  <2>1. A \in Nat /\ A <= d /\ B \in Nat /\ B <= t - 1 /\ t - 1 \in Nat
    BY <1>1 DEF Wasm!Magnitude
  <2>2. A * B \in Nat /\ A * B <= d * (t - 1)
    <3> HIDE DEF A, B, t
    <3> QED BY <2>1, TimesBounds
  <2>3. p = A * B \/ p = -(A * B)
    BY DEF Wasm!Magnitude
  <2> DEFINE ab == A * B  e == d * (t - 1)
  <2>4. e \in Int
    BY <1>1
  <2> HIDE DEF ab, e, p
  <2>5. -e <= p /\ p <= e
    BY <2>2, <2>3, <2>4 DEF ab, e
  <2> QED BY <2>5 DEF e
<1> HIDE DEF p, q, r, t
<1>4. d * (t - 1) = t * d - d
  BY <1>1
<1>5. q < d
  <2> SUFFICES ASSUME q >= d PROVE FALSE
    BY <1>1, <1>2
  <2>1. t * d <= t * q
    BY <1>1, <1>2, TimesMonotone
  <2> DEFINE tq == t * q  td == t * d
  <2>2. tq \in Int /\ td \in Int
    BY <1>1, <1>2
  <2>3. p = tq + r /\ p <= td - d /\ td <= tq
    BY <1>2, <1>3, <1>4, <2>1
  <2> HIDE DEF tq, td
  <2> QED BY <1>1, <1>2, <2>2, <2>3
<1>6. -d <= q
  <2> SUFFICES ASSUME q < -d PROVE FALSE
    BY <1>1, <1>2
  <2> DEFINE n == -q - 1
  <2>1. n \in Nat /\ n >= d /\ q = -n - 1
    BY <1>1, <1>2
  <2> HIDE DEF n
  <2>2. t * d <= t * n
    BY <1>1, <1>2, <2>1, TimesMonotone
  <2>3. t * q = -(t * n) - t
    BY <1>1, <2>1
  <2> DEFINE tn == t * n  td == t * d
  <2>4. tn \in Int /\ td \in Int
    BY <1>1, <2>1
  <2>5. p = -tn - t + r /\ -(td - d) <= p /\ td <= tn
    BY <1>2, <1>3, <1>4, <2>2, <2>3
  <2> HIDE DEF tn, td
  <2> QED BY <1>1, <1>2, <2>4, <2>5
<1> QED BY <1>1, <1>2, <1>5, <1>6 DEF p, q, t

LEMMA ProductsAreExact == ASSUME OperandsOK PROVE ProductsExact
<1> SUFFICES ASSUME Loaded
             PROVE  /\ Reg("mul_upper_u_u") * Top + Reg("mul") = x * y
                    /\ AsSigned(Reg("mul_upper_s_s")) * Top + Reg("mul") = AsSigned(x) * AsSigned(y)
                    /\ AsSigned(Reg("mul_upper_s_u")) * Top + Reg("mul") = AsSigned(x) * y
  BY DEF ProductsExact
<1> DEFINE a == x  b == y  sa == AsSigned(x)  sb == AsSigned(y)
<1>1. a \in 0 .. Top - 1 /\ b \in 0 .. Top - 1 /\ Top \in Nat /\ Top >= 256
  BY Contents, HalfTop
<1>2. /\ Wasm!Signed(a, Wasm!W64) = sa /\ sa \in Int /\ 2 * sa < Top /\ -Top <= 2 * sa
      /\ Wasm!Signed(b, Wasm!W64) = sb /\ sb \in Int /\ 2 * sb < Top /\ -Top <= 2 * sb
  BY <1>1, SignedIs
<1>3. Reg("mul") = (a * b) % Top
  <2>1. y * x = x * y
    BY <1>1
  <2> QED BY <2>1, ProductsAre, WasmWords
<1>4. (sa * b) % Top = (a * b) % Top /\ (sa * sb) % Top = (a * b) % Top
  BY <1>1, SignedProduct
<1>5. Reg("mul_upper_u_u") = (a * b) \div Top
  BY <1>1, ProductsAre, UpperExact
<1>6. Reg("mul_upper_s_s") = ((sa * sb) \div Top) % Top
  <2>1. Reg("mul_upper_s_s") = Wasm!MulUpperSigned(sa, sb)
    BY <1>2, ProductsAre
  <2> HIDE DEF a, b, sa, sb
  <2> QED BY <1>2, <2>1, UpperSigned
<1>7. Reg("mul_upper_s_u") = ((sa * b) \div Top) % Top
  <2>1. Reg("mul_upper_s_u") = Wasm!MulUpperSignedUnsigned(sa, b)
    BY <1>2, ProductsAre
  <2> HIDE DEF a, b, sa, sb
  <2> QED BY <1>1, <1>2, <2>1, UpperSignedUnsigned
<1>8. AsSigned(((sa * sb) \div Top) % Top) = (sa * sb) \div Top
  <2>1. sb < Top /\ -Top < sb
    BY <1>1, <1>2
  <2> HIDE DEF a, b, sa, sb
  <2>2. /\ (sa * sb) \div Top \in Int /\ 2 * ((sa * sb) \div Top) < Top
        /\ -Top <= 2 * ((sa * sb) \div Top)
    BY <1>2, <2>1, UpperHalfSigned
  <2> QED BY <2>2, SignedBack
<1>9. AsSigned(((sa * b) \div Top) % Top) = (sa * b) \div Top
  <2>1. b \in Int /\ b < Top /\ -Top < b
    BY <1>1
  <2> HIDE DEF a, b, sa, sb
  <2>2. /\ (sa * b) \div Top \in Int /\ 2 * ((sa * b) \div Top) < Top
        /\ -Top <= 2 * ((sa * b) \div Top)
    BY <1>2, <2>1, UpperHalfSigned
  <2> QED BY <2>2, SignedBack
<1> DEFINE ab == a * b  sab == sa * b  sasb == sa * sb
<1>10. ab \in Int /\ sab \in Int /\ sasb \in Int
  BY <1>1, <1>2
<1> HIDE DEF sa, sb
<1>11. /\ (ab \div Top) * Top + (ab % Top) = ab
       /\ (sab \div Top) * Top + (sab % Top) = sab
       /\ (sasb \div Top) * Top + (sasb % Top) = sasb
  <2> HIDE DEF ab, sab, sasb
  <2> QED BY <1>10, Together
<1> QED BY <1>3, <1>4, <1>5, <1>6, <1>7, <1>8, <1>9, <1>11 DEF sa, sb

\* The halves of a product that mul and the three mul_upper instructions put
\* in two registers are the product of the factors, signed or unsigned, for
\* registers of any width and whatever they hold (utils.ts:18-79, math.ts).
THEOREM ProductsExactTheorem == Spec => []ProductsExact
BY OperandsInvariant, ProductsAreExact, PTL

-----------------------------------------------------------------------------
(* Quotients and remainders.                                               *)

\* What DivisionExact says of one division.
Divides(n, b, a, q, r) ==
  IF a = 0 THEN q % n = n - 1 /\ r = b
  ELSE /\ (q * a + r - b) % n = 0
       /\ Wasm!Magnitude(r) < Wasm!Magnitude(a)
       /\ (r < 0 => b < 0) /\ (r > 0 => b > 0)

\* Division that truncates, and its remainder.
LEMMA Truncates ==
  ASSUME NEW a \in Int, a # 0, NEW b \in Int
  PROVE  /\ Wasm!Quotient(b, a) \in Int /\ Wasm!Remainder(b, a) \in Int
         /\ Wasm!Quotient(b, a) * a + Wasm!Remainder(b, a) = b
         /\ Wasm!Magnitude(Wasm!Remainder(b, a)) < Wasm!Magnitude(a)
         /\ (Wasm!Remainder(b, a) < 0 => b < 0) /\ (Wasm!Remainder(b, a) > 0 => b > 0)
<1> DEFINE A == Wasm!Magnitude(a)  B == Wasm!Magnitude(b)  q == B \div A  r == B % A
           s == Wasm!Quotient(b, a)
<1>1. A \in Nat \ {0} /\ B \in Nat /\ (a < 0 => a = -A) /\ (a >= 0 => a = A)
      /\ (b < 0 => b = -B) /\ (b >= 0 => b = B)
  BY DEF Wasm!Magnitude
<1>2. s = IF (b < 0) = (a < 0) THEN q ELSE -q
  BY DEF Wasm!Quotient
<1>3. Wasm!Remainder(b, a) = b - a * s
  BY DEF Wasm!Remainder
<1> HIDE DEF A, B, s
<1>4. q \in Int /\ r \in 0 .. A - 1 /\ B = A * q + r
  BY <1>1, DivMod
<1> HIDE DEF q, r
<1>5. s \in Int /\ s * a = a * s /\ a * s \in Int
  <2>1. s \in Int
    BY <1>2, <1>4
  <2> QED BY <2>1
<1>6. a * s = IF b < 0 THEN -(A * q) ELSE A * q
  <2>1. A * q \in Int /\ (-A) * (-q) = A * q /\ (-A) * q = -(A * q) /\ A * (-q) = -(A * q)
    BY <1>1, <1>4
  <2> QED BY <1>1, <1>2, <2>1
<1> DEFINE as == a * s  Aq == A * q  m0 == Wasm!Remainder(b, a)
<1>7. m0 = b - as /\ as \in Int /\ Aq \in Int /\ B = Aq + r /\ as = IF b < 0 THEN -Aq ELSE Aq
  BY <1>1, <1>3, <1>4, <1>5, <1>6
<1> HIDE DEF as, Aq, m0
<1>8. m0 = IF b < 0 THEN -r ELSE r
  BY <1>1, <1>4, <1>7
<1>9. Wasm!Magnitude(m0) < A /\ (m0 < 0 => b < 0) /\ (m0 > 0 => b > 0) /\ as + m0 = b /\ m0 \in Int
  <2>1. r = 0 => b >= 0 \/ b < 0
    OBVIOUS
  <2>2. b = 0 => r = 0
    <3>1. B = 0 => Aq + r = 0
      BY <1>7
    <3>2. b = 0 => B = 0
      BY <1>1
    <3>3. Aq + r = 0 => r = 0
      <4> SUFFICES ASSUME Aq + r = 0, r # 0 PROVE FALSE
        OBVIOUS
      <4>1. -A < Aq /\ Aq < 0
        BY <1>1, <1>4, <1>7
      <4>2. q < 0
        <5> SUFFICES ASSUME q \in Nat PROVE FALSE
          BY <1>4
        <5>1. A * q \in Nat
          BY <1>1
        <5> QED BY <4>1, <5>1 DEF Aq
      <4> DEFINE n == -q - 1
      <4>3. n \in Nat /\ q = -n - 1
        BY <1>4, <4>2
      <4> HIDE DEF n
      <4>4. A * q = -(A * n) - A /\ A * n \in Nat
        BY <1>1, <4>3
      <4> QED BY <1>1, <4>1, <4>4 DEF Aq
    <3> QED BY <3>1, <3>2, <3>3
  <2> QED BY <1>1, <1>4, <1>7, <1>8, <2>2 DEF Wasm!Magnitude
<1> QED BY <1>5, <1>9 DEF s, A, as, m0

\* A signed number that was stored in a register and read again has changed
\* by a multiple of Top.
LEMMA StoredAndRead ==
  ASSUME NEW v \in Int
  PROVE  \E k \in Int : AsSigned(v % Top) = v + Top * k
<1> DEFINE t == Top  q == v \div t  r == v % t
<1>1. t \in Nat \ {0}
  BY HalfTop
<1>2. q \in Int /\ r \in 0 .. Top - 1 /\ v = t * q + r
  <2> HIDE DEF t
  <2>1. q \in Int /\ r \in 0 .. t - 1 /\ v = t * q + r
    BY <1>1, DivMod
  <2> QED BY <2>1 DEF t
<1>3. AsSigned(r) = r \/ AsSigned(r) = r + t * (-1)
  BY <1>2, SignedIs
<1> HIDE DEF q, r
<1>4. r = v + t * (-q) /\ r + t * (-1) = v + t * (-q - 1)
  <2> HIDE DEF t
  <2>1. t * (-q) = -(t * q) /\ t * (-q - 1) = -(t * q) - t /\ t * q \in Int /\ r \in Int
    BY <1>1, <1>2, HalfTop
  <2> QED BY <1>1, <1>2, <2>1
<1> QED BY <1>2, <1>3, <1>4 DEF r, t

LEMMA MinusOne ==
  ASSUME NEW n \in Nat \ {0}
  PROVE  (-1) % n = n - 1
<1> DEFINE u == -1  r == n - 1
<1>1. u = n * u + r /\ u \in Int /\ r \in 0 .. n - 1
  OBVIOUS
<1> HIDE DEF u, r
<1>2. u % n = r
  BY <1>1, DivModUnique
<1> QED BY <1>2 DEF u, r

LEMMA MultipleMod ==
  ASSUME NEW n \in Nat \ {0}, NEW k \in Int
  PROVE  (n * k) % n = 0
<1>1. (0 + n * k) % n = 0 % n
  BY ModShift
<1>2. 0 % n = 0
  BY ModSmall
<1>3. 0 + n * k = n * k
  OBVIOUS
<1> QED BY <1>1, <1>2, <1>3

\* Signed division of words of n values, in a register of Top, a multiple of n.
LEMMA SignedDivision ==
  ASSUME NEW d \in Nat \ {0}, NEW n \in Nat, n = 2 * d, NEW k \in Nat \ {0}, Top = n * k,
         NEW a \in Int, -d <= a, a < d, NEW b \in Int, -d <= b, b < d
  PROVE  LET overflow == a = -1 /\ b = -d
             q == IF a = 0 THEN Top - 1 ELSE IF overflow THEN b % Top
                  ELSE Wasm!Quotient(b, a) % Top
             r == IF a = 0 THEN b % Top ELSE IF overflow THEN 0
                  ELSE Wasm!Remainder(b, a) % Top
         IN Divides(n, b, a, AsSigned(q), AsSigned(r))
<1> DEFINE overflow == a = -1 /\ b = -d
           q == IF a = 0 THEN Top - 1 ELSE IF overflow THEN b % Top
                ELSE Wasm!Quotient(b, a) % Top
           r == IF a = 0 THEN b % Top ELSE IF overflow THEN 0
                ELSE Wasm!Remainder(b, a) % Top
<1>1. n \in Nat \ {0} /\ Top \in Nat /\ Top >= 256 /\ n <= Top
  <2>1. n * 1 <= n * k
    BY TimesMonotone
  <2> QED BY <2>1, HalfTop
<1>2. \A v \in Int : 2 * v < n /\ -n <= 2 * v => AsSigned(v % Top) = v
  <2> SUFFICES ASSUME NEW v \in Int, 2 * v < n, -n <= 2 * v PROVE AsSigned(v % Top) = v
    OBVIOUS
  <2>1. 2 * v < Top /\ -Top <= 2 * v
    BY <1>1
  <2> QED BY <2>1, SignedBack
<1>3. AsSigned(b % Top) = b
  BY <1>2
<1>4. CASE a = 0
  <2>1. AsSigned(Top - 1) = -1
    BY <1>1 DEF AsSigned
  <2>2. AsSigned(q) % n = n - 1 /\ AsSigned(r) = b
    BY <1>1, <1>3, <1>4, <2>1, MinusOne
  <2> QED BY <1>4, <2>2 DEF Divides
<1>5. CASE a # 0 /\ overflow
  <2>1. AsSigned(0) = 0
    BY <1>1 DEF AsSigned
  <2>2. AsSigned(q) = b /\ AsSigned(r) = 0
    BY <1>3, <1>5, <2>1
  <2>3. b * a + 0 - b = n * 1
    BY <1>5
  <2>4. (n * 1) % n = 0
    BY <1>1, MultipleMod
  <2>5. Wasm!Magnitude(0) < Wasm!Magnitude(a)
    BY <1>5 DEF Wasm!Magnitude
  <2> QED BY <1>5, <2>2, <2>3, <2>4, <2>5 DEF Divides
<1>6. CASE a # 0 /\ ~overflow
  <2> DEFINE s == Wasm!Quotient(b, a)  w == Wasm!Remainder(b, a)
  <2>1. /\ s \in Int /\ w \in Int /\ s * a + w = b
        /\ Wasm!Magnitude(w) < Wasm!Magnitude(a) /\ (w < 0 => b < 0) /\ (w > 0 => b > 0)
    BY <1>6, Truncates
  <2>2. q = s % Top /\ r = w % Top
    BY <1>6
  <2> HIDE DEF s, w, q, r
  <2>3. AsSigned(r) = w
    <3>1. 2 * w < n /\ -n <= 2 * w
      BY <2>1 DEF Wasm!Magnitude
    <3> QED BY <1>2, <2>1, <2>2, <3>1
  <2>4. PICK e \in Int : AsSigned(q) = s + Top * e
    BY <2>1, <2>2, StoredAndRead
  <2>5. AsSigned(q) * a + w - b = n * (k * (e * a))
    <3>1. (s + (n * k) * e) * a = s * a + n * (k * (e * a))
      BY <2>1
    <3> DEFINE sa == s * a  z == n * (k * (e * a))
    <3>2. sa \in Int /\ z \in Int /\ AsSigned(q) * a = sa + z /\ sa + w = b
      BY <2>1, <2>4, <3>1
    <3> HIDE DEF sa, z
    <3>3. AsSigned(q) * a + w - b = z
      BY <2>1, <3>2
    <3> QED BY <3>3 DEF z
  <2>6. k * (e * a) \in Int
    OBVIOUS
  <2>7. (n * (k * (e * a))) % n = 0
    BY <1>1, <2>6, MultipleMod
  <2>8. Divides(n, b, a, AsSigned(q), AsSigned(r))
    BY <1>6, <2>1, <2>3, <2>5, <2>7 DEF Divides
  <2> QED BY <2>8 DEF q, r
<1> QED BY <1>4, <1>5, <1>6

LEMMA UnsignedDivision ==
  ASSUME NEW n \in Nat \ {0}, NEW a \in Nat, NEW b \in Nat
  PROVE  Divides(n, b, a, IF a = 0 THEN n - 1 ELSE b \div a, IF a = 0 THEN b ELSE b % a)
<1>1. CASE a = 0
  <2>1. (n - 1) % n = n - 1
    BY ModSmall
  <2> QED BY <1>1, <2>1 DEF Divides
<1>2. CASE a # 0
  <2> DEFINE q == b \div a  r == b % a
  <2>1. q \in Int /\ r \in 0 .. a - 1 /\ b = a * q + r
    BY <1>2, DivMod
  <2> HIDE DEF q, r
  <2>2. q * a + r - b = 0
    BY <1>2, <2>1
  <2>3. 0 % n = 0
    BY ModSmall
  <2>4. Wasm!Magnitude(r) < Wasm!Magnitude(a) /\ (r > 0 => b > 0)
    <3>1. b = 0 => r = 0
      <4>1. 0 % a = 0
        BY <1>2, ModSmall
      <4> QED BY <4>1 DEF r
    <3> QED BY <1>2, <2>1, <3>1 DEF Wasm!Magnitude
  <2>5. Divides(n, b, a, q, r)
    BY <1>2, <2>1, <2>2, <2>3, <2>4 DEF Divides
  <2> QED BY <1>2, <2>5 DEF q, r
<1> QED BY <1>1, <1>2

\* Words of half a register: those with a sign, and those that a register is
\* filled with (SignExtend).
WordOf(v) == IF 2 * (v % Half) < Half THEN v % Half ELSE (v % Half) - Half

LEMMA HalfSign ==
  \E d \in Nat \ {0} : Half = 2 * d /\ 2 ^ (Wasm!W32 - 1) = d
<1>1. 4 * BYTE - 1 \in Nat /\ 4 * BYTE = (4 * BYTE - 1) + 1
  BY ComputationAssumption
<1>2. Half = 2 ^ (4 * BYTE - 1) * 2 ^ 1
  <2>1. 2 ^ ((4 * BYTE - 1) + 1) = 2 ^ (4 * BYTE - 1) * 2 ^ 1
    BY <1>1, PowerAdds
  <2> QED BY <1>1, <2>1 DEF Half
<1>3. 2 ^ 1 = 2
  OBVIOUS
<1> DEFINE d == 2 ^ (4 * BYTE - 1)
<1>4. d \in Nat \ {0} /\ Half = 2 * d
  BY <1>1, <1>2, <1>3, PowerFacts
<1>5. Wasm!W32 - 1 = 4 * BYTE - 1
  BY WasmWords
<1> HIDE DEF d
<1> QED BY <1>4, <1>5 DEF d

LEMMA WordIs ==
  ASSUME NEW v \in Int
  PROVE  /\ Wasm!Signed(v, Wasm!W32) = WordOf(v) /\ WordOf(v) \in Int
         /\ -Half <= 2 * WordOf(v) /\ 2 * WordOf(v) < Half
         /\ (WordOf(v) = 0 <=> v % Half = 0)
         /\ v % Half \in 0 .. Half - 1
<1>1. PICK d \in Nat \ {0} : Half = 2 * d /\ 2 ^ (Wasm!W32 - 1) = d
  BY HalfSign
<1> DEFINE h == Half  l == v % h
<1>2. l \in 0 .. h - 1
  <2>1. h \in Nat \ {0}
    BY <1>1
  <2> HIDE DEF h
  <2> QED BY <2>1, DivMod
<1>3. 2 ^ Wasm!W32 = Half
  BY WasmWords DEF Half
<1>4. Wasm!Signed(v, Wasm!W32) = IF l < d THEN l ELSE l - h
  BY <1>1, <1>3 DEF Wasm!Signed
<1>5. WordOf(v) = IF 2 * l < h THEN l ELSE l - h
  BY DEF WordOf
<1>6. h = 2 * d
  BY <1>1
<1> HIDE DEF l
<1>7. IF l < d THEN 2 * l < h ELSE 2 * l >= h
  BY <1>2, <1>6
<1> QED BY <1>1, <1>2, <1>4, <1>5, <1>7 DEF l

LEMMA ExtendedIs ==
  ASSUME NEW v \in 0 .. Half - 1
  PROVE  Wasm!Extended(v) % Half = v
<1> DEFINE h == Half  w == WordOf(v)
<1>1. h \in Nat \ {0} /\ Top = h * h /\ v \in Int
  BY HalfTop
<1>2. Wasm!Extended(v) = w % Top
  BY <1>1, WordIs, WasmWords DEF Wasm!Extended, Wasm!SignExtend
<1>3. v % h = v
  BY <1>1, ModSmall
<1>4. w = v \/ w = v + h * (-1)
  <2>1. v - h = v + h * (-1)
    BY <1>1
  <2> QED BY <1>3, <2>1 DEF WordOf
<1>5. w \in Int /\ w % h = v
  <2>1. (v + h * (-1)) % h = v % h
    BY <1>1, ModShift
  <2> QED BY <1>1, <1>3, <1>4, <2>1
<1> HIDE DEF h, w
<1> DEFINE t == h * h  q == w \div t  r == w % t
<1>6. t \in Nat \ {0}
  BY <1>1, HalfTop
<1>7. q \in Int /\ r \in Int /\ w = t * q + r
  <2> HIDE DEF t
  <2> QED BY <1>5, <1>6, DivMod
<1> HIDE DEF q, r
<1>8. w = r + h * (h * q) /\ h * q \in Int
  BY <1>1, <1>7
<1>9. (r + h * (h * q)) % h = r % h
  BY <1>1, <1>7, <1>8, ModShift
<1>10. r % h = v
  BY <1>5, <1>8, <1>9
<1> QED BY <1>1, <1>2, <1>10 DEF h, r


LEMMA Divisions64 ==
  ASSUME x \in 0 .. Top - 1, y \in 0 .. Top - 1
  PROVE  /\ Divides(Top, x, y, Reg("div_u"), Reg("rem_u"))
         /\ Divides(Top, AsSigned(x), AsSigned(y), AsSigned(Reg("div_s")), AsSigned(Reg("rem_s")))
<1> DEFINE a == AsSigned(y)  b == AsSigned(x)
<1>1. PICK d \in Nat : d >= 128 /\ Top = 2 * d /\ 2 ^ (Wasm!W64 - 1) = d
  BY SignBit
<1> DEFINE overflow == a = -1 /\ b = -d
           q == IF a = 0 THEN Top - 1 ELSE IF overflow THEN b % Top ELSE Wasm!Quotient(b, a) % Top
           r == IF a = 0 THEN b % Top ELSE IF overflow THEN 0 ELSE Wasm!Remainder(b, a) % Top
<1>2. /\ Wasm!Signed(y, Wasm!W64) = a /\ a \in Int /\ 2 * a < Top /\ -Top <= 2 * a
      /\ Wasm!Signed(x, Wasm!W64) = b /\ b \in Int /\ 2 * b < Top /\ -Top <= 2 * b
  BY SignedIs
<1>3. Wasm!MAX = Top - 1
  BY WasmWords DEF Wasm!MAX, Top
<1> HIDE DEF a, b
<1>4. Reg("div_u") = (IF y = 0 THEN Top - 1 ELSE x \div y)
      /\ Reg("rem_u") = (IF y = 0 THEN x ELSE x % y)
  <2>1. Reg("div_u") = Wasm!Math64("div_u", y, x) /\ Reg("rem_u") = Wasm!Math64("rem_u", y, x)
    BY RegIs DEF Wasm!Math64Ops
  <2> QED BY <1>3, <2>1 DEF Wasm!Math64
<1>5. Reg("div_s") = q /\ Reg("rem_s") = r
  <2>1. Reg("div_s") = Wasm!Math64("div_s", y, x) /\ Reg("rem_s") = Wasm!Math64("rem_s", y, x)
    BY RegIs DEF Wasm!Math64Ops
  <2> QED BY <1>1, <1>2, <1>3, <2>1, WasmWords DEF Wasm!Math64
<1>6. Divides(Top, x, y, Reg("div_u"), Reg("rem_u"))
  <2>1. x \in Nat /\ y \in Nat /\ Top \in Nat \ {0}
    BY HalfTop
  <2> QED BY <1>4, <2>1, UnsignedDivision
<1>7. Divides(Top, b, a, AsSigned(q), AsSigned(r))
  <2>1. d \in Nat \ {0} /\ Top \in Nat /\ 1 \in Nat \ {0} /\ Top = Top * 1
        /\ -d <= a /\ a < d /\ -d <= b /\ b < d
    BY <1>1, <1>2
  <2> QED BY <1>1, <1>2, <2>1, SignedDivision
<1> QED BY <1>5, <1>6, <1>7 DEF a, b

LEMMA Divisions32 ==
  ASSUME x \in 0 .. Top - 1, y \in 0 .. Top - 1
  PROVE  /\ Divides(Half, x % Half, y % Half, Reg("div_u_32") % Half, Reg("rem_u_32") % Half)
         /\ Divides(Half, WordOf(x), WordOf(y), AsSigned(Reg("div_s_32")), AsSigned(Reg("rem_s_32")))
         /\ y % Half = 0 => Reg("div_u_32") = Top - 1 /\ Reg("div_s_32") = Top - 1
<1> DEFINE a == WordOf(y)  b == WordOf(x)  c == y % Half  e == x % Half
<1>1. PICK d \in Nat \ {0} : Half = 2 * d /\ 2 ^ (Wasm!W32 - 1) = d
  BY HalfSign
<1> DEFINE overflow == a = -1 /\ b = -d
           q == IF a = 0 THEN Top - 1 ELSE IF overflow THEN b % Top ELSE Wasm!Quotient(b, a) % Top
           r == IF a = 0 THEN b % Top ELSE IF overflow THEN 0 ELSE Wasm!Remainder(b, a) % Top
           u == IF c = 0 THEN Top - 1 ELSE Wasm!Extended(e \div c)
           w == IF c = 0 THEN Wasm!Extended(e) ELSE Wasm!Extended(e % c)
<1>2. /\ Wasm!Signed(y, Wasm!W32) = a /\ a \in Int /\ 2 * a < Half /\ -Half <= 2 * a
      /\ Wasm!Signed(x, Wasm!W32) = b /\ b \in Int /\ 2 * b < Half /\ -Half <= 2 * b
      /\ c \in 0 .. Half - 1 /\ e \in 0 .. Half - 1 /\ (a = 0 <=> c = 0)
  BY WordIs, HalfTop
<1>3. Wasm!MAX = Top - 1 /\ Wasm!AsU32(y) = c /\ Wasm!AsU32(x) = e
  BY WasmWords DEF Wasm!MAX, Top
<1> HIDE DEF a, b, c, e
<1>4. Reg("div_u_32") = u /\ Reg("rem_u_32") = w
  <2>1. Reg("div_u_32") = Wasm!Math32("div_u_32", y, x)
        /\ Reg("rem_u_32") = Wasm!Math32("rem_u_32", y, x)
    BY RegIs DEF Wasm!Math32Ops
  <2> QED BY <1>3, <2>1 DEF Wasm!Math32
<1>5. Reg("div_s_32") = q /\ Reg("rem_s_32") = r
  <2>1. Reg("div_s_32") = Wasm!Math32("div_s_32", y, x)
        /\ Reg("rem_s_32") = Wasm!Math32("rem_s_32", y, x)
    BY RegIs DEF Wasm!Math32Ops
  <2> QED BY <1>1, <1>2, <1>3, <2>1, WasmWords DEF Wasm!Math32
<1>6. Half \in Nat \ {0} /\ Half >= 16 /\ Top = Half * Half /\ Top \in Nat
  BY HalfTop
<1>7. u % Half = (IF c = 0 THEN Half - 1 ELSE e \div c) /\ w % Half = IF c = 0 THEN e ELSE e % c
  <2>1. CASE c = 0
    <3> DEFINE h == Half
    <3>1. h * h - 1 = (h - 1) + h * (h - 1) /\ h - 1 \in 0 .. h - 1
      BY <1>6
    <3>2. ((h - 1) + h * (h - 1)) % h = h - 1
      <4> DEFINE g == h - 1
      <4>1. h \in Nat \ {0} /\ g \in Int /\ g \in 0 .. h - 1
        BY <1>6
      <4> HIDE DEF h, g
      <4>2. (g + h * g) % h = g % h /\ g % h = g
        BY <4>1, ModShift, ModSmall
      <4> QED BY <4>2 DEF g
    <3> QED BY <1>2, <1>6, <2>1, <3>1, <3>2, ExtendedIs
  <2>2. CASE c # 0
    <3> DEFINE q0 == e \div c  r0 == e % c
    <3>1. q0 \in Int /\ r0 \in 0 .. c - 1 /\ e = c * q0 + r0
      BY <1>2, <1>6, <2>2, DivMod
    <3>2. q0 \in 0 .. Half - 1
      <4>1. e \in 0 .. Half * c - 1
        <5>1. Half * 1 <= Half * c
          BY <1>2, <1>6, <2>2, TimesMonotone
        <5> QED BY <1>2, <1>6, <5>1
      <4>2. c \in Nat \ {0}
        BY <1>2, <1>6, <2>2
      <4> QED BY <1>6, <4>1, <4>2, DivModRange
    <3>3. r0 \in 0 .. Half - 1
      BY <1>2, <1>6, <3>1
    <3> HIDE DEF q0, r0
    <3>4. Wasm!Extended(q0) % Half = q0 /\ Wasm!Extended(r0) % Half = r0
      BY <3>2, <3>3, ExtendedIs
    <3> QED BY <2>2, <3>4 DEF q0, r0
  <2> QED BY <2>1, <2>2
<1>8. Divides(Half, e, c, u % Half, w % Half)
  <2>1. e \in Nat /\ c \in Nat
    BY <1>2, <1>6
  <2> QED BY <1>6, <1>7, <2>1, UnsignedDivision
<1>9. Divides(Half, b, a, AsSigned(q), AsSigned(r))
  <2>1. -d <= a /\ a < d /\ -d <= b /\ b < d
    BY <1>1, <1>2
  <2> QED BY <1>1, <1>2, <1>6, <2>1, SignedDivision
<1>10. c = 0 => u = Top - 1 /\ q = Top - 1
  BY <1>2
<1> HIDE DEF q, r, u, w
<1> QED BY <1>4, <1>5, <1>8, <1>9, <1>10 DEF a, b, c, e

LEMMA DivisionsAreExact == ASSUME OperandsOK PROVE DivisionExact
<1> SUFFICES ASSUME Loaded PROVE DivisionExact
  BY DEF DivisionExact
<1>1. x \in 0 .. Top - 1 /\ y \in 0 .. Top - 1
  BY Contents
<1>2. /\ Divides(Top, x, y, Reg("div_u"), Reg("rem_u"))
      /\ Divides(Top, AsSigned(x), AsSigned(y), AsSigned(Reg("div_s")), AsSigned(Reg("rem_s")))
  BY <1>1, Divisions64
<1>3. /\ Divides(Half, x % Half, y % Half, Reg("div_u_32") % Half, Reg("rem_u_32") % Half)
      /\ Divides(Half, WordOf(x), WordOf(y), AsSigned(Reg("div_s_32")), AsSigned(Reg("rem_s_32")))
      /\ y % Half = 0 => Reg("div_u_32") = Top - 1 /\ Reg("div_s_32") = Top - 1
  BY <1>1, Divisions32
<1> QED BY <1>2, <1>3 DEF DivisionExact, Divides, WordOf

\* Quotients and remainders, signed and unsigned, of whole registers and of
\* their lower halves, belong together, whatever the registers hold: also for
\* the divisor 0 and the one quotient that overflows (math.ts:76-215).
THEOREM DivisionExactTheorem == Spec => []DivisionExact
BY OperandsInvariant, DivisionsAreExact, PTL

-----------------------------------------------------------------------------
(* Immediates.                                                             *)

\* Only what is left modulo n of an operand counts modulo n.
LEMMA ModSum ==
  ASSUME NEW n \in Nat \ {0}, NEW a \in Int, NEW b \in Int
  PROVE  /\ a % n \in 0 .. n - 1 /\ (a % n) % n = a % n
         /\ ((a % n) + b) % n = (a + b) % n /\ (b - (a % n)) % n = (b - a) % n
         /\ ((a % n) * b) % n = (a * b) % n
<1> DEFINE q == a \div n  r == a % n
<1>1. q \in Int /\ r \in 0 .. n - 1 /\ a = n * q + r
  BY DivMod
<1> HIDE DEF q, r
<1>2. r % n = r
  BY <1>1, ModSmall
<1>3. ((r + b) + n * q) % n = (r + b) % n
  <2> DEFINE c == r + b
  <2>1. c \in Int
    BY <1>1
  <2> HIDE DEF c
  <2>2. (c + n * q) % n = c % n
    BY <1>1, <2>1, ModShift
  <2> QED BY <2>2 DEF c
<1>4. ((b - a) + n * q) % n = (b - a) % n
  <2> DEFINE c == b - a
  <2>1. c \in Int
    OBVIOUS
  <2> HIDE DEF c
  <2>2. (c + n * q) % n = c % n
    BY <1>1, <2>1, ModShift
  <2> QED BY <2>2 DEF c
<1>5. ((r * b) + n * (q * b)) % n = (r * b) % n
  <2> DEFINE rb == r * b  qb == q * b
  <2>1. rb \in Int /\ qb \in Int
    BY <1>1
  <2> HIDE DEF rb, qb
  <2>2. (rb + n * qb) % n = rb % n
    BY <2>1, ModShift
  <2> QED BY <2>2 DEF rb, qb
<1>6. (r + b) + n * q = a + b /\ (b - a) + n * q = b - r /\ (r * b) + n * (q * b) = a * b
  <2>1. (n * q + r) * b = r * b + n * (q * b)
    BY <1>1
  <2> QED BY <1>1, <2>1
<1>7. (r + b) % n = (a + b) % n /\ (b - r) % n = (b - a) % n /\ (r * b) % n = (a * b) % n
  BY <1>3, <1>4, <1>5, <1>6
<1> QED BY <1>1, <1>2, <1>7 DEF r

\* The low half of a register.
LEMMA LowOfRegister ==
  ASSUME NEW v \in Int
  PROVE  (v % Top) % Half = v % Half /\ WordOf(v % Top) = WordOf(v) /\ WordOf(v % Half) = WordOf(v)
<1> DEFINE h == Half  t == Top  q == v \div t  r == v % t
<1>1. h \in Nat \ {0} /\ t = h * h /\ t \in Nat \ {0}
  BY HalfTop
<1>2. q \in Int /\ r \in Int /\ v = t * q + r
  <2>1. t \in Nat \ {0}
    BY <1>1
  <2> HIDE DEF t
  <2>2. q \in Int /\ r \in 0 .. t - 1 /\ v = t * q + r
    BY <2>1, DivMod
  <2> QED BY <2>1, <2>2
<1> HIDE DEF q, r, h, t
<1>3. h * q \in Int /\ v = r + h * (h * q)
  BY <1>1, <1>2
<1>4. (r + h * (h * q)) % h = r % h
  BY <1>1, <1>2, <1>3, ModShift
<1>5. r % h = v % h
  BY <1>3, <1>4
<1>6. (v % h) % h = v % h
  BY <1>1, ModSum
<1> QED BY <1>5, <1>6 DEF WordOf, h, r, t

\* What an instruction of 32 bits stores.
LEMMA ExtendedWord ==
  ASSUME NEW v \in Int
  PROVE  /\ Wasm!Extended(v) = WordOf(v) % Top /\ Wasm!Extended(v) \in 0 .. Top - 1
         /\ Wasm!Extended(v) % Half = v % Half /\ Wasm!SignExtend(v, Wasm!W32) = WordOf(v)
         /\ Wasm!AsU32(v) \in 0 .. Half - 1
         /\ Wasm!Extended(Wasm!AsU64(v)) = Wasm!Extended(v)
         /\ Wasm!Extended(Wasm!AsU32(v)) = Wasm!Extended(v)
<1>1. Top \in Nat \ {0} /\ Half \in Nat \ {0} /\ v % Half \in Int
  BY HalfTop, ModSum
<1>2. /\ WordOf(v) \in Int /\ Wasm!SignExtend(v, Wasm!W32) = WordOf(v)
      /\ Wasm!Extended(v) = WordOf(v) % Top
  BY WordIs, WasmWords DEF Wasm!Extended, Wasm!SignExtend
<1>3. WordOf(v) % Top \in 0 .. Top - 1
  BY <1>1, <1>2, ModSum
<1>4. v % Half \in 0 .. Half - 1 /\ v % Top \in Int
  BY <1>1, ModSum
<1>5. WordOf(v % Top) = WordOf(v) /\ WordOf(v % Half) = WordOf(v)
  BY LowOfRegister
<1>6. /\ Wasm!Extended(v % Top) = WordOf(v % Top) % Top /\ Wasm!Extended(v % Half) = WordOf(v % Half) % Top
  BY <1>4, WordIs, WasmWords DEF Wasm!Extended, Wasm!SignExtend
<1>7. Wasm!Extended(v) % Half = v % Half
  <2>1. Wasm!Extended(v % Half) % Half = v % Half
    BY <1>4, ExtendedIs
  <2> QED BY <1>2, <1>5, <1>6, <2>1
<1> QED BY <1>2, <1>3, <1>4, <1>5, <1>6, <1>7, WasmWords

\* An immediate, loaded and as the signed number it is.
LEMMA LoadedIs ==
  ASSUME NEW c \in 0 .. Half - 1
  PROVE  LET v == Wasm!LoadImm(c)
         IN /\ v = Wasm!Extended(c) /\ v \in 0 .. Top - 1 /\ v % Half = c /\ v = WordOf(c) % Top
            /\ WordOf(v) = WordOf(c) /\ AsSigned(v) = WordOf(c) /\ WordOf(c) \in Int
            /\ -Half <= 2 * WordOf(c) /\ 2 * WordOf(c) < Half
            /\ c % Half = c /\ c % Top = c
<1>1. Half \in Nat /\ Half >= 16 /\ Top \in Nat /\ Half <= Top
  <2>1. Half \in Nat /\ Half >= 16 /\ Top = Half * Half /\ Top \in Nat
    BY HalfTop
  <2>2. Half * 1 <= Half * Half
    BY <2>1, TimesMonotone
  <2> QED BY <2>1, <2>2
<1>2. c % Half = c /\ c % Top = c /\ c \in Int
  BY <1>1, ModSmall
<1> DEFINE w == WordOf(c)
<1>3. w \in Int /\ -Half <= 2 * w /\ 2 * w < Half
  BY <1>2, WordIs
<1>4. Wasm!Extended(c) = w % Top /\ Wasm!Extended(c) \in 0 .. Top - 1 /\ Wasm!Extended(c) % Half = c
  BY <1>2, ExtendedWord
<1>5. WordOf(Wasm!Extended(c)) = w
  BY <1>2, <1>4 DEF WordOf
<1>6. AsSigned(w % Top) = w
  <2> HIDE DEF w
  <2>1. 2 * w < Top /\ -Top <= 2 * w
    BY <1>1, <1>3
  <2> QED BY <1>3, <2>1, SignedBack
<1> QED BY <1>2, <1>3, <1>4, <1>5, <1>6 DEF Wasm!LoadImm

\* A byte has a power of two of bits, so that a register has the same remainder
\* by the number of its bits, whatever its upper half.
LEMMA Widths ==
  /\ Wasm!W32 \in Nat \ {0} /\ Wasm!W64 \in Nat \ {0} /\ Wasm!W32 < Half /\ Wasm!W64 < Half
  /\ \E k \in Nat : Half = Wasm!W32 * k
  /\ \E k \in Nat : Half = Wasm!W64 * k
<1>1. BYTE \in Nat \ {0}
  BY ComputationAssumption
<1>2. PICK k \in 0 .. BYTE : BYTE = 2 ^ k
  BY ComputationAssumption
<1>3. Wasm!W32 = 4 * BYTE /\ Wasm!W64 = 8 * BYTE
  BY WasmWords
<1> DEFINE e == 4 * BYTE - k - 3  p == 2 ^ e
<1>4. e \in Nat /\ k + 3 \in Nat /\ k \in Nat /\ 4 * BYTE = (k + 3) + e
  BY <1>1, <1>2
<1>5. 2 ^ (k + 3) = 8 * BYTE
  <2>1. 2 ^ (k + 3) = 2 ^ k * 2 ^ 3
    BY <1>4, PowerAdds
  <2>2. 2 ^ 3 = 8
    OBVIOUS
  <2>3. BYTE * 8 = 8 * BYTE
    BY <1>1
  <2> QED BY <1>2, <2>1, <2>2, <2>3
<1>6. Half = (8 * BYTE) * p /\ p \in Nat \ {0}
  <2> HIDE DEF e
  <2>1. 2 ^ ((k + 3) + e) = 2 ^ (k + 3) * 2 ^ e
    BY <1>4, PowerAdds
  <2>2. 2 ^ e \in Nat \ {0}
    BY <1>4, PowerFacts
  <2>3. Half = 2 ^ ((k + 3) + e)
    BY <1>4 DEF Half
  <2> QED BY <1>5, <2>1, <2>2, <2>3
<1> HIDE DEF p
<1>7. Half = (4 * BYTE) * (2 * p) /\ 2 * p \in Nat
  <2>1. (8 * BYTE) * p = (4 * BYTE) * (2 * p)
    BY <1>1, <1>6
  <2> QED BY <1>6, <2>1
<1>8. 8 * BYTE < Half
  <2> DEFINE B == 4 * BYTE
  <2>1. B \in Nat /\ B >= 4 /\ 8 * BYTE = 2 * B
    BY <1>1
  <2>2. \A n \in Nat : n >= 4 => 2 * n < 2 ^ n
    <3> DEFINE bad == {n \in Nat : n >= 4 /\ ~(2 * n < 2 ^ n)}
    <3> SUFFICES ASSUME bad # {} PROVE FALSE
      <4>1. ASSUME NEW n \in Nat, n >= 4, bad = {} PROVE 2 * n < 2 ^ n
        BY <4>1
      <4> QED BY <4>1
    <3>1. PICK n \in bad : \A j \in bad : n <= j
      <4>1. bad \subseteq Nat
        OBVIOUS
      <4> HIDE DEF bad
      <4> QED BY <4>1, LeastElement
    <3>2. n \in Nat /\ n >= 4 /\ ~(2 * n < 2 ^ n)
      BY <3>1
    <3>3. n # 4
      <4>1. 2 * 4 < 2 ^ 4
        OBVIOUS
      <4> QED BY <3>2, <4>1
    <3>4. n - 1 \in Nat /\ n - 1 >= 4 /\ ~(n <= n - 1)
      BY <3>2, <3>3
    <3>5. 2 * (n - 1) < 2 ^ (n - 1)
      <4>1. n - 1 \notin bad
        <5> HIDE DEF bad
        <5> QED BY <3>1, <3>4
      <4> QED BY <3>4, <4>1
    <3>6. 2 ^ n = 2 ^ (n - 1) * 2 /\ 2 ^ (n - 1) \in Nat
      <4> HIDE DEF bad
      <4>1. 2 ^ ((n - 1) + 1) = 2 ^ (n - 1) * 2 ^ 1
        BY <3>4, PowerAdds
      <4>2. (n - 1) + 1 = n
        BY <3>2
      <4>3. 2 ^ 1 = 2
        OBVIOUS
      <4> QED BY <3>4, <4>1, <4>2, <4>3, PowerFacts
    <3> DEFINE a == 2 ^ (n - 1)  b == 2 ^ n
    <3>7. b = a * 2 /\ a \in Nat /\ 2 * (n - 1) < a /\ ~(2 * n < b)
      BY <3>2, <3>5, <3>6
    <3> HIDE DEF a, b
    <3> QED BY <3>2, <3>7
  <2> HIDE DEF B
  <2>3. 2 * B < 2 ^ B
    BY <2>1, <2>2
  <2> QED BY <2>1, <2>3 DEF B, Half
<1>9. 4 * BYTE < Half /\ 4 * BYTE \in Nat \ {0} /\ 8 * BYTE \in Nat \ {0}
  <2>1. Half \in Nat
    BY HalfTop
  <2> QED BY <1>1, <1>8, <2>1
<1> QED BY <1>3, <1>6, <1>7, <1>8, <1>9

LEMMA SameWord ==
  ASSUME NEW a \in Int, NEW b \in Int, a % Half = b % Half
  PROVE  /\ Wasm!Extended(a) = Wasm!Extended(b) /\ WordOf(a) = WordOf(b)
         /\ Wasm!Extended(Wasm!AsU64(a)) = Wasm!Extended(Wasm!AsU64(b))
<1>1. WordOf(a) = WordOf(b)
  BY DEF WordOf
<1> QED BY <1>1, ExtendedWord

LEMMA WordBack ==
  ASSUME NEW u \in Int, 2 * u < Half, -Half <= 2 * u
  PROVE  WordOf(u) = u
<1> DEFINE h == Half
<1>1. h \in Nat \ {0}
  BY HalfTop
<1>2. CASE u >= 0
  <2>1. u % h = u
    BY <1>1, <1>2, ModSmall
  <2> QED BY <2>1 DEF WordOf
<1>3. CASE u < 0
  <2> DEFINE w == u + h * 1
  <2>1. w \in 0 .. h - 1 /\ w = u + h
    BY <1>1, <1>3
  <2>2. w % h = u % h /\ w % h = w
    BY <1>1, <2>1, ModShift, ModSmall
  <2> QED BY <1>1, <1>3, <2>1, <2>2 DEF WordOf
<1> QED BY <1>2, <1>3

\* A shift to the right stays among the words.
LEMMA ShrRange ==
  ASSUME NEW u \in Int, 2 * u < Half, -Half <= 2 * u, NEW s \in Nat
  PROVE  LET q == Wasm!Shr(u, s) IN q \in Int /\ 2 * q < Half /\ -Half <= 2 * q
<1> DEFINE p == 2 ^ s  q == u \div p  r == u % p  h == Half
<1>1. p \in Nat \ {0} /\ h \in Nat \ {0}
  BY PowerFacts, HalfTop
<1> HIDE DEF p
<1>2. q \in Int /\ r \in 0 .. p - 1 /\ u = p * q + r
  BY <1>1, DivMod
<1> HIDE DEF q, r, h
<1>3. CASE q >= 0
  <2>1. q * 1 <= q * p
    BY <1>1, <1>2, <1>3, TimesMonotone
  <2>2. q * 1 = q /\ q * p = p * q /\ p * q \in Int
    BY <1>1, <1>2
  <2> DEFINE pq == p * q
  <2>3. q <= pq /\ u = pq + r /\ pq \in Int
    BY <1>2, <2>1, <2>2
  <2> HIDE DEF pq
  <2> QED BY <1>1, <1>2, <1>3, <2>3 DEF h, q, p, Wasm!Shr
<1>4. CASE q < 0
  <2> DEFINE k == -q - 1  pk == p * k  pq == p * q
  <2>1. k \in Nat /\ q = -k - 1
    BY <1>2, <1>4
  <2> HIDE DEF k
  <2>2. k * 1 <= k * p
    BY <1>1, <2>1, TimesMonotone
  <2>3. k * 1 = k /\ k * p = pk /\ pk \in Int
    BY <1>1, <2>1
  <2>4. pq = -pk - p
    BY <1>1, <2>1
  <2>5. u = pq + r
    BY <1>2
  <2> HIDE DEF pk, pq
  <2>6. u = (r - p) - pk /\ k <= pk
    BY <1>1, <1>2, <2>2, <2>3, <2>4, <2>5
  <2>7. -Half <= 2 * q /\ q \in Int /\ 2 * q < Half
    BY <1>1, <1>2, <1>4, <2>1, <2>3, <2>6 DEF h
  <2> QED BY <2>7 DEF q, p, Wasm!Shr
<1> QED BY <1>2, <1>3, <1>4

\* The amount of a shift by an immediate is that of one by a register.
LEMMA AmountIs ==
  ASSUME NEW c \in 0 .. Half - 1, NEW n \in {Wasm!W32, Wasm!W64}
  PROVE  /\ Wasm!ArgShift(c, n) = c % n /\ Wasm!LoadImm(c) % n = c % n
         /\ c % n \in 0 .. n - 1 /\ (c % n) % n = c % n
<1>1. n \in Nat \ {0} /\ n < Half /\ \E k \in Nat : Half = n * k
  BY Widths
<1>2. Half \in Nat /\ c \in Nat
  BY HalfTop
<1> DEFINE q == c \div n  r == c % n
<1>3. q \in Int /\ r \in 0 .. n - 1 /\ c = n * q + r /\ r % n = r
  <2>1. c \in Int
    BY <1>2
  <2> QED BY <1>1, <2>1, DivMod, ModSum
<1>4. Wasm!Quotient(c, n) = q
  <2>1. ~(c < 0) /\ ~(n < 0)
    BY <1>1, <1>2
  <2>2. Wasm!Magnitude(c) = c /\ Wasm!Magnitude(n) = n
    BY <2>1 DEF Wasm!Magnitude
  <2>3. (c < 0) = (n < 0)
    BY <2>1
  <2> QED BY <2>2, <2>3 DEF Wasm!Quotient
<1> HIDE DEF q, r
<1>5. Wasm!Remainder(c, n) = r
  BY <1>1, <1>3, <1>4 DEF Wasm!Remainder
<1>6. r % Half = r
  <2>1. r \in 0 .. Half - 1 /\ Half \in Nat \ {0}
    BY <1>1, <1>2, <1>3
  <2> QED BY <2>1, ModSmall
<1>7. Wasm!ArgShift(c, n) = r
  BY <1>5, <1>6, WasmWords DEF Wasm!ArgShift, Wasm!Arg
<1>8. Wasm!LoadImm(c) % n = r
  <2> DEFINE v == Wasm!LoadImm(c)  m0 == v \div Half
  <2>1. v \in Nat /\ v % Half = c
    BY LoadedIs, HalfTop
  <2> HIDE DEF v
  <2>2. m0 \in Int /\ v = Half * m0 + c
    <3>1. Half \in Nat \ {0} /\ v \in Int
      BY <1>1, <1>2, <2>1
    <3> QED BY <2>1, <3>1, DivMod
  <2> HIDE DEF m0
  <2>3. PICK k \in Nat : Half = n * k
    BY <1>1
  <2>4. v = c + n * (k * m0) /\ k * m0 \in Int
    <3>1. (n * k) * m0 = n * (k * m0) /\ k * m0 \in Int /\ (n * k) * m0 \in Int
      BY <1>1, <2>2, <2>3
    <3> DEFINE z == (n * k) * m0
    <3>2. z \in Int /\ v = z + c
      BY <2>2, <2>3, <3>1
    <3> HIDE DEF z
    <3>3. v = c + z
      BY <1>2, <3>2
    <3> QED BY <3>1, <3>3 DEF z
  <2> DEFINE z == k * m0
  <2>5. z \in Int /\ v = c + n * z
    BY <2>4
  <2> HIDE DEF z
  <2>6. (c + n * z) % n = c % n
    <3>1. n \in Nat \ {0} /\ c \in Int /\ z \in Int
      BY <1>1, <1>2, <2>5
    <3> QED BY <3>1, ModShift
  <2> QED BY <2>5, <2>6 DEF v, r
<1> QED BY <1>3, <1>7, <1>8 DEF r

-----------------------------------------------------------------------------
(* Numbers bit by bit.                                                     *)

LEMMA BitIs ==
  ASSUME NEW u \in Int, NEW i \in Nat
  PROVE  /\ Wasm!Bit(u, i) = (u \div 2 ^ i) % 2 /\ Wasm!Bit(u, i) \in {0, 1}
         /\ u \div 2 ^ i \in Int /\ 2 ^ i \in Nat \ {0} /\ 2 ^ (i + 1) = 2 ^ i * 2
<1>1. 2 ^ i \in Nat \ {0}
  BY PowerFacts
<1> DEFINE p == 2 ^ i  q == u \div p
<1>2. q \in Int
  <2> HIDE DEF p
  <2> QED BY <1>1, DivMod DEF p
<1>3. 2 ^ (i + 1) = p * 2
  <2>1. 2 ^ (i + 1) = 2 ^ i * 2 ^ 1
    BY PowerAdds
  <2>2. 2 ^ 1 = 2
    OBVIOUS
  <2> QED BY <2>1, <2>2
<1> HIDE DEF q
<1>4. q % 2 \in {0, 1}
  BY <1>2
<1> QED BY <1>1, <1>2, <1>3, <1>4 DEF Wasm!Bit, q, p

LEMMA AndBits ==
  ASSUME NEW n \in Nat, NEW u \in Int, NEW v \in Int
  PROVE  /\ Wasm!And(n, u, v) \in 0 .. 2 ^ n - 1
         /\ \A i \in 0 .. n - 1 : Wasm!Bit(Wasm!And(n, u, v), i) = Wasm!Bit(u, i) * Wasm!Bit(v, i)
<1> DEFINE one(i) == Wasm!Bit(u, i) * Wasm!Bit(v, i)
           Body(g) == [i \in 0 .. n |-> IF i = n THEN 0 ELSE one(i) * 2 ^ i + g[i + 1]]
           sum == CHOOSE g : g = Body(g)
           b == [i \in 0 .. n - 1 |-> one(i)]
<1>1. Wasm!And(n, u, v) = sum[0]
  BY DEF Wasm!And, Wasm!OfBits
<1>2. ASSUME NEW i \in 0 .. n - 1 PROVE one(i) \in {0, 1}
  <2>1. i \in Nat
    OBVIOUS
  <2>2. Wasm!Bit(u, i) \in {0, 1} /\ Wasm!Bit(v, i) \in {0, 1}
    BY <2>1, BitIs
  <2> QED BY <2>2
<1> HIDE DEF one
<1>3. b \in [0 .. n - 1 -> {0, 1}] /\ \A i \in 0 .. n - 1 : b[i] = one(i)
  BY <1>2
<1> HIDE DEF b
<1>4. \A g : g = Body(g) => IsBitSum(g, n, b)
  <2>1. ASSUME NEW g, g = Body(g), NEW i \in 0 .. n
        PROVE  g[i] = IF i = n THEN 0 ELSE b[i] * 2 ^ i + g[i + 1]
    <3>1. g[i] = IF i = n THEN 0 ELSE one(i) * 2 ^ i + g[i + 1]
      BY <2>1
    <3>2. i # n => i \in 0 .. n - 1
      OBVIOUS
    <3> QED BY <1>3, <3>1, <3>2
  <2> HIDE DEF Body
  <2> QED BY <2>1 DEF IsBitSum
<1>5. \E g : g = Body(g)
  <2>1. PICK g \in [0 .. n -> Nat] : IsBitSum(g, n, b)
    BY <1>3, BitSumExists
  <2>2. ASSUME NEW i \in 0 .. n PROVE g[i] = IF i = n THEN 0 ELSE one(i) * 2 ^ i + g[i + 1]
    <3>1. i # n => i \in 0 .. n - 1
      OBVIOUS
    <3> QED BY <1>3, <2>1, <3>1 DEF IsBitSum
  <2>3. g = Body(g)
    BY <2>2
  <2> HIDE DEF Body
  <2> QED BY <2>3
<1>6. IsBitSum(sum, n, b)
  <2> HIDE DEF Body
  <2> QED BY <1>4, <1>5
<1> HIDE DEF sum
<1>7. sum[0] \in 0 .. 2 ^ n - 1 /\ \A i \in 0 .. n - 1 : Wasm!Bit(sum[0], i) = b[i]
  BY <1>3, <1>6, BitSum DEF Wasm!Bit
<1> QED BY <1>1, <1>3, <1>7 DEF one

LEMMA OrBits ==
  ASSUME NEW n \in Nat, NEW u \in Int, NEW v \in Int
  PROVE  /\ Wasm!Or(n, u, v) \in 0 .. 2 ^ n - 1
         /\ \A i \in 0 .. n - 1 : Wasm!Bit(Wasm!Or(n, u, v), i) = IF Wasm!Bit(u, i) + Wasm!Bit(v, i) > 0 THEN 1 ELSE 0
<1> DEFINE one(i) == IF Wasm!Bit(u, i) + Wasm!Bit(v, i) > 0 THEN 1 ELSE 0
           Body(g) == [i \in 0 .. n |-> IF i = n THEN 0 ELSE one(i) * 2 ^ i + g[i + 1]]
           sum == CHOOSE g : g = Body(g)
           b == [i \in 0 .. n - 1 |-> one(i)]
<1>1. Wasm!Or(n, u, v) = sum[0]
  BY DEF Wasm!Or, Wasm!OfBits
<1>2. ASSUME NEW i \in 0 .. n - 1 PROVE one(i) \in {0, 1}
  <2>1. i \in Nat
    OBVIOUS
  <2>2. Wasm!Bit(u, i) \in {0, 1} /\ Wasm!Bit(v, i) \in {0, 1}
    BY <2>1, BitIs
  <2> QED BY <2>2
<1> HIDE DEF one
<1>3. b \in [0 .. n - 1 -> {0, 1}] /\ \A i \in 0 .. n - 1 : b[i] = one(i)
  BY <1>2
<1> HIDE DEF b
<1>4. \A g : g = Body(g) => IsBitSum(g, n, b)
  <2>1. ASSUME NEW g, g = Body(g), NEW i \in 0 .. n
        PROVE  g[i] = IF i = n THEN 0 ELSE b[i] * 2 ^ i + g[i + 1]
    <3>1. g[i] = IF i = n THEN 0 ELSE one(i) * 2 ^ i + g[i + 1]
      BY <2>1
    <3>2. i # n => i \in 0 .. n - 1
      OBVIOUS
    <3> QED BY <1>3, <3>1, <3>2
  <2> HIDE DEF Body
  <2> QED BY <2>1 DEF IsBitSum
<1>5. \E g : g = Body(g)
  <2>1. PICK g \in [0 .. n -> Nat] : IsBitSum(g, n, b)
    BY <1>3, BitSumExists
  <2>2. ASSUME NEW i \in 0 .. n PROVE g[i] = IF i = n THEN 0 ELSE one(i) * 2 ^ i + g[i + 1]
    <3>1. i # n => i \in 0 .. n - 1
      OBVIOUS
    <3> QED BY <1>3, <2>1, <3>1 DEF IsBitSum
  <2>3. g = Body(g)
    BY <2>2
  <2> HIDE DEF Body
  <2> QED BY <2>3
<1>6. IsBitSum(sum, n, b)
  <2> HIDE DEF Body
  <2> QED BY <1>4, <1>5
<1> HIDE DEF sum
<1>7. sum[0] \in 0 .. 2 ^ n - 1 /\ \A i \in 0 .. n - 1 : Wasm!Bit(sum[0], i) = b[i]
  BY <1>3, <1>6, BitSum DEF Wasm!Bit
<1> QED BY <1>1, <1>3, <1>7 DEF one

LEMMA XorBits ==
  ASSUME NEW n \in Nat, NEW u \in Int, NEW v \in Int
  PROVE  /\ Wasm!Xor(n, u, v) \in 0 .. 2 ^ n - 1
         /\ \A i \in 0 .. n - 1 : Wasm!Bit(Wasm!Xor(n, u, v), i) = (Wasm!Bit(u, i) + Wasm!Bit(v, i)) % 2
<1> DEFINE one(i) == (Wasm!Bit(u, i) + Wasm!Bit(v, i)) % 2
           Body(g) == [i \in 0 .. n |-> IF i = n THEN 0 ELSE one(i) * 2 ^ i + g[i + 1]]
           sum == CHOOSE g : g = Body(g)
           b == [i \in 0 .. n - 1 |-> one(i)]
<1>1. Wasm!Xor(n, u, v) = sum[0]
  BY DEF Wasm!Xor, Wasm!OfBits
<1>2. ASSUME NEW i \in 0 .. n - 1 PROVE one(i) \in {0, 1}
  <2>1. i \in Nat
    OBVIOUS
  <2>2. Wasm!Bit(u, i) \in {0, 1} /\ Wasm!Bit(v, i) \in {0, 1}
    BY <2>1, BitIs
  <2> QED BY <2>2
<1> HIDE DEF one
<1>3. b \in [0 .. n - 1 -> {0, 1}] /\ \A i \in 0 .. n - 1 : b[i] = one(i)
  BY <1>2
<1> HIDE DEF b
<1>4. \A g : g = Body(g) => IsBitSum(g, n, b)
  <2>1. ASSUME NEW g, g = Body(g), NEW i \in 0 .. n
        PROVE  g[i] = IF i = n THEN 0 ELSE b[i] * 2 ^ i + g[i + 1]
    <3>1. g[i] = IF i = n THEN 0 ELSE one(i) * 2 ^ i + g[i + 1]
      BY <2>1
    <3>2. i # n => i \in 0 .. n - 1
      OBVIOUS
    <3> QED BY <1>3, <3>1, <3>2
  <2> HIDE DEF Body
  <2> QED BY <2>1 DEF IsBitSum
<1>5. \E g : g = Body(g)
  <2>1. PICK g \in [0 .. n -> Nat] : IsBitSum(g, n, b)
    BY <1>3, BitSumExists
  <2>2. ASSUME NEW i \in 0 .. n PROVE g[i] = IF i = n THEN 0 ELSE one(i) * 2 ^ i + g[i + 1]
    <3>1. i # n => i \in 0 .. n - 1
      OBVIOUS
    <3> QED BY <1>3, <2>1, <3>1 DEF IsBitSum
  <2>3. g = Body(g)
    BY <2>2
  <2> HIDE DEF Body
  <2> QED BY <2>3
<1>6. IsBitSum(sum, n, b)
  <2> HIDE DEF Body
  <2> QED BY <1>4, <1>5
<1> HIDE DEF sum
<1>7. sum[0] \in 0 .. 2 ^ n - 1 /\ \A i \in 0 .. n - 1 : Wasm!Bit(sum[0], i) = b[i]
  BY <1>3, <1>6, BitSum DEF Wasm!Bit
<1> QED BY <1>1, <1>3, <1>7 DEF one

\* A power of two is one of a smaller exponent, times two, times another.
LEMMA PowerSplits ==
  ASSUME NEW i \in Nat, NEW n \in Nat, i < n
  PROVE  \E f \in Nat \ {0} : 2 ^ n = 2 ^ i * (2 * f) /\ f = 2 ^ (n - i - 1)
<1> DEFINE p == 2 ^ i  f == 2 ^ (n - i - 1)
<1>1. n - i - 1 \in Nat /\ i + 1 \in Nat /\ (i + 1) + (n - i - 1) = n
  OBVIOUS
<1>2. p \in Nat \ {0} /\ f \in Nat \ {0} /\ 2 ^ (i + 1) = p * 2
  BY <1>1, PowerFacts, PowerDoubles
<1>3. 2 ^ ((i + 1) + (n - i - 1)) = 2 ^ (i + 1) * f
  BY <1>1, PowerAdds
<1> HIDE DEF p, f
<1>4. (p * 2) * f = p * (2 * f)
  BY <1>2
<1>5. 2 ^ n = p * (2 * f)
  BY <1>1, <1>2, <1>3, <1>4
<1> QED BY <1>2, <1>5 DEF p, f

\* The bits of what is left modulo a power, shifted to the right, to the left.
LEMMA LowBit ==
  ASSUME NEW n \in Nat, NEW v \in Int, NEW i \in 0 .. n - 1
  PROVE  Wasm!Bit(v % 2 ^ n, i) = Wasm!Bit(v, i)
<1> DEFINE p == 2 ^ i  d == 2 ^ n  q == v \div d  r == v % d
<1>1. i \in Nat /\ p \in Nat \ {0} /\ d \in Nat \ {0}
  BY PowerFacts
<1>2. PICK f \in Nat \ {0} : d = p * (2 * f)
  <2>1. i < n
    OBVIOUS
  <2> QED BY <1>1, <2>1, PowerSplits
<1> HIDE DEF p, d
<1>3. q \in Int /\ r \in Int /\ v = d * q + r
  <2>1. q \in Int /\ r \in 0 .. d - 1 /\ v = d * q + r
    BY <1>1, DivMod
  <2> HIDE DEF q, r
  <2> QED BY <1>1, <2>1
<1> HIDE DEF q, r
<1> DEFINE z == f * q  e == 2 * z
<1>4. z \in Int /\ e \in Int /\ v = r + p * e
  <2>1. (p * (2 * f)) * q = p * (2 * (f * q)) /\ f * q \in Int
    BY <1>1, <1>2, <1>3
  <2>2. p * (2 * z) \in Int
    BY <1>1, <2>1
  <2> QED BY <1>2, <1>3, <2>1, <2>2
<1> DEFINE a == r \div p
<1>5. v \div p = a + e /\ a \in Int
  <2> HIDE DEF e
  <2>1. a \in Int
    BY <1>1, <1>3, DivMod
  <2> QED BY <1>1, <1>3, <1>4, <2>1, ModShift
<1> HIDE DEF a, z
<1>6. (a + 2 * z) % 2 = a % 2
  <2>1. 2 \in Nat \ {0}
    OBVIOUS
  <2> QED BY <1>4, <1>5, <2>1, ModShift
<1>7. (v \div p) % 2 = a % 2
  BY <1>5, <1>6
<1> QED BY <1>7 DEF Wasm!Bit, a, r, p, d

LEMMA ShrBit ==
  ASSUME NEW v \in Int, NEW k \in Nat, NEW i \in Nat
  PROVE  Wasm!Bit(v \div 2 ^ k, i) = Wasm!Bit(v, i + k)
<1> DEFINE p == 2 ^ k  d == 2 ^ i
<1>1. p \in Nat \ {0} /\ d \in Nat \ {0}
  BY PowerFacts
<1>2. 2 ^ (i + k) = p * d
  <2>1. 2 ^ (k + i) = p * d
    BY PowerAdds
  <2> QED BY <2>1
<1> HIDE DEF p, d
<1>3. v \div (p * d) = (v \div p) \div d
  BY <1>1, DivDiv
<1> QED BY <1>2, <1>3 DEF Wasm!Bit, p, d

LEMMA ShlBit ==
  ASSUME NEW v \in Int, NEW k \in Nat, NEW i \in Nat
  PROVE  Wasm!Bit(v * 2 ^ k, i) = IF i >= k THEN Wasm!Bit(v, i - k) ELSE 0
<1> DEFINE p == 2 ^ k  u == v * p
<1>1. p \in Nat \ {0} /\ u \in Int /\ u = 0 + p * v
  <2>1. p \in Nat \ {0}
    BY PowerFacts
  <2> HIDE DEF p
  <2> QED BY <2>1
<1> HIDE DEF u
<1>2. CASE i >= k
  <2>1. i - k \in Nat /\ (i - k) + k = i
    BY <1>2
  <2>2. Wasm!Bit(u \div p, i - k) = Wasm!Bit(u, i)
    BY <1>1, <2>1, ShrBit
  <2>3. u \div p = v
    <3> HIDE DEF p
    <3>1. 0 \in 0 .. p - 1 /\ u = p * v + 0
      BY <1>1
    <3> QED BY <1>1, <3>1, DivModUnique
  <2> QED BY <1>2, <2>2, <2>3 DEF u, p
<1>3. CASE ~(i >= k)
  <2> DEFINE d == 2 ^ i
  <2>1. d \in Nat \ {0}
    BY PowerFacts
  <2>2. PICK f \in Nat \ {0} : p = d * (2 * f)
    <3>1. i < k
      BY <1>3
    <3> QED BY <3>1, PowerSplits
  <2> HIDE DEF p, d
  <2> DEFINE z == f * v
  <2>3. z \in Int /\ u = d * (2 * z) + 0 /\ 2 * z \in Int /\ 0 \in 0 .. d - 1
    <3>1. (d * (2 * f)) * v = d * (2 * (f * v)) /\ f * v \in Int
      BY <2>1
    <3>2. d * (2 * z) \in Int
      BY <2>1, <3>1
    <3> QED BY <1>1, <2>1, <2>2, <3>1, <3>2
  <2> HIDE DEF z
  <2> DEFINE e == 2 * z
  <2>4. u \div d = e
    <3>1. u = d * e + 0 /\ e \in Int
      BY <2>3
    <3> HIDE DEF e
    <3> QED BY <1>1, <2>1, <2>3, <3>1, DivModUnique
  <2>5. (2 * z) % 2 = 0
    BY <2>3
  <2> QED BY <1>3, <2>4, <2>5 DEF Wasm!Bit, u, p, d
<1> QED BY <1>2, <1>3

\* Beyond what a number is below of, all its bits are 0.
LEMMA HighBit ==
  ASSUME NEW n \in Nat, NEW v \in 0 .. 2 ^ n - 1, NEW i \in Nat, n <= i
  PROVE  Wasm!Bit(v, i) = 0
<1> DEFINE p == 2 ^ i  d == 2 ^ n
<1>1. p \in Nat \ {0} /\ d \in Nat \ {0} /\ d <= p
  BY PowerFacts, PowerMonotone
<1>2. v \in 0 .. p - 1
  <2>1. v \in 0 .. d - 1
    OBVIOUS
  <2> HIDE DEF p, d
  <2> QED BY <1>1, <2>1
<1> HIDE DEF p
<1>3. v \div p = 0 /\ 0 % 2 = 0
  BY <1>1, <1>2, ModSmall
<1> QED BY <1>3 DEF Wasm!Bit, p

\* The bit W32 that neg_add_imm_32 sets falls off in a word.
LEMMA OrLow ==
  ASSUME NEW u \in Int
  PROVE  LET r == Wasm!Or(Wasm!W64, u, 2 ^ Wasm!W32)
         IN r \in 0 .. Top - 1 /\ r % Half = u % Half
<1> DEFINE N == Wasm!W64  w == Wasm!W32  r == Wasm!Or(N, u, 2 ^ w)
<1>1. N \in Nat /\ w \in Nat /\ w <= N /\ 2 ^ w = Half /\ 2 ^ N = Top /\ Half \in Nat \ {0} /\ Top \in Nat
  <2>1. N = 8 * BYTE /\ w = 4 * BYTE /\ BYTE \in Nat \ {0}
    BY WasmWords, ComputationAssumption
  <2>2. 2 ^ w = Half /\ 2 ^ N = Top
    BY <2>1 DEF Half, Top
  <2> HIDE DEF N, w
  <2>3. N \in Nat /\ w \in Nat /\ w <= N
    BY <2>1
  <2> QED BY <2>2, <2>3, HalfTop
<1> HIDE DEF N, w
<1>2. /\ r \in 0 .. Top - 1
      /\ \A i \in 0 .. N - 1 : Wasm!Bit(r, i) = IF Wasm!Bit(u, i) + Wasm!Bit(Half, i) > 0 THEN 1 ELSE 0
  <2>1. Half \in Int
    BY <1>1
  <2>2. /\ Wasm!Or(N, u, Half) \in 0 .. 2 ^ N - 1
        /\ \A i \in 0 .. N - 1 : Wasm!Bit(Wasm!Or(N, u, Half), i) =
                                    IF Wasm!Bit(u, i) + Wasm!Bit(Half, i) > 0 THEN 1 ELSE 0
    BY <1>1, <2>1, OrBits
  <2> QED BY <1>1, <2>2
<1>3. r \in Int
  BY <1>1, <1>2
<1> HIDE DEF r
<1>4. ASSUME NEW i \in 0 .. w - 1 PROVE Wasm!Bit(r, i) = Wasm!Bit(u, i)
  <2>1. i \in Nat /\ i \in 0 .. N - 1 /\ ~(i >= w)
    BY <1>1
  <2>2. Wasm!Bit(1 * 2 ^ w, i) = 0
    <3>1. 1 \in Int
      OBVIOUS
    <3> QED BY <1>1, <2>1, <3>1, ShlBit
  <2>3. 1 * 2 ^ w = Half
    BY <1>1
  <2>4. Wasm!Bit(u, i) \in {0, 1}
    BY <2>1, BitIs
  <2> QED BY <1>2, <2>1, <2>2, <2>3, <2>4
<1> DEFINE a == r % Half  b == u % Half
<1>5. a \in 0 .. 2 ^ w - 1 /\ b \in 0 .. 2 ^ w - 1
  BY <1>1, <1>3, DivMod
<1>6. \A i \in 0 .. w - 1 : Wasm!Bit(a, i) = Wasm!Bit(b, i)
  <2>1. ASSUME NEW i \in 0 .. w - 1 PROVE Wasm!Bit(a, i) = Wasm!Bit(b, i)
    <3>1. Wasm!Bit(r % 2 ^ w, i) = Wasm!Bit(r, i) /\ Wasm!Bit(u % 2 ^ w, i) = Wasm!Bit(u, i)
      BY <1>1, <1>3, LowBit
    <3> QED BY <1>1, <1>4, <3>1
  <2> QED BY <2>1
<1> HIDE DEF a, b
<1>7. a = b
  BY <1>1, <1>5, <1>6, SameBits DEF Wasm!Bit
<1> QED BY <1>2, <1>7 DEF a, b, r, N, w

-----------------------------------------------------------------------------
(* Instructions with an immediate.                                         *)

\* Which instruction on registers stands for which, and where they are dispatched.
LEMMA ImmIs ==
  ASSUME NEW c
  PROVE  /\ \A op \in Wasm!MathImmOps : Wasm!ImmResult(op, x, c, y) = Wasm!MathImm(op, x, c)
         /\ \A op \in Wasm!LogicImmOps : Wasm!ImmResult(op, x, c, y) = Wasm!LogicImm(op, x, c)
         /\ \A op \in Wasm!Shift32ImmOps : Wasm!ImmResult(op, x, c, y) = Wasm!ShiftImm32(op, x, c)
         /\ \A op \in Wasm!Shift64ImmOps : Wasm!ImmResult(op, x, c, y) = Wasm!ShiftImm(op, x, c)
         /\ \A op \in Wasm!RotateImmOps : Wasm!ImmResult(op, x, c, y) = Wasm!RotateImm(op, x, c)
         /\ \A op \in Wasm!SetImmOps : Wasm!ImmResult(op, x, c, y) = Wasm!SetImm(op, x, c)
         /\ \A op \in {"cmov_iz_imm", "cmov_nz_imm"} :
              Wasm!ImmResult(op, x, c, y) = Wasm!MoveImm(op, x, c, y)
<1> DEFINE A == Wasm!MathImmOps  B == Wasm!LogicImmOps  C == Wasm!Shift32ImmOps
           D == Wasm!Shift64ImmOps  E == Wasm!RotateImmOps  F == Wasm!SetImmOps
           G == {"cmov_iz_imm", "cmov_nz_imm"}
<1>1. A \cap (B \cup C \cup D \cup E \cup F \cup G) = {}
  BY DEF Wasm!MathImmOps, Wasm!LogicImmOps, Wasm!Shift32ImmOps, Wasm!Shift64ImmOps, Wasm!RotateImmOps,
         Wasm!SetImmOps
<1>2. B \cap (C \cup D \cup E \cup F \cup G) = {} /\ C \cap (D \cup E \cup F \cup G) = {}
  BY DEF Wasm!LogicImmOps, Wasm!Shift32ImmOps, Wasm!Shift64ImmOps, Wasm!RotateImmOps, Wasm!SetImmOps
<1>3. D \cap (E \cup F \cup G) = {} /\ E \cap (F \cup G) = {} /\ F \cap G = {}
  BY DEF Wasm!Shift64ImmOps, Wasm!RotateImmOps, Wasm!SetImmOps
<1> QED BY <1>1, <1>2, <1>3 DEF Wasm!ImmResult

LEMMA RegsAre ==
  ASSUME NEW a, NEW b
  PROVE  /\ \A op \in Wasm!Math32Ops : Wasm!RegResult(op, a, b, y) = Wasm!Math32(op, a, b)
         /\ \A op \in Wasm!Math64Ops : Wasm!RegResult(op, a, b, y) = Wasm!Math64(op, a, b)
         /\ \A op \in Wasm!LogicOps : Wasm!RegResult(op, a, b, y) = Wasm!Logic(op, a, b)
         /\ \A op \in Wasm!ShiftOps : Wasm!RegResult(op, a, b, y) = Wasm!Shift(op, a, b)
         /\ \A op \in Wasm!RotateOps : Wasm!RegResult(op, a, b, y) = Wasm!Rotate(op, a, b)
         /\ \A op \in Wasm!SetOps : Wasm!RegResult(op, a, b, y) = Wasm!SetIf(op, a, b)
         /\ \A op \in Wasm!MoveOps : Wasm!RegResult(op, a, b, y) = Wasm!Move(op, a, b, y)
<1> DEFINE A == Wasm!Math32Ops  B == Wasm!Math64Ops  C == Wasm!LogicOps  D == Wasm!ShiftOps
           E == Wasm!RotateOps  F == Wasm!SetOps  G == Wasm!MoveOps
<1>1. A \cap (B \cup C \cup D \cup E \cup F \cup G) = {}
  BY DEF Wasm!Math32Ops, Wasm!Math64Ops, Wasm!LogicOps, Wasm!ShiftOps, Wasm!RotateOps, Wasm!SetOps,
         Wasm!MoveOps
<1>2. B \cap (C \cup D \cup E \cup F \cup G) = {}
  BY DEF Wasm!Math64Ops, Wasm!LogicOps, Wasm!ShiftOps, Wasm!RotateOps, Wasm!SetOps, Wasm!MoveOps
<1>3. C \cap (D \cup E \cup F \cup G) = {} /\ D \cap (E \cup F \cup G) = {}
  BY DEF Wasm!LogicOps, Wasm!ShiftOps, Wasm!RotateOps, Wasm!SetOps, Wasm!MoveOps
<1>4. E \cap (F \cup G) = {} /\ F \cap G = {}
  BY DEF Wasm!RotateOps, Wasm!SetOps, Wasm!MoveOps
<1> QED BY <1>1, <1>2, <1>3, <1>4 DEF Wasm!RegResult

\* An instruction with an immediate, and the registers it is compared with.
AsLoaded(op, c) ==
  Wasm!ImmResult(op, x, c, y) =
    IF op \in ImmediateFirst THEN Wasm!RegResult(OnRegisters[op], x, Wasm!LoadImm(c), y)
    ELSE Wasm!RegResult(OnRegisters[op], Wasm!LoadImm(c), x, y)

LEMMA MathAsLoaded ==
  ASSUME NEW c \in 0 .. Half - 1, x \in 0 .. Top - 1, NEW op \in Wasm!MathImmOps
  PROVE  AsLoaded(op, c)
<1> DEFINE v == Wasm!LoadImm(c)
<1>1. /\ v = Wasm!Extended(c) /\ v \in Int /\ v % Half = c /\ c % Half = c /\ c % Top = c
      /\ c \in Int /\ x \in Int /\ Half \in Nat \ {0} /\ Top \in Nat \ {0}
  BY LoadedIs, HalfTop
<1>2. Wasm!ImmResult(op, x, c, y) = Wasm!MathImm(op, x, c)
  BY ImmIs
<1>3. op \in DOMAIN OnRegisters
  BY DEF OnRegisters, Wasm!ImmOps, Wasm!MathImmOps
<1> HIDE DEF v
<1>4. CASE op = "add_imm_32"
  <2>1. op \notin ImmediateFirst /\ OnRegisters[op] = "add_32"
    BY <1>3, <1>4 DEF OnRegisters, ImmediateFirst
  <2>0. x % Half \in Int
    <3>1. x % Half \in 0 .. Half - 1
      BY <1>1, ModSum
    <3> QED BY <1>1, <3>1
  <2>2. Wasm!RegResult("add_32", v, x, y) = Wasm!Extended(c + (x % Half))
    <3>1. Wasm!RegResult("add_32", v, x, y) = Wasm!Math32("add_32", v, x)
      BY RegsAre DEF Wasm!Math32Ops
    <3> QED BY <1>1, <3>1, WasmWords DEF Wasm!Math32
  <2>3. Wasm!ImmResult(op, x, c, y) = Wasm!Extended(Wasm!AsU64(x + v))
    BY <1>1, <1>2, <1>4 DEF Wasm!MathImm
  <2>4. (x + v) % Half = (c + (x % Half)) % Half
    <3>1. ((x % Half) + c) % Half = (x + c) % Half
      BY <1>1, ModSum
    <3>3. ((v % Half) + x) % Half = (v + x) % Half
      BY <1>1, ModSum
    <3>2. c + (x % Half) = (x % Half) + c /\ x + v = v + x /\ x + c = c + x
      BY <1>1, <2>0
    <3> QED BY <1>1, <3>1, <3>2, <3>3
  <2>5. Wasm!Extended(Wasm!AsU64(x + v)) = Wasm!Extended(c + (x % Half))
    <3> DEFINE a == x + v  b == c + (x % Half)
    <3>1. a \in Int /\ b \in Int
      <4> DEFINE d == x % Half
      <4>1. d \in Int /\ b = c + d /\ a = x + v
        BY <2>0
      <4> HIDE DEF d, a, b
      <4> QED BY <1>1, <4>1
    <3>3. a % Half = b % Half
      BY <2>4
    <3> HIDE DEF a, b
    <3>2. Wasm!Extended(a) = Wasm!Extended(b) /\ Wasm!Extended(Wasm!AsU64(a)) = Wasm!Extended(a)
      BY <3>1, <3>3, SameWord, ExtendedWord
    <3> QED BY <3>2 DEF a, b
  <2> QED BY <2>1, <2>2, <2>3, <2>5 DEF AsLoaded, v
<1>5. CASE op = "mul_imm_32"
  <2>1. op \notin ImmediateFirst /\ OnRegisters[op] = "mul_32"
    BY <1>3, <1>5 DEF OnRegisters, ImmediateFirst
  <2>2. Wasm!RegResult("mul_32", v, x, y) = Wasm!Extended(Wasm!AsU64(v * x))
    BY RegsAre DEF Wasm!Math32Ops, Wasm!Math32
  <2>3. Wasm!ImmResult(op, x, c, y) = Wasm!Extended(Wasm!AsU64(x * c))
    BY <1>1, <1>2, <1>5, WasmWords DEF Wasm!MathImm, Wasm!Arg
  <2>4. Wasm!Extended(Wasm!AsU64(x * c)) = Wasm!Extended(Wasm!AsU64(v * x))
    <3> DEFINE a == x * c  b == v * x
    <3>1. a \in Int /\ b \in Int
      BY <1>1
    <3>2. a % Half = b % Half
      <4>1. ((v % Half) * x) % Half = (v * x) % Half
        BY <1>1, ModSum
      <4>2. c * x = x * c
        BY <1>1
      <4> QED BY <1>1, <4>1, <4>2
    <3> HIDE DEF a, b
    <3>3. Wasm!Extended(Wasm!AsU64(a)) = Wasm!Extended(Wasm!AsU64(b))
      BY <3>1, <3>2, SameWord
    <3> QED BY <3>3 DEF a, b
  <2> QED BY <2>1, <2>2, <2>3, <2>4 DEF AsLoaded, v
<1>6. CASE op = "neg_add_imm_32"
  <2>1. op \in ImmediateFirst /\ OnRegisters[op] = "sub_32"
    BY <1>3, <1>6 DEF OnRegisters, ImmediateFirst
  <2>2. Wasm!RegResult("sub_32", x, v, y) = Wasm!Extended(Wasm!AsU64(v + (Half - (x % Half))))
    <3>1. Wasm!RegResult("sub_32", x, v, y) = Wasm!Math32("sub_32", x, v)
      BY RegsAre DEF Wasm!Math32Ops
    <3>2. 2 ^ Wasm!W32 = Half
      BY WasmWords DEF Half
    <3> QED BY <3>1, <3>2, WasmWords DEF Wasm!Math32
  <2> DEFINE r == Wasm!Or(Wasm!W64, c, 2 ^ Wasm!W32)
  <2>5. r \in Int /\ r % Half = c
    BY <1>1, OrLow
  <2>3. Wasm!ImmResult(op, x, c, y) = Wasm!Extended(Wasm!AsU64(r - x))
    BY <1>1, <1>2, <1>6, WasmWords DEF Wasm!MathImm, Wasm!Arg
  <2> HIDE DEF r
  <2>4. Wasm!Extended(Wasm!AsU64(r - x)) = Wasm!Extended(Wasm!AsU64(v + (Half - (x % Half))))
    <3> DEFINE a == r - x  b == v + (Half - (x % Half))  h == Half - (x % Half)  e == c + Half
    <3>1. x % Half \in Int /\ h \in Int /\ a \in Int /\ b \in Int /\ e \in Int
      BY <1>1, <2>5, ModSum
    <3>2. b % Half = (c + h) % Half
      <4> HIDE DEF h
      <4>1. ((v % Half) + h) % Half = (v + h) % Half
        BY <1>1, <3>1, ModSum
      <4> QED BY <1>1, <4>1 DEF h
    <3>5. (c + h) % Half = (e - x) % Half
      <4>1. c + h = e - (x % Half)
        BY <1>1, <3>1
      <4> HIDE DEF e, h, a
      <4>2. (e - (x % Half)) % Half = (e - x) % Half
        BY <1>1, <3>1, ModSum
      <4> QED BY <4>1, <4>2
    <3>3. a % Half = (e - x) % Half
      <4> DEFINE n == -x
      <4>1. n \in Int /\ a = r + n /\ e - x = (c + n) + Half * 1 /\ c + n \in Int
        BY <1>1, <2>5
      <4> HIDE DEF n, e, a
      <4>2. (c + n) % Half = (r + n) % Half
        <5>1. ((r % Half) + n) % Half = (r + n) % Half
          BY <1>1, <2>5, <4>1, ModSum
        <5> QED BY <2>5, <5>1
      <4>3. ((c + n) + Half * 1) % Half = (c + n) % Half
        <5> DEFINE z == c + n
        <5>1. z \in Int /\ 1 \in Int
          BY <4>1
        <5> HIDE DEF z
        <5>2. (z + Half * 1) % Half = z % Half
          BY <1>1, <5>1, ModShift
        <5> QED BY <5>2 DEF z
      <4> QED BY <4>1, <4>2, <4>3
    <3> HIDE DEF a, b, h, e
    <3>4. Wasm!Extended(Wasm!AsU64(a)) = Wasm!Extended(Wasm!AsU64(b))
      BY <3>1, <3>2, <3>3, <3>5, SameWord
    <3> QED BY <3>4 DEF a, b
  <2> QED BY <2>1, <2>2, <2>3, <2>4 DEF AsLoaded, v
<1>7. CASE op \in {"add_imm", "mul_imm", "neg_add_imm"}
  <2>1. /\ Wasm!RegResult("add_64", v, x, y) = Wasm!AsU64(v + x)
        /\ Wasm!RegResult("mul", v, x, y) = Wasm!AsU64(v * x)
        /\ Wasm!RegResult("sub", x, v, y) = Wasm!AsU64(v - x)
    BY RegsAre DEF Wasm!Math64Ops, Wasm!Math64
  <2>2. /\ op = "add_imm" => op \notin ImmediateFirst /\ OnRegisters[op] = "add_64"
        /\ op = "mul_imm" => op \notin ImmediateFirst /\ OnRegisters[op] = "mul"
        /\ op = "neg_add_imm" => op \in ImmediateFirst /\ OnRegisters[op] = "sub"
    BY <1>3 DEF OnRegisters, ImmediateFirst
  <2>3. /\ op = "add_imm" => Wasm!ImmResult(op, x, c, y) = Wasm!AsU64(x + v)
        /\ op = "mul_imm" => Wasm!ImmResult(op, x, c, y) = Wasm!AsU64(x * v)
        /\ op = "neg_add_imm" => Wasm!ImmResult(op, x, c, y) = Wasm!AsU64(v - x)
    BY <1>1, <1>2 DEF Wasm!MathImm
  <2>4. x + v = v + x /\ x * v = v * x
    BY <1>1
  <2> QED BY <1>7, <2>1, <2>2, <2>3, <2>4 DEF AsLoaded, v
<1> QED BY <1>4, <1>5, <1>6, <1>7 DEF Wasm!MathImmOps

LEMMA ShiftsAre ==
  ASSUME NEW a, NEW b
  PROVE  LET s == a % Wasm!W32
             t == a % Wasm!W64
         IN /\ Wasm!RegResult("shlo_l_32", a, b, y) = Wasm!Extended(Wasm!Shl(b % Half, s))
            /\ Wasm!RegResult("shlo_r_32", a, b, y) = Wasm!Extended(Wasm!Shr(b % Half, s))
            /\ Wasm!RegResult("shar_r_32", a, b, y) = Wasm!Extended(Wasm!Shr(Wasm!Signed(b, Wasm!W32), s))
            /\ Wasm!RegResult("shlo_l", a, b, y) = Wasm!AsU64(Wasm!Shl(b, t))
            /\ Wasm!RegResult("shlo_r", a, b, y) = Wasm!Shr(b, t)
            /\ Wasm!RegResult("shar_r", a, b, y) = Wasm!AsU64(Wasm!Shr(Wasm!Signed(b, Wasm!W64), t))
<1>1. \A op \in Wasm!ShiftOps : Wasm!RegResult(op, a, b, y) = Wasm!Shift(op, a, b)
  BY RegsAre
<1> QED BY <1>1, WasmWords DEF Wasm!ShiftOps, Wasm!Shift

\* A word that is shifted to the right is still one.
LEMMA ShiftedWord ==
  ASSUME NEW u \in Int, 2 * u < Half, -Half <= 2 * u, NEW s \in Nat
  PROVE  LET z == Wasm!Shr(u, s)
         IN Wasm!Extended(z) = Wasm!AsU64(z) /\ Wasm!Extended(Wasm!AsU32(z)) = Wasm!AsU64(z)
<1> DEFINE z == Wasm!Shr(u, s)
<1>1. z \in Int /\ 2 * z < Half /\ -Half <= 2 * z
  BY ShrRange
<1> HIDE DEF z
<1>2. WordOf(z) = z
  BY <1>1, WordBack
<1>3. Wasm!Extended(z) = z % Top /\ Wasm!Extended(Wasm!AsU32(z)) = Wasm!Extended(z)
  BY <1>1, <1>2, ExtendedWord
<1> QED BY <1>3, WasmWords DEF z

LEMMA Shifts32AsLoaded ==
  ASSUME NEW c \in 0 .. Half - 1, x \in 0 .. Top - 1, NEW op \in Wasm!Shift32ImmOps
  PROVE  AsLoaded(op, c)
<1> DEFINE v == Wasm!LoadImm(c)  s == c % Wasm!W32  t == x % Wasm!W32
<1>1. /\ v % Half = c /\ c % Half = c /\ WordOf(v) = WordOf(c) /\ v \in Int /\ c \in Int /\ x \in Int
      /\ Half \in Nat \ {0}
  BY LoadedIs, HalfTop
<1>2. /\ Wasm!ArgShift(c, Wasm!W32) = s /\ v % Wasm!W32 = s /\ s % Wasm!W32 = s /\ s \in Nat /\ t \in Nat
  <2>1. Wasm!W32 \in Nat \ {0}
    BY Widths
  <2>2. /\ Wasm!ArgShift(c, Wasm!W32) = s /\ v % Wasm!W32 = s /\ s % Wasm!W32 = s
        /\ s \in 0 .. Wasm!W32 - 1
    BY AmountIs
  <2>3. t \in 0 .. Wasm!W32 - 1
    BY <1>1, <2>1, ModSum
  <2> QED BY <2>1, <2>2, <2>3
<1>3. Wasm!ImmResult(op, x, c, y) = Wasm!ShiftImm32(op, x, c)
  BY ImmIs
<1>4. op \in DOMAIN OnRegisters
  BY DEF OnRegisters, Wasm!ImmOps, Wasm!Shift32ImmOps
<1>5. /\ op \in {"shlo_l_imm_32", "shlo_l_imm_alt_32"} => OnRegisters[op] = "shlo_l_32"
      /\ op \in {"shlo_r_imm_32", "shlo_r_imm_alt_32"} => OnRegisters[op] = "shlo_r_32"
      /\ op \in {"shar_r_imm_32", "shar_r_imm_alt_32"} => OnRegisters[op] = "shar_r_32"
  BY <1>4 DEF OnRegisters
<1>6. op \in ImmediateFirst <=> op \in {"shlo_l_imm_alt_32", "shlo_r_imm_alt_32", "shar_r_imm_alt_32"}
  BY DEF ImmediateFirst, Wasm!Shift32ImmOps
<1>7. /\ Wasm!Signed(x, Wasm!W32) = WordOf(x) /\ Wasm!Signed(c, Wasm!W32) = WordOf(c)
      /\ Wasm!Signed(v, Wasm!W32) = WordOf(c)
  BY <1>1, WordIs
<1>8. Wasm!AsU64(Wasm!Shr(WordOf(x), s)) = Wasm!Extended(Wasm!Shr(WordOf(x), s))
  <2> DEFINE u == WordOf(x)
  <2>1. u \in Int /\ 2 * u < Half /\ -Half <= 2 * u
    BY <1>1, WordIs
  <2> HIDE DEF u, s
  <2>2. Wasm!AsU64(Wasm!Shr(u, s)) = Wasm!Extended(Wasm!Shr(u, s))
    BY <1>2, <2>1, ShiftedWord
  <2> QED BY <2>2 DEF u
<1>9. /\ op = "shlo_l_imm_32" => Wasm!ImmResult(op, x, c, y) = Wasm!Extended(Wasm!Shl(x % Half, s))
      /\ op = "shlo_r_imm_32" => Wasm!ImmResult(op, x, c, y) = Wasm!Extended(Wasm!Shr(x % Half, s))
      /\ op = "shar_r_imm_32" => Wasm!ImmResult(op, x, c, y) = Wasm!AsU64(Wasm!Shr(WordOf(x), s))
      /\ op = "shlo_l_imm_alt_32" => Wasm!ImmResult(op, x, c, y) = Wasm!Extended(Wasm!Shl(c, t))
      /\ op = "shlo_r_imm_alt_32" => Wasm!ImmResult(op, x, c, y) = Wasm!Extended(Wasm!Shr(c, t))
      /\ op = "shar_r_imm_alt_32" => Wasm!ImmResult(op, x, c, y) = Wasm!Extended(Wasm!Shr(WordOf(c), t))
  <2>1. Wasm!Arg(c) = c
    BY DEF Wasm!Arg
  <2> HIDE DEF s
  <2> QED BY <1>1, <1>2, <1>3, <1>7, <2>1, WasmWords DEF Wasm!ShiftImm32
<1> HIDE DEF v, s
<1>10. /\ Wasm!RegResult("shlo_l_32", v, x, y) = Wasm!Extended(Wasm!Shl(x % Half, s))
       /\ Wasm!RegResult("shlo_r_32", v, x, y) = Wasm!Extended(Wasm!Shr(x % Half, s))
       /\ Wasm!RegResult("shar_r_32", v, x, y) = Wasm!Extended(Wasm!Shr(WordOf(x), s))
       /\ Wasm!RegResult("shlo_l_32", x, v, y) = Wasm!Extended(Wasm!Shl(c, t))
       /\ Wasm!RegResult("shlo_r_32", x, v, y) = Wasm!Extended(Wasm!Shr(c, t))
       /\ Wasm!RegResult("shar_r_32", x, v, y) = Wasm!Extended(Wasm!Shr(WordOf(c), t))
  BY <1>1, <1>2, <1>7, ShiftsAre
<1>11. AsLoaded(op, c) <=>
         Wasm!ImmResult(op, x, c, y) =
           IF op \in ImmediateFirst THEN Wasm!RegResult(OnRegisters[op], x, v, y)
           ELSE Wasm!RegResult(OnRegisters[op], v, x, y)
  BY DEF AsLoaded, v
<1>12. CASE op \in {"shlo_l_imm_32", "shlo_r_imm_32", "shar_r_imm_32"}
  BY <1>5, <1>6, <1>8, <1>9, <1>10, <1>11, <1>12
<1>13. CASE op \in {"shlo_l_imm_alt_32", "shlo_r_imm_alt_32", "shar_r_imm_alt_32"}
  BY <1>5, <1>6, <1>9, <1>10, <1>11, <1>13
<1> QED BY <1>12, <1>13 DEF Wasm!Shift32ImmOps

\* A shift by less than the bits of a register does not throw.
LEMMA ShlBigIs ==
  ASSUME NEW v \in 0 .. Top - 1, NEW s \in 0 .. Wasm!W64 - 1
  PROVE  Wasm!ShlBig(v, s) = Wasm!AsU64(Wasm!Shl(v, s))
<1>1. Wasm!W64 \in Nat
  BY Widths
<1>2. ~(s > Wasm!W64)
  BY <1>1
<1> QED BY <1>2 DEF Wasm!ShlBig

LEMMA Shifts64AsLoaded ==
  ASSUME NEW c \in 0 .. Half - 1, x \in 0 .. Top - 1, NEW op \in Wasm!Shift64ImmOps
  PROVE  AsLoaded(op, c)
<1> DEFINE v == Wasm!LoadImm(c)  w == WordOf(c)  s == c % Wasm!W64  t == x % Wasm!W64
<1>1. /\ v \in 0 .. Top - 1 /\ v = w % Top /\ AsSigned(v) = w /\ c % Half = c
      /\ w \in Int /\ -Half <= 2 * w /\ 2 * w < Half
      /\ v \in Int /\ c \in Int /\ x \in Int /\ Half \in Nat \ {0} /\ Top \in Nat \ {0}
  BY LoadedIs, HalfTop
<1>2. /\ Wasm!ArgShift(c, Wasm!W64) = s /\ v % Wasm!W64 = s /\ s \in 0 .. Wasm!W64 - 1 /\ t \in Nat
      /\ s \in Nat
  <2>1. Wasm!W64 \in Nat \ {0}
    BY Widths
  <2>2. Wasm!ArgShift(c, Wasm!W64) = s /\ v % Wasm!W64 = s /\ s \in 0 .. Wasm!W64 - 1
    BY AmountIs
  <2>3. t \in 0 .. Wasm!W64 - 1
    BY <1>1, <2>1, ModSum
  <2> QED BY <2>1, <2>2, <2>3
<1>3. Wasm!ImmResult(op, x, c, y) = Wasm!ShiftImm(op, x, c)
  BY ImmIs
<1>4. op \in DOMAIN OnRegisters
  BY DEF OnRegisters, Wasm!ImmOps, Wasm!Shift64ImmOps
<1>5. /\ op \in {"shlo_l_imm", "shlo_l_imm_alt"} => OnRegisters[op] = "shlo_l"
      /\ op \in {"shlo_r_imm", "shlo_r_imm_alt"} => OnRegisters[op] = "shlo_r"
      /\ op \in {"shar_r_imm", "shar_r_imm_alt"} => OnRegisters[op] = "shar_r"
  BY <1>4 DEF OnRegisters
<1>6. op \in ImmediateFirst <=> op \in {"shlo_l_imm_alt", "shlo_r_imm_alt", "shar_r_imm_alt"}
  BY DEF ImmediateFirst, Wasm!Shift64ImmOps
<1>7. Wasm!SignExtend(c, Wasm!W32) = w /\ Wasm!Signed(v, Wasm!W64) = w
  <2>1. Wasm!SignExtend(c, Wasm!W32) = w
    BY <1>1, ExtendedWord
  <2>2. Wasm!Signed(v, Wasm!W64) = AsSigned(v)
    <3> HIDE DEF v
    <3> QED BY <1>1, SignedIs
  <2> QED BY <1>1, <2>1, <2>2
<1>8. Wasm!Extended(Wasm!AsU32(Wasm!Shr(w, t))) = Wasm!AsU64(Wasm!Shr(w, t))
  <2> HIDE DEF w, t
  <2> QED BY <1>1, <1>2, ShiftedWord
<1>9. Wasm!AsU64(Wasm!Shl(w, t)) = Wasm!AsU64(Wasm!Shl(v, t))
  <2> DEFINE p == 2 ^ t
  <2>1. p \in Int
    <3>1. p \in Nat \ {0}
      BY <1>2, PowerFacts
    <3> QED BY <3>1
  <2> HIDE DEF w, p, v
  <2>2. ((w % Top) * p) % Top = (w * p) % Top
    BY <1>1, <2>1, ModSum
  <2> QED BY <1>1, <2>2, WasmWords DEF p, Wasm!Shl
<1>10. Wasm!ShlBig(x, s) = Wasm!AsU64(Wasm!Shl(x, s))
  <2> HIDE DEF s
  <2> QED BY <1>2, ShlBigIs
<1> HIDE DEF w, s, t
<1>11. /\ op = "shlo_l_imm" => Wasm!ImmResult(op, x, c, y) = Wasm!AsU64(Wasm!Shl(x, s))
       /\ op = "shlo_r_imm" => Wasm!ImmResult(op, x, c, y) = Wasm!Shr(x, s)
       /\ op = "shar_r_imm" =>
            Wasm!ImmResult(op, x, c, y) = Wasm!AsU64(Wasm!Shr(Wasm!Signed(x, Wasm!W64), s))
       /\ op = "shlo_l_imm_alt" => Wasm!ImmResult(op, x, c, y) = Wasm!AsU64(Wasm!Shl(v, t))
       /\ op = "shlo_r_imm_alt" => Wasm!ImmResult(op, x, c, y) = Wasm!Shr(v, t)
       /\ op = "shar_r_imm_alt" => Wasm!ImmResult(op, x, c, y) = Wasm!AsU64(Wasm!Shr(w, t))
  <2>1. Wasm!AsU64(w) = v
    BY <1>1, WasmWords
  <2> HIDE DEF v
  <2> QED BY <1>2, <1>3, <1>7, <1>8, <1>9, <1>10, <2>1 DEF Wasm!ShiftImm, t
<1> HIDE DEF v
<1>12. /\ Wasm!RegResult("shlo_l", v, x, y) = Wasm!AsU64(Wasm!Shl(x, s))
       /\ Wasm!RegResult("shlo_r", v, x, y) = Wasm!Shr(x, s)
       /\ Wasm!RegResult("shar_r", v, x, y) = Wasm!AsU64(Wasm!Shr(Wasm!Signed(x, Wasm!W64), s))
       /\ Wasm!RegResult("shlo_l", x, v, y) = Wasm!AsU64(Wasm!Shl(v, t))
       /\ Wasm!RegResult("shlo_r", x, v, y) = Wasm!Shr(v, t)
       /\ Wasm!RegResult("shar_r", x, v, y) = Wasm!AsU64(Wasm!Shr(w, t))
  BY <1>2, <1>7, ShiftsAre DEF t
<1>13. AsLoaded(op, c) <=>
         Wasm!ImmResult(op, x, c, y) =
           IF op \in ImmediateFirst THEN Wasm!RegResult(OnRegisters[op], x, v, y)
           ELSE Wasm!RegResult(OnRegisters[op], v, x, y)
  BY DEF AsLoaded, v
<1>14. CASE op \in {"shlo_l_imm", "shlo_r_imm", "shar_r_imm"}
  BY <1>5, <1>6, <1>11, <1>12, <1>13, <1>14
<1>15. CASE op \in {"shlo_l_imm_alt", "shlo_r_imm_alt", "shar_r_imm_alt"}
  BY <1>5, <1>6, <1>11, <1>12, <1>13, <1>15
<1> QED BY <1>14, <1>15 DEF Wasm!Shift64ImmOps

LEMMA OthersAsLoaded ==
  ASSUME NEW c \in 0 .. Half - 1, x \in 0 .. Top - 1,
         NEW op \in DOMAIN OnRegisters,
         op \in Wasm!LogicImmOps \cup Wasm!RotateImmOps \cup Wasm!SetImmOps
                  \cup {"cmov_iz_imm", "cmov_nz_imm"}
  PROVE  AsLoaded(op, c)
<1> DEFINE v == Wasm!LoadImm(c)
<1>1. v = Wasm!Extended(c) /\ Wasm!AsU32(v) = Wasm!AsU32(c)
  BY LoadedIs, WasmWords
<1> HIDE DEF v
<1>2. AsLoaded(op, c) <=>
        Wasm!ImmResult(op, x, c, y) =
          IF op \in ImmediateFirst THEN Wasm!RegResult(OnRegisters[op], x, v, y)
          ELSE Wasm!RegResult(OnRegisters[op], v, x, y)
  BY DEF AsLoaded, v
<1>3. CASE op \in Wasm!LogicImmOps
  <2>1. /\ op \notin ImmediateFirst
        /\ op = "and_imm" => OnRegisters[op] = "and"
        /\ op = "xor_imm" => OnRegisters[op] = "xor"
        /\ op = "or_imm" => OnRegisters[op] = "or"
    BY <1>3 DEF OnRegisters, ImmediateFirst, Wasm!LogicImmOps
  <2>2. /\ Wasm!RegResult("and", v, x, y) = Wasm!And(Wasm!W64, x, v)
        /\ Wasm!RegResult("xor", v, x, y) = Wasm!Xor(Wasm!W64, x, v)
        /\ Wasm!RegResult("or", v, x, y) = Wasm!Or(Wasm!W64, x, v)
    BY RegsAre DEF Wasm!LogicOps, Wasm!Logic
  <2>3. Wasm!ImmResult(op, x, c, y) = Wasm!LogicImm(op, x, c)
    BY <1>3, ImmIs
  <2>4. /\ op = "and_imm" => Wasm!LogicImm(op, x, c) = Wasm!And(Wasm!W64, x, v)
        /\ op = "xor_imm" => Wasm!LogicImm(op, x, c) = Wasm!Xor(Wasm!W64, x, v)
        /\ op = "or_imm" => Wasm!LogicImm(op, x, c) = Wasm!Or(Wasm!W64, x, v)
    BY <1>1 DEF Wasm!LogicImm
  <2> QED BY <1>2, <1>3, <2>1, <2>2, <2>3, <2>4 DEF Wasm!LogicImmOps
<1>4. CASE op \in Wasm!RotateImmOps
  <2>1. /\ op \in ImmediateFirst <=> op \in {"rot_r_64_imm_alt", "rot_r_32_imm_alt"}
        /\ op \in {"rot_r_64_imm", "rot_r_64_imm_alt"} => OnRegisters[op] = "rot_r_64"
        /\ op \in {"rot_r_32_imm", "rot_r_32_imm_alt"} => OnRegisters[op] = "rot_r_32"
    BY <1>4 DEF OnRegisters, ImmediateFirst, Wasm!RotateImmOps
  <2>2. \A a, b : /\ Wasm!RegResult("rot_r_64", a, b, y) = Wasm!RotR(Wasm!W64, b, a)
                  /\ Wasm!RegResult("rot_r_32", a, b, y) =
                       Wasm!Extended(Wasm!RotR(Wasm!W32, Wasm!AsU32(b), Wasm!AsU32(a)))
    BY RegsAre DEF Wasm!RotateOps, Wasm!Rotate
  <2>3. Wasm!ImmResult(op, x, c, y) = Wasm!RotateImm(op, x, c)
    BY <1>4, ImmIs
  <2>4. /\ op = "rot_r_64_imm" => Wasm!RotateImm(op, x, c) = Wasm!RotR(Wasm!W64, x, v)
        /\ op = "rot_r_64_imm_alt" => Wasm!RotateImm(op, x, c) = Wasm!RotR(Wasm!W64, v, x)
        /\ op = "rot_r_32_imm" => Wasm!RotateImm(op, x, c) =
             Wasm!Extended(Wasm!RotR(Wasm!W32, Wasm!AsU32(x), Wasm!AsU32(v)))
        /\ op = "rot_r_32_imm_alt" => Wasm!RotateImm(op, x, c) =
             Wasm!Extended(Wasm!RotR(Wasm!W32, Wasm!AsU32(v), Wasm!AsU32(x)))
    BY <1>1 DEF Wasm!RotateImm
  <2>5. CASE op \in {"rot_r_64_imm", "rot_r_32_imm"}
    BY <1>2, <2>1, <2>2, <2>3, <2>4, <2>5
  <2>6. CASE op \in {"rot_r_64_imm_alt", "rot_r_32_imm_alt"}
    BY <1>2, <2>1, <2>2, <2>3, <2>4, <2>6
  <2> QED BY <1>4, <2>5, <2>6 DEF Wasm!RotateImmOps
<1>5. CASE op \in Wasm!SetImmOps
  <2>1. /\ op \in {"set_lt_u_imm", "set_lt_s_imm"} /\ op \notin ImmediateFirst
        /\ op = "set_lt_u_imm" => OnRegisters[op] = "set_lt_u"
        /\ op = "set_lt_s_imm" => OnRegisters[op] = "set_lt_s"
    <3>1. op \in {"set_lt_u_imm", "set_lt_s_imm"}
      BY <1>5 DEF OnRegisters, Wasm!SetImmOps
    <3> QED BY <3>1 DEF OnRegisters, ImmediateFirst
  <2>2. /\ Wasm!RegResult("set_lt_u", v, x, y) = Wasm!Flag(x < v)
        /\ Wasm!RegResult("set_lt_s", v, x, y) =
             Wasm!Flag(Wasm!Signed(x, Wasm!W64) < Wasm!Signed(v, Wasm!W64))
    BY RegsAre DEF Wasm!SetOps, Wasm!SetIf
  <2>3. Wasm!ImmResult(op, x, c, y) = Wasm!SetImm(op, x, c)
    BY <1>5, ImmIs
  <2>4. /\ op = "set_lt_u_imm" => Wasm!SetImm(op, x, c) = Wasm!Flag(x < v)
        /\ op = "set_lt_s_imm" => Wasm!SetImm(op, x, c) =
             Wasm!Flag(Wasm!Signed(x, Wasm!W64) < Wasm!Signed(v, Wasm!W64))
    BY <1>1 DEF Wasm!SetImm
  <2> QED BY <1>2, <2>1, <2>2, <2>3, <2>4
<1>6. CASE op \in {"cmov_iz_imm", "cmov_nz_imm"}
  <2>1. /\ op \in ImmediateFirst
        /\ op = "cmov_iz_imm" => OnRegisters[op] = "cmov_iz"
        /\ op = "cmov_nz_imm" => OnRegisters[op] = "cmov_nz"
    BY <1>6 DEF OnRegisters, ImmediateFirst
  <2>2. /\ Wasm!RegResult("cmov_iz", x, v, y) = IF x = 0 THEN v ELSE y
        /\ Wasm!RegResult("cmov_nz", x, v, y) = IF x # 0 THEN v ELSE y
    BY RegsAre DEF Wasm!MoveOps, Wasm!Move
  <2>3. Wasm!ImmResult(op, x, c, y) = Wasm!MoveImm(op, x, c, y)
    BY <1>6, ImmIs
  <2>4. /\ op = "cmov_iz_imm" => Wasm!MoveImm(op, x, c, y) = IF x = 0 THEN v ELSE y
        /\ op = "cmov_nz_imm" => Wasm!MoveImm(op, x, c, y) = IF x # 0 THEN v ELSE y
    BY <1>1 DEF Wasm!MoveImm
  <2> QED BY <1>2, <1>6, <2>1, <2>2, <2>3, <2>4
<1> QED BY <1>3, <1>4, <1>5, <1>6

\* A comparison the other way round, and branches.
LEMMA ComparisonsAsLoaded ==
  ASSUME NEW c \in 0 .. Half - 1, x \in 0 .. Top - 1
  PROVE  LET v == Wasm!LoadImm(c)
         IN /\ Wasm!ImmResult("set_gt_u_imm", x, c, y) = Wasm!RegResult("set_lt_u", x, v, y)
            /\ Wasm!ImmResult("set_gt_s_imm", x, c, y) = Wasm!RegResult("set_lt_s", x, v, y)
            /\ Wasm!BranchImm("branch_eq_imm", x, c) = Wasm!Branch("branch_eq", v, x)
            /\ Wasm!BranchImm("branch_ne_imm", x, c) = Wasm!Branch("branch_ne", v, x)
            /\ Wasm!BranchImm("branch_lt_u_imm", x, c) = Wasm!Branch("branch_lt_u", v, x)
            /\ Wasm!BranchImm("branch_lt_s_imm", x, c) = Wasm!Branch("branch_lt_s", v, x)
            /\ Wasm!BranchImm("branch_ge_u_imm", x, c) = Wasm!Branch("branch_ge_u", v, x)
            /\ Wasm!BranchImm("branch_ge_s_imm", x, c) = Wasm!Branch("branch_ge_s", v, x)
            /\ Wasm!BranchImm("branch_gt_u_imm", x, c) = Wasm!Branch("branch_lt_u", x, v)
            /\ Wasm!BranchImm("branch_gt_s_imm", x, c) = Wasm!Branch("branch_lt_s", x, v)
            /\ Wasm!BranchImm("branch_le_u_imm", x, c) = Wasm!Branch("branch_ge_u", x, v)
            /\ Wasm!BranchImm("branch_le_s_imm", x, c) = Wasm!Branch("branch_ge_s", x, v)
<1> DEFINE v == Wasm!LoadImm(c)
           sx == Wasm!Signed(x, Wasm!W64)  sv == Wasm!Signed(v, Wasm!W64)
<1>1. v = Wasm!Extended(c) /\ v \in Int /\ x \in Int /\ sx \in Int /\ sv \in Int
  <2>1. v = Wasm!Extended(c) /\ v \in 0 .. Top - 1 /\ Top \in Nat
    BY LoadedIs, HalfTop
  <2> HIDE DEF v
  <2>2. sx \in Int /\ sv \in Int
    BY <2>1, SignedIs
  <2> QED BY <2>1, <2>2
<1>2. (v < x <=> x > v) /\ (sv < sx <=> sx > sv) /\ (v >= x <=> x <= v) /\ (sv >= sx <=> sx <= sv)
  <2> HIDE DEF v, sx, sv
  <2> QED BY <1>1
<1> HIDE DEF v
<1>3. /\ Wasm!ImmResult("set_gt_u_imm", x, c, y) = Wasm!Flag(x > v)
      /\ Wasm!ImmResult("set_gt_s_imm", x, c, y) = Wasm!Flag(sx > sv)
  BY <1>1, ImmIs DEF Wasm!SetImmOps, Wasm!SetImm
<1>4. /\ Wasm!RegResult("set_lt_u", x, v, y) = Wasm!Flag(v < x)
      /\ Wasm!RegResult("set_lt_s", x, v, y) = Wasm!Flag(sv < sx)
  BY RegsAre DEF Wasm!SetOps, Wasm!SetIf
<1>5. /\ Wasm!Flag(x > v) = Wasm!Flag(v < x) /\ Wasm!Flag(sx > sv) = Wasm!Flag(sv < sx)
  BY <1>2 DEF Wasm!Flag
<1>6. /\ Wasm!BranchImm("branch_eq_imm", x, c) = (x = v)
      /\ Wasm!BranchImm("branch_ne_imm", x, c) = (x # v)
      /\ Wasm!BranchImm("branch_lt_u_imm", x, c) = (x < v)
      /\ Wasm!BranchImm("branch_lt_s_imm", x, c) = (sx < sv)
      /\ Wasm!BranchImm("branch_ge_u_imm", x, c) = (x >= v)
      /\ Wasm!BranchImm("branch_ge_s_imm", x, c) = (sx >= sv)
      /\ Wasm!BranchImm("branch_gt_u_imm", x, c) = (x > v)
      /\ Wasm!BranchImm("branch_gt_s_imm", x, c) = (sx > sv)
      /\ Wasm!BranchImm("branch_le_u_imm", x, c) = (x <= v)
      /\ Wasm!BranchImm("branch_le_s_imm", x, c) = (sx <= sv)
  BY <1>1 DEF Wasm!BranchImm
<1>7. \A a, b : /\ Wasm!Branch("branch_eq", a, b) = (a = b)
                /\ Wasm!Branch("branch_ne", a, b) = (a # b)
                /\ Wasm!Branch("branch_lt_u", a, b) = (b < a)
                /\ Wasm!Branch("branch_lt_s", a, b) = (Wasm!Signed(b, Wasm!W64) < Wasm!Signed(a, Wasm!W64))
                /\ Wasm!Branch("branch_ge_u", a, b) = (b >= a)
                /\ Wasm!Branch("branch_ge_s", a, b) = (Wasm!Signed(b, Wasm!W64) >= Wasm!Signed(a, Wasm!W64))
  BY DEF Wasm!Branch
<1> HIDE DEF sx, sv
<1>8. /\ (x = v) = (v = x) /\ (x # v) = (v # x)
      /\ (x > v) = (v < x) /\ (sx > sv) = (sv < sx) /\ (x <= v) = (v >= x) /\ (sx <= sv) = (sv >= sx)
  BY <1>2
<1>9. /\ Wasm!Branch("branch_lt_s", v, x) = (sx < sv) /\ Wasm!Branch("branch_ge_s", v, x) = (sx >= sv)
      /\ Wasm!Branch("branch_lt_s", x, v) = (sv < sx) /\ Wasm!Branch("branch_ge_s", x, v) = (sv >= sx)
  BY <1>7 DEF sx, sv
<1> QED BY <1>3, <1>4, <1>5, <1>6, <1>7, <1>8, <1>9 DEF v

LEMMA ImmediatesAreAsLoaded == ASSUME OperandsOK PROVE ImmediatesAsLoaded
<1> SUFFICES ASSUME Loaded, NEW c \in Immediates
             PROVE  LET v == Wasm!LoadImm(c)
                    IN /\ \A op \in DOMAIN OnRegisters : AsLoaded(op, c)
                       /\ Wasm!EffectiveAddress(x, c) = Wasm!ImmResult("add_imm", x, c, y) % Half
  <2>1. \A c \in Immediates : c \in 0 .. Half - 1
    BY ComputationAssumption DEF Half
  <2>2. Loaded => x \in 0 .. Top - 1
    BY Contents
  <2> QED BY <2>1, <2>2, ComparisonsAsLoaded DEF ImmediatesAsLoaded, AsLoaded
<1>1. c \in 0 .. Half - 1 /\ x \in 0 .. Top - 1
  BY ComputationAssumption, Contents DEF Half
<1>2. ASSUME NEW op \in DOMAIN OnRegisters PROVE AsLoaded(op, c)
  <2>1. op \in Wasm!MathImmOps \cup Wasm!Shift32ImmOps \cup Wasm!Shift64ImmOps \cup Wasm!LogicImmOps
                 \cup Wasm!RotateImmOps \cup Wasm!SetImmOps \cup {"cmov_iz_imm", "cmov_nz_imm"}
    BY DEF OnRegisters, Wasm!ImmOps
  <2> QED BY <1>1, <2>1, MathAsLoaded, Shifts32AsLoaded, Shifts64AsLoaded, OthersAsLoaded
<1>3. Wasm!EffectiveAddress(x, c) = Wasm!ImmResult("add_imm", x, c, y) % Half
  BY ImmIs, WasmWords DEF Wasm!MathImmOps, Wasm!MathImm, Wasm!EffectiveAddress
<1> QED BY <1>2, <1>3

\* An instruction with an immediate does what the one on registers does after
\* load_imm, for words of any width, in the WebAssembly build (math.ts,
\* logic.ts, shift.ts, rot.ts, set.ts, mov.ts, branch.ts).
THEOREM ImmediatesAsLoadedTheorem == Spec => []ImmediatesAsLoaded
BY OperandsInvariant, ImmediatesAreAsLoaded, PTL

-----------------------------------------------------------------------------
(* The two builds.                                                         *)

\* What does not depend on the build.
LEMMA WordsShared ==
  /\ Js!W8 = Wasm!W8 /\ Js!W16 = Wasm!W16 /\ Js!W32 = Wasm!W32 /\ Js!W64 = Wasm!W64
  /\ Js!MAX = Wasm!MAX
  /\ \A v : /\ Js!AsU32(v) = Wasm!AsU32(v) /\ Js!AsU64(v) = Wasm!AsU64(v) /\ Js!Not(v) = Wasm!Not(v)
            /\ Js!Low(v) = Wasm!Low(v) /\ Js!High(v) = Wasm!High(v)
  /\ \A v, n : /\ Js!Signed(v, n) = Wasm!Signed(v, n) /\ Js!Shl(v, n) = Wasm!Shl(v, n)
               /\ Js!Shr(v, n) = Wasm!Shr(v, n) /\ Js!Bit(v, n) = Wasm!Bit(v, n)
               /\ Js!Quotient(v, n) = Wasm!Quotient(v, n) /\ Js!Remainder(v, n) = Wasm!Remainder(v, n)
  /\ \A b : Js!Flag(b) = Wasm!Flag(b)
BY DEF Js!W8, Js!W16, Js!W32, Js!W64, Js!MAX, Js!AsU32, Js!AsU64, Js!Not, Js!Low, Js!High, Js!Signed, Js!Shl,
       Js!Shr, Js!Bit, Js!Quotient, Js!Remainder, Js!Magnitude, Js!Flag,
       Wasm!W8, Wasm!W16, Wasm!W32, Wasm!W64, Wasm!MAX, Wasm!AsU32, Wasm!AsU64, Wasm!Not, Wasm!Low, Wasm!High,
       Wasm!Signed, Wasm!Shl, Wasm!Shr, Wasm!Bit, Wasm!Quotient, Wasm!Remainder, Wasm!Magnitude, Wasm!Flag

LEMMA BitsShared ==
  /\ \A n, u, v : /\ Js!And(n, u, v) = Wasm!And(n, u, v) /\ Js!Or(n, u, v) = Wasm!Or(n, u, v)
                  /\ Js!Xor(n, u, v) = Wasm!Xor(n, u, v)
  /\ \A v : Js!Swap32(v) = Wasm!Swap32(v)
BY Zenon DEF Js!And, Js!Or, Js!Xor, Js!Swap32, Js!OfBits, Js!Bit, Js!W32,
       Wasm!And, Wasm!Or, Wasm!Xor, Wasm!Swap32, Wasm!OfBits, Wasm!Bit, Wasm!W32

LEMMA ExtendedShared == \A v : Js!Extended(v) = Wasm!Extended(v)
BY WordsShared DEF Js!Extended, Js!SignExtend, Wasm!Extended, Wasm!SignExtend

LEMMA CountsShared ==
  \A v : /\ Js!Popcnt32(v) = Wasm!Popcnt32(v) /\ Js!Clz32(v) = Wasm!Clz32(v) /\ Js!Ctz32(v) = Wasm!Ctz32(v)
BY DEF Js!Popcnt32, Js!Clz32, Js!Ctz32, Js!Bit, Js!W32, Js!Cardinality,
       Wasm!Popcnt32, Wasm!Clz32, Wasm!Ctz32, Wasm!Bit, Wasm!W32, Wasm!Cardinality

LEMMA Math32Shared ==
  ASSUME NEW op \in Wasm!Math32Ops, NEW a, NEW b
  PROVE  Js!Math32(op, a, b) = Wasm!Math32(op, a, b)
<1>1. CASE op = "add_32"
  BY <1>1, WordsShared, ExtendedShared DEF Js!Math32, Wasm!Math32
<1>2. CASE op = "sub_32"
  BY <1>2, WordsShared, ExtendedShared DEF Js!Math32, Wasm!Math32
<1>3. CASE op = "mul_32"
  BY <1>3, WordsShared, ExtendedShared DEF Js!Math32, Wasm!Math32
<1>4. CASE op = "div_u_32"
  BY <1>4, WordsShared, ExtendedShared DEF Js!Math32, Wasm!Math32
<1>5. CASE op = "div_s_32"
  BY <1>5, WordsShared, ExtendedShared DEF Js!Math32, Wasm!Math32
<1>6. CASE op = "rem_u_32"
  BY <1>6, WordsShared, ExtendedShared DEF Js!Math32, Wasm!Math32
<1>7. CASE op = "rem_s_32"
  BY <1>7, WordsShared, ExtendedShared DEF Js!Math32, Wasm!Math32
<1> QED BY <1>1, <1>2, <1>3, <1>4, <1>5, <1>6, <1>7 DEF Wasm!Math32Ops

LEMMA MulUpperShared ==
  \A a, b : /\ Js!MulUpperUnsigned(a, b) = Wasm!MulUpperUnsigned(a, b)
            /\ Js!Negated(a, b) = Wasm!Negated(a, b)
            /\ Js!MulUpperSigned(a, b) = Wasm!MulUpperSigned(a, b)
            /\ Js!MulUpperSignedUnsigned(a, b) = Wasm!MulUpperSignedUnsigned(a, b)
<1>1. \A a, b : Js!MulUpperUnsigned(a, b) = Wasm!MulUpperUnsigned(a, b)
  BY WordsShared DEF Js!MulUpperUnsigned, Wasm!MulUpperUnsigned
<1>2. \A a, b : Js!Negated(a, b) = Wasm!Negated(a, b)
  BY <1>1, WordsShared DEF Js!Negated, Wasm!Negated
<1> QED BY <1>1, <1>2, WordsShared DEF Js!MulUpperSigned, Wasm!MulUpperSigned, Js!MulUpperSignedUnsigned,
          Wasm!MulUpperSignedUnsigned

LEMMA Math64Shared ==
  ASSUME NEW op \in Wasm!Math64Ops, NEW a, NEW b
  PROVE  Js!Math64(op, a, b) = Wasm!Math64(op, a, b)
<1>1. CASE op = "add_64"
  BY <1>1, WordsShared, MulUpperShared DEF Js!Math64, Wasm!Math64
<1>2. CASE op = "sub"
  BY <1>2, WordsShared, MulUpperShared DEF Js!Math64, Wasm!Math64
<1>3. CASE op = "mul"
  BY <1>3, WordsShared, MulUpperShared DEF Js!Math64, Wasm!Math64
<1>4. CASE op = "div_u"
  BY <1>4, WordsShared, MulUpperShared DEF Js!Math64, Wasm!Math64
<1>5. CASE op = "div_s"
  BY <1>5, WordsShared, MulUpperShared DEF Js!Math64, Wasm!Math64
<1>6. CASE op = "rem_u"
  BY <1>6, WordsShared, MulUpperShared DEF Js!Math64, Wasm!Math64
<1>7. CASE op = "rem_s"
  BY <1>7, WordsShared, MulUpperShared DEF Js!Math64, Wasm!Math64
<1>8. CASE op = "mul_upper_s_s"
  BY <1>8, WordsShared, MulUpperShared DEF Js!Math64, Wasm!Math64
<1>9. CASE op = "mul_upper_u_u"
  BY <1>9, WordsShared, MulUpperShared DEF Js!Math64, Wasm!Math64
<1>10. CASE op = "mul_upper_s_u"
  BY <1>10, WordsShared, MulUpperShared DEF Js!Math64, Wasm!Math64
<1>11. CASE op = "max"
  BY <1>11, WordsShared, MulUpperShared DEF Js!Math64, Wasm!Math64
<1>12. CASE op = "max_u"
  BY <1>12, WordsShared, MulUpperShared DEF Js!Math64, Wasm!Math64
<1>13. CASE op = "min"
  BY <1>13, WordsShared, MulUpperShared DEF Js!Math64, Wasm!Math64
<1>14. CASE op = "min_u"
  BY <1>14, WordsShared, MulUpperShared DEF Js!Math64, Wasm!Math64
<1> QED BY <1>1, <1>2, <1>3, <1>4, <1>5, <1>6, <1>7, <1>8, <1>9, <1>10, <1>11, <1>12, <1>13, <1>14 DEF Wasm!Math64Ops

LEMMA LogicShared == \A op, a, b : Js!Logic(op, a, b) = Wasm!Logic(op, a, b)
BY WordsShared, BitsShared DEF Js!Logic, Wasm!Logic

LEMMA ShiftShared == \A op, a, b : Js!Shift(op, a, b) = Wasm!Shift(op, a, b)
BY WordsShared, ExtendedShared DEF Js!Shift, Wasm!Shift

LEMMA RotateShared ==
  /\ \A n, v, s : Js!RotL(n, v, s) = Wasm!RotL(n, v, s) /\ Js!RotR(n, v, s) = Wasm!RotR(n, v, s)
  /\ \A op, a, b : Js!Rotate(op, a, b) = Wasm!Rotate(op, a, b)
<1>1. \A n, v, s : Js!RotL(n, v, s) = Wasm!RotL(n, v, s) /\ Js!RotR(n, v, s) = Wasm!RotR(n, v, s)
  BY WordsShared, BitsShared DEF Js!RotL, Wasm!RotL, Js!RotR, Wasm!RotR
<1> QED BY <1>1, WordsShared, ExtendedShared DEF Js!Rotate, Wasm!Rotate

LEMMA RegShared ==
  \A op \in Wasm!RegOps : \A a, b, d : Js!RegResult(op, a, b, d) = Wasm!RegResult(op, a, b, d)
<1>1. /\ \A op, a, b : Js!SetIf(op, a, b) = Wasm!SetIf(op, a, b)
      /\ \A op, a, b, d : Js!Move(op, a, b, d) = Wasm!Move(op, a, b, d)
  BY WordsShared DEF Js!SetIf, Wasm!SetIf, Js!Move, Wasm!Move
<1>2. /\ Js!Math32Ops = Wasm!Math32Ops /\ Js!Math64Ops = Wasm!Math64Ops /\ Js!LogicOps = Wasm!LogicOps
      /\ Js!ShiftOps = Wasm!ShiftOps /\ Js!RotateOps = Wasm!RotateOps /\ Js!SetOps = Wasm!SetOps
      /\ Js!MoveOps = Wasm!MoveOps
  BY DEF Js!Math32Ops, Wasm!Math32Ops, Js!Math64Ops, Wasm!Math64Ops, Js!LogicOps, Wasm!LogicOps, Js!ShiftOps,
         Wasm!ShiftOps, Js!RotateOps, Wasm!RotateOps, Js!SetOps, Wasm!SetOps, Js!MoveOps, Wasm!MoveOps
<1> QED BY <1>1, <1>2, Math32Shared, Math64Shared, LogicShared, ShiftShared, RotateShared
        DEF Js!RegResult, Wasm!RegResult, Wasm!RegOps

\* The one conversion of the instructions that count and extend that differs is
\* done again when the result is stored.
LEMMA SignExtendShared ==
  ASSUME NEW v \in Int, NEW n \in Nat
  PROVE  /\ Wasm!Signed(v, n) \in Int /\ Wasm!SignExtend(v, n) = Wasm!Signed(v, n)
         /\ Js!SignExtend(v, n) = Wasm!AsU64(Wasm!Signed(v, n))
         /\ Wasm!AsU64(Js!SignExtend(v, n)) = Wasm!AsU64(Wasm!SignExtend(v, n))
<1> DEFINE p == 2 ^ n  s == Wasm!Signed(v, n)
<1>1. s \in Int
  <2>1. p \in Nat \ {0}
    BY PowerFacts
  <2>2. v % p \in Int
    <3> HIDE DEF p
    <3>1. v % p \in 0 .. p - 1
      BY <2>1, DivMod
    <3> QED BY <2>1, <3>1
  <2> DEFINE low == v % p
  <2>3. s = IF low < 2 ^ (n - 1) THEN low ELSE low - p
    BY DEF Wasm!Signed
  <2> HIDE DEF low, p, s
  <2> QED BY <2>1, <2>2, <2>3 DEF low
<1>2. Wasm!SignExtend(v, n) = s /\ Js!SignExtend(v, n) = Wasm!AsU64(s)
  BY WordsShared DEF Wasm!SignExtend, Js!SignExtend
<1> HIDE DEF s
<1>3. Wasm!AsU64(Wasm!AsU64(s)) = Wasm!AsU64(s)
  <2>1. Top \in Nat \ {0}
    BY HalfTop
  <2>2. (s % Top) % Top = s % Top
    BY <1>1, <2>1, ModSum
  <2> QED BY <2>2, WasmWords
<1> QED BY <1>1, <1>2, <1>3 DEF s

LEMMA BitCountShared ==
  ASSUME NEW op \in Wasm!BitOps, x \in Int
  PROVE  Js!BitCount(op, x) = Wasm!BitCount(op, x)
<1>1. /\ Js!Popcnt64(x) = Wasm!Popcnt64(x) /\ Js!Clz64(x) = Wasm!Clz64(x) /\ Js!Ctz64(x) = Wasm!Ctz64(x)
      /\ Js!Swap64(x) = Wasm!Swap64(x)
  BY WordsShared, BitsShared, CountsShared
     DEF Js!Popcnt64, Wasm!Popcnt64, Js!Clz64, Wasm!Clz64, Js!Ctz64, Wasm!Ctz64, Js!Swap64, Wasm!Swap64
<1>2. /\ Wasm!AsU64(Js!SignExtend(x, Wasm!W8)) = Wasm!AsU64(Wasm!SignExtend(x, Wasm!W8))
      /\ Wasm!AsU64(Js!SignExtend(x, Wasm!W16)) = Wasm!AsU64(Wasm!SignExtend(x, Wasm!W16))
  <2>1. Wasm!W8 \in Nat /\ Wasm!W16 \in Nat
    BY ComputationAssumption DEF Wasm!W8, Wasm!W16
  <2> QED BY <2>1, SignExtendShared
<1>3. CASE op \in {"count_set_bits_64", "count_set_bits_32", "leading_zero_bits_64"}
  BY <1>1, <1>3, WordsShared, CountsShared DEF Js!BitCount, Wasm!BitCount
<1>4. CASE op \in {"leading_zero_bits_32", "trailing_zero_bits_64", "trailing_zero_bits_32"}
  BY <1>1, <1>4, WordsShared, CountsShared DEF Js!BitCount, Wasm!BitCount
<1>5. CASE op \in {"sign_extend_8", "sign_extend_16", "zero_extend_16", "reverse_bytes"}
  BY <1>1, <1>2, <1>5, WordsShared DEF Js!BitCount, Wasm!BitCount
<1> QED BY <1>3, <1>4, <1>5 DEF Wasm!BitOps

\* An immediate, which in JavaScript has a sign.
LEMMA ArgShared ==
  ASSUME NEW c \in 0 .. Half - 1
  PROVE  /\ Js!Arg(c) = WordOf(c) /\ Wasm!Arg(c) = c /\ (2 * c < Half => Js!Arg(c) = c)
         /\ Js!Arg(c) \in Int /\ Js!Arg(c) % Half = c /\ Wasm!AsU64(Js!Arg(c)) \in 0 .. Top - 1
         /\ Wasm!AsU64(Js!Arg(c)) % Half = c /\ Wasm!AsU64(c) = c
<1>1. Half \in Nat \ {0} /\ Top \in Nat \ {0} /\ c \in Int
  BY HalfTop
<1>2. Js!Arg(c) = WordOf(c) /\ Wasm!Arg(c) = c
  BY <1>1, WordsShared, WordIs DEF Js!Arg, Wasm!Arg
<1>3. c % Half = c /\ c % Top = c
  BY LoadedIs
<1>4. 2 * c < Half => WordOf(c) = c
  BY <1>3 DEF WordOf
<1> DEFINE u == WordOf(c)
<1>5. u \in Int /\ u % Half = c
  <2>1. u \in Int
    BY <1>1, WordIs
  <2>2. u = c + Half * 0 \/ u = c + Half * (-1)
    BY <1>1, <1>3 DEF WordOf
  <2> HIDE DEF u
  <2>3. (c + Half * 0) % Half = c % Half /\ (c + Half * (-1)) % Half = c % Half
    BY <1>1, ModShift
  <2> QED BY <1>3, <2>1, <2>2, <2>3
<1> HIDE DEF u
<1>6. u % Top \in 0 .. Top - 1 /\ (u % Top) % Half = u % Half
  BY <1>1, <1>5, ModSum, LowOfRegister
<1> QED BY <1>1, <1>2, <1>3, <1>4, <1>5, <1>6, WasmWords DEF u

LEMMA MathImmShared ==
  ASSUME NEW op \in Wasm!MathImmOps, NEW c \in 0 .. Half - 1, x \in Int
  PROVE  Js!MathImm(op, x, c) = Wasm!MathImm(op, x, c)
<1> DEFINE a == Js!Arg(c)  u == Wasm!AsU64(a)
<1>1. /\ Half \in Nat \ {0} /\ Top \in Nat \ {0} /\ a \in Int /\ u \in Int /\ u % Half = c
      /\ Wasm!Arg(c) = c /\ Wasm!AsU64(c) = c /\ c \in Int /\ c % Half = c
  <2>1. u \in 0 .. Top - 1 /\ Top \in Nat
    BY ArgShared, HalfTop
  <2>2. u \in Int
    <3> HIDE DEF u
    <3> QED BY <2>1
  <2> QED BY <2>2, ArgShared, HalfTop, LoadedIs
<1>2. Js!AsU64(Js!Arg(c)) = u
  BY WordsShared
<1> HIDE DEF u, a
<1>3. CASE op = "mul_imm_32"
  <2>1. Js!MathImm(op, x, c) = Wasm!Extended(Wasm!AsU64(x * u))
    BY <1>2, <1>3, WordsShared, ExtendedShared DEF Js!MathImm
  <2>2. Wasm!MathImm(op, x, c) = Wasm!Extended(Wasm!AsU64(x * c))
    BY <1>1, <1>3 DEF Wasm!MathImm
  <2> DEFINE d == x * u  e == x * c
  <2>3. d \in Int /\ e \in Int /\ d = u * x /\ e = c * x
    BY <1>1
  <2>4. d % Half = e % Half
    <3>1. ((u % Half) * x) % Half = (u * x) % Half
      BY <1>1, ModSum
    <3> QED BY <1>1, <2>3, <3>1
  <2> HIDE DEF d, e
  <2>5. Wasm!Extended(Wasm!AsU64(d)) = Wasm!Extended(Wasm!AsU64(e))
    BY <2>3, <2>4, SameWord
  <2> QED BY <2>1, <2>2, <2>5 DEF d, e
<1>4. CASE op = "neg_add_imm_32"
  <2> DEFINE r == Wasm!Or(Wasm!W64, u, 2 ^ Wasm!W32)  t == Wasm!Or(Wasm!W64, c, 2 ^ Wasm!W32)
  <2>1. Js!MathImm(op, x, c) = Wasm!Extended(Wasm!AsU64(r - x))
    BY <1>2, <1>4, WordsShared, ExtendedShared, BitsShared DEF Js!MathImm
  <2>2. Wasm!MathImm(op, x, c) = Wasm!Extended(Wasm!AsU64(t - x))
    BY <1>1, <1>4 DEF Wasm!MathImm
  <2>3. r \in Int /\ t \in Int /\ r % Half = c /\ t % Half = c
    <3>1. r \in 0 .. Top - 1 /\ r % Half = u % Half
      BY <1>1, OrLow
    <3>2. t \in 0 .. Top - 1 /\ t % Half = c % Half
      BY <1>1, OrLow
    <3> HIDE DEF r, t
    <3> QED BY <1>1, <3>1, <3>2
  <2> HIDE DEF r, t
  <2> DEFINE d == r - x  e == t - x  n == -x
  <2>4. d \in Int /\ e \in Int /\ d = r + n /\ e = t + n /\ n \in Int
    BY <2>3
  <2> HIDE DEF d, e, n
  <2>5. d % Half = e % Half
    <3>1. ((r % Half) + n) % Half = (r + n) % Half /\ ((t % Half) + n) % Half = (t + n) % Half
      BY <1>1, <2>3, <2>4, ModSum
    <3> QED BY <2>3, <2>4, <3>1
  <2>6. Wasm!Extended(Wasm!AsU64(d)) = Wasm!Extended(Wasm!AsU64(e))
    BY <2>4, <2>5, SameWord
  <2> QED BY <2>1, <2>2, <2>6 DEF d, e
<1>5. CASE op \in {"add_imm_32", "add_imm", "mul_imm", "neg_add_imm"}
  BY <1>5, WordsShared, ExtendedShared DEF Js!MathImm, Wasm!MathImm
<1> QED BY <1>3, <1>4, <1>5 DEF Wasm!MathImmOps

\* In both builds an amount is the same modulo the bits of the word; without a
\* sign it is the same.
LEMMA AmountShared ==
  ASSUME NEW c \in 0 .. Half - 1, NEW n \in {Wasm!W32, Wasm!W64}
  PROVE  /\ Js!ArgShift(c, n) % n = Wasm!ArgShift(c, n) % n
         /\ 2 * c < Half => Js!ArgShift(c, n) = Wasm!ArgShift(c, n)
<1> DEFINE a == Js!Arg(c)  q == Wasm!Quotient(a, n)  r == Wasm!Remainder(a, n)
<1>1. n \in Nat \ {0} /\ Half \in Nat \ {0} /\ c \in Int
  BY Widths, HalfTop
<1>2. PICK k \in Nat : Half = n * k
  BY Widths
<1>3. /\ Js!ArgShift(c, n) = r % Half /\ (2 * c < Half => Js!ArgShift(c, n) = Wasm!ArgShift(c, n))
  BY ArgShared, WordsShared, WasmWords DEF Js!ArgShift, Wasm!ArgShift
<1>4. a \in Int /\ (a = c \/ a = c + Half * (-1))
  <2>1. c % Half = c
    BY LoadedIs
  <2>2. a = WordOf(c) /\ a \in Int
    BY ArgShared
  <2> HIDE DEF a
  <2> QED BY <1>1, <2>1, <2>2 DEF WordOf
<1>5. q \in Int /\ r = a - n * q
  <2>1. Wasm!Magnitude(n) = n /\ Wasm!Magnitude(a) \in Nat
    <3> HIDE DEF a
    <3> QED BY <1>1, <1>4 DEF Wasm!Magnitude
  <2> DEFINE e == Wasm!Magnitude(a)
  <2>2. e \div n \in Int
    <3> HIDE DEF e
    <3> QED BY <1>1, <2>1, DivMod DEF e
  <2>3. q = IF (a < 0) = (n < 0) THEN e \div n ELSE -(e \div n)
    BY <2>1 DEF Wasm!Quotient
  <2>4. r = a - n * q
    BY DEF Wasm!Remainder
  <2> HIDE DEF e, r, q
  <2> QED BY <2>2, <2>3, <2>4
<1> HIDE DEF a, q, r
<1> DEFINE z == k * ((r \div Half))
<1>6. r \in Int /\ r = (r % Half) + n * z /\ r % Half \in Int /\ z \in Int
  <2> DEFINE d == r \div Half  l == r % Half
  <2>1. r \in Int
    <3>1. n * q \in Int
      BY <1>1, <1>5
    <3> QED BY <1>4, <1>5, <3>1
  <2>2. d \in Int /\ l \in 0 .. Half - 1 /\ r = Half * d + l
    BY <1>1, <2>1, DivMod
  <2> HIDE DEF d, l
  <2>3. (n * k) * d = n * (k * d) /\ k * d \in Int
    BY <1>1, <1>2, <2>2
  <2> DEFINE e == k * d
  <2>4. Half * d = n * e /\ e \in Int
    BY <1>2, <2>3
  <2> HIDE DEF e
  <2>5. r = l + n * e
    <3> DEFINE f == n * e
    <3>1. f \in Int /\ r = f + l /\ l \in Int
      BY <1>1, <2>2, <2>4
    <3> HIDE DEF f
    <3>2. r = l + f
      BY <3>1
    <3> QED BY <3>2 DEF f
  <2>6. l \in Int
    BY <1>1, <2>2
  <2> QED BY <2>1, <2>4, <2>5, <2>6 DEF l, d, e
<1> HIDE DEF z
<1>7. (r % Half) % n = r % n
  <2> DEFINE l == r % Half
  <2>1. l \in Int /\ r = l + n * z
    BY <1>6
  <2> HIDE DEF l
  <2>2. (l + n * z) % n = l % n
    BY <1>1, <1>6, <2>1, ModShift
  <2> QED BY <2>1, <2>2 DEF l
<1>8. r % n = a % n
  <2> DEFINE d == -q
  <2>1. d \in Int /\ r = a + n * d
    BY <1>1, <1>4, <1>5
  <2> HIDE DEF d
  <2>2. (a + n * d) % n = a % n
    BY <1>1, <1>4, <2>1, ModShift
  <2> QED BY <2>1, <2>2
<1>9. a % n = c % n
  <2>1. CASE a = c
    BY <2>1
  <2>2. CASE a = c + Half * (-1)
    <3> DEFINE d == -k
    <3>1. d \in Int /\ a = c + n * d
      BY <1>1, <1>2, <2>2
    <3> HIDE DEF d
    <3>2. (c + n * d) % n = c % n
      BY <1>1, <3>1, ModShift
    <3> QED BY <3>1, <3>2
  <2> QED BY <1>4, <2>1, <2>2
<1>10. Wasm!ArgShift(c, n) % n = c % n
  BY AmountIs
<1> QED BY <1>3, <1>7, <1>8, <1>9, <1>10

LEMMA ShiftImm32Shared ==
  ASSUME NEW op \in Wasm!Shift32ImmOps, NEW c \in 0 .. Half - 1, ~PortableDiffers(op, c)
  PROVE  Js!ShiftImm32(op, x, c) = Wasm!ShiftImm32(op, x, c)
<1> DEFINE s == Js!ArgShift(c, Wasm!W32)  t == Wasm!ArgShift(c, Wasm!W32)
<1>1. s % Wasm!W32 = t % Wasm!W32 /\ (2 * c < Half => s = t)
  BY AmountShared
<1>2. Wasm!AsU32(Js!Arg(c)) = Wasm!AsU32(Wasm!Arg(c))
  <2>1. c % Half = c
    BY LoadedIs
  <2> QED BY <2>1, ArgShared, WasmWords
<1>3. CASE op \in {"shlo_l_imm_32", "shlo_r_imm_32"}
  BY <1>1, <1>3, WordsShared, ExtendedShared DEF Js!ShiftImm32, Wasm!ShiftImm32
<1>4. CASE op = "shar_r_imm_32"
  <2>1. 2 * c < Half
    <3>1. ~(2 * c >= Half)
      BY <1>4 DEF PortableDiffers
    <3> QED BY <3>1, HalfTop
  <2> QED BY <1>1, <1>4, <2>1, WordsShared DEF Js!ShiftImm32, Wasm!ShiftImm32
<1>5. CASE op \in {"shlo_l_imm_alt_32", "shlo_r_imm_alt_32", "shar_r_imm_alt_32"}
  BY <1>2, <1>5, WordsShared, ExtendedShared DEF Js!ShiftImm32, Wasm!ShiftImm32
<1> QED BY <1>3, <1>4, <1>5 DEF Wasm!Shift32ImmOps

LEMMA ShiftImmShared ==
  ASSUME NEW op \in Wasm!Shift64ImmOps, NEW c \in 0 .. Half - 1, x \in Int, ~PortableDiffers(op, c)
  PROVE  Js!ShiftImm(op, x, c) = Wasm!ShiftImm(op, x, c)
<1> DEFINE t == x % Wasm!W64
<1>0. \A v, s : Js!ShlBig(v, s) = Wasm!ShlBig(v, s)
  BY WordsShared DEF Js!ShlBig, Wasm!ShlBig, Js!THROWS, Wasm!THROWS
<1>1. CASE op \in {"shlo_l_imm", "shlo_r_imm", "shar_r_imm"}
  <2>1. 2 * c < Half
    <3>1. ~(2 * c >= Half)
      BY <1>1 DEF PortableDiffers
    <3> QED BY <3>1, HalfTop
  <2>2. Js!ArgShift(c, Wasm!W64) = Wasm!ArgShift(c, Wasm!W64)
    BY <2>1, AmountShared
  <2> QED BY <1>0, <1>1, <2>2, WordsShared DEF Js!ShiftImm, Wasm!ShiftImm
<1>2. /\ Wasm!W32 \in Nat /\ c \in Int
      /\ Js!SignExtend(c, Wasm!W32) = Wasm!AsU64(Wasm!SignExtend(c, Wasm!W32))
      /\ Wasm!AsU64(Js!SignExtend(c, Wasm!W32)) = Wasm!AsU64(Wasm!SignExtend(c, Wasm!W32))
      /\ Wasm!SignExtend(c, Wasm!W32) \in Int
  <2>1. Wasm!W32 \in Nat /\ c \in Int
    BY Widths
  <2> QED BY <2>1, SignExtendShared
<1>3. CASE op = "shlo_l_imm_alt"
  <2> DEFINE e == Wasm!SignExtend(c, Wasm!W32)  p == 2 ^ t
  <2>1. Js!ShiftImm(op, x, c) = ((e % Top) * p) % Top /\ Wasm!ShiftImm(op, x, c) = (e * p) % Top
    BY <1>2, <1>3, WordsShared, WasmWords DEF Js!ShiftImm, Wasm!ShiftImm, Wasm!Shl
  <2>2. p \in Int
    <3>1. t \in Nat
      <4>1. t \in 0 .. Wasm!W64 - 1 /\ Wasm!W64 \in Nat
        BY Widths, DivMod
      <4> HIDE DEF t
      <4> QED BY <4>1
    <3> HIDE DEF t
    <3> QED BY <3>1, PowerFacts
  <2> HIDE DEF e, p
  <2>3. ((e % Top) * p) % Top = (e * p) % Top
    <3>1. Top \in Nat \ {0}
      BY HalfTop
    <3>2. e \in Int
      BY <1>2 DEF e
    <3> QED BY <2>2, <3>1, <3>2, ModSum
  <2> QED BY <2>1, <2>3
<1>4. CASE op = "shlo_r_imm_alt"
  BY <1>2, <1>4, WordsShared DEF Js!ShiftImm, Wasm!ShiftImm
<1>5. op # "shar_r_imm_alt"
  BY DEF PortableDiffers
<1> QED BY <1>1, <1>3, <1>4, <1>5 DEF Wasm!Shift64ImmOps

LEMMA ImmShared ==
  ASSUME NEW op \in Wasm!ImmOps, NEW c \in 0 .. Half - 1, x \in Int, ~PortableDiffers(op, c)
  PROVE  Js!ImmResult(op, x, c, y) = Wasm!ImmResult(op, x, c, y)
<1>1. /\ Js!MathImmOps = Wasm!MathImmOps /\ Js!LogicImmOps = Wasm!LogicImmOps
      /\ Js!Shift32ImmOps = Wasm!Shift32ImmOps /\ Js!Shift64ImmOps = Wasm!Shift64ImmOps
      /\ Js!RotateImmOps = Wasm!RotateImmOps /\ Js!SetImmOps = Wasm!SetImmOps
  BY DEF Js!MathImmOps, Wasm!MathImmOps, Js!LogicImmOps, Wasm!LogicImmOps, Js!Shift32ImmOps, Wasm!Shift32ImmOps,
         Js!Shift64ImmOps, Wasm!Shift64ImmOps, Js!RotateImmOps, Wasm!RotateImmOps, Js!SetImmOps, Wasm!SetImmOps
<1>2. /\ Js!LogicImm(op, x, c) = Wasm!LogicImm(op, x, c)
      /\ Js!RotateImm(op, x, c) = Wasm!RotateImm(op, x, c)
      /\ Js!MoveImm(op, x, c, y) = Wasm!MoveImm(op, x, c, y)
  BY WordsShared, BitsShared, ExtendedShared, RotateShared
     DEF Js!LogicImm, Wasm!LogicImm, Js!RotateImm, Wasm!RotateImm, Js!MoveImm, Wasm!MoveImm
<1>3. Js!SetImm(op, x, c) = Wasm!SetImm(op, x, c)
  BY WordsShared, ExtendedShared DEF Js!SetImm, Wasm!SetImm
<1>4. /\ op \in Wasm!MathImmOps => Js!MathImm(op, x, c) = Wasm!MathImm(op, x, c)
      /\ op \in Wasm!Shift32ImmOps => Js!ShiftImm32(op, x, c) = Wasm!ShiftImm32(op, x, c)
      /\ op \in Wasm!Shift64ImmOps => Js!ShiftImm(op, x, c) = Wasm!ShiftImm(op, x, c)
  BY MathImmShared, ShiftImm32Shared, ShiftImmShared
<1> QED BY <1>1, <1>2, <1>3, <1>4 DEF Js!ImmResult, Wasm!ImmResult

LEMMA BranchImmShared ==
  ASSUME NEW c
  PROVE  /\ \A op \in Wasm!BranchImmOps : Js!BranchImm(op, x, c) = Wasm!BranchImm(op, x, c)
         /\ Js!EffectiveAddress(x, c) = Wasm!EffectiveAddress(x, c)
<1>1. ASSUME NEW op \in Wasm!BranchImmOps PROVE Js!BranchImm(op, x, c) = Wasm!BranchImm(op, x, c)
  BY WordsShared, ExtendedShared DEF Js!BranchImm, Wasm!BranchImm, Wasm!BranchImmOps
<1> QED BY <1>1, WordsShared, ExtendedShared DEF Js!EffectiveAddress, Wasm!EffectiveAddress

-----------------------------------------------------------------------------
(* What is stored fits a register.                                         *)

Fits(v) == v \in 0 .. Top - 1

LEMMA WordsFit ==
  ASSUME NEW v \in Int
  PROVE  Fits(Wasm!AsU64(v)) /\ Fits(Wasm!Extended(v)) /\ Wasm!AsU32(v) \in Int /\ Wasm!AsU64(v) \in Int
<1>1. Top \in Nat \ {0} /\ Half \in Nat \ {0}
  BY HalfTop
<1>2. v % Top \in 0 .. Top - 1
  BY <1>1, DivMod
<1>3. v % Half \in 0 .. Half - 1
  BY <1>1, DivMod
<1>4. v % Top \in Int /\ v % Half \in Int
  <2> DEFINE a == v % Top  b == v % Half
  <2>1. a \in 0 .. Top - 1 /\ b \in 0 .. Half - 1
    BY <1>2, <1>3
  <2> HIDE DEF a, b
  <2>2. a \in Int /\ b \in Int
    BY <1>1, <2>1
  <2> QED BY <2>2 DEF a, b
<1> QED BY <1>2, <1>4, WasmWords, ExtendedWord DEF Fits

LEMMA QuotientInt ==
  ASSUME NEW b \in Int, NEW a \in Int, a # 0
  PROVE  Wasm!Quotient(b, a) \in Int /\ Wasm!Remainder(b, a) \in Int
<1> DEFINE d == Wasm!Magnitude(b)  e == Wasm!Magnitude(a)  q == d \div e
<1>1. d \in Nat /\ e \in Nat \ {0}
  BY DEF Wasm!Magnitude
<1>2. q \in Int
  <2> HIDE DEF d, e
  <2> QED BY <1>1, DivMod
<1>3. Wasm!Quotient(b, a) = IF (b < 0) = (a < 0) THEN q ELSE -q
  BY DEF Wasm!Quotient
<1> HIDE DEF q
<1>4. Wasm!Quotient(b, a) \in Int
  BY <1>2, <1>3
<1> DEFINE z == Wasm!Quotient(b, a)
<1>5. Wasm!Remainder(b, a) = b - a * z
  BY DEF Wasm!Remainder
<1> HIDE DEF z
<1>6. a * z \in Int
  BY <1>4 DEF z
<1> QED BY <1>4, <1>5, <1>6

LEMMA Math32Fits ==
  ASSUME NEW op \in Wasm!Math32Ops, NEW a \in Int, NEW b \in Int
  PROVE  Fits(Wasm!Math32(op, a, b))
<1> DEFINE la == Wasm!AsU32(a)  lb == Wasm!AsU32(b)  sa == Wasm!Signed(a, Wasm!W32)  sb == Wasm!Signed(b, Wasm!W32)
<1>1. la \in Nat /\ lb \in Nat /\ sa \in Int /\ sb \in Int
  <2>1. la \in 0 .. Half - 1 /\ lb \in 0 .. Half - 1 /\ sa \in Int /\ sb \in Int
    BY ExtendedWord, WordIs
  <2> HIDE DEF la, lb, sa, sb
  <2> QED BY <2>1
<1>2. Fits(Wasm!MAX) /\ Fits(0) /\ 2 ^ Wasm!W32 \in Int
  <2>1. Wasm!MAX = Top - 1 /\ 2 ^ Wasm!W32 = Half
    BY WasmWords DEF Wasm!MAX, Top, Half
  <2> QED BY <2>1, HalfTop DEF Fits
<1>3. CASE op \in {"add_32", "sub_32", "mul_32"}
  <2> HIDE DEF la, lb
  <2>1. la + lb \in Int /\ b + (2 ^ Wasm!W32 - la) \in Int /\ a * b \in Int
    <3> DEFINE h == 2 ^ Wasm!W32
    <3>1. h \in Int
      BY <1>2
    <3> HIDE DEF h
    <3>2. la + lb \in Int /\ b + (h - la) \in Int /\ a * b \in Int
      BY <1>1, <3>1
    <3> QED BY <3>2 DEF h
  <2>2. Wasm!AsU64(b + (2 ^ Wasm!W32 - la)) \in Int /\ Wasm!AsU64(a * b) \in Int
    BY <2>1, WordsFit
  <2>3. /\ Wasm!Math32("add_32", a, b) = Wasm!Extended(la + lb)
        /\ Wasm!Math32("sub_32", a, b) = Wasm!Extended(Wasm!AsU64(b + (2 ^ Wasm!W32 - la)))
        /\ Wasm!Math32("mul_32", a, b) = Wasm!Extended(Wasm!AsU64(a * b))
    BY DEF Wasm!Math32, la, lb
  <2> QED BY <1>3, <2>1, <2>2, <2>3, WordsFit
<1>4. CASE op \in {"div_u_32", "rem_u_32"}
  <2> HIDE DEF la, lb
  <2>1. la # 0 => lb \div la \in Int /\ lb % la \in Int
    BY <1>1
  <2>2. /\ Wasm!Math32("div_u_32", a, b) = IF la = 0 THEN Wasm!MAX ELSE Wasm!Extended(lb \div la)
        /\ Wasm!Math32("rem_u_32", a, b) = IF la = 0 THEN Wasm!Extended(lb) ELSE Wasm!Extended(lb % la)
    BY DEF Wasm!Math32, la, lb
  <2>3. lb \in Int
    BY <1>1
  <2> QED BY <1>2, <1>4, <2>1, <2>2, <2>3, WordsFit
<1>5. CASE op \in {"div_s_32", "rem_s_32"}
  <2> DEFINE overflow == sa = -1 /\ sb = -(2 ^ (Wasm!W32 - 1))
  <2>1. /\ Wasm!Math32("div_s_32", a, b) = IF sa = 0 THEN Wasm!MAX ELSE IF overflow THEN Wasm!AsU64(sb)
                                            ELSE Wasm!AsU64(Wasm!Quotient(sb, sa))
        /\ Wasm!Math32("rem_s_32", a, b) = IF sa = 0 THEN Wasm!AsU64(sb) ELSE IF overflow THEN 0
                                            ELSE Wasm!AsU64(Wasm!Remainder(sb, sa))
    BY DEF Wasm!Math32
  <2> HIDE DEF sa, sb, overflow
  <2>2. sa # 0 => Wasm!Quotient(sb, sa) \in Int /\ Wasm!Remainder(sb, sa) \in Int
    BY <1>1, QuotientInt
  <2> QED BY <1>1, <1>2, <1>5, <2>1, <2>2, WordsFit
<1> QED BY <1>3, <1>4, <1>5 DEF Wasm!Math32Ops

LEMMA FitsInt == ASSUME NEW v, Fits(v) PROVE v \in Nat /\ v \in Int
<1>1. Top \in Nat
  BY HalfTop
<1> QED BY <1>1 DEF Fits

LEMMA Math64Fits ==
  ASSUME NEW op \in Wasm!Math64Ops, NEW a, NEW b, Fits(a), Fits(b)
  PROVE  Fits(Wasm!Math64(op, a, b))
<1> DEFINE sa == Wasm!Signed(a, Wasm!W64)  sb == Wasm!Signed(b, Wasm!W64)
<1>1. a \in Nat /\ b \in Nat /\ Top \in Nat \ {0} /\ a < Top /\ b < Top
  <2>1. a < Top /\ b < Top
    BY HalfTop DEF Fits
  <2> QED BY <2>1, FitsInt, HalfTop
<1>2. /\ sa \in Int /\ 2 * sa < Top /\ -Top <= 2 * sa /\ sb \in Int /\ 2 * sb < Top /\ -Top <= 2 * sb
  BY SignedIs DEF Fits
<1>3. Fits(Wasm!MAX) /\ Fits(0)
  <2>1. Wasm!MAX = Top - 1
    BY WasmWords DEF Wasm!MAX, Top
  <2> QED BY <2>1, HalfTop DEF Fits
<1> HIDE DEF sa, sb
<1>4. CASE op \in {"add_64", "sub", "mul"}
  <2>1. a + b \in Int /\ b - a \in Int /\ a * b \in Int
    BY <1>1
  <2>2. /\ Wasm!Math64("add_64", a, b) = Wasm!AsU64(a + b) /\ Wasm!Math64("sub", a, b) = Wasm!AsU64(b - a)
        /\ Wasm!Math64("mul", a, b) = Wasm!AsU64(a * b)
    BY DEF Wasm!Math64
  <2> QED BY <1>4, <2>1, <2>2, WordsFit
<1>5. CASE op \in {"div_u", "rem_u"}
  <2>1. /\ Wasm!Math64("div_u", a, b) = IF a = 0 THEN Wasm!MAX ELSE b \div a
        /\ Wasm!Math64("rem_u", a, b) = IF a = 0 THEN b ELSE b % a
    BY DEF Wasm!Math64
  <2>2. a # 0 => Fits(b \div a) /\ Fits(b % a)
    <3> SUFFICES ASSUME a # 0 PROVE Fits(b \div a) /\ Fits(b % a)
      OBVIOUS
    <3> DEFINE q == b \div a  r == b % a
    <3>1. q \in Nat /\ r \in 0 .. a - 1 /\ b = a * q + r
      <4>1. a \in Nat \ {0} /\ b \in Int
        BY <1>1
      <4>2. q \in Nat
        BY <1>1, <4>1, QuotientNat
      <4>3. r \in 0 .. a - 1 /\ b = a * q + r
        BY <4>1, DivMod
      <4> QED BY <4>2, <4>3
    <3> HIDE DEF q, r
    <3>2. 1 * q <= a * q
      <4>1. a * q = 1 * q + (a - 1) * q /\ (a - 1) * q \in Nat
        BY <1>1, <3>1
      <4> QED BY <1>1, <3>1, <4>1
    <3>3. q \in 0 .. Top - 1 /\ r \in 0 .. Top - 1
      <4> DEFINE p == a * q
      <4>1. p \in Int /\ q <= p /\ b = p + r
        BY <1>1, <3>1, <3>2
      <4> HIDE DEF p
      <4> QED BY <1>1, <3>1, <4>1
    <3> QED BY <3>3 DEF Fits, q, r
  <2> QED BY <1>3, <1>5, <2>1, <2>2
<1>6. CASE op \in {"div_s", "rem_s"}
  <2> DEFINE overflow == sa = -1 /\ sb = -(2 ^ (Wasm!W64 - 1))
  <2>1. /\ Wasm!Math64("div_s", a, b) = IF sa = 0 THEN Wasm!MAX ELSE IF overflow THEN Wasm!AsU64(sb)
                                         ELSE Wasm!AsU64(Wasm!Quotient(sb, sa))
        /\ Wasm!Math64("rem_s", a, b) = IF sa = 0 THEN Wasm!AsU64(sb) ELSE IF overflow THEN 0
                                         ELSE Wasm!AsU64(Wasm!Remainder(sb, sa))
    BY DEF Wasm!Math64, sa, sb
  <2> HIDE DEF overflow
  <2>2. sa # 0 => Wasm!Quotient(sb, sa) \in Int /\ Wasm!Remainder(sb, sa) \in Int
    BY <1>2, QuotientInt
  <2> QED BY <1>2, <1>3, <1>6, <2>1, <2>2, WordsFit
<1>7. CASE op \in {"mul_upper_s_s", "mul_upper_u_u", "mul_upper_s_u"}
  <2>1. /\ Wasm!Math64("mul_upper_s_s", a, b) = Wasm!MulUpperSigned(sb, sa)
        /\ Wasm!Math64("mul_upper_u_u", a, b) = Wasm!MulUpperUnsigned(b, a)
        /\ Wasm!Math64("mul_upper_s_u", a, b) = Wasm!MulUpperSignedUnsigned(sb, a)
    BY DEF Wasm!Math64, sa, sb
  <2>2. /\ Wasm!MulUpperSigned(sb, sa) = ((sb * sa) \div Top) % Top
        /\ Wasm!MulUpperSignedUnsigned(sb, a) = ((sb * a) \div Top) % Top
        /\ Wasm!MulUpperUnsigned(b, a) = (b * a) \div Top
    BY <1>2, UpperSigned, UpperSignedUnsigned, UpperExact DEF Fits
  <2>3. Fits(((sb * sa) \div Top) % Top) /\ Fits(((sb * a) \div Top) % Top)
    <3> DEFINE d == sb * sa  e == sb * a  f == d \div Top  g == e \div Top
    <3>1. d \in Int /\ e \in Int
      BY <1>1, <1>2
    <3> HIDE DEF d, e
    <3>2. f \in Int /\ g \in Int
      BY <1>1, <3>1, DivMod
    <3> HIDE DEF f, g
    <3>3. f % Top \in 0 .. Top - 1 /\ g % Top \in 0 .. Top - 1
      BY <1>1, <3>2, DivMod
    <3> QED BY <3>3 DEF f, g, d, e, Fits
  <2>4. Fits((b * a) \div Top)
    <3> DEFINE n == Top  d == b * a
    <3>1. n \in Nat \ {0} /\ b \in 0 .. n - 1 /\ a \in 0 .. n - 1
      BY <1>1
    <3> HIDE DEF n
    <3>2. d \in 0 .. n * n - 1
      <4>1. b * a <= b * n /\ b * n <= (n - 1) * n /\ b * a \in Nat
        <5>1. (n - 1) * n = b * n + (n - 1 - b) * n /\ (n - 1 - b) * n \in Nat
          BY <3>1
        <5>2. b * n = b * a + b * (n - a) /\ b * (n - a) \in Nat
          BY <3>1
        <5> QED BY <3>1, <5>1, <5>2
      <4>2. (n - 1) * n = n * n - n /\ n * n \in Nat
        BY <3>1
      <4> DEFINE f == b * n  g == n * n
      <4>3. d \in Nat /\ d <= f /\ f <= g - n /\ f \in Int /\ g \in Nat
        BY <3>1, <4>1, <4>2
      <4> HIDE DEF d, f, g
      <4>4. d \in 0 .. g - 1
        BY <3>1, <4>3
      <4> QED BY <4>4 DEF g
    <3> HIDE DEF d
    <3>3. d \div n \in 0 .. n - 1
      BY <3>1, <3>2, DivModRange
    <3> QED BY <3>3 DEF d, n, Fits
  <2> QED BY <1>7, <2>1, <2>2, <2>3, <2>4
<1>8. CASE op \in {"max", "max_u", "min", "min_u"}
  <2>1. /\ Wasm!Math64("max", a, b) = Wasm!AsU64(IF sa < sb THEN sb ELSE sa)
        /\ Wasm!Math64("min", a, b) = Wasm!AsU64(IF sa > sb THEN sb ELSE sa)
        /\ Wasm!Math64("max_u", a, b) = IF a < b THEN b ELSE a
        /\ Wasm!Math64("min_u", a, b) = IF a > b THEN b ELSE a
    BY DEF Wasm!Math64, sa, sb
  <2>2. Fits(Wasm!AsU64(sa)) /\ Fits(Wasm!AsU64(sb))
    BY <1>2, WordsFit
  <2> QED BY <1>8, <2>1, <2>2
<1> QED BY <1>4, <1>5, <1>6, <1>7, <1>8 DEF Wasm!Math64Ops

LEMMA LogicFits ==
  ASSUME NEW op \in Wasm!LogicOps, NEW a \in Int, NEW b \in Int
  PROVE  Fits(Wasm!Logic(op, a, b))
<1> DEFINE n == Wasm!W64  c == Wasm!Not(a)
<1>1. n \in Nat /\ 2 ^ n = Top /\ c \in Int
  BY Widths, WasmWords DEF Top, Wasm!Not
<1> HIDE DEF n, c
<1>2. /\ Fits(Wasm!And(n, b, a)) /\ Fits(Wasm!Xor(n, b, a)) /\ Fits(Wasm!Or(n, b, a))
      /\ Fits(Wasm!And(n, b, c)) /\ Fits(Wasm!Or(n, b, c))
  BY <1>1, AndBits, OrBits, XorBits DEF Fits
<1>3. Fits(Wasm!AsU64(Wasm!Not(Wasm!Xor(n, b, a))))
  <2> DEFINE d == Wasm!Xor(n, b, a)
  <2>1. d \in Int
    BY <1>2, FitsInt
  <2> HIDE DEF d
  <2>2. Wasm!Not(d) \in Int
    BY <2>1 DEF Wasm!Not
  <2> QED BY <2>2, WordsFit DEF d
<1>4. /\ Wasm!Logic("and", a, b) = Wasm!And(n, b, a) /\ Wasm!Logic("xor", a, b) = Wasm!Xor(n, b, a)
      /\ Wasm!Logic("or", a, b) = Wasm!Or(n, b, a) /\ Wasm!Logic("and_inv", a, b) = Wasm!And(n, b, c)
      /\ Wasm!Logic("or_inv", a, b) = Wasm!Or(n, b, c)
      /\ Wasm!Logic("xnor", a, b) = Wasm!AsU64(Wasm!Not(Wasm!Xor(n, b, a)))
  BY DEF Wasm!Logic, n, c
<1> QED BY <1>2, <1>3, <1>4 DEF Wasm!LogicOps

\* Shifted to the left or to the right an integer stays one, and a number
\* without a sign is not greater after a shift to the right.
LEMMA ShiftsFit ==
  ASSUME NEW v \in Int, NEW s \in Nat
  PROVE  /\ Wasm!Shl(v, s) \in Int /\ Wasm!Shr(v, s) \in Int
         /\ Fits(v) => Fits(Wasm!Shr(v, s))
<1> DEFINE p == 2 ^ s  q == v \div p  r == v % p
<1>1. p \in Nat \ {0}
  BY PowerFacts
<1>2. Wasm!Shl(v, s) = v * p /\ Wasm!Shr(v, s) = q
  BY DEF Wasm!Shl, Wasm!Shr
<1> HIDE DEF p
<1>3. q \in Int /\ r \in 0 .. p - 1 /\ v = p * q + r /\ v * p \in Int
  BY <1>1, DivMod
<1>4. v \in Nat => q \in Nat
  BY <1>1, QuotientNat
<1> HIDE DEF q, r
<1>5. q \in Nat => q <= v
  <2> SUFFICES ASSUME q \in Nat PROVE q <= v
    OBVIOUS
  <2>1. p * q = q + (p - 1) * q /\ (p - 1) * q \in Nat
    BY <1>1
  <2> DEFINE d == p * q  e == (p - 1) * q
  <2>2. v = d + r /\ d = q + e /\ e \in Nat
    BY <1>3, <2>1
  <2> HIDE DEF d, e
  <2> QED BY <1>1, <1>3, <2>2
<1>6. Fits(v) => Fits(q)
  <2>1. Top \in Nat
    BY HalfTop
  <2>2. Fits(v) => v \in Nat /\ v < Top
    BY <2>1 DEF Fits
  <2>3. Fits(v) => q \in Nat /\ q < Top
    BY <1>4, <1>5, <2>1, <2>2
  <2> QED BY <2>1, <2>3 DEF Fits
<1> QED BY <1>2, <1>3, <1>6

LEMMA Amounts ==
  ASSUME NEW v \in Int, NEW n \in {Wasm!W32, Wasm!W64}
  PROVE  v % n \in Nat /\ n - (v % n) \in Nat
<1>1. n \in Nat \ {0}
  BY Widths
<1> DEFINE s == v % n
<1>2. s \in 0 .. n - 1
  BY <1>1, DivMod
<1> HIDE DEF s
<1>3. s \in Nat /\ n - s \in Nat
  BY <1>1, <1>2
<1> QED BY <1>3 DEF s

LEMMA ShiftFits ==
  ASSUME NEW op \in Wasm!ShiftOps, NEW a \in Int, NEW b, Fits(b)
  PROVE  Fits(Wasm!Shift(op, a, b))
<1> DEFINE s == a % Wasm!W32  t == a % Wasm!W64  l == Wasm!AsU32(b)  u == Wasm!Signed(b, Wasm!W32)
           v == Wasm!Signed(b, Wasm!W64)
<1>1. s \in Nat /\ t \in Nat
  BY Amounts
<1>2. b \in Int
  BY FitsInt
<1>3. l \in Int /\ u \in Int /\ v \in Int
  BY <1>2, WordsFit, WordIs, SignedIs DEF Fits
<1>4. /\ Wasm!Shift("shlo_l_32", a, b) = Wasm!Extended(Wasm!Shl(l, s))
      /\ Wasm!Shift("shlo_r_32", a, b) = Wasm!Extended(Wasm!Shr(l, s))
      /\ Wasm!Shift("shar_r_32", a, b) = Wasm!Extended(Wasm!Shr(u, s))
      /\ Wasm!Shift("shlo_l", a, b) = Wasm!AsU64(Wasm!Shl(b, t))
      /\ Wasm!Shift("shlo_r", a, b) = Wasm!Shr(b, t)
      /\ Wasm!Shift("shar_r", a, b) = Wasm!AsU64(Wasm!Shr(v, t))
  BY DEF Wasm!Shift
<1> HIDE DEF s, t, l, u, v
<1>5. /\ Wasm!Shl(l, s) \in Int /\ Wasm!Shr(l, s) \in Int /\ Wasm!Shr(u, s) \in Int
      /\ Wasm!Shl(b, t) \in Int /\ Wasm!Shr(v, t) \in Int /\ Fits(Wasm!Shr(b, t))
  BY <1>1, <1>2, <1>3, ShiftsFit
<1> QED BY <1>4, <1>5, WordsFit DEF Wasm!ShiftOps

LEMMA RotateFits ==
  ASSUME NEW op \in Wasm!RotateOps, NEW a \in Int, NEW b \in Int
  PROVE  Fits(Wasm!Rotate(op, a, b))
<1>1. ASSUME NEW n \in {Wasm!W32, Wasm!W64}, NEW v \in Int, NEW k \in Int
      PROVE  Wasm!RotL(n, v, k) \in 0 .. 2 ^ n - 1 /\ Wasm!RotR(n, v, k) \in 0 .. 2 ^ n - 1
  <2> DEFINE s == k % n  t == n - s
  <2>1. s \in Nat /\ t \in Nat /\ n \in Nat
    BY Amounts, Widths
  <2>2. /\ Wasm!RotL(n, v, k) = Wasm!Or(n, Wasm!Shl(v, s), Wasm!Shr(v, t))
        /\ Wasm!RotR(n, v, k) = Wasm!Or(n, Wasm!Shr(v, s), Wasm!Shl(v, t))
    BY DEF Wasm!RotL, Wasm!RotR
  <2> HIDE DEF s, t
  <2>3. Wasm!Shl(v, s) \in Int /\ Wasm!Shr(v, t) \in Int /\ Wasm!Shr(v, s) \in Int /\ Wasm!Shl(v, t) \in Int
    BY <2>1, ShiftsFit
  <2> QED BY <2>1, <2>2, <2>3, OrBits
<1>2. 2 ^ Wasm!W64 = Top /\ 2 ^ Wasm!W32 = Half
  BY WasmWords DEF Top, Half
<1>3. Fits(Wasm!RotL(Wasm!W64, b, a)) /\ Fits(Wasm!RotR(Wasm!W64, b, a))
  BY <1>1, <1>2 DEF Fits
<1> DEFINE l == Wasm!AsU32(a)  k == Wasm!AsU32(b)
           d == Wasm!RotL(Wasm!W32, k, l)  e == Wasm!RotR(Wasm!W32, k, l)
<1>4. d \in Int /\ e \in Int
  <2>1. l \in Int /\ k \in Int
    BY WordsFit
  <2> HIDE DEF l, k
  <2>2. d \in 0 .. Half - 1 /\ e \in 0 .. Half - 1
    BY <1>1, <1>2, <2>1
  <2> HIDE DEF d, e
  <2> QED BY <2>2, HalfTop
<1>5. /\ Wasm!Rotate("rot_l_64", a, b) = Wasm!RotL(Wasm!W64, b, a)
      /\ Wasm!Rotate("rot_r_64", a, b) = Wasm!RotR(Wasm!W64, b, a)
      /\ Wasm!Rotate("rot_l_32", a, b) = Wasm!Extended(d) /\ Wasm!Rotate("rot_r_32", a, b) = Wasm!Extended(e)
  BY DEF Wasm!Rotate
<1> HIDE DEF d, e
<1> QED BY <1>3, <1>4, <1>5, WordsFit DEF Wasm!RotateOps

\* d is what the register written to holds.
LEMMA RegFits ==
  ASSUME NEW op \in Wasm!RegOps, NEW a, NEW b, NEW d, Fits(a), Fits(b), Fits(d)
  PROVE  Fits(Wasm!RegResult(op, a, b, d))
<1>1. a \in Int /\ b \in Int
  BY FitsInt
<1>2. Fits(Wasm!Flag(TRUE)) /\ Fits(Wasm!Flag(FALSE))
  BY HalfTop DEF Fits, Wasm!Flag
<1>3. op \in Wasm!SetOps => Fits(Wasm!SetIf(op, a, b))
  <2>1. \A p \in BOOLEAN : Fits(Wasm!Flag(p))
    BY <1>2
  <2> DEFINE p == b < a  q == Wasm!Signed(b, Wasm!W64) < Wasm!Signed(a, Wasm!W64)
  <2>2. Wasm!SetIf("set_lt_u", a, b) = Wasm!Flag(p) /\ Wasm!SetIf("set_lt_s", a, b) = Wasm!Flag(q)
    BY DEF Wasm!SetIf
  <2>3. Wasm!Flag(p) \in {Wasm!Flag(TRUE), Wasm!Flag(FALSE)} /\ Wasm!Flag(q) \in {Wasm!Flag(TRUE), Wasm!Flag(FALSE)}
    BY DEF Wasm!Flag
  <2> HIDE DEF p, q
  <2> QED BY <1>2, <2>2, <2>3 DEF Wasm!SetOps
<1>4. op \in Wasm!MoveOps => Fits(Wasm!Move(op, a, b, d))
  BY DEF Wasm!Move, Wasm!MoveOps
<1>5. /\ op \in Wasm!Math32Ops => Fits(Wasm!Math32(op, a, b))
      /\ op \in Wasm!Math64Ops => Fits(Wasm!Math64(op, a, b))
      /\ op \in Wasm!LogicOps => Fits(Wasm!Logic(op, a, b))
      /\ op \in Wasm!ShiftOps => Fits(Wasm!Shift(op, a, b))
      /\ op \in Wasm!RotateOps => Fits(Wasm!Rotate(op, a, b))
  BY <1>1, Math32Fits, Math64Fits, LogicFits, ShiftFits, RotateFits
<1> QED BY <1>3, <1>4, <1>5 DEF Wasm!RegResult, Wasm!RegOps

\* The bytes of a word in the other order.
LEMMA SwapBits ==
  ASSUME NEW v \in Int
  PROVE  /\ Wasm!Swap32(v) \in 0 .. Half - 1
         /\ \A i \in 0 .. Wasm!W32 - 1 :
              Wasm!Bit(Wasm!Swap32(v), i) = Wasm!Bit(v, ((3 - (i \div BYTE)) * BYTE) + (i % BYTE))
<1> DEFINE n == Wasm!W32
           place(i) == ((3 - (i \div BYTE)) * BYTE) + (i % BYTE)
           one(i) == Wasm!Bit(v, place(i))
           Body(g) == [i \in 0 .. n |-> IF i = n THEN 0 ELSE one(i) * 2 ^ i + g[i + 1]]
           sum == CHOOSE g : g = Body(g)
           b == [i \in 0 .. n - 1 |-> one(i)]
<1>1. Wasm!Swap32(v) = sum[0]
  BY DEF Wasm!Swap32, Wasm!OfBits
<1>2. ASSUME NEW i \in 0 .. n - 1 PROVE one(i) \in {0, 1}
  <2>1. BYTE \in Nat \ {0} /\ n = 4 * BYTE /\ i \in 0 .. 4 * BYTE - 1
    BY ComputationAssumption, WasmWords
  <2> DEFINE q == i \div BYTE  r == i % BYTE
  <2>2. q \in 0 .. 3 /\ r \in 0 .. BYTE - 1
    BY <2>1, DivModRange
  <2> HIDE DEF q, r, n
  <2>3. (3 - q) * BYTE \in Nat
    BY <2>1, <2>2
  <2>4. r \in Nat
    BY <2>1, <2>2
  <2> DEFINE d == (3 - q) * BYTE
  <2>5. d + r \in Nat
    <3>1. d \in Nat
      BY <2>3
    <3> HIDE DEF d
    <3> QED BY <2>4, <3>1
  <2>6. place(i) = d + r
    BY DEF q, r
  <2> HIDE DEF place, d
  <2>7. Wasm!Bit(v, d + r) \in {0, 1}
    BY <2>5, BitIs
  <2> QED BY <2>6, <2>7
<1> HIDE DEF one
<1>3. b \in [0 .. n - 1 -> {0, 1}] /\ \A i \in 0 .. n - 1 : b[i] = one(i)
  BY <1>2
<1> HIDE DEF b
<1>4. \A g : g = Body(g) => IsBitSum(g, n, b)
  <2>1. ASSUME NEW g, g = Body(g), NEW i \in 0 .. n
        PROVE  g[i] = IF i = n THEN 0 ELSE b[i] * 2 ^ i + g[i + 1]
    <3>1. g[i] = IF i = n THEN 0 ELSE one(i) * 2 ^ i + g[i + 1]
      BY <2>1
    <3>2. i # n => i \in 0 .. n - 1
      BY Widths
    <3> QED BY <1>3, <3>1, <3>2
  <2> HIDE DEF Body
  <2> QED BY <2>1 DEF IsBitSum
<1>5. \E g : g = Body(g)
  <2>1. PICK g \in [0 .. n -> Nat] : IsBitSum(g, n, b)
    BY <1>3, Widths, BitSumExists
  <2>2. ASSUME NEW i \in 0 .. n PROVE g[i] = IF i = n THEN 0 ELSE one(i) * 2 ^ i + g[i + 1]
    <3>1. i # n => i \in 0 .. n - 1
      BY Widths
    <3> QED BY <1>3, <2>1, <3>1 DEF IsBitSum
  <2>3. g = Body(g)
    BY <2>2
  <2> HIDE DEF Body
  <2> QED BY <2>3
<1>6. IsBitSum(sum, n, b)
  <2> HIDE DEF Body
  <2> QED BY <1>4, <1>5
<1> HIDE DEF sum
<1>7. sum[0] \in 0 .. 2 ^ n - 1 /\ \A i \in 0 .. n - 1 : Wasm!Bit(sum[0], i) = b[i]
  <2>1. n \in Nat
    BY Widths
  <2> HIDE DEF n
  <2>2. sum[0] \in 0 .. 2 ^ n - 1 /\ \A i \in 0 .. n - 1 : (sum[0] \div 2 ^ i) % 2 = b[i]
    BY <1>3, <1>6, <2>1, BitSum
  <2> QED BY <2>2 DEF Wasm!Bit
<1>8. 2 ^ n = Half
  BY WasmWords DEF Half
<1> QED BY <1>1, <1>3, <1>7, <1>8 DEF one

LEMMA CountsFit ==
  ASSUME NEW v
  PROVE  /\ Wasm!Popcnt32(v) \in 0 .. Wasm!W32 /\ Wasm!Clz32(v) \in 0 .. Wasm!W32
         /\ Wasm!Ctz32(v) \in 0 .. Wasm!W32
<1>1. ASSUME NEW s, s \subseteq 0 .. Wasm!W32 - 1 PROVE Cardinality(s) \in 0 .. Wasm!W32
  <2>1. Wasm!W32 \in Nat
    BY Widths
  <2>2. IsFiniteSet(0 .. Wasm!W32 - 1) /\ Cardinality(0 .. Wasm!W32 - 1) = Wasm!W32
    BY <2>1, FS_Interval
  <2>3. Cardinality(s) \in Nat /\ Cardinality(s) <= Wasm!W32
    BY <1>1, <2>2, FS_Subset, FS_CardinalityType
  <2> QED BY <2>1, <2>3
<1> DEFINE a == {i \in 0 .. Wasm!W32 - 1 : Wasm!Bit(v, i) = 1}
           b == {i \in 0 .. Wasm!W32 - 1 : v < 2 ^ i}
           c == {i \in 0 .. Wasm!W32 - 1 : v % 2 ^ (i + 1) = 0}
<1>2. a \subseteq 0 .. Wasm!W32 - 1 /\ b \subseteq 0 .. Wasm!W32 - 1 /\ c \subseteq 0 .. Wasm!W32 - 1
  OBVIOUS
<1>3. \A s : Wasm!Cardinality(s) = Cardinality(s)
  BY DEF Wasm!Cardinality, Cardinality
<1>4. Wasm!Popcnt32(v) = Cardinality(a) /\ Wasm!Clz32(v) = Cardinality(b) /\ Wasm!Ctz32(v) = Cardinality(c)
  BY <1>3 DEF Wasm!Popcnt32, Wasm!Clz32, Wasm!Ctz32
<1> HIDE DEF a, b, c
<1> QED BY <1>1, <1>2, <1>4

LEMMA BitCountFits ==
  ASSUME NEW op \in Wasm!BitOps, NEW v \in Int
  PROVE  Fits(Wasm!BitCount(op, v))
<1> DEFINE w == Wasm!W32  l == Wasm!Low(v)  h == Wasm!High(v)
<1>1. w \in Nat /\ 2 * w < Top /\ Half \in Nat \ {0} /\ Top = Half * Half /\ Top \in Nat
  <2>1. w \in Nat /\ w < Half /\ Half \in Nat /\ Half >= 16 /\ Top = Half * Half /\ Top \in Nat
    BY Widths, HalfTop
  <2> HIDE DEF w
  <2>2. 2 * Half <= Half * Half
    <3>1. Half * Half = 2 * Half + (Half - 2) * Half /\ (Half - 2) * Half \in Nat
      BY <2>1
    <3> QED BY <2>1, <3>1
  <2> QED BY <2>1, <2>2
<1>2. l \in Int /\ h \in Int
  <2> DEFINE q == v \div Half
  <2>1. q \in Int
    BY <1>1, DivMod
  <2> HIDE DEF q
  <2>2. v % Half \in 0 .. Half - 1 /\ q % Half \in 0 .. Half - 1
    BY <1>1, <2>1, DivMod
  <2>3. l \in 0 .. Half - 1 /\ h \in 0 .. Half - 1
    BY <2>2, WasmWords DEF q
  <2> HIDE DEF l, h
  <2> QED BY <1>1, <2>3
<1>3. CASE op \in {"count_set_bits_64", "leading_zero_bits_64", "trailing_zero_bits_64"}
  <2> DEFINE a == Wasm!Popcnt32(l)  b == Wasm!Popcnt32(h)  c == Wasm!Clz32(l)  d == Wasm!Clz32(h)
             e == Wasm!Ctz32(l)  f == Wasm!Ctz32(h)
  <2>1. a \in 0 .. w /\ b \in 0 .. w /\ c \in 0 .. w /\ d \in 0 .. w /\ e \in 0 .. w /\ f \in 0 .. w
    BY CountsFit
  <2>2. /\ Wasm!BitCount("count_set_bits_64", v) = a + b
        /\ Wasm!BitCount("leading_zero_bits_64", v) = IF h # 0 THEN d ELSE w + c
        /\ Wasm!BitCount("trailing_zero_bits_64", v) = IF l # 0 THEN e ELSE w + f
    BY DEF Wasm!BitCount, Wasm!Popcnt64, Wasm!Clz64, Wasm!Ctz64
  <2> HIDE DEF a, b, c, d, e, f, w
  <2>3. Fits(a + b) /\ Fits(d) /\ Fits(w + c) /\ Fits(e) /\ Fits(w + f)
    BY <1>1, <2>1 DEF Fits
  <2> QED BY <1>3, <2>2, <2>3
<1>4. CASE op \in {"count_set_bits_32", "leading_zero_bits_32", "trailing_zero_bits_32"}
  <2> DEFINE u == Wasm!AsU32(v)  a == Wasm!Popcnt32(u)  b == Wasm!Clz32(u)  c == Wasm!Ctz32(u)
  <2>1. a \in 0 .. w /\ b \in 0 .. w /\ c \in 0 .. w
    BY CountsFit
  <2>2. /\ Wasm!BitCount("count_set_bits_32", v) = a /\ Wasm!BitCount("leading_zero_bits_32", v) = b
        /\ Wasm!BitCount("trailing_zero_bits_32", v) = c
    BY DEF Wasm!BitCount
  <2> HIDE DEF a, b, c, w
  <2>3. Fits(a) /\ Fits(b) /\ Fits(c)
    BY <1>1, <2>1 DEF Fits
  <2> QED BY <1>4, <2>2, <2>3
<1>5. CASE op \in {"sign_extend_8", "sign_extend_16"}
  <2>1. Wasm!W8 \in Nat /\ Wasm!W16 \in Nat
    BY ComputationAssumption DEF Wasm!W8, Wasm!W16
  <2>2. Wasm!SignExtend(v, Wasm!W8) \in Int /\ Wasm!SignExtend(v, Wasm!W16) \in Int
    BY <2>1, SignExtendShared
  <2> QED BY <1>5, <2>2, WordsFit DEF Wasm!BitCount
<1>6. CASE op = "zero_extend_16"
  <2> DEFINE n == Wasm!W16  p == 2 ^ n
  <2>1. n \in Nat /\ 8 * BYTE \in Nat /\ n <= 8 * BYTE
    BY ComputationAssumption DEF Wasm!W16
  <2>2. p \in Nat \ {0} /\ p <= Top
    BY <2>1, PowerFacts, PowerMonotone DEF Top
  <2> HIDE DEF p
  <2>3. v % p \in 0 .. p - 1
    BY <2>2, DivMod
  <2>4. v % p \in 0 .. Top - 1
    <3> DEFINE r == v % p
    <3>1. r \in 0 .. p - 1
      BY <2>3
    <3> HIDE DEF r
    <3>2. r \in 0 .. Top - 1
      BY <1>1, <2>2, <3>1
    <3> QED BY <3>2 DEF r
  <2>5. Wasm!BitCount(op, v) = v % p
    BY <1>6 DEF Wasm!BitCount, p
  <2> QED BY <2>4, <2>5 DEF Fits
<1>7. CASE op = "reverse_bytes"
  <2> DEFINE a == Wasm!Swap32(l)  b == Wasm!Swap32(h)
  <2>1. a \in 0 .. Half - 1 /\ b \in 0 .. Half - 1
    BY <1>2, SwapBits
  <2>2. Wasm!BitCount(op, v) = a * Half + b
    <3>1. \A z : Wasm!Shl(z, w) = z * Half
      BY WasmWords DEF Wasm!Shl, Half
    <3> QED BY <1>7, <3>1 DEF Wasm!BitCount, Wasm!Swap64
  <2> HIDE DEF a, b
  <2>3. a * Half <= (Half - 1) * Half /\ (Half - 1) * Half = Half * Half - Half /\ a * Half \in Nat
    <3>1. (Half - 1) * Half = a * Half + (Half - 1 - a) * Half /\ (Half - 1 - a) * Half \in Nat
      BY <1>1, <2>1
    <3> QED BY <1>1, <2>1, <3>1
  <2> DEFINE d == a * Half
  <2>4. d \in Nat /\ d <= Top - Half
    BY <1>1, <2>3
  <2> HIDE DEF d
  <2>5. d + b \in 0 .. Top - 1
    BY <1>1, <2>1, <2>4
  <2> QED BY <2>2, <2>5 DEF d, Fits
<1> QED BY <1>3, <1>4, <1>5, <1>6, <1>7 DEF Wasm!BitOps

\* What an instruction with an immediate stands for is an instruction.
LEMMA RegistersNamed ==
  ASSUME NEW op \in DOMAIN OnRegisters
  PROVE  OnRegisters[op] \in Wasm!RegOps
<1>1. CASE op \in Wasm!MathImmOps
  BY <1>1 DEF OnRegisters, Wasm!MathImmOps, Wasm!RegOps, Wasm!Math32Ops, Wasm!Math64Ops
<1>2. CASE op \in Wasm!LogicImmOps
  BY <1>2 DEF OnRegisters, Wasm!LogicImmOps, Wasm!RegOps, Wasm!LogicOps
<1>3. CASE op \in Wasm!Shift32ImmOps \cup Wasm!Shift64ImmOps
  BY <1>3 DEF OnRegisters, Wasm!Shift32ImmOps, Wasm!Shift64ImmOps, Wasm!RegOps, Wasm!ShiftOps
<1>4. CASE op \in Wasm!RotateImmOps
  BY <1>4 DEF OnRegisters, Wasm!RotateImmOps, Wasm!RegOps, Wasm!RotateOps
<1>5. CASE op \in Wasm!SetImmOps
  BY <1>5 DEF OnRegisters, Wasm!SetImmOps, Wasm!RegOps, Wasm!SetOps
<1>6. CASE op \in {"cmov_iz_imm", "cmov_nz_imm"}
  BY <1>6 DEF OnRegisters, Wasm!RegOps, Wasm!MoveOps
<1> QED BY <1>1, <1>2, <1>3, <1>4, <1>5, <1>6 DEF OnRegisters, Wasm!ImmOps

LEMMA ImmFits ==
  ASSUME NEW c \in 0 .. Half - 1, NEW op \in Wasm!ImmOps, Fits(x), Fits(y)
  PROVE  Fits(Wasm!ImmResult(op, x, c, y))
<1> DEFINE v == Wasm!LoadImm(c)
<1>1. Fits(v) /\ x \in 0 .. Top - 1
  BY LoadedIs DEF Fits
<1> HIDE DEF v
<1>2. ASSUME NEW r \in Wasm!RegOps
      PROVE  Fits(Wasm!RegResult(r, v, x, y)) /\ Fits(Wasm!RegResult(r, x, v, y))
  BY <1>1, <1>2, RegFits
<1>3. CASE op \in {"set_gt_u_imm", "set_gt_s_imm"}
  <2>1. "set_lt_u" \in Wasm!RegOps /\ "set_lt_s" \in Wasm!RegOps
    BY DEF Wasm!RegOps, Wasm!SetOps
  <2>2. /\ Wasm!ImmResult("set_gt_u_imm", x, c, y) = Wasm!RegResult("set_lt_u", x, v, y)
        /\ Wasm!ImmResult("set_gt_s_imm", x, c, y) = Wasm!RegResult("set_lt_s", x, v, y)
    BY <1>1, ComparisonsAsLoaded DEF v
  <2> QED BY <1>2, <1>3, <2>1, <2>2
<1>4. CASE op \in DOMAIN OnRegisters
  <2>1. OnRegisters[op] \in Wasm!RegOps
    BY <1>4, RegistersNamed
  <2>2. op \in Wasm!MathImmOps \cup Wasm!Shift32ImmOps \cup Wasm!Shift64ImmOps \cup Wasm!LogicImmOps
                 \cup Wasm!RotateImmOps \cup Wasm!SetImmOps \cup {"cmov_iz_imm", "cmov_nz_imm"}
    BY DEF Wasm!ImmOps
  <2>3. AsLoaded(op, c)
    BY <1>1, <1>4, <2>2, MathAsLoaded, Shifts32AsLoaded, Shifts64AsLoaded, OthersAsLoaded
  <2> QED BY <1>2, <2>1, <2>3 DEF AsLoaded, v
<1> QED BY <1>3, <1>4 DEF OnRegisters

LEMMA TheBuildsAgree == ASSUME OperandsOK PROVE BuildsAgree
<1> SUFFICES ASSUME Loaded PROVE BuildsAgree
  BY DEF BuildsAgree
<1>1. Fits(x) /\ Fits(y) /\ Fits(1) /\ x \in Int
  <2>1. Fits(x) /\ Fits(y) /\ Fits(1)
    BY Contents, HalfTop DEF Fits
  <2> QED BY <2>1, FitsInt
<1>2. ASSUME NEW op \in Wasm!RegOps
      PROVE  Js!RegResult(op, y, x, 1) = Wasm!RegResult(op, y, x, 1) /\ Fits(Wasm!RegResult(op, y, x, 1))
  BY <1>1, RegShared, RegFits
<1>3. ASSUME NEW op \in Wasm!BitOps
      PROVE  Js!BitCount(op, x) = Wasm!BitCount(op, x) /\ Fits(Wasm!BitCount(op, x))
  BY <1>1, BitCountShared, BitCountFits
<1>4. ASSUME NEW c \in Immediates
      PROVE  /\ \A op \in Wasm!ImmOps :
                  /\ Fits(Wasm!ImmResult(op, x, c, y))
                  /\ ~PortableDiffers(op, c) => Js!ImmResult(op, x, c, y) = Wasm!ImmResult(op, x, c, y)
             /\ \A op \in Wasm!BranchImmOps : Js!BranchImm(op, x, c) = Wasm!BranchImm(op, x, c)
             /\ Js!EffectiveAddress(x, c) = Wasm!EffectiveAddress(x, c)
  <2>1. c \in 0 .. Half - 1
    BY ComputationAssumption DEF Half
  <2>2. ASSUME NEW op \in Wasm!ImmOps
        PROVE  /\ Fits(Wasm!ImmResult(op, x, c, y))
               /\ ~PortableDiffers(op, c) => Js!ImmResult(op, x, c, y) = Wasm!ImmResult(op, x, c, y)
    BY <1>1, <2>1, ImmFits, ImmShared
  <2> QED BY <2>2, BranchImmShared
<1> QED BY <1>2, <1>3, <1>4 DEF BuildsAgree, Fits

\* The portable build computes what the WebAssembly one does, and both only
\* numbers that fit a register, for words of any width and but for the shifts
\* that PortableDiffers names (instructions/, portable.ts).
THEOREM BuildsAgreeTheorem == Spec => []BuildsAgree
BY OperandsInvariant, TheBuildsAgree, PTL

-----------------------------------------------------------------------------
(* Results bit by bit.                                                     *)

\* A number with a sign repeats its highest bit for ever.
LEMMA SignedBit ==
  ASSUME NEW n \in Nat \ {0}, NEW v \in Int, NEW j \in Nat
  PROVE  Wasm!Bit(Wasm!Signed(v, n), j) = Wasm!Bit(v, IF j < n THEN j ELSE n - 1)
<1> DEFINE d == 2 ^ (n - 1)  p == 2 ^ n  low == v % p  u == Wasm!Signed(v, n)
<1>1. n - 1 \in Nat /\ d \in Nat \ {0} /\ p = d * 2 /\ p \in Nat \ {0}
  <2>1. n - 1 \in Nat /\ (n - 1) + 1 = n
    OBVIOUS
  <2>2. d \in Nat \ {0} /\ 2 ^ ((n - 1) + 1) = d * 2
    BY <2>1, PowerDoubles
  <2> QED BY <2>1, <2>2, PowerFacts
<1>2. low \in 0 .. p - 1
  <2> HIDE DEF p
  <2> QED BY <1>1, DivMod
<1>3. u = IF low < d THEN low ELSE low - p
  BY DEF Wasm!Signed
<1>4. \A i \in 0 .. n - 1 : Wasm!Bit(low, i) = Wasm!Bit(v, i)
  BY LowBit
<1> HIDE DEF u, low, p
<1>5. CASE j < n
  <2>1. u % p = low /\ u \in Int
    <3>1. low % p = low /\ (low + p * (-1)) % p = low % p /\ low \in Int
      BY <1>1, <1>2, ModSmall, ModShift
    <3>2. low - p = low + p * (-1)
      BY <1>1, <1>2
    <3> QED BY <1>1, <1>3, <3>1, <3>2
  <2>2. Wasm!Bit(u % p, j) = Wasm!Bit(u, j)
    BY <1>5, <2>1, LowBit DEF p
  <2> QED BY <1>4, <1>5, <2>1, <2>2 DEF u
<1>6. CASE ~(j < n)
  <2>1. Wasm!Bit(v, n - 1) = (low \div d) % 2
    <3>1. Wasm!Bit(low, n - 1) = Wasm!Bit(v, n - 1)
      BY <1>1, <1>4
    <3> QED BY <3>1 DEF Wasm!Bit
  <2>2. CASE low < d
    <3>1. low \in 0 .. d - 1
      BY <1>1, <1>2, <2>2
    <3> HIDE DEF d
    <3>2. low \div d = 0 /\ 0 % 2 = 0
      BY <1>1, <3>1, ModSmall
    <3>3. Wasm!Bit(low, j) = 0
      BY <1>1, <1>2, <1>6, HighBit DEF p
    <3> QED BY <1>3, <1>6, <2>1, <2>2, <3>2, <3>3 DEF u
  <2>3. CASE ~(low < d)
    <3> DEFINE b == 2 ^ j
    <3>1. b \in Nat \ {0} /\ p <= b
      BY <1>6, PowerFacts, PowerMonotone DEF p
    <3> HIDE DEF b, d
    <3>2. low \div d = 1 /\ 1 % 2 = 1
      <4>1. low = d * 1 + (low - d) /\ low - d \in 0 .. d - 1 /\ low \in Int
        BY <1>1, <1>2, <2>3
      <4> QED BY <1>1, <4>1, DivModUnique
    <3>3. u \div b = -1 /\ (-1) % 2 = 1
      <4>1. u = low - p
        BY <1>3, <2>3 DEF d
      <4> DEFINE r == u + b  q == -1
      <4>2. u = b * q + r /\ r \in 0 .. b - 1 /\ u \in Int /\ q \in Int
        BY <1>1, <1>2, <3>1, <4>1
      <4>3. q % 2 = 1
        <5>1. q = 2 * q + 1 /\ q \in Int /\ 2 \in Nat \ {0} /\ 1 \in 0 .. 2 - 1
          OBVIOUS
        <5> HIDE DEF q
        <5> QED BY <5>1, DivModUnique
      <4> HIDE DEF r, q
      <4>4. u \div b = q
        BY <3>1, <4>2, DivModUnique
      <4> QED BY <4>3, <4>4 DEF q
    <3>4. Wasm!Bit(u, j) = 1
      BY <3>3 DEF Wasm!Bit, b
    <3> QED BY <1>6, <2>1, <3>2, <3>4 DEF u
  <2> QED BY <2>2, <2>3
<1> QED BY <1>5, <1>6

\* What a result of W32 bits looks like when it is stored.
LEMMA ExtendedBit ==
  ASSUME NEW v \in Int, NEW i \in 0 .. Wasm!W64 - 1
  PROVE  Wasm!Bit(Wasm!Extended(v), i) = Wasm!Bit(v, IF i < Wasm!W32 THEN i ELSE Wasm!W32 - 1)
<1>1. Wasm!W64 \in Nat /\ Wasm!W32 \in Nat \ {0} /\ i \in Nat /\ 2 ^ Wasm!W64 = Top
  BY Widths, WasmWords DEF Top
<1> DEFINE u == Wasm!Signed(v, Wasm!W32)
<1>2. u \in Int /\ Wasm!Extended(v) = u % Top
  BY WordIs, ExtendedWord
<1>3. Wasm!Bit(u, i) = Wasm!Bit(v, IF i < Wasm!W32 THEN i ELSE Wasm!W32 - 1)
  BY <1>1, SignedBit
<1> HIDE DEF u
<1>4. Wasm!Bit(u % Top, i) = Wasm!Bit(u, i)
  BY <1>1, <1>2, LowBit
<1> QED BY <1>2, <1>3, <1>4

LEMMA StoredBit ==
  ASSUME NEW v \in Int, NEW i \in 0 .. Wasm!W64 - 1
  PROVE  Wasm!Bit(Wasm!AsU64(v), i) = Wasm!Bit(v, i)
<1>1. Wasm!W64 \in Nat /\ 2 ^ Wasm!W64 = Top
  BY Widths, WasmWords DEF Top
<1> QED BY <1>1, LowBit, WasmWords

LEMMA WordBit ==
  ASSUME NEW v \in Int, NEW i \in 0 .. Wasm!W32 - 1
  PROVE  Wasm!Bit(Wasm!AsU32(v), i) = Wasm!Bit(v, i)
<1>1. Wasm!W32 \in Nat /\ 2 ^ Wasm!W32 = Half
  BY Widths, WasmWords DEF Half
<1> QED BY <1>1, LowBit, WasmWords

\* Shifts of a number of n bits by k.
LEMMA ShiftBits ==
  ASSUME NEW n \in Nat \ {0}, NEW v \in 0 .. 2 ^ n - 1, NEW k \in 0 .. n - 1, NEW i \in 0 .. n - 1
  PROVE  /\ Wasm!Bit(Wasm!Shl(v, k), i) = IF i >= k THEN Wasm!Bit(v, i - k) ELSE 0
         /\ Wasm!Bit(Wasm!Shr(v, k), i) = IF i + k < n THEN Wasm!Bit(v, i + k) ELSE 0
         /\ Wasm!Bit(Wasm!Shr(Wasm!Signed(v, n), k), i) = Wasm!Bit(v, IF i + k < n THEN i + k ELSE n - 1)
<1>1. k \in Nat /\ i \in Nat /\ i + k \in Nat /\ v \in Int /\ n \in Nat
  <2>1. 2 ^ n \in Nat
    BY PowerFacts
  <2> DEFINE p == 2 ^ n
  <2>2. v \in 0 .. p - 1 /\ p \in Nat
    BY <2>1
  <2> HIDE DEF p
  <2>3. v \in Int
    BY <2>2
  <2> QED BY <2>3
<1>2. Wasm!Bit(Wasm!Shl(v, k), i) = IF i >= k THEN Wasm!Bit(v, i - k) ELSE 0
  BY <1>1, ShlBit DEF Wasm!Shl
<1>3. Wasm!Bit(Wasm!Shr(v, k), i) = Wasm!Bit(v, i + k)
  BY <1>1, ShrBit DEF Wasm!Shr
<1>4. ~(i + k < n) => Wasm!Bit(v, i + k) = 0
  BY <1>1, HighBit
<1> DEFINE u == Wasm!Signed(v, n)
<1>5. Wasm!Bit(Wasm!Shr(u, k), i) = Wasm!Bit(u, i + k)
  <2>1. u \in Int
    BY <1>1, SignExtendShared
  <2> HIDE DEF u
  <2> QED BY <1>1, <2>1, ShrBit DEF Wasm!Shr
<1>6. Wasm!Bit(u, i + k) = Wasm!Bit(v, IF i + k < n THEN i + k ELSE n - 1)
  BY <1>1, SignedBit
<1> QED BY <1>2, <1>3, <1>4, <1>5, <1>6

\* Rotations of a number of n bits.
LEMMA RotateBits ==
  ASSUME NEW n \in Nat \ {0}, NEW v \in 0 .. 2 ^ n - 1, NEW s \in Int, NEW i \in 0 .. n - 1
  PROVE  LET k == s % n
         IN /\ Wasm!Bit(Wasm!RotL(n, v, s), i) = Wasm!Bit(v, (i - k) % n)
            /\ Wasm!Bit(Wasm!RotR(n, v, s), i) = Wasm!Bit(v, (i + k) % n)
<1> DEFINE k == s % n  t == n - k
<1>1. k \in 0 .. n - 1
  BY DivMod
<1>2. /\ Wasm!RotL(n, v, s) = Wasm!Or(n, Wasm!Shl(v, k), Wasm!Shr(v, t))
      /\ Wasm!RotR(n, v, s) = Wasm!Or(n, Wasm!Shr(v, k), Wasm!Shl(v, t))
  BY DEF Wasm!RotL, Wasm!RotR
<1> HIDE DEF k
<1>3. k \in Nat /\ t \in Nat /\ i \in Nat /\ i + k \in Nat /\ i + t \in Nat /\ t = n - k /\ v \in Int /\ n \in Nat
  <2>1. 2 ^ n \in Nat
    BY PowerFacts
  <2> DEFINE p == 2 ^ n
  <2>2. v \in 0 .. p - 1 /\ p \in Nat
    BY <2>1
  <2> HIDE DEF p
  <2>3. v \in Int
    BY <2>2
  <2> QED BY <1>1, <2>3
<1> HIDE DEF t
<1>4. /\ Wasm!Shl(v, k) \in Int /\ Wasm!Shr(v, k) \in Int /\ Wasm!Shl(v, t) \in Int /\ Wasm!Shr(v, t) \in Int
  BY <1>3, ShiftsFit
<1>5. /\ Wasm!Bit(Wasm!Shl(v, k), i) = IF i >= k THEN Wasm!Bit(v, i - k) ELSE 0
      /\ Wasm!Bit(Wasm!Shl(v, t), i) = IF i >= t THEN Wasm!Bit(v, i - t) ELSE 0
  BY <1>3, ShlBit DEF Wasm!Shl
<1>6. /\ Wasm!Bit(Wasm!Shr(v, k), i) = Wasm!Bit(v, i + k) /\ Wasm!Bit(Wasm!Shr(v, t), i) = Wasm!Bit(v, i + t)
  BY <1>3, ShrBit DEF Wasm!Shr
<1>7. /\ i + k >= n => Wasm!Bit(v, i + k) = 0
      /\ i + t >= n => Wasm!Bit(v, i + t) = 0
  BY <1>3, HighBit
<1>8. /\ Wasm!Bit(Wasm!RotL(n, v, s), i) =
           IF Wasm!Bit(Wasm!Shl(v, k), i) + Wasm!Bit(Wasm!Shr(v, t), i) > 0 THEN 1 ELSE 0
      /\ Wasm!Bit(Wasm!RotR(n, v, s), i) =
           IF Wasm!Bit(Wasm!Shr(v, k), i) + Wasm!Bit(Wasm!Shl(v, t), i) > 0 THEN 1 ELSE 0
  <2> DEFINE a == Wasm!Shl(v, k)  b == Wasm!Shr(v, t)  c == Wasm!Shr(v, k)  d == Wasm!Shl(v, t)
  <2>1. a \in Int /\ b \in Int /\ c \in Int /\ d \in Int
    BY <1>4
  <2>2. Wasm!RotL(n, v, s) = Wasm!Or(n, a, b) /\ Wasm!RotR(n, v, s) = Wasm!Or(n, c, d)
    BY <1>2
  <2> HIDE DEF a, b, c, d
  <2>3. n \in Nat
    OBVIOUS
  <2>4. Wasm!Bit(Wasm!Or(n, a, b), i) = IF Wasm!Bit(a, i) + Wasm!Bit(b, i) > 0 THEN 1 ELSE 0
    BY <2>1, <2>3, OrBits
  <2>5. Wasm!Bit(Wasm!Or(n, c, d), i) = IF Wasm!Bit(c, i) + Wasm!Bit(d, i) > 0 THEN 1 ELSE 0
    BY <2>1, <2>3, OrBits
  <2> QED BY <2>2, <2>4, <2>5 DEF a, b, c, d
<1>9. \A j \in Nat : Wasm!Bit(v, j) \in {0, 1}
  BY <1>3, BitIs
<1>10. Wasm!Bit(Wasm!RotL(n, v, s), i) = Wasm!Bit(v, (i - k) % n)
  <2>1. CASE i >= k
    <3>1. i - k \in 0 .. n - 1 /\ i - k \in Nat
      BY <1>1, <1>3, <2>1
    <3>2. (i - k) % n = i - k
      BY <3>1, ModSmall
    <3>3. Wasm!Bit(v, i - k) \in {0, 1}
      BY <1>9, <3>1
    <3>4. Wasm!Bit(Wasm!Shl(v, k), i) = Wasm!Bit(v, i - k) /\ Wasm!Bit(Wasm!Shr(v, t), i) = 0
      BY <1>3, <1>5, <1>6, <1>7, <2>1
    <3> QED BY <1>8, <3>2, <3>3, <3>4
  <2>2. CASE ~(i >= k)
    <3>1. i + t \in 0 .. n - 1
      BY <1>1, <1>3, <2>2
    <3>2. (i - k) % n = i + t
      <4> DEFINE a == i - k  r == i + t  q == -1
      <4>1. a = n * q + r /\ a \in Int /\ q \in Int /\ r \in 0 .. n - 1
        BY <1>3, <3>1
      <4> HIDE DEF a, r, q
      <4>2. a % n = r
        BY <4>1, DivModUnique
      <4> QED BY <4>2 DEF a, r
    <3>3. Wasm!Bit(v, i + t) \in {0, 1}
      BY <1>3, <1>9
    <3>4. Wasm!Bit(Wasm!Shl(v, k), i) = 0 /\ Wasm!Bit(Wasm!Shr(v, t), i) = Wasm!Bit(v, i + t)
      BY <1>5, <1>6, <2>2
    <3> QED BY <1>8, <3>2, <3>3, <3>4
  <2> QED BY <2>1, <2>2
<1>11. Wasm!Bit(Wasm!RotR(n, v, s), i) = Wasm!Bit(v, (i + k) % n)
  <2>1. CASE i + k < n
    <3>1. i + k \in 0 .. n - 1
      BY <1>1, <1>3, <2>1
    <3>2. (i + k) % n = i + k
      BY <3>1, ModSmall
    <3>3. Wasm!Bit(v, i + k) \in {0, 1}
      BY <1>3, <1>9
    <3>4. Wasm!Bit(Wasm!Shr(v, k), i) = Wasm!Bit(v, i + k) /\ Wasm!Bit(Wasm!Shl(v, t), i) = 0
      <4>1. ~(i >= t)
        BY <1>3, <2>1
      <4> QED BY <1>5, <1>6, <4>1
    <3> QED BY <1>8, <3>2, <3>3, <3>4
  <2>2. CASE ~(i + k < n)
    <3>1. i - t \in 0 .. n - 1 /\ i - t \in Nat /\ i >= t
      BY <1>1, <1>3, <2>2
    <3>2. (i + k) % n = i - t
      <4> DEFINE a == i + k  r == i - t  q == 1
      <4>1. a = n * q + r /\ a \in Int /\ q \in Int /\ r \in 0 .. n - 1
        BY <1>3, <3>1
      <4> HIDE DEF a, r, q
      <4>2. a % n = r
        BY <4>1, DivModUnique
      <4> QED BY <4>2 DEF a, r
    <3>3. Wasm!Bit(v, i - t) \in {0, 1}
      BY <1>9, <3>1
    <3>4. Wasm!Bit(Wasm!Shr(v, k), i) = 0 /\ Wasm!Bit(Wasm!Shl(v, t), i) = Wasm!Bit(v, i - t)
      <4>1. i + k >= n
        BY <1>3, <2>2
      <4> QED BY <1>5, <1>6, <1>7, <3>1, <4>1
    <3> QED BY <1>8, <3>2, <3>3, <3>4
  <2> QED BY <2>1, <2>2
<1> QED BY <1>10, <1>11 DEF k

OnesIn(v, n) == {i \in 0 .. n - 1 : Wasm!Bit(v, i) = 1}

LEMMA ZeroBit == ASSUME NEW i \in Nat PROVE Wasm!Bit(0, i) = 0
<1>1. 2 ^ 0 = 1
  OBVIOUS
<1>2. 0 \in 0 .. 2 ^ 0 - 1 /\ 0 \in Nat /\ 0 <= i
  BY <1>1
<1> QED BY <1>2, HighBit

LEMMA BelowPower ==
  ASSUME NEW n \in Nat, NEW v \in 0 .. 2 ^ n - 1, NEW i \in 0 .. n
  PROVE  v < 2 ^ i <=> \A j \in i .. n - 1 : Wasm!Bit(v, j) # 1
<1> DEFINE p == 2 ^ i  d == 2 ^ n  u == v % p
<1>1. p \in Nat \ {0} /\ d \in Nat \ {0} /\ p <= d /\ i \in Nat /\ v \in 0 .. d - 1
  BY PowerFacts, PowerMonotone
<1>2. v \in Nat /\ v \in Int
  <2> HIDE DEF d, p
  <2> QED BY <1>1
<1>3. ASSUME v < p, NEW j \in i .. n - 1 PROVE Wasm!Bit(v, j) # 1
  <2>1. v \in 0 .. p - 1 /\ j \in Nat /\ i <= j
    <3> HIDE DEF p
    <3> QED BY <1>1, <1>2, <1>3
  <2> QED BY <1>1, <2>1, HighBit
<1>4. ASSUME \A j \in i .. n - 1 : Wasm!Bit(v, j) # 1 PROVE v < p
  <2>1. u \in 0 .. p - 1 /\ u \in 0 .. d - 1
    <3>1. u \in 0 .. p - 1
      <4> HIDE DEF p
      <4> QED BY <1>1, <1>2, DivMod
    <3> HIDE DEF u, p, d
    <3> QED BY <1>1, <3>1
  <2>2. ASSUME NEW j \in 0 .. n - 1 PROVE Wasm!Bit(u, j) = Wasm!Bit(v, j)
    <3>1. CASE j < i
      <4>1. j \in 0 .. i - 1
        BY <3>1
      <4> QED BY <1>1, <1>2, <4>1, LowBit
    <3>2. CASE ~(j < i)
      <4>1. j \in i .. n - 1 /\ j \in Nat /\ i <= j
        BY <3>2
      <4>2. Wasm!Bit(v, j) \in {0, 1} /\ Wasm!Bit(v, j) # 1
        BY <1>2, <1>4, <4>1, BitIs
      <4> HIDE DEF u
      <4>3. Wasm!Bit(u, j) = 0
        BY <1>1, <2>1, <4>1, HighBit
      <4> QED BY <4>2, <4>3
    <3> QED BY <3>1, <3>2
  <2> HIDE DEF u
  <2>3. u = v
    BY <1>1, <2>1, <2>2, SameBits DEF Wasm!Bit
  <2> HIDE DEF p
  <2> QED BY <1>1, <2>1, <2>3
<1> QED BY <1>3, <1>4

LEMMA LowZero ==
  ASSUME NEW v \in Int, NEW k \in Nat
  PROVE  v % 2 ^ k = 0 <=> \A j \in 0 .. k - 1 : Wasm!Bit(v, j) # 1
<1> DEFINE p == 2 ^ k  u == v % p
<1>1. p \in Nat \ {0}
  BY PowerFacts
<1>2. u \in 0 .. p - 1 /\ 0 \in 0 .. p - 1
  <2> HIDE DEF p
  <2> QED BY <1>1, DivMod
<1>3. \A j \in 0 .. k - 1 : Wasm!Bit(u, j) = Wasm!Bit(v, j)
  BY LowBit
<1> HIDE DEF u
<1>4. ASSUME u = 0, NEW j \in 0 .. k - 1 PROVE Wasm!Bit(v, j) # 1
  <2>1. Wasm!Bit(0, j) = 0
    BY ZeroBit
  <2> QED BY <1>3, <1>4, <2>1
<1>5. ASSUME \A j \in 0 .. k - 1 : Wasm!Bit(v, j) # 1 PROVE u = 0
  <2>1. ASSUME NEW j \in 0 .. k - 1 PROVE Wasm!Bit(u, j) = Wasm!Bit(0, j)
    <3>1. Wasm!Bit(v, j) \in {0, 1}
      BY BitIs
    <3>2. Wasm!Bit(0, j) = 0
      BY ZeroBit
    <3> QED BY <1>3, <1>5, <3>1, <3>2
  <2> QED BY <1>2, <2>1, SameBits DEF Wasm!Bit
<1> QED BY <1>4, <1>5 DEF u

LEMMA GreatestIs ==
  ASSUME NEW s, s \subseteq Int, NEW n \in s, \A i \in s : i <= n
  PROVE  Max(s) = n
<1> DEFINE x0 == CHOOSE z \in s : \A w \in s : z >= w
<1>1. x0 \in s /\ \A w \in s : x0 >= w
  <2>1. \E z \in s : \A w \in s : z >= w
    OBVIOUS
  <2> QED BY <2>1
<1>2. x0 = n
  <2> HIDE DEF x0
  <2> QED BY <1>1
<1> QED BY <1>2 DEF Max

LEMMA HighestOne ==
  ASSUME NEW v, NEW n \in Nat
  PROVE  \E t \in -1 .. n - 1 :
           /\ Max(OnesIn(v, n) \cup {-1}) = t /\ (t # -1 => t \in OnesIn(v, n))
           /\ \A i \in OnesIn(v, n) : i <= t
<1> DEFINE s == OnesIn(v, n) \cup {-1}  T == {n - i : i \in s}
<1>1. s \subseteq -1 .. n - 1 /\ -1 \in s
  BY DEF OnesIn
<1> HIDE DEF s
<1>2. T \subseteq Nat /\ T # {}
  BY <1>1
<1>3. PICK k \in T : \A j \in T : k <= j
  <2> HIDE DEF T
  <2> QED BY <1>2, LeastElement
<1>4. PICK t \in s : k = n - t
  BY <1>3
<1>5. \A i \in s : i <= t
  <2> SUFFICES ASSUME NEW i \in s PROVE i <= t
    OBVIOUS
  <2>1. n - t <= n - i
    BY <1>3, <1>4
  <2>2. i \in Int /\ t \in Int
    BY <1>1
  <2> QED BY <2>1, <2>2
<1>6. Max(s) = t
  <2>1. s \subseteq Int
    BY <1>1
  <2> QED BY <1>5, <2>1, GreatestIs
<1> QED BY <1>1, <1>5, <1>6 DEF s

LEMMA LowestOne ==
  ASSUME NEW v, NEW n \in Nat
  PROVE  \E t \in 0 .. n :
           /\ Min(OnesIn(v, n) \cup {n}) = t /\ (t # n => t \in OnesIn(v, n))
           /\ \A i \in OnesIn(v, n) : t <= i
<1> DEFINE s == OnesIn(v, n) \cup {n}
<1>1. s \subseteq 0 .. n /\ n \in s /\ s \subseteq Nat /\ s # {}
  BY DEF OnesIn
<1> HIDE DEF s
<1>2. PICK t \in s : \A i \in s : t <= i
  BY <1>1, LeastElement
<1>3. Min(s) = t
  BY <1>1, <1>2, MinIs
<1> QED BY <1>1, <1>2, <1>3 DEF s

LEMMA CountsAre ==
  ASSUME NEW v \in 0 .. Half - 1
  PROVE  LET w == Wasm!W32
         IN /\ Wasm!Popcnt32(v) = Cardinality(OnesIn(v, w))
            /\ Wasm!Clz32(v) = w - 1 - Max(OnesIn(v, w) \cup {-1})
            /\ Wasm!Ctz32(v) = Min(OnesIn(v, w) \cup {w})
<1> DEFINE w == Wasm!W32  a == {i \in 0 .. w - 1 : v < 2 ^ i}  b == {i \in 0 .. w - 1 : v % 2 ^ (i + 1) = 0}
<1>1. w \in Nat /\ 2 ^ w = Half /\ v \in Int
  BY Widths, WasmWords, HalfTop DEF Half
<1>2. \A s : Wasm!Cardinality(s) = Cardinality(s)
  BY DEF Wasm!Cardinality, Cardinality
<1>3. Wasm!Popcnt32(v) = Cardinality(OnesIn(v, w)) /\ Wasm!Clz32(v) = Cardinality(a) /\ Wasm!Ctz32(v) = Cardinality(b)
  BY <1>2 DEF Wasm!Popcnt32, Wasm!Clz32, Wasm!Ctz32, OnesIn
<1> HIDE DEF w
<1>4. Cardinality(a) = w - 1 - Max(OnesIn(v, w) \cup {-1})
  <2>1. PICK t \in -1 .. w - 1 : /\ Max(OnesIn(v, w) \cup {-1}) = t /\ (t # -1 => t \in OnesIn(v, w))
                                 /\ \A i \in OnesIn(v, w) : i <= t
    BY <1>1, HighestOne
  <2>2. ASSUME NEW i \in 0 .. w - 1 PROVE v < 2 ^ i <=> t < i
    <3>1. v < 2 ^ i <=> \A j \in i .. w - 1 : Wasm!Bit(v, j) # 1
      BY <1>1, BelowPower
    <3>2. (\A j \in i .. w - 1 : Wasm!Bit(v, j) # 1) <=> t < i
      BY <1>1, <2>1 DEF OnesIn
    <3> QED BY <3>1, <3>2
  <2>3. a = t + 1 .. w - 1
    <3>1. \A i \in 0 .. w - 1 : i \in a <=> i \in t + 1 .. w - 1
      BY <1>1, <2>1, <2>2
    <3>2. a \subseteq 0 .. w - 1 /\ t + 1 .. w - 1 \subseteq 0 .. w - 1
      BY <1>1, <2>1
    <3> HIDE DEF a
    <3> QED BY <3>1, <3>2
  <2> HIDE DEF a
  <2>4. t + 1 \in Int /\ w - 1 \in Int
    BY <1>1, <2>1
  <2>5. Cardinality(t + 1 .. w - 1) = IF t + 1 > w - 1 THEN 0 ELSE (w - 1) - (t + 1) + 1
    BY <2>4, FS_Interval
  <2> QED BY <1>1, <2>1, <2>3, <2>5
<1>5. Cardinality(b) = Min(OnesIn(v, w) \cup {w})
  <2>1. PICK t \in 0 .. w : /\ Min(OnesIn(v, w) \cup {w}) = t /\ (t # w => t \in OnesIn(v, w))
                            /\ \A i \in OnesIn(v, w) : t <= i
    BY <1>1, LowestOne
  <2>2. ASSUME NEW i \in 0 .. w - 1 PROVE v % 2 ^ (i + 1) = 0 <=> i < t
    <3> DEFINE k == i + 1
    <3>1. k \in Nat
      BY <1>1
    <3> HIDE DEF k
    <3>2. v % 2 ^ k = 0 <=> \A j \in 0 .. k - 1 : Wasm!Bit(v, j) # 1
      BY <1>1, <3>1, LowZero
    <3>3. (\A j \in 0 .. k - 1 : Wasm!Bit(v, j) # 1) <=> i < t
      BY <1>1, <2>1 DEF OnesIn, k
    <3> QED BY <3>2, <3>3 DEF k
  <2>3. b = 0 .. t - 1
    <3>1. \A i \in 0 .. w - 1 : i \in b <=> i \in 0 .. t - 1
      BY <1>1, <2>1, <2>2
    <3>2. b \subseteq 0 .. w - 1 /\ 0 .. t - 1 \subseteq 0 .. w - 1
      BY <1>1, <2>1
    <3> HIDE DEF b
    <3> QED BY <3>1, <3>2
  <2> HIDE DEF b
  <2>4. t - 1 \in Int /\ 0 \in Int
    BY <1>1, <2>1
  <2>5. Cardinality(0 .. t - 1) = IF 0 > t - 1 THEN 0 ELSE (t - 1) - 0 + 1
    BY <2>4, FS_Interval
  <2> QED BY <1>1, <2>1, <2>3, <2>5
<1> QED BY <1>3, <1>4, <1>5 DEF w

LEMMA HalvesBits ==
  ASSUME NEW v \in Int, NEW i \in 0 .. Wasm!W32 - 1
  PROVE  /\ Wasm!Bit(Wasm!Low(v), i) = Wasm!Bit(v, i)
         /\ Wasm!Bit(Wasm!High(v), i) = Wasm!Bit(v, i + Wasm!W32)
<1>1. Wasm!W32 \in Nat /\ 2 ^ Wasm!W32 = Half /\ i \in Nat /\ Half \in Nat \ {0}
  BY Widths, WasmWords, HalfTop DEF Half
<1> DEFINE q == v \div Half
<1>2. q \in Int
  BY <1>1, DivMod
<1>3. Wasm!Bit(q, i) = Wasm!Bit(v, i + Wasm!W32)
  BY <1>1, ShrBit
<1> HIDE DEF q
<1>4. Wasm!Bit(q % Half, i) = Wasm!Bit(q, i) /\ Wasm!Bit(v % Half, i) = Wasm!Bit(v, i)
  BY <1>1, <1>2, LowBit
<1> QED BY <1>3, <1>4, WasmWords DEF q

LEMMA HalvesIn ==
  ASSUME NEW v \in Int
  PROVE  Wasm!Low(v) \in 0 .. Half - 1 /\ Wasm!High(v) \in 0 .. Half - 1
<1>1. Half \in Nat \ {0}
  BY HalfTop
<1> DEFINE q == v \div Half
<1>2. q \in Int
  BY <1>1, DivMod
<1> HIDE DEF q
<1>3. v % Half \in 0 .. Half - 1 /\ q % Half \in 0 .. Half - 1
  BY <1>1, <1>2, DivMod
<1> QED BY <1>3, WasmWords DEF q

\* The ones of both halves are those of the whole.
LEMMA OnesOfHalves ==
  ASSUME NEW v \in Int
  PROVE  LET w == Wasm!W32
             A == OnesIn(Wasm!Low(v), w)
             B == OnesIn(Wasm!High(v), w)
         IN /\ A = OnesIn(v, w) /\ OnesIn(v, Wasm!W64) = A \cup {i + w : i \in B}
            /\ (Wasm!Low(v) = 0 <=> A = {}) /\ (Wasm!High(v) = 0 <=> B = {})
<1> DEFINE w == Wasm!W32  l == Wasm!Low(v)  h == Wasm!High(v)  A == OnesIn(l, w)  B == OnesIn(h, w)
<1>1. w \in Nat /\ Wasm!W64 = 2 * w /\ 2 ^ w = Half /\ l \in 0 .. Half - 1 /\ h \in 0 .. Half - 1
  <2>1. Wasm!W64 = 2 * w
    BY ComputationAssumption, WasmWords
  <2> QED BY <2>1, Widths, WasmWords, HalvesIn DEF Half
<1>2. \A i \in 0 .. w - 1 : Wasm!Bit(l, i) = Wasm!Bit(v, i) /\ Wasm!Bit(h, i) = Wasm!Bit(v, i + w)
  BY HalvesBits
<1> HIDE DEF w, l, h
<1>3. A = OnesIn(v, w)
  BY <1>2 DEF OnesIn
<1>4. OnesIn(v, 2 * w) = A \cup {i + w : i \in B}
  <2>1. ASSUME NEW j \in OnesIn(v, 2 * w) PROVE j \in A \cup {i + w : i \in B}
    <3>1. j \in 0 .. 2 * w - 1 /\ Wasm!Bit(v, j) = 1
      BY <2>1 DEF OnesIn
    <3>2. CASE j < w
      BY <1>1, <1>3, <3>1, <3>2 DEF OnesIn
    <3>3. CASE ~(j < w)
      <4>1. j - w \in 0 .. w - 1 /\ (j - w) + w = j
        BY <1>1, <3>1, <3>3
      <4>2. Wasm!Bit(h, j - w) = Wasm!Bit(v, (j - w) + w)
        BY <1>2, <4>1
      <4>3. j - w \in B
        BY <3>1, <4>1, <4>2 DEF OnesIn
      <4> QED BY <4>1, <4>3
    <3> QED BY <3>2, <3>3
  <2>2. ASSUME NEW j \in A PROVE j \in OnesIn(v, 2 * w)
    BY <1>1, <1>3, <2>2 DEF OnesIn
  <2>3. ASSUME NEW i \in B PROVE i + w \in OnesIn(v, 2 * w)
    <3>1. i \in 0 .. w - 1 /\ Wasm!Bit(h, i) = 1
      BY <2>3 DEF OnesIn
    <3>2. i + w \in 0 .. 2 * w - 1 /\ Wasm!Bit(v, i + w) = 1
      BY <1>1, <1>2, <3>1
    <3> QED BY <3>2 DEF OnesIn
  <2> QED BY <2>1, <2>2, <2>3
<1>5. ASSUME NEW u \in 0 .. Half - 1 PROVE u = 0 <=> OnesIn(u, w) = {}
  <2>1. u < 2 ^ 0 <=> \A j \in 0 .. w - 1 : Wasm!Bit(u, j) # 1
    <3>1. 0 \in 0 .. w
      BY <1>1
    <3> QED BY <1>1, <3>1, BelowPower
  <2>2. 2 ^ 0 = 1
    OBVIOUS
  <2>3. u < 1 <=> u = 0
    BY HalfTop
  <2> QED BY <2>1, <2>2, <2>3 DEF OnesIn
<1>6. (l = 0 <=> A = {}) /\ (h = 0 <=> B = {})
  BY <1>1, <1>5
<1> QED BY <1>1, <1>3, <1>4, <1>6 DEF w, l, h

LEMMA WholeCountsAre ==
  ASSUME NEW v \in Int
  PROVE  LET n == Wasm!W64
         IN /\ Wasm!Popcnt64(v) = Cardinality(OnesIn(v, n))
            /\ Wasm!Clz64(v) = n - 1 - Max(OnesIn(v, n) \cup {-1})
            /\ Wasm!Ctz64(v) = Min(OnesIn(v, n) \cup {n})
<1> DEFINE w == Wasm!W32  l == Wasm!Low(v)  h == Wasm!High(v)  A == OnesIn(l, w)  B == OnesIn(h, w)
           C == {i + w : i \in B}  S == OnesIn(v, 2 * w)
<1>1. w \in Nat \ {0} /\ Wasm!W64 = 2 * w /\ l \in 0 .. Half - 1 /\ h \in 0 .. Half - 1
  <2>1. Wasm!W64 = 2 * w
    BY ComputationAssumption, WasmWords
  <2> QED BY <2>1, Widths, HalvesIn
<1>2. A \subseteq 0 .. w - 1 /\ B \subseteq 0 .. w - 1
  BY DEF OnesIn
<1>3. S = A \cup C /\ (l = 0 <=> A = {}) /\ (h = 0 <=> B = {})
  BY <1>1, OnesOfHalves
<1>4. /\ Wasm!Popcnt32(l) = Cardinality(A) /\ Wasm!Popcnt32(h) = Cardinality(B)
      /\ Wasm!Clz32(l) = w - 1 - Max(A \cup {-1}) /\ Wasm!Clz32(h) = w - 1 - Max(B \cup {-1})
      /\ Wasm!Ctz32(l) = Min(A \cup {w}) /\ Wasm!Ctz32(h) = Min(B \cup {w})
  BY <1>1, CountsAre
<1>5. PICK a \in -1 .. w - 1 : Max(A \cup {-1}) = a /\ (a # -1 => a \in A) /\ \A i \in A : i <= a
  <2> HIDE DEF l, w
  <2> QED BY <1>1, HighestOne
<1>6. PICK b \in -1 .. w - 1 : Max(B \cup {-1}) = b /\ (b # -1 => b \in B) /\ \A i \in B : i <= b
  <2> HIDE DEF h, w
  <2> QED BY <1>1, HighestOne
<1>7. PICK c \in 0 .. w : Min(A \cup {w}) = c /\ (c # w => c \in A) /\ \A i \in A : c <= i
  <2> HIDE DEF l, w
  <2> QED BY <1>1, LowestOne
<1>8. PICK d \in 0 .. w : Min(B \cup {w}) = d /\ (d # w => d \in B) /\ \A i \in B : d <= i
  <2> HIDE DEF h, w
  <2> QED BY <1>1, LowestOne
<1>9. /\ Wasm!Popcnt64(v) = Wasm!Popcnt32(l) + Wasm!Popcnt32(h)
      /\ Wasm!Clz64(v) = IF h # 0 THEN Wasm!Clz32(h) ELSE w + Wasm!Clz32(l)
      /\ Wasm!Ctz64(v) = IF l # 0 THEN Wasm!Ctz32(l) ELSE w + Wasm!Ctz32(h)
  BY DEF Wasm!Popcnt64, Wasm!Clz64, Wasm!Ctz64
<1> HIDE DEF w, l, h, A, B, S
<1>10. Wasm!Popcnt64(v) = Cardinality(S)
  <2>1. IsFiniteSet(A) /\ IsFiniteSet(B)
    <3>1. IsFiniteSet(0 .. w - 1)
      BY <1>1, FS_Interval
    <3> QED BY <1>2, <3>1, FS_Subset
  <2> DEFINE f == [i \in B |-> i + w]
  <2>2. f \in Bijection(B, C)
    <3>1. f \in [B -> C] /\ \A t \in C : \E i \in B : f[i] = t
      OBVIOUS
    <3>2. \A i, j \in B : f[i] = f[j] => i = j
      BY <1>1, <1>2
    <3> HIDE DEF f
    <3> QED BY <3>1, <3>2 DEF Bijection, Injection, IsInjective, Surjection
  <2> HIDE DEF f
  <2>3. ExistsBijection(B, C)
    BY <2>2 DEF ExistsBijection
  <2>4. IsFiniteSet(C) /\ Cardinality(C) = Cardinality(B)
    BY <2>1, <2>3, FS_Bijection
  <2>5. A \cap C = {}
    BY <1>1, <1>2
  <2> HIDE DEF C
  <2>6. Cardinality(A \cup C) = Cardinality(A) + Cardinality(C) - Cardinality(A \cap C)
    BY <2>1, <2>4, FS_Union
  <2>7. Cardinality(A \cap C) = 0 /\ Cardinality(A) \in Nat /\ Cardinality(C) \in Nat
    BY <2>1, <2>4, <2>5, FS_EmptySet, FS_CardinalityType
  <2> QED BY <1>3, <1>4, <1>9, <2>4, <2>6, <2>7
<1>11. Wasm!Clz64(v) = 2 * w - 1 - Max(S \cup {-1})
  <2>1. CASE h # 0
    <3>1. b \in B
      <4>1. PICK i \in B : TRUE
        BY <1>3, <2>1
      <4>2. i \in Nat /\ i <= b
        BY <1>1, <1>2, <1>6, <4>1
      <4> QED BY <1>6, <4>2
    <3> DEFINE s == S \cup {-1}  t == b + w
    <3>2. s \subseteq Int /\ t \in s /\ \A i \in s : i <= t
      <4>1. t \in C /\ t \in Nat /\ w <= t
        BY <1>1, <1>2, <3>1
      <4>2. A \subseteq Int /\ \A i \in A : i <= t
        BY <1>1, <1>2, <4>1
      <4>3. C \subseteq Int /\ \A i \in C : i <= t
        BY <1>1, <1>2, <1>6
      <4>4. s = A \cup C \cup {-1}
        BY <1>3
      <4> HIDE DEF s, t, C
      <4> QED BY <4>1, <4>2, <4>3, <4>4
    <3> HIDE DEF s, t
    <3>3. Max(s) = t
      BY <3>2, GreatestIs
    <3> QED BY <1>1, <1>4, <1>6, <1>9, <2>1, <3>3 DEF s, t
  <2>2. CASE h = 0
    <3>1. S = A
      BY <1>3, <2>2
    <3> QED BY <1>1, <1>4, <1>5, <1>9, <2>2, <3>1
  <2> QED BY <2>1, <2>2
<1>12. Wasm!Ctz64(v) = Min(S \cup {2 * w})
  <2>1. CASE l # 0
    <3>1. c \in A
      BY <1>2, <1>3, <1>7, <2>1
    <3> DEFINE s == S \cup {2 * w}
    <3>2. s \subseteq Nat /\ c \in s /\ \A i \in s : c <= i
      <4>1. c \in 0 .. w - 1
        BY <1>2, <3>1
      <4>2. A \subseteq Nat /\ \A i \in A : c <= i
        BY <1>1, <1>2, <1>7
      <4>3. C \subseteq Nat /\ \A i \in C : c <= i
        BY <1>1, <1>2, <4>1
      <4>4. s = A \cup C \cup {2 * w} /\ 2 * w \in Nat /\ c <= 2 * w
        BY <1>1, <1>3, <4>1
      <4> HIDE DEF s, C
      <4> QED BY <3>1, <4>2, <4>3, <4>4
    <3> HIDE DEF s
    <3>3. Min(s) = c
      BY <3>2, MinIs
    <3> QED BY <1>4, <1>7, <1>9, <2>1, <3>3 DEF s
  <2>2. CASE l = 0
    <3> DEFINE s == S \cup {2 * w}  t == w + d
    <3>1. S = C
      BY <1>3, <2>2
    <3>2. s \subseteq Nat /\ t \in s /\ \A i \in s : t <= i
      BY <1>1, <1>2, <1>8, <3>1
    <3> HIDE DEF s, t
    <3>3. Min(s) = t
      BY <3>2, MinIs
    <3> QED BY <1>4, <1>8, <1>9, <2>2, <3>3 DEF s, t
  <2> QED BY <2>1, <2>2
<1> QED BY <1>1, <1>10, <1>11, <1>12 DEF S

LEMMA ReversedBits ==
  ASSUME NEW v \in Int, NEW i \in 0 .. 8 * BYTE - 1
  PROVE  Wasm!Bit(Wasm!Swap64(v), i) = Wasm!Bit(v, ((7 - (i \div BYTE)) * BYTE) + (i % BYTE))
<1> DEFINE w == Wasm!W32  l == Wasm!Low(v)  h == Wasm!High(v)  a == Wasm!Swap32(l)  b == Wasm!Swap32(h)
           q == i \div BYTE  r == i % BYTE
<1>1. w = 4 * BYTE /\ BYTE \in Nat \ {0} /\ 2 ^ w = Half /\ i \in Nat /\ w \in Nat /\ Half \in Nat \ {0}
  BY ComputationAssumption, WasmWords, HalfTop DEF Half
<1>2. q \in 0 .. 7 /\ r \in 0 .. BYTE - 1 /\ i = BYTE * q + r
  <2>1. 8 \in Nat \ {0} /\ BYTE \in Nat \ {0} /\ i \in Int
    BY <1>1
  <2>2. i \div BYTE \in 0 .. 8 - 1 /\ i % BYTE \in 0 .. BYTE - 1
    BY <2>1, DivModRange
  <2>3. i = BYTE * (i \div BYTE) + (i % BYTE)
    BY <2>1, DivMod
  <2>4. 0 .. 8 - 1 = 0 .. 7
    OBVIOUS
  <2> QED BY <2>2, <2>3, <2>4
<1>3. l \in Int /\ h \in Int
  <2>1. l \in 0 .. Half - 1 /\ h \in 0 .. Half - 1
    BY HalvesIn
  <2> HIDE DEF l, h
  <2> QED BY <1>1, <2>1
<1>4. \A j \in 0 .. w - 1 : Wasm!Bit(l, j) = Wasm!Bit(v, j) /\ Wasm!Bit(h, j) = Wasm!Bit(v, j + w)
  BY HalvesBits
<1>5. Wasm!Swap64(v) = a * Half + b
  BY <1>1 DEF Wasm!Swap64, Wasm!Shl
<1> HIDE DEF l, h
<1>6. /\ a \in 0 .. Half - 1 /\ b \in 0 .. Half - 1
      /\ \A j \in 0 .. w - 1 :
           /\ Wasm!Bit(a, j) = Wasm!Bit(l, ((3 - (j \div BYTE)) * BYTE) + (j % BYTE))
           /\ Wasm!Bit(b, j) = Wasm!Bit(h, ((3 - (j \div BYTE)) * BYTE) + (j % BYTE))
  BY <1>3, SwapBits
<1> HIDE DEF w, a, b
<1> DEFINE u == a * Half + b
<1>7. u \in Int /\ u % Half = b /\ u \div Half = a
  <2>1. u = Half * a + b /\ a \in Int /\ u \in Int
    BY <1>1, <1>6
  <2> HIDE DEF u
  <2> QED BY <1>1, <1>6, <2>1, DivModUnique
<1> HIDE DEF u, q, r
<1>8. CASE i < w
  <2>1. i \in 0 .. w - 1
    BY <1>1, <1>8
  <2>2. Wasm!Bit(u % Half, i) = Wasm!Bit(u, i)
    BY <1>1, <1>7, <2>1, LowBit
  <2>3. Wasm!Bit(b, i) = Wasm!Bit(h, ((3 - q) * BYTE) + r)
    BY <1>6, <2>1 DEF q, r
  <2>4. q <= 3
    <3> SUFFICES ASSUME q >= 4 PROVE FALSE
      BY <1>2
    <3>1. BYTE * q = BYTE * 4 + BYTE * (q - 4) /\ BYTE * (q - 4) \in Nat
      BY <1>1, <1>2
    <3> DEFINE e == BYTE * q  f == BYTE * (q - 4)
    <3>2. i = e + r /\ e = BYTE * 4 + f /\ f \in Nat
      BY <1>2, <3>1
    <3> HIDE DEF e, f
    <3> QED BY <1>1, <1>2, <1>8, <3>2
  <2> DEFINE g == (3 - q) * BYTE  j == g + r
  <2>5. g \in Nat /\ g <= 3 * BYTE /\ (7 - q) * BYTE = g + w
    <3>1. 3 * BYTE = g + q * BYTE /\ q * BYTE \in Nat /\ (7 - q) * BYTE = g + 4 * BYTE /\ g \in Nat
      BY <1>1, <1>2, <2>4
    <3> DEFINE e == q * BYTE
    <3>2. 3 * BYTE = g + e /\ e \in Nat /\ g \in Nat
      BY <3>1
    <3> HIDE DEF e, g
    <3>3. g <= 3 * BYTE
      BY <1>1, <3>2
    <3> QED BY <1>1, <3>1, <3>3
  <2> HIDE DEF g
  <2>6. j \in 0 .. w - 1 /\ j + w = (g + w) + r
    BY <1>1, <1>2, <2>5
  <2> HIDE DEF j
  <2>7. Wasm!Bit(h, j) = Wasm!Bit(v, j + w)
    BY <1>4, <2>6
  <2>8. Wasm!Bit(u, i) = Wasm!Bit(v, ((7 - q) * BYTE) + r)
    BY <1>7, <2>2, <2>3, <2>5, <2>6, <2>7 DEF g, j
  <2> QED BY <1>5, <2>8 DEF u, q, r
<1>9. CASE ~(i < w)
  <2> DEFINE k == i - w
  <2>1. k \in 0 .. w - 1 /\ k \in Nat /\ k + w = i
    BY <1>1, <1>9
  <2> HIDE DEF k
  <2>2. Wasm!Bit(u \div 2 ^ w, k) = Wasm!Bit(u, k + w)
    BY <1>1, <1>7, <2>1, ShrBit
  <2>3. k \div BYTE = q - 4 /\ k % BYTE = r
    <3>1. k = BYTE * (q - 4) + r
      BY <1>1, <1>2, <2>1
    <3> DEFINE e == q - 4
    <3>2. e \in Int /\ k = BYTE * e + r /\ k \in Int
      BY <1>2, <2>1, <3>1
    <3> HIDE DEF e
    <3>3. k \div BYTE = e /\ k % BYTE = r
      BY <1>1, <1>2, <3>2, DivModUnique
    <3> QED BY <3>3 DEF e
  <2>4. Wasm!Bit(a, k) = Wasm!Bit(l, ((3 - (k \div BYTE)) * BYTE) + (k % BYTE))
    BY <1>6, <2>1
  <2>5. 3 - (q - 4) = 7 - q
    BY <1>2
  <2>6. q >= 4
    <3> SUFFICES ASSUME q <= 3 PROVE FALSE
      BY <1>2
    <3>1. BYTE * 3 = BYTE * q + BYTE * (3 - q) /\ BYTE * (3 - q) \in Nat
      BY <1>1, <1>2
    <3> DEFINE e == BYTE * q  f == BYTE * (3 - q)
    <3>2. i = e + r /\ BYTE * 3 = e + f /\ f \in Nat /\ e \in Int
      BY <1>1, <1>2, <3>1
    <3> HIDE DEF e, f
    <3> QED BY <1>1, <1>2, <1>9, <3>2
  <2> DEFINE g == (7 - q) * BYTE  j == g + r
  <2>7. g \in Nat /\ g <= 3 * BYTE
    <3>1. 3 * BYTE = g + (q - 4) * BYTE /\ (q - 4) * BYTE \in Nat /\ g \in Nat
      BY <1>1, <1>2, <2>6
    <3> DEFINE e == (q - 4) * BYTE
    <3>2. 3 * BYTE = g + e /\ e \in Nat /\ g \in Nat
      BY <3>1
    <3> HIDE DEF e, g
    <3> QED BY <1>1, <3>2
  <2> HIDE DEF g
  <2>8. j \in 0 .. w - 1
    BY <1>1, <1>2, <2>7
  <2> HIDE DEF j
  <2>9. Wasm!Bit(l, j) = Wasm!Bit(v, j)
    BY <1>4, <2>8
  <2>10. Wasm!Bit(u, i) = Wasm!Bit(v, ((7 - q) * BYTE) + r)
    BY <1>1, <1>7, <2>1, <2>2, <2>3, <2>4, <2>5, <2>9 DEF g, j
  <2> QED BY <1>5, <2>10 DEF u, q, r
<1> QED BY <1>8, <1>9

LEMMA ShiftsAndRotations ==
  LET s == y % Wasm!W32
      t == y % Wasm!W64
  IN /\ Reg("shlo_l_32") = Wasm!Extended(Wasm!Shl(Wasm!AsU32(x), s))
     /\ Reg("shlo_r_32") = Wasm!Extended(Wasm!Shr(Wasm!AsU32(x), s))
     /\ Reg("shar_r_32") = Wasm!Extended(Wasm!Shr(Wasm!Signed(x, Wasm!W32), s))
     /\ Reg("shlo_l") = Wasm!AsU64(Wasm!Shl(x, t))
     /\ Reg("shlo_r") = Wasm!Shr(x, t)
     /\ Reg("shar_r") = Wasm!AsU64(Wasm!Shr(Wasm!Signed(x, Wasm!W64), t))
     /\ Reg("rot_l_64") = Wasm!RotL(Wasm!W64, x, y)
     /\ Reg("rot_r_64") = Wasm!RotR(Wasm!W64, x, y)
     /\ Reg("rot_l_32") = Wasm!Extended(Wasm!RotL(Wasm!W32, Wasm!AsU32(x), Wasm!AsU32(y)))
     /\ Reg("rot_r_32") = Wasm!Extended(Wasm!RotR(Wasm!W32, Wasm!AsU32(x), Wasm!AsU32(y)))
<1> DEFINE A == Wasm!Math32Ops  B == Wasm!Math64Ops  C == Wasm!LogicOps  D == Wasm!ShiftOps  E == Wasm!RotateOps
           F == Wasm!SetOps \cup Wasm!MoveOps
<1>1. A \cap (D \cup E) = {} /\ B \cap (D \cup E) = {} /\ C \cap (D \cup E) = {} /\ D \cap E = {}
      /\ F \cap (D \cup E) = {}
  BY DEF Wasm!Math32Ops, Wasm!Math64Ops, Wasm!LogicOps, Wasm!ShiftOps, Wasm!RotateOps, Wasm!SetOps, Wasm!MoveOps
<1>2. /\ \A op \in D : Reg(op) = Wasm!Shift(op, y, x)
      /\ \A op \in E : Reg(op) = Wasm!Rotate(op, y, x)
  <2>1. ASSUME NEW op \in D PROVE Reg(op) = Wasm!Shift(op, y, x)
    <3>1. op \notin A /\ op \notin B /\ op \notin C /\ op \notin E /\ op \notin F
      BY <1>1
    <3> QED BY <3>1 DEF Reg, Wasm!RegResult
  <2>2. ASSUME NEW op \in E PROVE Reg(op) = Wasm!Rotate(op, y, x)
    <3>1. op \notin A /\ op \notin B /\ op \notin C /\ op \notin D /\ op \notin F
      BY <1>1
    <3> QED BY <3>1 DEF Reg, Wasm!RegResult
  <2> QED BY <2>1, <2>2
<1>3. /\ {"shlo_l_32", "shlo_r_32", "shar_r_32", "shlo_l", "shlo_r", "shar_r"} \subseteq D
      /\ {"rot_l_64", "rot_r_64", "rot_l_32", "rot_r_32"} \subseteq E
  BY DEF Wasm!ShiftOps, Wasm!RotateOps
<1> HIDE DEF D, E
<1>4. /\ Reg("shlo_l_32") = Wasm!Shift("shlo_l_32", y, x) /\ Reg("shlo_r_32") = Wasm!Shift("shlo_r_32", y, x)
      /\ Reg("shar_r_32") = Wasm!Shift("shar_r_32", y, x) /\ Reg("shlo_l") = Wasm!Shift("shlo_l", y, x)
      /\ Reg("shlo_r") = Wasm!Shift("shlo_r", y, x) /\ Reg("shar_r") = Wasm!Shift("shar_r", y, x)
  BY <1>2, <1>3
<1>5. /\ Reg("rot_l_64") = Wasm!Rotate("rot_l_64", y, x) /\ Reg("rot_r_64") = Wasm!Rotate("rot_r_64", y, x)
      /\ Reg("rot_l_32") = Wasm!Rotate("rot_l_32", y, x) /\ Reg("rot_r_32") = Wasm!Rotate("rot_r_32", y, x)
  BY <1>2, <1>3
<1> QED BY <1>4, <1>5 DEF Wasm!Shift, Wasm!Rotate

LEMMA WholeBits ==
  ASSUME x \in 0 .. Top - 1, y \in 0 .. Top - 1, NEW i \in 0 .. Wasm!W64 - 1
  PROVE  LET n == Wasm!W64
             k == y % n
         IN /\ Wasm!Bit(Reg("shlo_l"), i) = IF i >= k THEN Wasm!Bit(x, i - k) ELSE 0
            /\ Wasm!Bit(Reg("shlo_r"), i) = IF i + k < n THEN Wasm!Bit(x, i + k) ELSE 0
            /\ Wasm!Bit(Reg("shar_r"), i) = Wasm!Bit(x, IF i + k < n THEN i + k ELSE n - 1)
            /\ Wasm!Bit(Reg("rot_l_64"), i) = Wasm!Bit(x, (i - k) % n)
            /\ Wasm!Bit(Reg("rot_r_64"), i) = Wasm!Bit(x, (i + k) % n)
<1> DEFINE n == Wasm!W64  k == y % n  u == Wasm!Signed(x, n)
<1>1. n \in Nat \ {0} /\ 2 ^ n = Top /\ x \in Int /\ y \in Int
  BY Widths, WasmWords, HalfTop DEF Top
<1>2. k \in 0 .. n - 1 /\ k \in Nat
  <2>1. k \in 0 .. n - 1
    BY <1>1, DivMod
  <2> HIDE DEF k, n
  <2> QED BY <1>1, <2>1
<1>3. u \in Int
  BY <1>1, SignExtendShared
<1>4. /\ Reg("shlo_l") = Wasm!AsU64(Wasm!Shl(x, k)) /\ Reg("shlo_r") = Wasm!Shr(x, k)
      /\ Reg("shar_r") = Wasm!AsU64(Wasm!Shr(u, k))
      /\ Reg("rot_l_64") = Wasm!RotL(n, x, y) /\ Reg("rot_r_64") = Wasm!RotR(n, x, y)
  BY ShiftsAndRotations
<1>5. /\ Wasm!Bit(Wasm!RotL(n, x, y), i) = Wasm!Bit(x, (i - k) % n)
      /\ Wasm!Bit(Wasm!RotR(n, x, y), i) = Wasm!Bit(x, (i + k) % n)
  BY <1>1, RotateBits
<1> HIDE DEF k
<1>6. /\ Wasm!Bit(Wasm!Shl(x, k), i) = IF i >= k THEN Wasm!Bit(x, i - k) ELSE 0
      /\ Wasm!Bit(Wasm!Shr(x, k), i) = IF i + k < n THEN Wasm!Bit(x, i + k) ELSE 0
      /\ Wasm!Bit(Wasm!Shr(u, k), i) = Wasm!Bit(x, IF i + k < n THEN i + k ELSE n - 1)
  BY <1>1, <1>2, ShiftBits
<1> HIDE DEF u
<1>7. Wasm!Shl(x, k) \in Int /\ Wasm!Shr(u, k) \in Int
  BY <1>1, <1>2, <1>3, ShiftsFit
<1>8. /\ Wasm!Bit(Wasm!AsU64(Wasm!Shl(x, k)), i) = Wasm!Bit(Wasm!Shl(x, k), i)
      /\ Wasm!Bit(Wasm!AsU64(Wasm!Shr(u, k)), i) = Wasm!Bit(Wasm!Shr(u, k), i)
  BY <1>7, StoredBit
<1> QED BY <1>4, <1>5, <1>6, <1>8 DEF k

\* j is the bit of the word that bit i of the register repeats.
LEMMA WordBits ==
  ASSUME x \in 0 .. Top - 1, y \in 0 .. Top - 1, NEW i \in 0 .. Wasm!W64 - 1,
         NEW j, j = IF i < Wasm!W32 THEN i ELSE Wasm!W32 - 1
  PROVE  LET n == Wasm!W32
             k == y % n
         IN /\ Wasm!Bit(Reg("shlo_l_32"), i) = IF j >= k THEN Wasm!Bit(x, j - k) ELSE 0
            /\ Wasm!Bit(Reg("shlo_r_32"), i) = IF j + k < n THEN Wasm!Bit(x, j + k) ELSE 0
            /\ Wasm!Bit(Reg("shar_r_32"), i) = Wasm!Bit(x, IF j + k < n THEN j + k ELSE n - 1)
            /\ Wasm!Bit(Reg("rot_l_32"), i) = Wasm!Bit(x, (j - k) % n)
            /\ Wasm!Bit(Reg("rot_r_32"), i) = Wasm!Bit(x, (j + k) % n)
<1> DEFINE n == Wasm!W32  k == y % n  l == Wasm!AsU32(x)  z == Wasm!AsU32(y)  u == Wasm!Signed(l, n)
<1>1. n \in Nat \ {0} /\ 2 ^ n = Half /\ x \in Int /\ y \in Int /\ j \in 0 .. n - 1 /\ Half \in Nat \ {0}
  BY Widths, WasmWords, HalfTop DEF Half
<1>2. k \in 0 .. n - 1 /\ k \in Nat
  <2>1. k \in 0 .. n - 1
    BY <1>1, DivMod
  <2> HIDE DEF k, n
  <2> QED BY <1>1, <2>1
<1>3. l \in 0 .. 2 ^ n - 1 /\ z \in Int /\ l \in Int /\ u = Wasm!Signed(x, n)
  <2>1. l \in 0 .. Half - 1 /\ l \in Int /\ z \in Int
    BY <1>1, ExtendedWord, WordsFit
  <2>2. u = Wasm!Signed(x, n)
    <3>1. l = x % Half /\ WordOf(x % Half) = WordOf(x)
      BY <1>1, LowOfRegister, WasmWords
    <3>2. u = WordOf(l) /\ Wasm!Signed(x, n) = WordOf(x)
      BY <1>1, <2>1, WordIs
    <3> QED BY <3>1, <3>2
  <2> QED BY <1>1, <2>1, <2>2
<1>4. z % n = k
  <2>1. PICK d \in Nat : Half = n * d
    BY Widths
  <2> DEFINE q == y \div Half  e == d * q
  <2>2. q \in Int /\ y = Half * q + z
    BY <1>1, DivMod, WasmWords
  <2> HIDE DEF q, z, n
  <2>3. (n * d) * q = n * (d * q) /\ e \in Int
    BY <1>1, <2>1, <2>2
  <2> HIDE DEF e
  <2>4. y = z + n * e
    <3>1. Half * q = n * e
      BY <2>1, <2>3 DEF e
    <3> DEFINE f == n * e
    <3>2. f \in Int /\ y = f + z
      BY <1>1, <2>2, <2>3, <3>1
    <3> HIDE DEF f
    <3>3. y = z + f
      BY <1>3, <3>2
    <3> QED BY <3>3 DEF f
  <2>5. (z + n * e) % n = z % n
    BY <1>1, <1>3, <2>3, ModShift
  <2> QED BY <2>4, <2>5
<1>5. /\ Reg("shlo_l_32") = Wasm!Extended(Wasm!Shl(l, k)) /\ Reg("shlo_r_32") = Wasm!Extended(Wasm!Shr(l, k))
      /\ Reg("shar_r_32") = Wasm!Extended(Wasm!Shr(u, k))
      /\ Reg("rot_l_32") = Wasm!Extended(Wasm!RotL(n, l, z)) /\ Reg("rot_r_32") = Wasm!Extended(Wasm!RotR(n, l, z))
  BY <1>3, ShiftsAndRotations
<1>6. ASSUME NEW b \in 0 .. n - 1 PROVE Wasm!Bit(l, b) = Wasm!Bit(x, b)
  BY <1>1, WordBit
<1> DEFINE rl == Wasm!RotL(n, l, z)  rr == Wasm!RotR(n, l, z)
           sl == Wasm!Shl(l, k)  sr == Wasm!Shr(l, k)  sa == Wasm!Shr(u, k)
<1>7. Wasm!Bit(rl, j) = Wasm!Bit(l, (j - k) % n) /\ Wasm!Bit(rr, j) = Wasm!Bit(l, (j + k) % n)
  <2> HIDE DEF l, z, n, k
  <2>1. /\ Wasm!Bit(Wasm!RotL(n, l, z), j) = Wasm!Bit(l, (j - (z % n)) % n)
        /\ Wasm!Bit(Wasm!RotR(n, l, z), j) = Wasm!Bit(l, (j + (z % n)) % n)
    BY <1>1, <1>3, RotateBits
  <2> QED BY <1>4, <2>1
<1>8. rl \in Int /\ rr \in Int
  <2>1. /\ rl = Wasm!Or(n, Wasm!Shl(l, k), Wasm!Shr(l, n - k))
        /\ rr = Wasm!Or(n, Wasm!Shr(l, k), Wasm!Shl(l, n - k))
    BY <1>4 DEF Wasm!RotL, Wasm!RotR
  <2> DEFINE a == Wasm!Shl(l, k)  b == Wasm!Shr(l, n - k)  c == Wasm!Shr(l, k)  d == Wasm!Shl(l, n - k)
  <2>2. n - k \in Nat
    BY <1>1, <1>2
  <2> HIDE DEF l, k, n
  <2>3. a \in Int /\ b \in Int /\ c \in Int /\ d \in Int
    BY <1>2, <1>3, <2>2, ShiftsFit
  <2> HIDE DEF a, b, c, d, rl, rr
  <2>4. rl \in 0 .. 2 ^ n - 1 /\ rr \in 0 .. 2 ^ n - 1
    BY <1>1, <2>1, <2>3, OrBits DEF a, b, c, d
  <2> QED BY <1>1, <2>4
<1> HIDE DEF k, z, l, rl, rr
<1>9. /\ Wasm!Bit(sl, j) = IF j >= k THEN Wasm!Bit(l, j - k) ELSE 0
      /\ Wasm!Bit(sr, j) = IF j + k < n THEN Wasm!Bit(l, j + k) ELSE 0
      /\ Wasm!Bit(sa, j) = Wasm!Bit(l, IF j + k < n THEN j + k ELSE n - 1)
  BY <1>1, <1>2, <1>3, ShiftBits
<1>10. sl \in Int /\ sr \in Int /\ sa \in Int
  <2>1. u \in Int
    BY <1>1, <1>3, SignExtendShared
  <2> HIDE DEF u
  <2> QED BY <1>2, <1>3, <2>1, ShiftsFit
<1> HIDE DEF sl, sr, sa, n
<1>11. \A v \in Int : Wasm!Bit(Wasm!Extended(v), i) = Wasm!Bit(v, j)
  BY ExtendedBit DEF n
<1>12. /\ (j - k) % n \in 0 .. n - 1 /\ (j + k) % n \in 0 .. n - 1 /\ (j >= k => j - k \in 0 .. n - 1)
       /\ (j + k < n => j + k \in 0 .. n - 1) /\ n - 1 \in 0 .. n - 1
  <2>1. (j - k) % n \in 0 .. n - 1 /\ (j + k) % n \in 0 .. n - 1
    <3> DEFINE a == j - k  b == j + k
    <3>1. a \in Int /\ b \in Int
      BY <1>1, <1>2
    <3> HIDE DEF a, b
    <3>2. a % n \in 0 .. n - 1 /\ b % n \in 0 .. n - 1
      BY <1>1, <3>1, DivMod
    <3> QED BY <3>2 DEF a, b
  <2> QED BY <1>1, <1>2, <2>1
<1>13. /\ Wasm!Bit(Reg("shlo_l_32"), i) = IF j >= k THEN Wasm!Bit(x, j - k) ELSE 0
       /\ Wasm!Bit(Reg("shlo_r_32"), i) = IF j + k < n THEN Wasm!Bit(x, j + k) ELSE 0
       /\ Wasm!Bit(Reg("shar_r_32"), i) = Wasm!Bit(x, IF j + k < n THEN j + k ELSE n - 1)
  BY <1>5, <1>6, <1>9, <1>10, <1>11, <1>12 DEF sl, sr, sa
<1>14. /\ Wasm!Bit(Reg("rot_l_32"), i) = Wasm!Bit(x, (j - k) % n)
       /\ Wasm!Bit(Reg("rot_r_32"), i) = Wasm!Bit(x, (j + k) % n)
  BY <1>5, <1>6, <1>7, <1>8, <1>11, <1>12 DEF rl, rr
<1> QED BY <1>13, <1>14 DEF k, n

LEMMA CountsOf ==
  ASSUME x \in 0 .. Top - 1
  PROVE  LET n == Wasm!W64
             w == Wasm!W32
         IN /\ Wasm!BitCount("count_set_bits_64", x) = Cardinality(OnesIn(x, n))
            /\ Wasm!BitCount("leading_zero_bits_64", x) = n - 1 - Max(OnesIn(x, n) \cup {-1})
            /\ Wasm!BitCount("trailing_zero_bits_64", x) = Min(OnesIn(x, n) \cup {n})
            /\ Wasm!BitCount("count_set_bits_32", x) = Cardinality(OnesIn(x, w))
            /\ Wasm!BitCount("leading_zero_bits_32", x) = w - 1 - Max(OnesIn(x, w) \cup {-1})
            /\ Wasm!BitCount("trailing_zero_bits_32", x) = Min(OnesIn(x, w) \cup {w})
<1> DEFINE l == Wasm!AsU32(x)  w == Wasm!W32
<1>1. x \in Int
  BY HalfTop
<1>2. l \in 0 .. Half - 1
  BY <1>1, ExtendedWord
<1>3. OnesIn(l, w) = OnesIn(x, w)
  BY <1>1, WordBit DEF OnesIn
<1>4. /\ Wasm!BitCount("count_set_bits_64", x) = Wasm!Popcnt64(x)
      /\ Wasm!BitCount("leading_zero_bits_64", x) = Wasm!Clz64(x)
      /\ Wasm!BitCount("trailing_zero_bits_64", x) = Wasm!Ctz64(x)
      /\ Wasm!BitCount("count_set_bits_32", x) = Wasm!Popcnt32(l)
      /\ Wasm!BitCount("leading_zero_bits_32", x) = Wasm!Clz32(l)
      /\ Wasm!BitCount("trailing_zero_bits_32", x) = Wasm!Ctz32(l)
  BY DEF Wasm!BitCount
<1> HIDE DEF l
<1>5. /\ Wasm!Popcnt32(l) = Cardinality(OnesIn(l, w)) /\ Wasm!Clz32(l) = w - 1 - Max(OnesIn(l, w) \cup {-1})
      /\ Wasm!Ctz32(l) = Min(OnesIn(l, w) \cup {w})
  BY <1>2, CountsAre
<1> QED BY <1>1, <1>3, <1>4, <1>5, WholeCountsAre

LEMMA ExtensionBits ==
  ASSUME x \in 0 .. Top - 1, NEW i \in 0 .. Wasm!W64 - 1
  PROVE  /\ Wasm!Bit(Wasm!BitCount("sign_extend_8", x), i) = Wasm!Bit(x, IF i < BYTE THEN i ELSE BYTE - 1)
         /\ Wasm!Bit(Wasm!BitCount("sign_extend_16", x), i) = Wasm!Bit(x, IF i < 2 * BYTE THEN i ELSE 2 * BYTE - 1)
<1> DEFINE a == Wasm!Signed(x, BYTE)  b == Wasm!Signed(x, 2 * BYTE)
<1>1. x \in Int /\ BYTE \in Nat \ {0} /\ 2 * BYTE \in Nat \ {0} /\ i \in Nat
  BY HalfTop, ComputationAssumption
<1>2. a \in Int /\ b \in Int /\ Wasm!SignExtend(x, BYTE) = a /\ Wasm!SignExtend(x, 2 * BYTE) = b
  BY <1>1, SignExtendShared
<1>3. Wasm!BitCount("sign_extend_8", x) = Wasm!AsU64(a) /\ Wasm!BitCount("sign_extend_16", x) = Wasm!AsU64(b)
  BY <1>2 DEF Wasm!BitCount, Wasm!W8, Wasm!W16
<1>4. /\ Wasm!Bit(a, i) = Wasm!Bit(x, IF i < BYTE THEN i ELSE BYTE - 1)
      /\ Wasm!Bit(b, i) = Wasm!Bit(x, IF i < 2 * BYTE THEN i ELSE 2 * BYTE - 1)
  <2> DEFINE n == 2 * BYTE
  <2>1. n \in Nat \ {0}
    BY <1>1
  <2> HIDE DEF n
  <2>2. Wasm!Bit(Wasm!Signed(x, n), i) = Wasm!Bit(x, IF i < n THEN i ELSE n - 1)
    BY <1>1, <2>1, SignedBit
  <2>3. Wasm!Bit(a, i) = Wasm!Bit(x, IF i < BYTE THEN i ELSE BYTE - 1)
    BY <1>1, SignedBit
  <2> QED BY <2>2, <2>3 DEF n
<1> HIDE DEF a, b
<1>5. Wasm!Bit(Wasm!AsU64(a), i) = Wasm!Bit(a, i) /\ Wasm!Bit(Wasm!AsU64(b), i) = Wasm!Bit(b, i)
  BY <1>2, StoredBit
<1> QED BY <1>3, <1>4, <1>5

LEMMA BitsAreExact == ASSUME OperandsOK PROVE BitsExact
<1> SUFFICES ASSUME Loaded PROVE BitsExact
  BY DEF BitsExact
<1> DEFINE At(v, i) == (v \div 2 ^ i) % 2
           Ones(n) == {i \in 0 .. n - 1 : At(x, i) = 1}
           IsBits(r, n, bit(_)) ==
             \A i \in 0 .. 8 * BYTE - 1 : At(r, i) = bit(IF i < n THEN i ELSE n - 1)
           Exact(n, l, r, s, rl, rr) ==
             LET k == y % n
             IN /\ IsBits(Reg(l), n, LAMBDA i : IF i >= k THEN At(x, i - k) ELSE 0)
                /\ IsBits(Reg(r), n, LAMBDA i : IF i + k < n THEN At(x, i + k) ELSE 0)
                /\ IsBits(Reg(s), n, LAMBDA i : At(x, IF i + k < n THEN i + k ELSE n - 1))
                /\ IsBits(Reg(rl), n, LAMBDA i : At(x, (i - k) % n))
                /\ IsBits(Reg(rr), n, LAMBDA i : At(x, (i + k) % n))
           Counts(n, ones, leading, trailing) ==
             /\ Wasm!BitCount(ones, x) = Cardinality(Ones(n))
             /\ Wasm!BitCount(leading, x) = n - 1 - Max(Ones(n) \cup {-1})
             /\ Wasm!BitCount(trailing, x) = Min(Ones(n) \cup {n})
<1>1. x \in 0 .. Top - 1 /\ y \in 0 .. Top - 1 /\ x \in Int
  BY Contents, HalfTop
<1>2. Wasm!W64 = 8 * BYTE /\ Wasm!W32 = 4 * BYTE /\ \A v, i : Wasm!Bit(v, i) = At(v, i)
  BY WasmWords DEF Wasm!Bit
<1>3. \A i \in 0 .. 8 * BYTE - 1 : i < 8 * BYTE
  BY ComputationAssumption
<1> DEFINE n64 == 8 * BYTE  n32 == 4 * BYTE
<1>4. Exact(n64, "shlo_l", "shlo_r", "shar_r", "rot_l_64", "rot_r_64")
  <2> DEFINE k == y % n64
  <2>1. ASSUME NEW i \in 0 .. n64 - 1
        PROVE  /\ At(Reg("shlo_l"), i) = IF i >= k THEN At(x, i - k) ELSE 0
               /\ At(Reg("shlo_r"), i) = IF i + k < n64 THEN At(x, i + k) ELSE 0
               /\ At(Reg("shar_r"), i) = At(x, IF i + k < n64 THEN i + k ELSE n64 - 1)
               /\ At(Reg("rot_l_64"), i) = At(x, (i - k) % n64)
               /\ At(Reg("rot_r_64"), i) = At(x, (i + k) % n64)
    <3> HIDE DEF At
    <3> QED BY <1>1, <1>2, WholeBits
  <2> HIDE DEF At, k
  <2> QED BY <1>3, <2>1 DEF k
<1>5. Exact(n32, "shlo_l_32", "shlo_r_32", "shar_r_32", "rot_l_32", "rot_r_32")
  <2> DEFINE k == y % n32
  <2>1. ASSUME NEW i \in 0 .. n64 - 1, NEW j, j = IF i < n32 THEN i ELSE n32 - 1
        PROVE  /\ At(Reg("shlo_l_32"), i) = IF j >= k THEN At(x, j - k) ELSE 0
               /\ At(Reg("shlo_r_32"), i) = IF j + k < n32 THEN At(x, j + k) ELSE 0
               /\ At(Reg("shar_r_32"), i) = At(x, IF j + k < n32 THEN j + k ELSE n32 - 1)
               /\ At(Reg("rot_l_32"), i) = At(x, (j - k) % n32)
               /\ At(Reg("rot_r_32"), i) = At(x, (j + k) % n32)
    <3> HIDE DEF At
    <3> QED BY <1>1, <1>2, <2>1, WordBits
  <2> HIDE DEF At, k
  <2> QED BY <2>1 DEF k
<1>6. \A n : Ones(n) = OnesIn(x, n)
  BY DEF OnesIn, Wasm!Bit
<1>7. /\ Counts(n64, "count_set_bits_64", "leading_zero_bits_64", "trailing_zero_bits_64")
      /\ Counts(n32, "count_set_bits_32", "leading_zero_bits_32", "trailing_zero_bits_32")
  <2> HIDE DEF Ones
  <2> QED BY <1>1, <1>2, <1>6, CountsOf
<1>8. IsBits(Wasm!BitCount("reverse_bytes", x), n64,
             LAMBDA i : At(x, ((7 - (i \div BYTE)) * BYTE) + (i % BYTE)))
  <2>1. Wasm!BitCount("reverse_bytes", x) = Wasm!Swap64(x)
    BY DEF Wasm!BitCount
  <2>2. ASSUME NEW i \in 0 .. 8 * BYTE - 1
        PROVE  At(Wasm!Swap64(x), i) = At(x, ((7 - (i \div BYTE)) * BYTE) + (i % BYTE))
    <3> HIDE DEF At
    <3> QED BY <1>1, <1>2, ReversedBits
  <2> HIDE DEF At
  <2> QED BY <1>3, <2>1, <2>2
<1>9. /\ IsBits(Wasm!BitCount("sign_extend_8", x), BYTE, LAMBDA i : At(x, i))
      /\ IsBits(Wasm!BitCount("sign_extend_16", x), 2 * BYTE, LAMBDA i : At(x, i))
  <2> HIDE DEF At
  <2> QED BY <1>1, <1>2, ExtensionBits
<1> QED BY <1>4, <1>5, <1>7, <1>8, <1>9 DEF BitsExact

\* Shifts and rotations move the bits that they say by the amount modulo the
\* width, results of W32 bits are extended by their sign, counts count, and
\* bytes change their order, for words of any width (shift.ts, rot.ts, bit.ts).
THEOREM BitsExactTheorem == Spec => []BitsExact
BY OperandsInvariant, BitsAreExact, PTL
=============================================================================
