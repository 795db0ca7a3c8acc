--------------------------- MODULE ProgramProofs ----------------------------
(***************************************************************************)
(* Results about module Program, for code of any length and every mask:    *)
(* that a skip leads to the next instruction, what the tables of costs are *)
(* charged with, and that whatever deblob makes of a raw program is what   *)
(* the interpreter relies on.                                              *)
(***************************************************************************)
EXTENDS Program, NumberProofs

-----------------------------------------------------------------------------
(* The table of skips.                                                     *)

\* Positions of the code r that the mask says are instructions, and the starts
\* of its blocks.
Marked(r) == {n \in 0 .. Size(r) - 1 : r.mask[n + 1]}
StartsOf(r) == Starts(r, Mask(r))

\* LastInstructionOffset is defined by its equation, and its values are numbers.
LEMMA OffsetFacts ==
  ASSUME NEW r, Size(r) \in Nat
  PROVE  \A n \in 0 .. Size(r) :
           /\ LastInstructionOffset(r)[n] \in Nat
           /\ LastInstructionOffset(r)[n] =
                IF n = Size(r) \/ n \in Marked(r) THEN 0 ELSE LastInstructionOffset(r)[n + 1] + 1
<1> DEFINE Equation(g, n) == IF n = Size(r) \/ r.mask[n + 1] THEN 0 ELSE g[n + 1] + 1
           Body(g) == [n \in 0 .. Size(r) |-> Equation(g, n)]
           offset == LastInstructionOffset(r)
           w == [n \in 0 .. Size(r) - 1 |-> 1]
           next == [n \in 0 .. Size(r) - 1 |-> n + 1]
           Term(g, n) == IF n = Size(r) \/ n \in Marked(r) THEN 0 ELSE w[n] + g[next[n]]
<1>1. offset = CHOOSE g : g = Body(g)
  BY DEF LastInstructionOffset
<1>2. /\ w \in [0 .. Size(r) - 1 -> Nat] /\ next \in [0 .. Size(r) - 1 -> 0 .. Size(r)]
      /\ \A n \in 0 .. Size(r) - 1 : n < next[n] /\ w[n] = 1 /\ next[n] = n + 1
  OBVIOUS
<1> HIDE DEF w, next
<1>3. \A n \in 0 .. Size(r) - 1 : n \in Marked(r) <=> r.mask[n + 1]
  BY DEF Marked
<1>4. ASSUME NEW g \in [0 .. Size(r) -> Nat], AreSums(g, Size(r), Marked(r), w, next)
      PROVE  g = Body(g)
  <2>1. ASSUME NEW n \in 0 .. Size(r) PROVE g[n] = Equation(g, n)
    <3>1. CASE n = Size(r)
      BY <1>4, <3>1 DEF AreSums
    <3>2. CASE n # Size(r)
      <4>1. n \in 0 .. Size(r) - 1 /\ g[n + 1] \in Nat /\ g[n] = Term(g, n)
        BY <1>4, <3>2 DEF AreSums
      <4> QED BY <1>2, <1>3, <3>2, <4>1
    <3> QED BY <3>1, <3>2
  <2> HIDE DEF Equation
  <2> QED BY <2>1
<1>5. offset = Body(offset)
  <2>1. \E g : g = Body(g)
    <3>1. PICK g \in [0 .. Size(r) -> Nat] : AreSums(g, Size(r), Marked(r), w, next)
      BY <1>2, SumsExist
    <3> HIDE DEF Body
    <3> QED BY <1>4, <3>1
  <2> HIDE DEF Body, offset
  <2> QED BY <1>1, <2>1
<1>6. \A n \in 0 .. Size(r) : offset[n] = Equation(offset, n)
  <2> HIDE DEF offset
  <2> QED BY <1>5
<1> HIDE DEF offset
\* What Body adds 1 to might, for all that is known yet, be no number.
<1>7. \A n \in 0 .. Size(r) : offset[n] \in Nat
  <2> DEFINE bad == {k \in 0 .. Size(r) : offset[Size(r) - k] \notin Nat}
  <2>1. SUFFICES ASSUME bad # {} PROVE FALSE
    <3>1. ASSUME NEW n \in 0 .. Size(r) PROVE offset[n] \in Nat
      <4>1. Size(r) - n \in 0 .. Size(r) /\ Size(r) - (Size(r) - n) = n
        OBVIOUS
      <4> QED BY <2>1, <4>1
    <3> QED BY <3>1
  <2>2. PICK k \in bad : \A j \in bad : k <= j
    <3>1. bad \subseteq Nat
      OBVIOUS
    <3> HIDE DEF bad
    <3> QED BY <2>1, <3>1, LeastElement
  <2>3. CASE k = 0
    BY <1>6, <2>2, <2>3
  <2>4. CASE k # 0
    <3>1. /\ k - 1 \in 0 .. Size(r) /\ k - 1 \notin bad
          /\ Size(r) - (k - 1) = Size(r) - k + 1 /\ Size(r) - k \in 0 .. Size(r)
      BY <2>2, <2>4
    <3>2. offset[Size(r) - k + 1] \in Nat
      BY <3>1
    <3> QED BY <1>6, <2>2, <3>1, <3>2
  <2> QED BY <2>3, <2>4
<1>8. ASSUME NEW n \in 0 .. Size(r)
      PROVE  offset[n] = IF n = Size(r) \/ n \in Marked(r) THEN 0 ELSE offset[n + 1] + 1
  <2>1. n # Size(r) => n \in 0 .. Size(r) - 1
    OBVIOUS
  <2> QED BY <1>3, <1>6, <2>1
<1> QED BY <1>7, <1>8 DEF offset

\* The offset leads over what is not marked to what is, or to the end.
LEMMA OffsetLeads ==
  ASSUME NEW r, Size(r) \in Nat
  PROVE  \A n \in 0 .. Size(r) :
           /\ n + LastInstructionOffset(r)[n] \in Marked(r) \cup {Size(r)}
           /\ n <= n + LastInstructionOffset(r)[n]
           /\ \A j \in n .. n + LastInstructionOffset(r)[n] - 1 : j \notin Marked(r)
<1> DEFINE offset == LastInstructionOffset(r)
           to(n) == n + offset[n]
           Leads(n) == /\ to(n) \in Marked(r) \cup {Size(r)} /\ n <= to(n)
                       /\ \A j \in n .. to(n) - 1 : j \notin Marked(r)
           bad == {k \in 0 .. Size(r) : ~Leads(Size(r) - k)}
<1>1. \A n \in 0 .. Size(r) :
        /\ offset[n] \in Nat
        /\ offset[n] = IF n = Size(r) \/ n \in Marked(r) THEN 0 ELSE offset[n + 1] + 1
  BY OffsetFacts
<1> HIDE DEF offset
<1>2. SUFFICES ASSUME bad # {} PROVE FALSE
  <2>1. ASSUME NEW n \in 0 .. Size(r) PROVE Leads(n)
    <3>1. Size(r) - n \in 0 .. Size(r) /\ Size(r) - (Size(r) - n) = n
      OBVIOUS
    <3> HIDE DEF Leads
    <3> QED BY <1>2, <3>1
  <2>2. ASSUME NEW n \in 0 .. Size(r)
        PROVE  /\ n + offset[n] \in Marked(r) \cup {Size(r)} /\ n <= n + offset[n]
               /\ \A j \in n .. n + offset[n] - 1 : j \notin Marked(r)
    <3>1. Leads(n) /\ offset[n] \in Nat
      BY <1>1, <2>1
    <3>2. to(n) - 1 = n + offset[n] - 1
      BY <3>1
    <3> QED BY <3>1, <3>2
  <2> QED BY <2>2 DEF offset
<1>3. PICK k \in bad : \A j \in bad : k <= j
  <2>1. bad \subseteq Nat
    OBVIOUS
  <2> HIDE DEF bad
  <2> QED BY <1>2, <2>1, LeastElement
<1> DEFINE n == Size(r) - k
<1>4. n \in 0 .. Size(r) /\ ~Leads(n)
  <2> HIDE DEF Leads
  <2> QED BY <1>3
<1>5. CASE n = Size(r) \/ n \in Marked(r)
  <2>1. offset[n] = 0 /\ to(n) = n
    BY <1>1, <1>4, <1>5
  <2> QED BY <1>4, <1>5, <2>1
<1>6. CASE ~(n = Size(r) \/ n \in Marked(r))
  <2>1. n + 1 \in 0 .. Size(r) /\ offset[n + 1] \in Nat /\ offset[n] = offset[n + 1] + 1
    <3>1. n + 1 \in 0 .. Size(r)
      BY <1>4, <1>6
    <3> HIDE DEF n
    <3> QED BY <1>1, <1>4, <1>6, <3>1
  <2>2. Leads(n + 1)
    <3>1. k - 1 \in 0 .. Size(r) /\ k - 1 \notin bad /\ Size(r) - (k - 1) = n + 1
      <4> HIDE DEF Leads
      <4> QED BY <1>3, <2>1
    <3> HIDE DEF Leads, n
    <3> QED BY <3>1
  <2>3. to(n) = to(n + 1)
    BY <1>4, <2>1
  <2>4. ASSUME NEW j \in n .. to(n) - 1 PROVE j \notin Marked(r)
    <3>1. j = n \/ j \in n + 1 .. to(n + 1) - 1
      BY <1>4, <2>1, <2>3
    <3> QED BY <1>6, <2>2, <3>1
  <2>5. to(n) \in Marked(r) \cup {Size(r)} /\ n <= to(n)
    BY <1>4, <2>1, <2>2, <2>3
  <2> HIDE DEF to
  <2> QED BY <1>4, <2>4, <2>5
<1> QED BY <1>5, <1>6

-----------------------------------------------------------------------------
(* Items of the jump table.                                                *)

\* One byte more, as JumpItem adds it.
Shifted(num, b) ==
  LET shifted == (num * BYTE_BASE) % U64
      added == (shifted + b) % U64
  IN IF shifted < num \/ added < num THEN U64 - 1 ELSE added

Digit == 0 .. BYTE_BASE - 1

LEMMA Digits ==
  /\ BYTE_BASE \in Nat /\ BYTE_BASE >= 2 /\ U64 \in Nat \ {0}
  /\ \A d \in Digit : d \in Nat /\ d + 1 <= BYTE_BASE
BY WidthsAssumption DEF Digit

LEMMA ShiftedIsNumber ==
  ASSUME NEW a \in Nat, NEW d \in Digit
  PROVE  Shifted(a, d) \in Nat
<1> DEFINE s == (a * BYTE_BASE) % U64
<1>1. a * BYTE_BASE \in Nat
  BY Digits
<1>2. s \in Nat
  BY Digits, <1>1
<1> HIDE DEF s
<1>3. (s + d) % U64 \in Nat
  BY Digits, <1>2
<1> QED BY Digits, <1>3 DEF Shifted, s

\* The fold of JumpItem goes from the most significant byte down.
LEMMA JumpItemFolds ==
  ASSUME NEW n \in Nat, NEW its \in [1 .. n -> Digit], Len(its) = n
  PROVE  \E v : /\ v[0] = 0 /\ JumpItem(its) = v[n]
                /\ \A i \in 1 .. n : v[i] = Shifted(v[i - 1], its[n - i + 1])
<1> DEFINE seq == Reverse(its)
           Is(g) == g = [s \in SUBSET DOMAIN seq |->
                           IF s = {} THEN 0 ELSE Shifted(g[s \ {Max(s)}], seq[Max(s)])]
           fold == CHOOSE g : Is(g)
           F == [p \in Nat \X (1 .. n) |-> Shifted(p[1], seq[p[2]])]
<1>1. JumpItem(its) = fold[DOMAIN seq]
  BY DEF JumpItem, FoldLeft, MapThenFoldSet, Shifted
<1>2. DOMAIN seq = 1 .. n /\ \A i \in 1 .. n : seq[i] = its[n - i + 1] /\ seq[i] \in Digit
  BY DEF Reverse
<1> HIDE DEF seq
<1>3. \A a \in Nat, d \in Digit : Shifted(a, d) \in Nat
  BY ShiftedIsNumber
<1>4. F \in [Nat \X (1 .. n) -> Nat] /\ \A a \in Nat, i \in 1 .. n : F[<<a, i>>] = Shifted(a, seq[i])
  BY <1>2, <1>3
<1> HIDE DEF F
<1>5. PICK g \in [SUBSET (1 .. n) -> Nat] : \A s \in SUBSET (1 .. n) :
             g[s] = IF s = {} THEN 0 ELSE F[<<g[s \ {Max(s)}], Max(s)>>]
  <2> DEFINE V == Nat
  <2>1. 0 \in V /\ F \in [V \X (1 .. n) -> V]
    BY <1>4
  <2> HIDE DEF Is, V
  <2>2. \E g \in [SUBSET (1 .. n) -> V] : IsAlong(g, n, 0, F)
    BY <2>1, FoldAlong
  <2> QED BY <2>2 DEF V, IsAlong
<1>6. ASSUME NEW s \in SUBSET (1 .. n)
      PROVE  g[s] = IF s = {} THEN 0 ELSE Shifted(g[s \ {Max(s)}], seq[Max(s)])
  <2>1. CASE s = {}
    BY <1>5, <2>1
  <2>2. CASE s # {}
    <3>1. Max(s) \in 1 .. n /\ g[s \ {Max(s)}] \in Nat
      BY <2>2, MaxExists
    <3> QED BY <1>4, <1>5, <2>2, <3>1
  <2> QED BY <2>1, <2>2
<1>7. Is(g)
  BY <1>2, <1>6
<1> HIDE DEF Is
<1>8. Is(fold)
  BY <1>7
<1> HIDE DEF fold
<1>9. \A s \in SUBSET (1 .. n) :
        fold[s] = IF s = {} THEN 0 ELSE Shifted(fold[s \ {Max(s)}], seq[Max(s)])
  BY <1>2, <1>8 DEF Is
<1> DEFINE v == [i \in 0 .. n |-> fold[1 .. i]]
<1>10. v[0] = 0
  <2>1. 1 .. 0 = {} /\ 1 .. 0 \in SUBSET (1 .. n) /\ 0 \in 0 .. n
    OBVIOUS
  <2>2. fold[1 .. 0] = 0
    BY <1>9, <2>1
  <2> QED BY <2>1, <2>2
<1>11. ASSUME NEW i \in 1 .. n PROVE v[i] = Shifted(v[i - 1], its[n - i + 1])
  <2>1. 1 .. i # {} /\ Max(1 .. i) = i /\ (1 .. i) \ {i} = 1 .. i - 1 /\ 1 .. i \in SUBSET (1 .. n)
        /\ i - 1 \in 0 .. n /\ i \in 0 .. n
    <3>1. i \in Nat \ {0} /\ 1 .. i \in SUBSET (1 .. n) /\ i - 1 \in 0 .. n /\ i \in 0 .. n
      OBVIOUS
    <3> QED BY <3>1, UpToGreatest
  <2>2. fold[1 .. i] = Shifted(fold[1 .. i - 1], seq[i])
    BY <1>9, <2>1
  <2> QED BY <1>2, <2>1, <2>2
<1>12. JumpItem(its) = v[n]
  BY <1>1, <1>2
<1> QED BY <1>10, <1>11, <1>12

-----------------------------------------------------------------------------
(* The tables of costs.                                                    *)

\* Where the second loop of GasCosts goes on, and what an instruction costs.
Onward(r) == [n \in 0 .. Size(r) - 1 |-> n + 1 + SkipBytes(Mask(r), n)]
Price(r) == [n \in 0 .. Size(r) - 1 |-> GAS[OpAt(r, n)]]

LEMMA CodeFacts ==
  ASSUME NEW r, IsCode(r)
  PROVE  /\ Size(r) \in Nat /\ Mask(r).len = Size(r) /\ Marked(r) \subseteq 0 .. Size(r) - 1
         /\ \A n \in 0 .. Size(r) - 1 :
              /\ IsInstruction(Mask(r), n) <=> n \in Marked(r)
              /\ Onward(r)[n] \in 0 .. Size(r) /\ n < Onward(r)[n] /\ SkipBytes(Mask(r), n) \in Nat
              /\ \A j \in n + 1 .. Onward(r)[n] - 1 : j \notin Marked(r)
              /\ OpAt(r, n) \in Opcode /\ Price(r)[n] \in Nat
<1>1. Size(r) \in Nat /\ MAX_SKIP \in Nat
  BY WidthsAssumption DEF IsCode, Size
<1> DEFINE offset == LastInstructionOffset(r)
<1>2. \A n \in 0 .. Size(r) :
        /\ offset[n] \in Nat
        /\ offset[n] = IF n = Size(r) \/ n \in Marked(r) THEN 0 ELSE offset[n + 1] + 1
  BY <1>1, OffsetFacts
<1>3. \A n \in 0 .. Size(r) :
        /\ n + offset[n] \in Marked(r) \cup {Size(r)} /\ n <= n + offset[n]
        /\ \A j \in n .. n + offset[n] - 1 : j \notin Marked(r)
  <2> HIDE DEF Size
  <2> QED BY <1>1, OffsetLeads
<1>4. /\ Mask(r).len = Size(r)
      /\ Mask(r).skip = [i \in 0 .. Size(r) - 1 |->
                     IF offset[i] < MAX_SKIP + 1 THEN offset[i] ELSE MAX_SKIP + 1]
  BY DEF Mask, BytesToSkip
<1>5. Marked(r) \subseteq 0 .. Size(r) - 1
  BY DEF Marked
<1> HIDE DEF offset
<1>6. ASSUME NEW n \in 0 .. Size(r) - 1 PROVE IsInstruction(Mask(r), n) <=> n \in Marked(r)
  <2>1. n < Mask(r).len
              /\ Mask(r).skip[n] = IF offset[n] < MAX_SKIP + 1 THEN offset[n] ELSE MAX_SKIP + 1
    BY <1>1, <1>4
  <2>2. n \in 0 .. Size(r) /\ n # Size(r) /\ offset[n] \in Nat
    BY <1>1, <1>2
  <2>3. n \notin Marked(r) => offset[n] # 0
    <3> SUFFICES ASSUME n \notin Marked(r) PROVE offset[n] # 0
      OBVIOUS
    <3>1. n + 1 \in 0 .. Size(r) /\ offset[n] = offset[n + 1] + 1
      BY <1>1, <1>2, <2>2
    <3>2. offset[n + 1] \in Nat
      BY <1>2, <3>1
    <3> QED BY <3>1, <3>2
  <2>4. n \in Marked(r) => offset[n] = 0
    BY <1>2, <2>2
  <2> QED BY <1>1, <2>1, <2>2, <2>3, <2>4 DEF IsInstruction
<1>8. ASSUME NEW n \in 0 .. Size(r) - 1
      PROVE  /\ Onward(r)[n] \in 0 .. Size(r) /\ n < Onward(r)[n] /\ SkipBytes(Mask(r), n) \in Nat
             /\ \A j \in n + 1 .. Onward(r)[n] - 1 : j \notin Marked(r)
  <2>1. Onward(r)[n] = n + 1 + SkipBytes(Mask(r), n)
    BY DEF Onward
  <2>2. CASE n + 1 < Size(r)
    <3> DEFINE o == offset[n + 1]
    <3>1. n + 1 \in 0 .. Size(r) /\ n + 1 \in 0 .. Size(r) - 1 /\ o \in Nat
      BY <1>1, <1>2, <2>2
    <3>2. SkipBytes(Mask(r), n) = IF o < MAX_SKIP + 1 THEN o ELSE MAX_SKIP + 1
      BY <1>4, <2>2, <3>1 DEF SkipBytes
    <3>3. n + 1 + o \in 0 .. Size(r) /\ \A j \in n + 1 .. n + 1 + o - 1 : j \notin Marked(r)
      BY <1>1, <1>3, <1>5, <3>1
    <3> HIDE DEF o
    <3>4. SkipBytes(Mask(r), n) \in Nat /\ SkipBytes(Mask(r), n) <= o
      BY <1>1, <3>1, <3>2
    <3>5. Onward(r)[n] \in 0 .. Size(r) /\ n < Onward(r)[n] /\ Onward(r)[n] <= n + 1 + o
      BY <1>1, <2>1, <3>1, <3>3, <3>4
    <3>6. ASSUME NEW j \in n + 1 .. Onward(r)[n] - 1 PROVE j \notin Marked(r)
      <4>1. j \in n + 1 .. n + 1 + o - 1
        BY <1>1, <3>1, <3>5
      <4> QED BY <3>3, <4>1
    <3> QED BY <3>4, <3>5, <3>6
  <2>3. CASE ~(n + 1 < Size(r))
    <3>1. n + 1 = Size(r) /\ SkipBytes(Mask(r), n) = 0
      BY <1>1, <1>4, <2>3 DEF SkipBytes
    <3> QED BY <1>1, <2>1, <3>1
  <2> QED BY <2>2, <2>3
<1>9. ASSUME NEW n \in 0 .. Size(r) - 1 PROVE OpAt(r, n) \in Opcode /\ Price(r)[n] \in Nat
  <2>1. n + 1 \in 1 .. Len(r.code) /\ r.code \in Seq([op : Opcode, arg : Int])
    BY <1>1 DEF Size, IsCode
  <2>2. r.code[n + 1] \in [op : Opcode, arg : Int]
    <3> DEFINE c == r.code  B == [op : Opcode, arg : Int]
    <3>1. c \in Seq(B) /\ n + 1 \in 1 .. Len(c)
      BY <2>1
    <3> HIDE DEF c, B
    <3>2. c[n + 1] \in B
      BY <3>1
    <3> QED BY <3>2 DEF c, B
  <2>3. OpAt(r, n) \in Opcode
    BY <2>2 DEF OpAt
  <2>4. Price(r)[n] = GAS[OpAt(r, n)]
    BY DEF Price
  <2> QED BY <2>3, <2>4 DEF GAS
<1> QED BY <1>1, <1>4, <1>5, <1>6, <1>8, <1>9

Cost == [op : Opcode, gas : Nat]
Costs(r) ==
  {costs \in [0 .. Size(r) - 1 -> Cost] :
     \A n \in 0 .. Size(r) - 1 : costs[n].op \in {"TRAP", OpAt(r, n)}}

\* The first loop looks at every instruction.
LEMMA InstructionCostsAre ==
  ASSUME NEW r, IsCode(r)
  PROVE  /\ InstructionCosts(r, Mask(r)) \in Costs(r)
         /\ \A n \in 0 .. Size(r) - 1 :
              InstructionCosts(r, Mask(r))[n].gas = IF n \in Marked(r) THEN Price(r)[n] ELSE 0
         /\ \A n \in Marked(r) :
              InstructionCosts(r, Mask(r))[n] = [op |-> OpAt(r, n), gas |-> Price(r)[n]]
<1> DEFINE Step(n) == n + 1 + (IF IsInstruction(Mask(r), n) THEN SkipBytes(Mask(r), n) ELSE 0)
           Is(f) == f = [n \in 0 .. Size(r) |-> IF n = Size(r) THEN {} ELSE {n} \cup f[Step(n)]]
           visited == CHOOSE f : Is(f)
           next == [n \in 0 .. Size(r) - 1 |-> Step(n)]
           V == SUBSET Nat
           H == [p \in (0 .. Size(r) - 1) \X V |-> {p[1]} \cup p[2]]
<1>0. Size(r) \in Nat
  BY CodeFacts
<1>1. ASSUME NEW n \in 0 .. Size(r) - 1
      PROVE Step(n) \in 0 .. Size(r) /\ n < Step(n) /\ Step(n) <= Onward(r)[n]
  <2>1. Onward(r)[n] = n + 1 + SkipBytes(Mask(r), n) /\ Onward(r)[n] \in 0 .. Size(r)
        /\ SkipBytes(Mask(r), n) \in Nat
    BY CodeFacts DEF Onward
  <2>2. CASE IsInstruction(Mask(r), n)
    <3>1. Step(n) = Onward(r)[n]
      BY <2>1, <2>2
    <3> HIDE DEF Step
    <3> QED BY <1>0, <2>1, <3>1
  <2>3. CASE ~IsInstruction(Mask(r), n)
    <3>1. Step(n) = n + 1
      BY <2>3
    <3> HIDE DEF Step
    <3> QED BY <1>0, <2>1, <3>1
  <2> QED BY <2>2, <2>3
<1> HIDE DEF Step
<1>2. /\ next \in [0 .. Size(r) - 1 -> 0 .. Size(r)]
      /\ \A n \in 0 .. Size(r) - 1 : n < next[n] /\ next[n] = Step(n)
  BY <1>0, <1>1
<1>3. /\ {} \in V /\ H \in [(0 .. Size(r) - 1) \X V -> V]
      /\ \A n \in 0 .. Size(r) - 1, t \in V : H[<<n, t>>] = {n} \cup t
  <2>1. ASSUME NEW n \in 0 .. Size(r) - 1, NEW t \in V PROVE {n} \cup t \in V
    BY <1>0
  <2>2. ASSUME NEW p \in (0 .. Size(r) - 1) \X V PROVE {p[1]} \cup p[2] \in V
    <3>1. p[1] \in 0 .. Size(r) - 1 /\ p[2] \in V
      OBVIOUS
    <3> HIDE DEF V
    <3> QED BY <2>1, <3>1
  <2>3. {} \in V
    OBVIOUS
  <2> HIDE DEF V
  <2> QED BY <2>1, <2>2, <2>3
<1> HIDE DEF next, H, V
<1>4. PICK f \in [0 .. Size(r) -> V] : IsRecursion(f, Size(r), {}, H, next)
  BY <1>0, <1>2, <1>3, RecursionExists
<1>5. ASSUME NEW n \in 0 .. Size(r) PROVE f[n] = IF n = Size(r) THEN {} ELSE {n} \cup f[Step(n)]
  <2>1. CASE n = Size(r)
    BY <1>4, <2>1 DEF IsRecursion
  <2>2. CASE n # Size(r)
    <3>1. n \in 0 .. Size(r) - 1
      BY <1>0, <2>2
    <3>2. Step(n) \in 0 .. Size(r) /\ next[n] = Step(n) /\ f[Step(n)] \in V
      BY <1>1, <1>2, <3>1
    <3> QED BY <1>3, <1>4, <2>2, <3>1, <3>2 DEF IsRecursion
  <2> QED BY <2>1, <2>2
<1>6. Is(f)
  <2>1. f = [n \in 0 .. Size(r) |-> f[n]]
    OBVIOUS
  <2> QED BY <1>5, <2>1
<1> HIDE DEF Is
<1>7. Is(visited)
  BY <1>6
<1> HIDE DEF visited
<1>8. \A n \in 0 .. Size(r) : visited[n] = IF n = Size(r) THEN {} ELSE {n} \cup visited[Step(n)]
  BY <1>7 DEF Is
<1>9. InstructionCosts(r, Mask(r)) =
        [n \in 0 .. Size(r) - 1 |->
           IF n \notin visited[0] THEN [op |-> "TRAP", gas |-> 0]
           ELSE [op |-> OpAt(r, n),
                 gas |-> IF IsInstruction(Mask(r), n) THEN GAS[OpAt(r, n)] ELSE 0]]
  BY DEF InstructionCosts, visited, Is, Step
<1> DEFINE Sees(n) == \A j \in Marked(r) : n <= j => j \in visited[n]
           bad == {k \in 0 .. Size(r) : ~Sees(Size(r) - k)}
<1>10. bad = {}
  <2> SUFFICES ASSUME bad # {} PROVE FALSE
    OBVIOUS
  <2>1. PICK k \in bad : \A j \in bad : k <= j
    <3>1. bad \subseteq Nat
      OBVIOUS
    <3> HIDE DEF bad
    <3> QED BY <3>1, LeastElement
  <2> DEFINE n == Size(r) - k
  <2>2. k \in 0 .. Size(r) /\ n \in 0 .. Size(r) /\ ~Sees(n)
    <3> HIDE DEF Sees
    <3> QED BY <1>0, <2>1
  <2> HIDE DEF n
  <2>3. PICK j \in Marked(r) : n <= j /\ j \notin visited[n]
    BY <2>2
  <2>4. n \in 0 .. Size(r) - 1 /\ n # Size(r) /\ j \in 0 .. Size(r) - 1
    BY <1>0, <2>2, <2>3, CodeFacts
  <2>5. j # n /\ j \notin visited[Step(n)]
    <3>1. visited[n] = {n} \cup visited[Step(n)]
      BY <1>8, <2>2, <2>4
    <3> QED BY <2>3, <3>1
  <2>6. Step(n) <= j
    <3>1. j \notin n + 1 .. Onward(r)[n] - 1 /\ Onward(r)[n] \in 0 .. Size(r)
      BY <2>3, <2>4, CodeFacts
    <3>2. Step(n) \in 0 .. Size(r) /\ n < Step(n) /\ Step(n) <= Onward(r)[n]
      BY <1>1, <2>4
    <3> QED BY <1>0, <2>3, <2>4, <2>5, <3>1, <3>2
  <2>7. ~Sees(Step(n))
    BY <2>3, <2>5, <2>6
  <2>8. /\ Size(r) - Step(n) \in 0 .. Size(r) /\ Size(r) - (Size(r) - Step(n)) = Step(n)
        /\ Size(r) - Step(n) < k
    <3>1. Step(n) \in 0 .. Size(r) /\ n < Step(n)
      BY <1>1, <2>4
    <3> QED BY <1>0, <2>2, <3>1 DEF n
  <2>9. Size(r) - Step(n) \in bad
    <3> HIDE DEF Sees
    <3> QED BY <2>7, <2>8
  <2> HIDE DEF bad
  <2> QED BY <2>1, <2>2, <2>8, <2>9
<1>11. ASSUME NEW j \in Marked(r) PROVE j \in visited[0]
  <2>1. 0 \in 0 .. Size(r) /\ Size(r) - Size(r) = 0 /\ Size(r) \in 0 .. Size(r)
        /\ j \in 0 .. Size(r) - 1
    BY <1>0, CodeFacts
  <2>2. Sees(0)
    <3> HIDE DEF Sees
    <3> QED BY <1>10, <2>1
  <2> HIDE DEF bad
  <2> QED BY <2>1, <2>2
<1>12. ASSUME NEW n \in 0 .. Size(r) - 1
      PROVE  /\ InstructionCosts(r, Mask(r))[n] \in Cost
             /\ InstructionCosts(r, Mask(r))[n].op \in {"TRAP", OpAt(r, n)}
             /\ InstructionCosts(r, Mask(r))[n].gas = IF n \in Marked(r) THEN Price(r)[n] ELSE 0
             /\ n \in Marked(r) =>
                  InstructionCosts(r, Mask(r))[n] = [op |-> OpAt(r, n), gas |-> Price(r)[n]]
  <2>1. Price(r)[n] = GAS[OpAt(r, n)] /\ Price(r)[n] \in Nat /\ OpAt(r, n) \in Opcode
        /\ "TRAP" \in Opcode /\ (IsInstruction(Mask(r), n) <=> n \in Marked(r))
    BY CodeFacts DEF Price, Opcode
  <2>2. CASE n \in Marked(r)
    <3>1. InstructionCosts(r, Mask(r))[n] = [op |-> OpAt(r, n), gas |-> Price(r)[n]]
      BY <1>9, <1>11, <2>1, <2>2
    <3> QED BY <2>1, <2>2, <3>1 DEF Cost
  <2>3. CASE n \notin Marked(r)
    <3>1. InstructionCosts(r, Mask(r))[n] \in
            {[op |-> "TRAP", gas |-> 0], [op |-> OpAt(r, n), gas |-> 0]}
      BY <1>9, <2>1, <2>3
    <3> QED BY <2>1, <2>3, <3>1 DEF Cost
  <2> QED BY <2>2, <2>3
<1>13. InstructionCosts(r, Mask(r)) \in Costs(r)
  <2>1. InstructionCosts(r, Mask(r)) = [n \in 0 .. Size(r) - 1 |-> InstructionCosts(r, Mask(r))[n]]
    BY <1>9
  <2> QED BY <1>12, <2>1 DEF Costs
<1> HIDE DEF Sees, bad
<1>14. /\ \A n \in 0 .. Size(r) - 1 :
            InstructionCosts(r, Mask(r))[n].gas = IF n \in Marked(r) THEN Price(r)[n] ELSE 0
       /\ \A n \in Marked(r) :
            InstructionCosts(r, Mask(r))[n] = [op |-> OpAt(r, n), gas |-> Price(r)[n]]
  <2>1. Marked(r) \subseteq 0 .. Size(r) - 1
    BY CodeFacts
  <2> QED BY <1>12, <2>1
<1> QED BY <1>13, <1>14

-----------------------------------------------------------------------------
(* What a set of instructions costs.                                       *)

ChargeOf(r, T) == MapThenSumSet(LAMBDA i : GAS[OpAt(r, i)], T)

AreCharges(r, g) ==
  /\ g[{}] = 0
  /\ \A T \in SUBSET (0 .. Size(r) - 1) : ChargeOf(r, T) = g[T]
  /\ \A T \in SUBSET (0 .. Size(r) - 1) : \A e \in T : g[T] = Price(r)[e] + g[T \ {e}]

\* The charge of a set is the sum of its prices, in whatever order.
LEMMA ChargeSums ==
  ASSUME NEW r, IsCode(r)
  PROVE  \E g \in [SUBSET (0 .. Size(r) - 1) -> Nat] : AreCharges(r, g)
<1> DEFINE U == 0 .. Size(r) - 1
           pick == [s \in SUBSET U |-> CHOOSE e \in s : TRUE]
           F == [p \in Nat \X U |-> Price(r)[p[2]] + p[1]]
<1>1. Size(r) \in Nat /\ \A i \in U : Price(r)[i] \in Nat /\ Price(r)[i] = GAS[OpAt(r, i)]
  BY CodeFacts DEF Price
<1>2. IsFiniteSet(U)
  BY <1>1, FS_Interval
<1>3. Price(r) \in [U -> Nat]
  BY <1>1 DEF Price
<1> HIDE DEF U
<1>4. \A s \in SUBSET U : pick[s] = (CHOOSE e \in s : TRUE) /\ (s # {} => pick[s] \in s)
  OBVIOUS
<1>5. F \in [Nat \X U -> Nat] /\ \A a \in Nat, i \in U : F[<<a, i>>] = Price(r)[i] + a
  <2>1. \A a \in Nat, i \in U : Price(r)[i] + a \in Nat
    BY <1>3
  <2> QED BY <2>1
<1> HIDE DEF F, pick
<1>6. PICK g \in [SUBSET U -> Nat] : IsFold(g, U, 0, F, pick)
  <2> DEFINE V == Nat
  <2>1. 0 \in V /\ F \in [V \X U -> V]
    BY <1>5
  <2> HIDE DEF V
  <2>2. \E g \in [SUBSET U -> V] : IsFold(g, U, 0, F, pick)
    BY <1>2, <1>4, <2>1, FoldExists
  <2> QED BY <2>2 DEF V
<1>7. ASSUME NEW s \in SUBSET U
      PROVE  g[s] = IF s = {} THEN 0 ELSE Price(r)[pick[s]] + g[s \ {pick[s]}]
  <2>1. s # {} => pick[s] \in U /\ g[s \ {pick[s]}] \in Nat
    BY <1>4
  <2> QED BY <1>5, <1>6, <2>1 DEF IsFold
<1>8. IsSetSum(g, U, Price(r), pick)
  BY <1>7 DEF IsSetSum
<1>9. ASSUME NEW T \in SUBSET U PROVE ChargeOf(r, T) = g[T]
  <2> DEFINE Is(f) == f = [s \in SUBSET T |->
                             IF s = {} THEN 0
                             ELSE LET e == CHOOSE e \in s : TRUE
                                  IN GAS[OpAt(r, e)] + f[s \ {e}]]
             iter == CHOOSE f : Is(f)
             h == [s \in SUBSET T |-> g[s]]
  <2>1. ChargeOf(r, T) = iter[T]
    BY DEF ChargeOf, MapThenSumSet, MapThenFoldSet
  <2>2. ASSUME NEW s \in SUBSET T
        PROVE  h[s] = IF s = {} THEN 0
                      ELSE GAS[OpAt(r, CHOOSE e \in s : TRUE)] + h[s \ {CHOOSE e \in s : TRUE}]
    <3>1. s \in SUBSET U /\ s \ {pick[s]} \in SUBSET T /\ h[s] = g[s]
      OBVIOUS
    <3>2. s # {} => pick[s] \in U /\ Price(r)[pick[s]] = GAS[OpAt(r, pick[s])]
                    /\ h[s \ {pick[s]}] = g[s \ {pick[s]}]
      <4> HIDE DEF h
      <4>1. s # {} => pick[s] \in U
        BY <1>4, <3>1
      <4> QED BY <1>1, <3>1, <4>1 DEF U, h
    <3>3. pick[s] = CHOOSE e \in s : TRUE
      BY <1>4, <3>1
    <3> HIDE DEF h
    <3>4. h[s] = IF s = {} THEN 0 ELSE GAS[OpAt(r, pick[s])] + h[s \ {pick[s]}]
      BY <1>7, <3>1, <3>2
    <3> QED BY <3>3, <3>4
  <2>3. Is(h)
    <3>1. h = [s \in SUBSET T |-> h[s]]
      OBVIOUS
    <3> HIDE DEF h
    <3> QED BY <2>2, <3>1
  <2> HIDE DEF Is
  <2>4. Is(iter)
    BY <2>3
  <2> HIDE DEF iter
  <2>5. ASSUME NEW s \in SUBSET T
        PROVE  iter[s] = IF s = {} THEN 0 ELSE Price(r)[pick[s]] + iter[s \ {pick[s]}]
    <3>1. s \in SUBSET U
      OBVIOUS
    <3>2. pick[s] = (CHOOSE e \in s : TRUE) /\ (s # {} => pick[s] \in U)
      BY <1>4, <3>1
    <3>3. s # {} => Price(r)[pick[s]] = GAS[OpAt(r, pick[s])]
      BY <1>1, <3>2 DEF U
    <3>4. iter[s] = IF s = {} THEN 0
                    ELSE GAS[OpAt(r, CHOOSE e \in s : TRUE)] + iter[s \ {CHOOSE e \in s : TRUE}]
      BY <2>4 DEF Is
    <3> QED BY <3>2, <3>3, <3>4
  <2>6. IsSetSum(iter, T, Price(r), pick) /\ IsSetSum(g, T, Price(r), pick)
    BY <1>8, <2>5 DEF IsSetSum
  <2>7. IsFiniteSet(T) /\ \A s \in SUBSET T : s # {} => pick[s] \in s
    BY <1>2, <1>4, FS_Subset
  <2>8. \A s \in SUBSET T : iter[s] = g[s]
    BY <2>6, <2>7, SumUnique
  <2> QED BY <2>1, <2>8
<1>10. \A T \in SUBSET U : \A e \in T : g[T] = Price(r)[e] + g[T \ {e}]
  <2>1. \A s \in SUBSET U : s # {} => pick[s] \in s
    BY <1>4
  <2>2. TakesAny(g, U, Price(r))
    BY <1>2, <1>3, <1>8, <2>1, SumTakesAny
  <2> QED BY <2>2 DEF TakesAny
<1>11. g[{}] = 0
  BY <1>8 DEF IsSetSum
<1> QED BY <1>9, <1>10, <1>11 DEF U, AreCharges

\* One instruction more adds its price.
LEMMA ChargeAdds ==
  ASSUME NEW r, IsCode(r)
  PROVE  /\ ChargeOf(r, {}) = 0
         /\ \A T \in SUBSET (0 .. Size(r) - 1) :
              /\ ChargeOf(r, T) \in Nat
              /\ \A e \in (0 .. Size(r) - 1) \ T :
                   ChargeOf(r, T \cup {e}) = ChargeOf(r, T) + Price(r)[e]
<1>0. PICK g \in [SUBSET (0 .. Size(r) - 1) -> Nat] : AreCharges(r, g)
  BY ChargeSums
<1> DEFINE U == 0 .. Size(r) - 1
<1>1. /\ g \in [SUBSET U -> Nat] /\ g[{}] = 0
      /\ \A T \in SUBSET U : ChargeOf(r, T) = g[T]
      /\ \A T \in SUBSET U : \A e \in T : g[T] = Price(r)[e] + g[T \ {e}]
  BY <1>0 DEF AreCharges
<1>2. \A i \in U : Price(r)[i] \in Nat
  BY CodeFacts
<1> HIDE DEF U
<1>3. ASSUME NEW T \in SUBSET U, NEW e \in U \ T
      PROVE  ChargeOf(r, T \cup {e}) = ChargeOf(r, T) + Price(r)[e]
  <2>1. T \cup {e} \in SUBSET U /\ e \in T \cup {e} /\ (T \cup {e}) \ {e} = T /\ e \in U
    OBVIOUS
  <2>2. g[T \cup {e}] = Price(r)[e] + g[T]
    BY <1>1, <2>1
  <2>3. ChargeOf(r, T \cup {e}) = g[T \cup {e}] /\ ChargeOf(r, T) = g[T] /\ g[T] \in Nat
              /\ Price(r)[e] \in Nat
    BY <1>1, <1>2, <2>1
  <2> QED BY <2>2, <2>3
<1>4. ChargeOf(r, {}) = 0 /\ \A T \in SUBSET U : ChargeOf(r, T) \in Nat
  BY <1>1
<1> QED BY <1>3, <1>4 DEF U

-----------------------------------------------------------------------------
(* The order in which the second loop goes over the instructions.          *)

\* Where a walk from n is after i instructions.
After(r, s, n, i) == IF i = 0 THEN n ELSE Onward(r)[s[i]]

IsWalk(r, s, n) ==
  /\ s \in Seq(0 .. Size(r) - 1)
  /\ \A i \in 1 .. Len(s) : s[i] = After(r, s, n, i - 1)
  /\ After(r, s, n, Len(s)) = Size(r)

LEMMA WalkExtends ==
  ASSUME NEW r, IsCode(r), NEW n \in 0 .. Size(r) - 1, NEW t, IsWalk(r, t, Onward(r)[n])
  PROVE  IsWalk(r, <<n>> \o t, n)
<1> DEFINE s == <<n>> \o t
           k == Len(t)
<1>1. t \in Seq(0 .. Size(r) - 1) /\ k \in Nat
  BY DEF IsWalk
<1>2. /\ s \in Seq(0 .. Size(r) - 1) /\ Len(s) = k + 1 /\ s[1] = n
      /\ \A i \in 1 .. k : s[i + 1] = t[i]
  BY <1>1
<1> HIDE DEF s
<1>3. ASSUME NEW i \in 0 .. k PROVE After(r, s, n, i + 1) = After(r, t, Onward(r)[n], i)
  <2>1. CASE i = 0
    BY <1>2, <2>1 DEF After
  <2>2. CASE i # 0
    <3>1. s[i + 1] = t[i] /\ i + 1 # 0
      BY <1>1, <1>2, <2>2
    <3> QED BY <2>2, <3>1 DEF After
  <2> QED BY <2>1, <2>2
<1>4. ASSUME NEW i \in 1 .. k + 1 PROVE s[i] = After(r, s, n, i - 1)
  <2>1. CASE i = 1
    BY <1>2, <2>1 DEF After
  <2>2. CASE i # 1
    <3>1. i - 1 \in 1 .. k /\ i - 2 \in 0 .. k /\ (i - 1) - 1 = i - 2 /\ (i - 2) + 1 = i - 1
          /\ (i - 1) + 1 = i
      BY <1>1, <2>2
    <3>2. s[i] = t[i - 1]
      BY <1>2, <3>1
    <3>3. t[i - 1] = After(r, t, Onward(r)[n], i - 2)
      BY <3>1 DEF IsWalk
    <3>4. After(r, s, n, i - 1) = After(r, t, Onward(r)[n], i - 2)
      BY <1>3, <3>1
    <3> QED BY <3>2, <3>3, <3>4
  <2> QED BY <2>1, <2>2
<1>5. After(r, s, n, k + 1) = Size(r)
  <2>1. After(r, t, Onward(r)[n], k) = Size(r)
    BY DEF IsWalk
  <2>2. k \in 0 .. k
    BY <1>1
  <2> QED BY <1>3, <2>1, <2>2
<1> QED BY <1>2, <1>4, <1>5 DEF IsWalk, s

LEMMA BlockWalkIs == ASSUME NEW r, IsCode(r) PROVE IsWalk(r, BlockWalk(r, Mask(r)), 0)
<1> DEFINE Is(f) == f = [n \in 0 .. Size(r) |->
                           IF n = Size(r) THEN <<>>
                           ELSE <<n>> \o f[n + 1 + SkipBytes(Mask(r), n)]]
           walk == CHOOSE f : Is(f)
           V == Seq(0 .. Size(r) - 1)
           H == [p \in (0 .. Size(r) - 1) \X V |-> <<p[1]>> \o p[2]]
<1>0. /\ Size(r) \in Nat
      /\ \A n \in 0 .. Size(r) - 1 : Onward(r)[n] \in 0 .. Size(r) /\ n < Onward(r)[n]
                                  /\ Onward(r)[n] = n + 1 + SkipBytes(Mask(r), n)
  BY CodeFacts DEF Onward
<1>1. BlockWalk(r, Mask(r)) = walk[0]
  BY DEF BlockWalk
<1>2. Onward(r) \in [0 .. Size(r) - 1 -> 0 .. Size(r)]
  BY <1>0 DEF Onward
<1>3. /\ <<>> \in V /\ H \in [(0 .. Size(r) - 1) \X V -> V]
      /\ \A n \in 0 .. Size(r) - 1, t \in V : H[<<n, t>>] = <<n>> \o t
  <2>1. ASSUME NEW n \in 0 .. Size(r) - 1, NEW t \in V PROVE <<n>> \o t \in V
    OBVIOUS
  <2>2. ASSUME NEW p \in (0 .. Size(r) - 1) \X V PROVE <<p[1]>> \o p[2] \in V
    <3>1. p[1] \in 0 .. Size(r) - 1 /\ p[2] \in V
      OBVIOUS
    <3> HIDE DEF V
    <3> QED BY <2>1, <3>1
  <2>3. <<>> \in V
    OBVIOUS
  <2> HIDE DEF V
  <2> QED BY <2>1, <2>2, <2>3
<1> HIDE DEF H, V
<1>4. PICK f \in [0 .. Size(r) -> V] : IsRecursion(f, Size(r), <<>>, H, Onward(r))
  <2>1. \A n \in 0 .. Size(r) - 1 : n < Onward(r)[n]
    BY <1>0
  <2> QED BY <1>0, <1>2, <1>3, <2>1, RecursionExists
<1>5. ASSUME NEW n \in 0 .. Size(r)
      PROVE  f[n] = IF n = Size(r) THEN <<>> ELSE <<n>> \o f[n + 1 + SkipBytes(Mask(r), n)]
  <2>1. CASE n = Size(r)
    BY <1>4, <2>1 DEF IsRecursion
  <2>2. CASE n # Size(r)
    <3>1. n \in 0 .. Size(r) - 1
      BY <1>0, <2>2
    <3>2. Onward(r)[n] \in 0 .. Size(r) /\ f[Onward(r)[n]] \in V
      BY <1>2, <3>1
    <3>3. f[n] = <<n>> \o f[Onward(r)[n]]
      BY <1>3, <1>4, <2>2, <3>1, <3>2 DEF IsRecursion
    <3> QED BY <1>0, <2>2, <3>1, <3>3
  <2> QED BY <2>1, <2>2
<1>6. Is(f)
  <2>1. f = [n \in 0 .. Size(r) |-> f[n]]
    OBVIOUS
  <2> QED BY <1>5, <2>1
<1> HIDE DEF Is
<1>7. Is(walk)
  BY <1>6
<1> HIDE DEF walk
<1>8. /\ walk[Size(r)] = <<>>
      /\ \A n \in 0 .. Size(r) - 1 : walk[n] = <<n>> \o walk[Onward(r)[n]]
  <2>1. \A n \in 0 .. Size(r) :
          walk[n] = IF n = Size(r) THEN <<>> ELSE <<n>> \o walk[n + 1 + SkipBytes(Mask(r), n)]
    BY <1>7 DEF Is
  <2>2. Size(r) \in 0 .. Size(r) /\ \A n \in 0 .. Size(r) - 1 : n \in 0 .. Size(r) /\ n # Size(r)
    BY <1>0
  <2> QED BY <1>0, <2>1, <2>2
<1> DEFINE bad == {k \in 0 .. Size(r) : ~IsWalk(r, walk[Size(r) - k], Size(r) - k)}
<1>9. bad = {}
  <2> SUFFICES ASSUME bad # {} PROVE FALSE
    OBVIOUS
  <2>1. PICK k \in bad : \A j \in bad : k <= j
    <3>1. bad \subseteq Nat
      OBVIOUS
    <3> HIDE DEF bad
    <3> QED BY <3>1, LeastElement
  <2> DEFINE n == Size(r) - k
  <2>2. k \in 0 .. Size(r) /\ n \in 0 .. Size(r) /\ ~IsWalk(r, walk[n], n)
    BY <1>0, <2>1
  <2>3. CASE k = 0
    <3>1. n = Size(r)
      BY <1>0, <2>3
    <3> HIDE DEF n
    <3>2. walk[n] = <<>>
      BY <1>8, <3>1
    <3>3. IsWalk(r, <<>>, Size(r))
      BY DEF IsWalk, After
    <3> QED BY <2>2, <3>1, <3>2, <3>3
  <2>4. CASE k # 0
    <3>1. n \in 0 .. Size(r) - 1
      BY <1>0, <2>2, <2>4
    <3>2. /\ Size(r) - Onward(r)[n] \in 0 .. Size(r) /\ Size(r) - Onward(r)[n] < k
          /\ Size(r) - (Size(r) - Onward(r)[n]) = Onward(r)[n]
      BY <1>0, <2>2, <3>1
    <3>3. IsWalk(r, walk[Onward(r)[n]], Onward(r)[n])
      <4>1. Size(r) - Onward(r)[n] \notin bad
        <5> HIDE DEF bad
        <5>1. k \in 0 .. Size(r)
          BY <2>2
        <5> QED BY <1>0, <2>1, <3>1, <3>2, <5>1
      <4> QED BY <3>2, <4>1
    <3> HIDE DEF n
    <3>4. IsWalk(r, <<n>> \o walk[Onward(r)[n]], n)
      BY <3>1, <3>3, WalkExtends
    <3> QED BY <1>8, <2>2, <3>1, <3>4
  <2> QED BY <2>3, <2>4
<1>10. IsWalk(r, walk[0], 0)
  <2>1. Size(r) \in 0 .. Size(r) /\ Size(r) - Size(r) = 0
    BY <1>0
  <2> QED BY <1>9, <2>1
<1> QED BY <1>1, <1>10

-----------------------------------------------------------------------------
(* The table of costs of blocks.                                           *)

BlockEnd(r, n) == Min({s \in StartsOf(r) : s > n} \cup {Size(r)})
BlockCharge(r, n) == ChargeOf(r, {i \in Marked(r) : n <= i /\ i < BlockEnd(r, n)})

LEMMA StartFacts ==
  ASSUME NEW r, IsCode(r)
  PROVE  /\ StartsOf(r) \subseteq 0 .. Size(r) - 1
         /\ Size(r) # 0 => 0 \in StartsOf(r)
         /\ \A s \in StartsOf(r) \ {0} : \E j \in Marked(r) : j < s /\ s = Onward(r)[j]
<1>0. Size(r) \in Nat /\ \A j \in 0 .. Size(r) - 1 : IsInstruction(Mask(r), j) <=> j \in Marked(r)
  BY CodeFacts
<1>1. StartsOf(r) = {n \in 0 .. Size(r) - 1 :
                    \/ n = 0
                    \/ \E j \in 0 .. n - 1 : /\ IsInstruction(Mask(r), j)
                          /\ OpAt(r, j) \in Terminating
                                             /\ n = j + 1 + SkipBytes(Mask(r), j)}
  BY <1>0 DEF StartsOf, Starts
<1>2. ASSUME NEW s \in StartsOf(r) \ {0} PROVE \E j \in Marked(r) : j < s /\ s = Onward(r)[j]
  <2>1. s \in 0 .. Size(r) - 1
    BY <1>1
  <2>2. PICK j \in 0 .. s - 1 : IsInstruction(Mask(r), j) /\ s = j + 1 + SkipBytes(Mask(r), j)
    BY <1>1
  <2>3. j \in 0 .. Size(r) - 1 /\ j < s
    BY <1>0, <2>1
  <2> QED BY <1>0, <2>2, <2>3 DEF Onward
<1> QED BY <1>0, <1>1, <1>2

\* A block ends at the first start after its own, or with the code.
LEMMA BlockEndIs ==
  ASSUME NEW r, IsCode(r), NEW n \in 0 .. Size(r) - 1,
         NEW q \in 0 .. Size(r), n < q, q \in StartsOf(r) \cup {Size(r)},
         \A s \in StartsOf(r) : ~(n < s /\ s < q)
  PROVE  BlockEnd(r, n) = q
<1> DEFINE T == {s \in StartsOf(r) : s > n} \cup {Size(r)}
           x0 == CHOOSE z \in T : \A w \in T : z =< w
<1>0. Size(r) \in Nat /\ StartsOf(r) \subseteq 0 .. Size(r) - 1
  BY CodeFacts, StartFacts
<1>1. q \in T /\ T \subseteq Nat
  <2>1. q \in T
    <3>1. CASE q = Size(r)
      BY <3>1
    <3>2. CASE q # Size(r)
      <4>1. q \in StartsOf(r) /\ q > n
        BY <1>0, <3>2
      <4> QED BY <4>1
    <3> QED BY <3>1, <3>2
  <2>2. StartsOf(r) \subseteq Nat
    BY <1>0
  <2> QED BY <1>0, <2>1, <2>2
<1>2. ASSUME NEW s \in T PROVE q <= s
  <2>1. CASE s = Size(r)
    BY <1>0, <2>1
  <2>2. CASE s # Size(r)
    <3>1. s \in StartsOf(r) /\ n < s /\ s \in Nat
      BY <1>0, <2>2
    <3> QED BY <1>0, <3>1
  <2> QED BY <2>1, <2>2
<1> HIDE DEF T
<1>3. x0 \in T /\ \A w \in T : x0 =< w
  BY <1>1, <1>2
<1>4. x0 = q
  <2> HIDE DEF x0
  <2>1. x0 \in Nat /\ q \in Nat /\ x0 <= q /\ q <= x0
    BY <1>1, <1>2, <1>3
  <2> QED BY <2>1
<1> QED BY <1>0, <1>4 DEF BlockEnd, Min, T

Assigned(r, costs, n, gas) == [costs EXCEPT ![n] = [op |-> OpAt(r, n), gas |-> gas]]

\* A step of the second loop of GasCosts.
Visited(r, acc, n) ==
  IF n \in StartsOf(r)
  THEN [costs |-> Assigned(r, Assigned(r, acc.costs, n, 0), acc.start, acc.sum % U24),
        start |-> n, sum |-> acc.costs[n].gas]
  ELSE [acc EXCEPT !.costs = Assigned(r, acc.costs, n, 0), !.sum = @ + acc.costs[n].gas]

Accs(r) == [costs : Costs(r), start : 0 .. Size(r) - 1, sum : Nat]

LEMMA AssignedIs ==
  ASSUME NEW r, IsCode(r), NEW costs \in Costs(r), NEW n \in 0 .. Size(r) - 1, NEW sum \in Nat
  PROVE  /\ Assigned(r, costs, n, sum) \in Costs(r)
         /\ Assigned(r, costs, n, sum)[n] = [op |-> OpAt(r, n), gas |-> sum]
         /\ \A j \in 0 .. Size(r) - 1 : j # n => Assigned(r, costs, n, sum)[j] = costs[j]
<1>1. [op |-> OpAt(r, n), gas |-> sum] \in Cost
  BY CodeFacts DEF Cost
<1> DEFINE c == [op |-> OpAt(r, n), gas |-> sum]
<1>2. c \in Cost /\ c.op = OpAt(r, n)
  BY <1>1
<1> HIDE DEF c
<1>3. Assigned(r, costs, n, sum) = [costs EXCEPT ![n] = c]
  BY DEF Assigned, c
<1> DEFINE new == Assigned(r, costs, n, sum)
<1>4. /\ new \in [0 .. Size(r) - 1 -> Cost] /\ new[n] = c
      /\ \A j \in 0 .. Size(r) - 1 : j # n => new[j] = costs[j]
  BY <1>2, <1>3 DEF Costs
<1> HIDE DEF new
<1>5. ASSUME NEW j \in 0 .. Size(r) - 1 PROVE new[j].op \in {"TRAP", OpAt(r, j)}
  <2>1. CASE j = n
    BY <1>2, <1>4, <2>1
  <2>2. CASE j # n
    BY <1>4, <2>2 DEF Costs
  <2> QED BY <2>1, <2>2
<1>6. new \in Costs(r)
  BY <1>4, <1>5 DEF Costs
<1> QED BY <1>4, <1>6 DEF c, new

LEMMA VisitedTyped ==
  ASSUME NEW r, IsCode(r), NEW acc \in Accs(r), NEW n \in 0 .. Size(r) - 1
  PROVE  Visited(r, acc, n) \in Accs(r)
<1>1. acc.costs \in Costs(r) /\ acc.start \in 0 .. Size(r) - 1 /\ acc.sum \in Nat
  BY DEF Accs
<1>2. acc.costs[n].gas \in Nat
  BY <1>1 DEF Costs, Cost
<1>3. Assigned(r, acc.costs, n, 0) \in Costs(r)
  BY <1>1, AssignedIs
<1>4. Assigned(r, Assigned(r, acc.costs, n, 0), acc.start, acc.sum % U24) \in Costs(r)
  <2>1. acc.sum % U24 \in Nat
    BY <1>1, WidthsAssumption
  <2> QED BY <1>1, <1>3, <2>1, AssignedIs
<1>5. acc.sum + acc.costs[n].gas \in Nat
  BY <1>1, <1>2
<1> QED BY <1>1, <1>2, <1>3, <1>4, <1>5 DEF Visited, Accs

\* The instructions from one position to before another.
Owed(r, from, to) == {j \in Marked(r) : from <= j /\ j < to}

\* What the second loop has done when it has come to q.
Paid(r, acc, q) ==
  /\ acc.start \in StartsOf(r) /\ (acc.start < q \/ (q = 0 /\ acc.start = 0))
  /\ \A s \in StartsOf(r) : ~(acc.start < s /\ s < q)
  /\ \A j \in Marked(r) : j < q => Onward(r)[j] <= q
  /\ acc.sum = ChargeOf(r, Owed(r, acc.start, q))
  /\ \A n \in 0 .. Size(r) - 1 : q <= n => acc.costs[n] = InstructionCosts(r, Mask(r))[n]
  /\ \A n \in 0 .. Size(r) - 1 : n < q =>
       acc.costs[n].gas = IF n \in StartsOf(r) /\ n < acc.start THEN BlockCharge(r, n) % U24 ELSE 0
  /\ \A n \in Marked(r) : acc.costs[n].op = OpAt(r, n)

\* Between two instructions there is neither a start nor an instruction.
LEMMA Between ==
  ASSUME NEW r, IsCode(r),
         NEW n \in 0 .. Size(r) - 1, \A j \in Marked(r) : j < n => Onward(r)[j] <= n
  PROVE  /\ \A s \in StartsOf(r) : ~(n < s /\ s < Onward(r)[n])
         /\ \A j \in Marked(r) : ~(n < j /\ j < Onward(r)[n])
         /\ \A j \in Marked(r) : j < Onward(r)[n] => Onward(r)[j] <= Onward(r)[n]
<1>1. /\ Size(r) \in Nat /\ Marked(r) \subseteq 0 .. Size(r) - 1
      /\ StartsOf(r) \subseteq 0 .. Size(r) - 1
      /\ \A j \in 0 .. Size(r) - 1 : Onward(r)[j] \in 0 .. Size(r) /\ j < Onward(r)[j]
      /\ \A j \in n + 1 .. Onward(r)[n] - 1 : j \notin Marked(r)
  BY CodeFacts, StartFacts
<1>2. ASSUME NEW j \in Marked(r), n < j, j < Onward(r)[n] PROVE FALSE
  <2>1. j \in n + 1 .. Onward(r)[n] - 1
    BY <1>1, <1>2
  <2> QED BY <1>1, <2>1
<1>3. ASSUME NEW j \in Marked(r), j < Onward(r)[n] PROVE Onward(r)[j] <= Onward(r)[n]
  <2>1. j \in 0 .. Size(r) - 1 /\ Onward(r)[j] \in 0 .. Size(r) /\ Onward(r)[n] \in 0 .. Size(r)
        /\ n < Onward(r)[n]
    BY <1>1
  <2>2. j <= n
    BY <1>2, <1>3, <2>1
  <2>3. CASE j = n
    BY <2>1, <2>3
  <2>4. CASE j # n
    <3>1. Onward(r)[j] <= n
      BY <2>1, <2>2, <2>4
    <3> QED BY <2>1, <3>1
  <2> QED BY <2>3, <2>4
<1>4. ASSUME NEW s \in StartsOf(r), n < s, s < Onward(r)[n] PROVE FALSE
  <2>1. s \in 0 .. Size(r) - 1 /\ s # 0 /\ Onward(r)[n] \in 0 .. Size(r)
    BY <1>1, <1>4
  <2>2. PICK j \in Marked(r) : j < s /\ s = Onward(r)[j]
    BY <2>1, StartFacts
  <2>3. j \in 0 .. Size(r) - 1 /\ j < Onward(r)[n]
    BY <1>1, <1>4, <2>1, <2>2
  <2>4. j <= n /\ j # n
    <3>1. j # n
      BY <1>4, <2>1, <2>2
    <3> QED BY <1>2, <2>3, <3>1
  <2>5. Onward(r)[j] <= n
    BY <2>3, <2>4
  <2> QED BY <1>4, <2>1, <2>2, <2>5
<1> QED BY <1>2, <1>3, <1>4

\* What is owed grows by the instruction that is visited, if it is one.
LEMMA OwedGrows ==
  ASSUME NEW r, IsCode(r), NEW from \in 0 .. Size(r) - 1, NEW n \in 0 .. Size(r) - 1, from <= n,
         \A j \in Marked(r) : ~(n < j /\ j < Onward(r)[n])
  PROVE  /\ ChargeOf(r, Owed(r, n, n)) = 0
         /\ ChargeOf(r, Owed(r, from, n)) \in Nat /\ InstructionCosts(r, Mask(r))[n].gas \in Nat
         /\ ChargeOf(r, Owed(r, from, Onward(r)[n])) =
              ChargeOf(r, Owed(r, from, n)) + InstructionCosts(r, Mask(r))[n].gas
<1> DEFINE T == Owed(r, from, n)
           q == Onward(r)[n]
<1>1. /\ Size(r) \in Nat /\ Marked(r) \subseteq 0 .. Size(r) - 1 /\ q \in 0 .. Size(r) /\ n < q
      /\ Price(r)[n] \in Nat
      /\ InstructionCosts(r, Mask(r))[n].gas = IF n \in Marked(r) THEN Price(r)[n] ELSE 0
  BY CodeFacts, InstructionCostsAre
<1>2. T \in SUBSET (0 .. Size(r) - 1) /\ n \in (0 .. Size(r) - 1) \ T
  BY <1>1 DEF Owed
<1>3. Owed(r, n, n) = {}
  <2>1. ASSUME NEW j \in Owed(r, n, n) PROVE FALSE
    <3>1. j \in 0 .. Size(r) - 1 /\ n <= j /\ j < n
      BY <1>1 DEF Owed
    <3> QED BY <3>1
  <2> QED BY <2>1
<1> HIDE DEF q
<1>4. ASSUME NEW j \in Marked(r) PROVE j \in Owed(r, from, q) <=> j \in T \/ j = n
  <2>1. j \in 0 .. Size(r) - 1 /\ (j < q <=> (j < n \/ j = n))
    <3>1. j \in 0 .. Size(r) - 1 /\ ~(n < j /\ j < q)
      BY <1>1 DEF q
    <3> QED BY <1>1, <3>1
  <2> QED BY <2>1 DEF Owed
<1>5. Owed(r, from, q) \subseteq Marked(r) /\ T \subseteq Marked(r)
  BY DEF Owed
<1>6. /\ ChargeOf(r, T) \in Nat /\ ChargeOf(r, T \cup {n}) = ChargeOf(r, T) + Price(r)[n]
            /\ ChargeOf(r, {}) = 0
  <2> HIDE DEF T
  <2> QED BY <1>2, ChargeAdds
<1> HIDE DEF T
<1>7. CASE n \in Marked(r)
  <2>1. Owed(r, from, q) = T \cup {n}
    BY <1>4, <1>5, <1>7
  <2> QED BY <1>1, <1>3, <1>6, <1>7, <2>1 DEF T, q
<1>8. CASE n \notin Marked(r)
  <2>1. Owed(r, from, q) = T
    BY <1>4, <1>5, <1>8
  <2> QED BY <1>1, <1>3, <1>6, <1>8, <2>1 DEF T, q
<1> QED BY <1>7, <1>8

\* A step of the second loop that meets a start.
LEMMA VisitedStart ==
  ASSUME NEW r, IsCode(r), NEW acc \in Accs(r),
         NEW n \in 0 .. Size(r) - 1, Paid(r, acc, n), n \in StartsOf(r)
  PROVE  Paid(r, Visited(r, acc, n), Onward(r)[n])
<1> DEFINE q == Onward(r)[n]
           ics == InstructionCosts(r, Mask(r))
           res == Assigned(r, acc.costs, n, 0)
           new == Visited(r, acc, n)
<1>0. /\ Size(r) \in Nat /\ Marked(r) \subseteq 0 .. Size(r) - 1
      /\ StartsOf(r) \subseteq 0 .. Size(r) - 1
      /\ q \in 0 .. Size(r) /\ n < q
      /\ \A s \in StartsOf(r) : ~(n < s /\ s < q)
      /\ \A j \in Marked(r) : ~(n < j /\ j < q)
      /\ \A j \in Marked(r) : j < q => Onward(r)[j] <= q
  <2>1. \A j \in Marked(r) : j < n => Onward(r)[j] <= n
    BY DEF Paid
  <2> QED BY <2>1, CodeFacts, StartFacts, Between
<1>1. /\ acc.costs \in Costs(r) /\ acc.start \in 0 .. Size(r) - 1 /\ acc.sum \in Nat
      /\ acc.start < n \/ (n = 0 /\ acc.start = 0)
      /\ acc.sum = ChargeOf(r, Owed(r, acc.start, n))
  BY DEF Accs, Paid
<1>2. /\ ics \in Costs(r)
      /\ \A k \in 0 .. Size(r) - 1 : ics[k].gas = IF k \in Marked(r) THEN Price(r)[k] ELSE 0
      /\ \A k \in 0 .. Size(r) - 1 : n <= k => acc.costs[k] = ics[k]
  BY InstructionCostsAre DEF Paid
<1> HIDE DEF q, ics, new, res
<1>3. /\ res \in Costs(r) /\ res[n] = [op |-> OpAt(r, n), gas |-> 0]
      /\ \A k \in 0 .. Size(r) - 1 : k # n => res[k] = acc.costs[k]
  <2>1. 0 \in Nat
    OBVIOUS
  <2> QED BY <1>1, <2>1, AssignedIs DEF res
<1>4. /\ new.start = n /\ new.sum = acc.costs[n].gas
      /\ new.costs = Assigned(r, res, acc.start, acc.sum % U24)
  BY DEF Visited, new, res
<1>5. /\ new.costs[acc.start] = [op |-> OpAt(r, acc.start), gas |-> acc.sum % U24]
      /\ \A k \in 0 .. Size(r) - 1 : k # acc.start => new.costs[k] = res[k]
  <2> DEFINE start == acc.start  sum == acc.sum % U24
  <2>1. start \in 0 .. Size(r) - 1 /\ sum \in Nat /\ new.costs = Assigned(r, res, start, sum)
    BY <1>1, <1>4, WidthsAssumption
  <2> HIDE DEF start, sum
  <2>2. /\ new.costs[start] = [op |-> OpAt(r, start), gas |-> sum]
        /\ \A k \in 0 .. Size(r) - 1 : k # start => new.costs[k] = res[k]
    BY <1>3, <2>1, AssignedIs
  <2> QED BY <2>2 DEF start, sum
<1>6. n = 0 => acc.sum = 0 /\ acc.sum % U24 = 0
  <2>1. ChargeOf(r, Owed(r, n, n)) = 0
    <3>1. n <= n /\ \A j \in Marked(r) : ~(n < j /\ j < Onward(r)[n])
      BY <1>0 DEF q
    <3> QED BY <3>1, OwedGrows
  <2>2. n = 0 => acc.start = n
    BY <1>1
  <2>3. 0 % U24 = 0
    BY WidthsAssumption
  <2> QED BY <1>1, <2>1, <2>2, <2>3
<1>7. new.sum = ChargeOf(r, Owed(r, new.start, q))
  <2>1. acc.costs[n] = ics[n]
    BY <1>2
  <2>2. ChargeOf(r, Owed(r, n, n)) = 0 /\ ics[n].gas \in Nat
        /\ ChargeOf(r, Owed(r, n, q)) = ChargeOf(r, Owed(r, n, n)) + ics[n].gas
    <3>1. n <= n /\ \A j \in Marked(r) : ~(n < j /\ j < Onward(r)[n])
      BY <1>0 DEF q
    <3> QED BY <3>1, OwedGrows DEF q, ics
  <2> QED BY <1>4, <2>1, <2>2
<1>8. ASSUME NEW k \in 0 .. Size(r) - 1, q <= k PROVE new.costs[k] = ics[k]
  <2>1. k # n /\ k # acc.start /\ n <= k
    BY <1>0, <1>1, <1>8
  <2> QED BY <1>2, <1>3, <1>5, <2>1
<1>9. ASSUME NEW k \in 0 .. Size(r) - 1, k < q
      PROVE  new.costs[k].gas = IF k \in StartsOf(r) /\ k < new.start THEN BlockCharge(r, k) % U24 ELSE 0
  <2>1. CASE k = n
    <3>1. new.costs[n].gas = 0
      BY <1>1, <1>3, <1>5, <1>6
    <3> QED BY <1>4, <2>1, <3>1
  <2>2. CASE n < k
    <3>1. k # n /\ k # acc.start /\ n <= k /\ k \notin Marked(r) /\ ~(k < n)
      BY <1>0, <1>1, <1>9, <2>2
    <3>2. new.costs[k] = ics[k] /\ ics[k].gas = 0
      BY <1>2, <1>3, <1>5, <3>1
    <3> QED BY <1>4, <3>1, <3>2
  <2>3. CASE k < n /\ k = acc.start
    <3>1. /\ n \in 0 .. Size(r) /\ n \in StartsOf(r) \cup {Size(r)}
          /\ \A s \in StartsOf(r) : ~(k < s /\ s < n)
          /\ k \in StartsOf(r)
      BY <1>0, <2>3 DEF Paid
    <3>2. BlockEnd(r, k) = n
      BY <2>3, <3>1, BlockEndIs
    <3>3. BlockCharge(r, k) = acc.sum
      BY <1>1, <2>3, <3>2, CodeFacts DEF BlockCharge, Owed
    <3> QED BY <1>4, <1>5, <2>3, <3>1, <3>3
  <2>4. CASE k < n /\ k # acc.start
    <3>1. k # n /\ new.costs[k] = acc.costs[k]
      BY <1>0, <1>3, <1>5, <2>4
    <3>2. acc.costs[k].gas = IF k \in StartsOf(r) /\ k < acc.start THEN BlockCharge(r, k) % U24 ELSE 0
      BY <2>4 DEF Paid
    <3>3. k \in StartsOf(r) => k < acc.start
      <4>1. SUFFICES ASSUME k \in StartsOf(r) PROVE k < acc.start
        OBVIOUS
      <4>2. ~(acc.start < k /\ k < n)
        BY <4>1 DEF Paid
      <4> QED BY <1>1, <2>4, <4>2
    <3> QED BY <1>4, <2>4, <3>1, <3>2, <3>3
  <2> QED BY <1>0, <2>1, <2>2, <2>3, <2>4
<1>10. ASSUME NEW k \in Marked(r) PROVE new.costs[k].op = OpAt(r, k)
  <2>1. k \in 0 .. Size(r) - 1 /\ acc.costs[k].op = OpAt(r, k)
    BY <1>0 DEF Paid
  <2>2. CASE k = acc.start
    BY <1>5, <2>2
  <2>3. CASE k # acc.start /\ k = n
    <3>1. new.costs[k] = [op |-> OpAt(r, n), gas |-> 0]
      BY <1>3, <1>5, <2>1, <2>3
    <3> QED BY <2>3, <3>1
  <2>4. CASE k # acc.start /\ k # n
    BY <1>3, <1>5, <2>1, <2>4
  <2> QED BY <2>2, <2>3, <2>4
<1>11. Paid(r, new, q)
  <2>1. new.start \in StartsOf(r) /\ new.start < q
    BY <1>0, <1>4
  <2>2. \A s \in StartsOf(r) : ~(new.start < s /\ s < q)
    BY <1>0, <1>4
  <2> QED BY <1>0, <1>7, <1>8, <1>9, <1>10, <2>1, <2>2 DEF Paid, ics
<1> QED BY <1>11 DEF new, q

\* A step of the second loop inside of a block.
LEMMA VisitedInside ==
  ASSUME NEW r, IsCode(r), NEW acc \in Accs(r),
         NEW n \in 0 .. Size(r) - 1, Paid(r, acc, n), n \notin StartsOf(r)
  PROVE  Paid(r, Visited(r, acc, n), Onward(r)[n])
<1> DEFINE q == Onward(r)[n]
           ics == InstructionCosts(r, Mask(r))
           new == Visited(r, acc, n)
<1>0. /\ Size(r) \in Nat /\ Marked(r) \subseteq 0 .. Size(r) - 1
      /\ StartsOf(r) \subseteq 0 .. Size(r) - 1
      /\ q \in 0 .. Size(r) /\ n < q /\ n # 0
      /\ \A s \in StartsOf(r) : ~(n < s /\ s < q)
      /\ \A j \in Marked(r) : ~(n < j /\ j < q)
      /\ \A j \in Marked(r) : j < q => Onward(r)[j] <= q
  <2>1. \A j \in Marked(r) : j < n => Onward(r)[j] <= n
    BY DEF Paid
  <2>2. n # 0
    BY CodeFacts, StartFacts
  <2> QED BY <2>1, <2>2, CodeFacts, StartFacts, Between
<1>1. /\ acc.costs \in Costs(r) /\ acc.start \in 0 .. Size(r) - 1 /\ acc.sum \in Nat
      /\ acc.start < n
      /\ acc.sum = ChargeOf(r, Owed(r, acc.start, n))
  BY <1>0 DEF Accs, Paid
<1>2. /\ ics \in Costs(r)
      /\ \A k \in 0 .. Size(r) - 1 : ics[k].gas = IF k \in Marked(r) THEN Price(r)[k] ELSE 0
      /\ \A k \in 0 .. Size(r) - 1 : n <= k => acc.costs[k] = ics[k]
  BY InstructionCostsAre DEF Paid
<1> HIDE DEF q, ics, new
<1>3. /\ new.start = acc.start /\ new.sum = acc.sum + acc.costs[n].gas
      /\ new.costs[n] = [op |-> OpAt(r, n), gas |-> 0]
      /\ \A k \in 0 .. Size(r) - 1 : k # n => new.costs[k] = acc.costs[k]
  <2>1. 0 \in Nat
    OBVIOUS
  <2> QED BY <1>1, <2>1, AssignedIs DEF Visited, new
<1>4. new.sum = ChargeOf(r, Owed(r, new.start, q))
  <2>1. acc.costs[n] = ics[n]
    BY <1>2
  <2> DEFINE start == acc.start
  <2>2. start \in 0 .. Size(r) - 1 /\ start <= n
    BY <1>1
  <2> HIDE DEF start
  <2>3. ChargeOf(r, Owed(r, start, q)) = ChargeOf(r, Owed(r, start, n)) + ics[n].gas
    BY <1>0, <2>2, OwedGrows DEF q, ics
  <2> QED BY <1>1, <1>3, <2>1, <2>3 DEF start
<1>5. ASSUME NEW k \in 0 .. Size(r) - 1, q <= k PROVE new.costs[k] = ics[k]
  <2>1. k # n /\ n <= k
    BY <1>0, <1>5
  <2> QED BY <1>2, <1>3, <2>1
<1>6. ASSUME NEW k \in 0 .. Size(r) - 1, k < q
      PROVE  new.costs[k].gas = IF k \in StartsOf(r) /\ k < new.start THEN BlockCharge(r, k) % U24 ELSE 0
  <2>1. CASE k = n
    BY <1>3, <2>1
  <2>2. CASE n < k
    <3>1. k # n /\ n <= k /\ k \notin Marked(r) /\ k \notin StartsOf(r)
      BY <1>0, <1>6, <2>2
    <3> QED BY <1>2, <1>3, <3>1
  <2>3. CASE k < n
    <3>1. acc.costs[k].gas = IF k \in StartsOf(r) /\ k < acc.start THEN BlockCharge(r, k) % U24 ELSE 0
      BY <2>3 DEF Paid
    <3>2. k # n
      BY <2>3
    <3> QED BY <1>3, <3>1, <3>2
  <2> QED BY <1>0, <2>1, <2>2, <2>3
<1>7. ASSUME NEW k \in Marked(r) PROVE new.costs[k].op = OpAt(r, k)
  <2>1. k \in 0 .. Size(r) - 1 /\ acc.costs[k].op = OpAt(r, k)
    BY <1>0 DEF Paid
  <2> QED BY <1>3, <2>1
<1>8. Paid(r, new, q)
  <2>1. new.start \in StartsOf(r) /\ new.start < q
    BY <1>0, <1>1, <1>3 DEF Paid
  <2>2. \A s \in StartsOf(r) : ~(new.start < s /\ s < q)
    <3>1. ASSUME NEW s \in StartsOf(r), acc.start < s, s < q PROVE FALSE
      <4>1. s # n /\ s \in 0 .. Size(r) - 1 /\ ~(acc.start < s /\ s < n) /\ ~(n < s /\ s < q)
        BY <1>0 DEF Paid
      <4> QED BY <1>0, <3>1, <4>1
    <3> QED BY <1>3, <3>1
  <2> QED BY <1>0, <1>4, <1>5, <1>6, <1>7, <2>1, <2>2 DEF Paid, ics
<1> QED BY <1>8 DEF new, q

\* The second loop, as the fold it is.
LEMMA BlockCostsFold ==
  ASSUME NEW r, IsCode(r), r.code # <<>>
  PROVE  LET walk == BlockWalk(r, Mask(r))
         IN \E v : /\ v[0] = [costs |-> InstructionCosts(r, Mask(r)), start |-> 0, sum |-> 0]
                   /\ \A i \in 0 .. Len(walk) : v[i] \in Accs(r)
                   /\ \A i \in 1 .. Len(walk) : v[i] = Visited(r, v[i - 1], walk[i])
                   /\ BlockCosts(r, Mask(r), StartsOf(r)) =
                        LET last == v[Len(walk)]
                        IN Assigned(r, last.costs, last.start, last.sum % U24)
<1> DEFINE walk == BlockWalk(r, Mask(r))
           L == Len(walk)
           base == [costs |-> InstructionCosts(r, Mask(r)), start |-> 0, sum |-> 0]
           Is(g) == g = [s \in SUBSET DOMAIN walk |->
                           IF s = {} THEN base ELSE Visited(r, g[s \ {Max(s)}], walk[Max(s)])]
           fold == CHOOSE g : Is(g)
           all == fold[DOMAIN walk]
           F == [p \in Accs(r) \X (1 .. L) |-> Visited(r, p[1], walk[p[2]])]
<1>1. BlockCosts(r, Mask(r), StartsOf(r)) = Assigned(r, all.costs, all.start, all.sum % U24)
  BY DEF BlockCosts, FoldLeft, MapThenFoldSet, Visited, Assigned
<1>2. /\ L \in Nat /\ DOMAIN walk = 1 .. L /\ Size(r) \in Nat
      /\ \A i \in 1 .. L : walk[i] \in 0 .. Size(r) - 1
  <2>1. walk \in Seq(0 .. Size(r) - 1)
    BY BlockWalkIs DEF IsWalk
  <2> HIDE DEF walk
  <2> QED BY <2>1, CodeFacts
<1>3. base \in Accs(r)
  <2>1. 0 \in 0 .. Size(r) - 1
    <3>1. r.code \in Seq([op : Opcode, arg : Int]) /\ r.code # <<>>
      BY DEF IsCode
    <3> DEFINE c == r.code
    <3>2. c \in Seq([op : Opcode, arg : Int]) /\ c # <<>>
      BY <3>1
    <3> HIDE DEF c
    <3>3. Len(c) # 0
      BY <3>2
    <3> QED BY <1>2, <3>3 DEF Size, c
  <2> QED BY <2>1, InstructionCostsAre DEF Accs
<1> HIDE DEF walk, base, L
<1>4. /\ F \in [Accs(r) \X (1 .. L) -> Accs(r)]
      /\ \A a \in Accs(r), i \in 1 .. L : F[<<a, i>>] = Visited(r, a, walk[i])
  BY <1>2, VisitedTyped
<1> HIDE DEF F
<1>5. PICK g \in [SUBSET (1 .. L) -> Accs(r)] : IsAlong(g, L, base, F)
  <2> HIDE DEF Is
  <2> QED BY <1>2, <1>3, <1>4, FoldAlong
<1>6. ASSUME NEW s \in SUBSET (1 .. L)
      PROVE  g[s] = IF s = {} THEN base ELSE Visited(r, g[s \ {Max(s)}], walk[Max(s)])
  <2>1. CASE s = {}
    BY <1>5, <2>1 DEF IsAlong
  <2>2. CASE s # {}
    <3>1. Max(s) \in 1 .. L /\ g[s \ {Max(s)}] \in Accs(r)
      BY <1>2, <2>2, MaxExists
    <3> QED BY <1>4, <1>5, <2>2, <3>1 DEF IsAlong
  <2> QED BY <2>1, <2>2
<1>7. Is(g)
  BY <1>2, <1>6
<1> HIDE DEF Is
<1>8. Is(fold)
  BY <1>7
<1> HIDE DEF fold
<1>9. \A s \in SUBSET (1 .. L) :
        fold[s] = IF s = {} THEN base ELSE Visited(r, fold[s \ {Max(s)}], walk[Max(s)])
  BY <1>2, <1>8 DEF Is
<1> DEFINE v == [i \in 0 .. L |-> fold[1 .. i]]
<1>10. v[0] = base
  <2>1. 1 .. 0 = {} /\ 1 .. 0 \in SUBSET (1 .. L) /\ 0 \in 0 .. L
    BY <1>2
  <2>2. fold[1 .. 0] = base
    BY <1>9, <2>1
  <2> QED BY <2>1, <2>2
<1>11. ASSUME NEW i \in 1 .. L PROVE v[i] = Visited(r, v[i - 1], walk[i])
  <2>1. 1 .. i # {} /\ Max(1 .. i) = i /\ (1 .. i) \ {i} = 1 .. i - 1 /\ 1 .. i \in SUBSET (1 .. L)
        /\ i - 1 \in 0 .. L /\ i \in 0 .. L
    <3>1. i \in Nat \ {0} /\ 1 .. i \in SUBSET (1 .. L) /\ i - 1 \in 0 .. L /\ i \in 0 .. L
      BY <1>2
    <3> QED BY <3>1, UpToGreatest
  <2>2. fold[1 .. i] = Visited(r, fold[1 .. i - 1], walk[i])
    BY <1>9, <2>1
  <2> QED BY <2>1, <2>2
<1>12. v[L] = all
  BY <1>2
<1> HIDE DEF v, fold, all
<1>13. \A i \in 0 .. L : v[i] \in Accs(r)
  <2> DEFINE bad == {k \in 0 .. L : v[k] \notin Accs(r)}
  <2> SUFFICES ASSUME bad # {} PROVE FALSE
    OBVIOUS
  <2>1. PICK k \in bad : \A j \in bad : k <= j
    <3>1. bad \subseteq Nat
      OBVIOUS
    <3> HIDE DEF bad
    <3> QED BY <3>1, LeastElement
  <2>2. k # 0 /\ k \in 0 .. L /\ v[k] \notin Accs(r)
    BY <1>3, <1>10, <2>1
  <2>3. k \in 1 .. L /\ k - 1 \in 0 .. L
    BY <1>2, <2>2
  <2>4. v[k - 1] \in Accs(r)
    <3>1. k - 1 \notin bad
      <4> HIDE DEF bad
      <4> QED BY <2>1, <2>3
    <3> QED BY <2>3, <3>1
  <2>5. walk[k] \in 0 .. Size(r) - 1 /\ v[k] = Visited(r, v[k - 1], walk[k])
    BY <1>2, <1>11, <2>3
  <2> QED BY <2>2, <2>4, <2>5, VisitedTyped
<1> QED BY <1>1, <1>10, <1>11, <1>12, <1>13 DEF walk, base, L

LEMMA BlockCostsPaid ==
  ASSUME NEW r, IsCode(r), r.code # <<>>
  PROVE  \E acc \in Accs(r) : /\ Paid(r, acc, Size(r))
                           /\ BlockCosts(r, Mask(r), StartsOf(r)) =
                                Assigned(r, acc.costs, acc.start, acc.sum % U24)
<1> DEFINE walk == BlockWalk(r, Mask(r))
           L == Len(walk)
           base == [costs |-> InstructionCosts(r, Mask(r)), start |-> 0, sum |-> 0]
<1>1. PICK v : /\ v[0] = base
               /\ \A i \in 0 .. L : v[i] \in Accs(r)
               /\ \A i \in 1 .. L : v[i] = Visited(r, v[i - 1], walk[i])
               /\ BlockCosts(r, Mask(r), StartsOf(r)) =
                    Assigned(r, v[L].costs, v[L].start, v[L].sum % U24)
  BY BlockCostsFold
<1>2. /\ L \in Nat
      /\ \A i \in 1 .. L : walk[i] \in 0 .. Size(r) - 1 /\ walk[i] = After(r, walk, 0, i - 1)
      /\ After(r, walk, 0, L) = Size(r)
  <2>1. walk \in Seq(0 .. Size(r) - 1) /\ IsWalk(r, walk, 0)
    BY BlockWalkIs DEF IsWalk
  <2> HIDE DEF walk
  <2>2. L \in Nat /\ \A i \in 1 .. L : walk[i] \in 0 .. Size(r) - 1
    <3> DEFINE B == 0 .. Size(r) - 1
    <3>1. walk \in Seq(B)
      BY <2>1
    <3> HIDE DEF B
    <3>2. Len(walk) \in Nat /\ \A i \in 1 .. Len(walk) : walk[i] \in B
      BY <3>1
    <3> QED BY <3>2 DEF B
  <2>3. (\A i \in 1 .. L : walk[i] = After(r, walk, 0, i - 1)) /\ After(r, walk, 0, L) = Size(r)
    BY <2>1 DEF IsWalk
  <2> QED BY <2>2, <2>3
<1> HIDE DEF walk, L
<1>3. Paid(r, base, 0)
  <2>1. Size(r) \in Nat \ {0} /\ Marked(r) \subseteq 0 .. Size(r) - 1
              /\ StartsOf(r) \subseteq 0 .. Size(r) - 1
    <3>1. base \in Accs(r)
      <4>1. 0 \in 0 .. L
        BY <1>2
      <4> HIDE DEF base
      <4> QED BY <1>1, <4>1
    <3>2. base.start = 0 /\ base.start \in 0 .. Size(r) - 1
      <4>1. base.start = 0
        OBVIOUS
      <4> HIDE DEF base
      <4> QED BY <3>1, <4>1 DEF Accs
    <3> QED BY <3>2, CodeFacts, StartFacts
  <2>2. 0 \in StartsOf(r)
    BY <2>1, StartFacts
  <2>3. ChargeOf(r, Owed(r, 0, 0)) = 0
    <3>1. ASSUME NEW j \in Owed(r, 0, 0) PROVE FALSE
      <4>1. j \in 0 .. Size(r) - 1 /\ j < 0
        BY <2>1 DEF Owed
      <4> QED BY <4>1
    <3>2. Owed(r, 0, 0) = {}
      BY <3>1
    <3> QED BY <3>2, ChargeAdds
  <2>4. \A k \in Marked(r) : InstructionCosts(r, Mask(r))[k].op = OpAt(r, k)
    <3>1. ASSUME NEW k \in Marked(r) PROVE InstructionCosts(r, Mask(r))[k].op = OpAt(r, k)
      <4>1. InstructionCosts(r, Mask(r))[k] = [op |-> OpAt(r, k), gas |-> Price(r)[k]]
        BY InstructionCostsAre
      <4> QED BY <4>1
    <3> QED BY <3>1
  <2>5. base.costs = InstructionCosts(r, Mask(r)) /\ base.start = 0 /\ base.sum = 0
    OBVIOUS
  <2>6. /\ \A s \in StartsOf(r) : ~(0 < s /\ s < 0)
        /\ \A j \in Marked(r) : ~(j < 0)
        /\ \A k \in 0 .. Size(r) - 1 : ~(k < 0)
    BY <2>1
  <2> HIDE DEF base
  <2> QED BY <2>2, <2>3, <2>4, <2>5, <2>6 DEF Paid
<1> HIDE DEF base
<1>4. \A i \in 0 .. L : Paid(r, v[i], After(r, walk, 0, i))
  <2> DEFINE bad == {k \in 0 .. L : ~Paid(r, v[k], After(r, walk, 0, k))}
  <2> SUFFICES ASSUME bad # {} PROVE FALSE
    OBVIOUS
  <2>1. PICK k \in bad : \A j \in bad : k <= j
    <3>1. bad \subseteq Nat
      OBVIOUS
    <3> HIDE DEF bad
    <3> QED BY <3>1, LeastElement
  <2>2. k # 0 /\ k \in 0 .. L /\ ~Paid(r, v[k], After(r, walk, 0, k))
    <3>1. Paid(r, v[0], After(r, walk, 0, 0))
      BY <1>1, <1>3 DEF After
    <3> QED BY <2>1, <3>1
  <2>3. k \in 1 .. L /\ k - 1 \in 0 .. L
    BY <1>2, <2>2
  <2>4. Paid(r, v[k - 1], After(r, walk, 0, k - 1))
    <3>1. k - 1 \notin bad
      <4> HIDE DEF bad
      <4> QED BY <2>1, <2>3
    <3> QED BY <2>3, <3>1
  <2> DEFINE n == walk[k]  acc == v[k - 1]
  <2>5. /\ n \in 0 .. Size(r) - 1 /\ n = After(r, walk, 0, k - 1) /\ acc \in Accs(r)
        /\ v[k] = Visited(r, acc, n) /\ After(r, walk, 0, k) = Onward(r)[n]
    BY <1>1, <1>2, <2>2, <2>3 DEF After
  <2>6. Paid(r, acc, n)
    BY <2>4, <2>5
  <2> HIDE DEF n, acc
  <2>7. Paid(r, Visited(r, acc, n), Onward(r)[n])
    BY <2>5, <2>6, VisitedStart, VisitedInside
  <2> QED BY <2>2, <2>5, <2>7
<1>5. v[L] \in Accs(r) /\ Paid(r, v[L], Size(r))
  <2>1. L \in 0 .. L
    BY <1>2
  <2> QED BY <1>1, <1>2, <1>4, <2>1
<1> QED BY <1>1, <1>5

-----------------------------------------------------------------------------
(* Tables the interpreter may rely on.                                     *)

LEMMA GasTypes == GAS \in [Opcode -> Nat] /\ GAS["MISSING"] \in Nat
BY DEF GAS, Opcode

Own(p, n) == IF IsInstruction(p, n) THEN GAS[p.costs[n].op] ELSE 0
NextOf(p, n) == n + 1 + SkipBytes(p, n)

LEMMA PositionFacts ==
  ASSUME NEW p, IsProgram(p), NEW n \in 0 .. p.len - 1
  PROVE  p.len \in Nat /\ Own(p, n) \in Nat /\ NextOf(p, n) \in 0 .. p.len /\ n < NextOf(p, n)
<1>1. p.len \in Nat /\ p.costs[n] \in [op : Opcode, gas : Nat]
  BY WidthsAssumption DEF IsProgram
<1>2. Own(p, n) \in Nat
  BY <1>1, GasTypes DEF Own
<1>3. CASE n + 1 < p.len
  <2>1. p.skip[n + 1] \in Nat /\ n + 1 + p.skip[n + 1] <= p.len
    BY <1>1, <1>3 DEF IsProgram
  <2> QED BY <1>1, <1>2, <1>3, <2>1 DEF NextOf, SkipBytes
<1>4. CASE ~(n + 1 < p.len)
  BY <1>1, <1>2, <1>4 DEF NextOf, SkipBytes
<1> QED BY <1>3, <1>4

\* RestOfBlock is defined by its equation, and its values are numbers.
LEMMA RestFacts ==
  ASSUME NEW p, IsProgram(p)
  PROVE  \A n \in 0 .. p.len :
           /\ RestOfBlock(p)[n] \in Nat
           /\ RestOfBlock(p)[n] = IF n = p.len \/ n \in p.starts THEN 0
                                  ELSE Own(p, n) + RestOfBlock(p)[NextOf(p, n)]
<1> DEFINE Value(g, n) == IF n = p.len \/ n \in p.starts THEN 0 ELSE Own(p, n) + g[NextOf(p, n)]
           Body(g) == [n \in 0 .. p.len |-> Value(g, n)]
           rest == RestOfBlock(p)
<1>0. p.len \in Nat
  BY WidthsAssumption DEF IsProgram
<1>1. rest = CHOOSE g : g = Body(g)
  BY DEF RestOfBlock, Own, NextOf
<1> DEFINE w == [n \in 0 .. p.len - 1 |-> Own(p, n)]
           next == [n \in 0 .. p.len - 1 |-> NextOf(p, n)]
           Term(g, n) == IF n = p.len \/ n \in p.starts THEN 0 ELSE w[n] + g[next[n]]
<1>2. /\ w \in [0 .. p.len - 1 -> Nat] /\ next \in [0 .. p.len - 1 -> 0 .. p.len]
      /\ \A n \in 0 .. p.len - 1 : n < next[n]
  BY PositionFacts
<1>3. ASSUME NEW g, NEW n \in 0 .. p.len PROVE Term(g, n) = Value(g, n)
  <2>1. CASE n = p.len \/ n \in p.starts
    BY <2>1
  <2>2. CASE ~(n = p.len \/ n \in p.starts)
    <3>1. n \in 0 .. p.len - 1
      BY <1>0, <2>2
    <3>2. w[n] = Own(p, n) /\ next[n] = NextOf(p, n)
      BY <3>1
    <3> HIDE DEF w, next
    <3> QED BY <2>2, <3>2
  <2> QED BY <2>1, <2>2
<1> HIDE DEF w, next
<1>4. \E g : g = Body(g)
  <2>1. PICK g \in [0 .. p.len -> Nat] : AreSums(g, p.len, p.starts, w, next)
    BY <1>0, <1>2, SumsExist
  <2>2. \A n \in 0 .. p.len : g[n] = Term(g, n)
    BY <2>1 DEF AreSums
  <2>3. \A n \in 0 .. p.len : g[n] = Value(g, n)
    <3> HIDE DEF Term, Value
    <3> QED BY <1>3, <2>2
  <2>4. g = Body(g)
    <3> HIDE DEF Value
    <3> QED BY <2>3
  <2> QED BY <2>4
<1>5. rest = Body(rest)
  <2> HIDE DEF Body, rest
  <2> QED BY <1>1, <1>4
<1>6. \A n \in 0 .. p.len : rest[n] = Value(rest, n)
  <2> HIDE DEF rest
  <2> QED BY <1>5
<1> HIDE DEF rest
<1>7. \A n \in 0 .. p.len : rest[n] \in Nat
  <2>1. \A n \in 0 .. p.len : rest[n] = Term(rest, n)
    <3> HIDE DEF Term, Value
    <3> QED BY <1>3, <1>6
  <2>2. AreSums(rest, p.len, p.starts, w, next)
    BY <2>1 DEF AreSums
  <2> QED BY <1>0, <1>2, <2>2, SumsAreNumbers
<1> QED BY <1>6, <1>7 DEF rest

-----------------------------------------------------------------------------
(* What deblob makes of a program.                                         *)

\* For code that is not empty, the table of costs of blocks charges each start
\* with its block.
LEMMA BlockCostsAre ==
  ASSUME NEW r, IsCode(r), r.code # <<>>
  PROVE  /\ BlockCosts(r, Mask(r), StartsOf(r)) \in Costs(r)
         /\ \A k \in Marked(r) : BlockCosts(r, Mask(r), StartsOf(r))[k].op = OpAt(r, k)
         /\ \A n \in 0 .. Size(r) - 1 :
              BlockCosts(r, Mask(r), StartsOf(r))[n].gas =
                IF n \in StartsOf(r) THEN BlockCharge(r, n) % U24 ELSE 0
<1> DEFINE bcs == BlockCosts(r, Mask(r), StartsOf(r))
<1>1. PICK acc \in Accs(r) :
        Paid(r, acc, Size(r)) /\ bcs = Assigned(r, acc.costs, acc.start, acc.sum % U24)
  BY BlockCostsPaid
<1>2. /\ acc.costs \in Costs(r) /\ acc.start \in 0 .. Size(r) - 1 /\ acc.sum \in Nat
      /\ acc.start \in StartsOf(r) /\ Size(r) \in Nat /\ Marked(r) \subseteq 0 .. Size(r) - 1
  BY <1>1, CodeFacts DEF Accs, Paid
<1>3. /\ bcs \in Costs(r) /\ bcs[acc.start] = [op |-> OpAt(r, acc.start), gas |-> acc.sum % U24]
      /\ \A k \in 0 .. Size(r) - 1 : k # acc.start => bcs[k] = acc.costs[k]
  <2> DEFINE start == acc.start  sum == acc.sum % U24
  <2>1. start \in 0 .. Size(r) - 1 /\ sum \in Nat /\ bcs = Assigned(r, acc.costs, start, sum)
    BY <1>1, <1>2, WidthsAssumption
  <2> HIDE DEF start, sum, bcs
  <2>2. /\ bcs \in Costs(r) /\ bcs[start] = [op |-> OpAt(r, start), gas |-> sum]
        /\ \A k \in 0 .. Size(r) - 1 : k # start => bcs[k] = acc.costs[k]
    BY <1>2, <2>1, AssignedIs
  <2> QED BY <2>2 DEF start, sum
<1> HIDE DEF bcs
<1>4. ASSUME NEW k \in Marked(r) PROVE bcs[k].op = OpAt(r, k)
  <2>1. k \in 0 .. Size(r) - 1 /\ acc.costs[k].op = OpAt(r, k)
    BY <1>1, <1>2 DEF Paid
  <2> QED BY <1>3, <2>1
<1>5. ASSUME NEW n \in 0 .. Size(r) - 1
      PROVE  bcs[n].gas = IF n \in StartsOf(r) THEN BlockCharge(r, n) % U24 ELSE 0
  <2>1. CASE n = acc.start
    <3>1. Size(r) \in 0 .. Size(r) /\ n < Size(r) /\ \A s \in StartsOf(r) : ~(n < s /\ s < Size(r))
      BY <1>1, <1>2, <2>1 DEF Paid
    <3>2. BlockEnd(r, n) = Size(r)
      BY <3>1, BlockEndIs
    <3>3. acc.sum = BlockCharge(r, n)
      BY <1>1, <1>2, <2>1, <3>2 DEF Paid, BlockCharge, Owed
    <3>4. bcs[n].gas = acc.sum % U24
      BY <1>3, <2>1
    <3> QED BY <1>2, <2>1, <3>3, <3>4
  <2>2. CASE n # acc.start
    <3>1. bcs[n] = acc.costs[n] /\ n < Size(r)
      BY <1>2, <1>3, <2>2
    <3>2. acc.costs[n].gas = IF n \in StartsOf(r) /\ n < acc.start THEN BlockCharge(r, n) % U24 ELSE 0
      BY <1>1, <3>1 DEF Paid
    <3>3. n \in StartsOf(r) => n < acc.start
      <4>1. SUFFICES ASSUME n \in StartsOf(r) PROVE n < acc.start
        OBVIOUS
      <4>2. ~(acc.start < n /\ n < Size(r))
        BY <1>1, <4>1 DEF Paid
      <4> QED BY <1>2, <2>2, <3>1, <4>2
    <3> QED BY <3>1, <3>2, <3>3
  <2> QED BY <2>1, <2>2
<1> QED BY <1>3, <1>4, <1>5 DEF bcs

LEMMA JumpItemIsNumber ==
  ASSUME NEW its \in Seq(Digit)
  PROVE  JumpItem(its) \in Nat
<1> DEFINE n == Len(its)
<1>1. n \in Nat /\ its \in [1 .. n -> Digit]
  OBVIOUS
<1> HIDE DEF n
<1>2. PICK v : /\ v[0] = 0 /\ JumpItem(its) = v[n]
               /\ \A i \in 1 .. n : v[i] = Shifted(v[i - 1], its[n - i + 1])
  BY <1>1, JumpItemFolds DEF n
<1> DEFINE bad == {i \in 0 .. n : v[i] \notin Nat}
<1>3. SUFFICES ASSUME bad # {} PROVE FALSE
  BY <1>1, <1>2
<1>4. PICK i \in bad : \A j \in bad : i <= j
  <2>1. bad \subseteq Nat
    OBVIOUS
  <2> HIDE DEF bad
  <2> QED BY <1>3, <2>1, LeastElement
<1>5. i \in 1 .. n /\ i - 1 \in 0 .. n /\ n - i + 1 \in 1 .. n
  BY <1>1, <1>2, <1>4
<1>6. v[i - 1] \in Nat
  <2>1. i - 1 \notin bad
    <3> HIDE DEF bad
    <3> QED BY <1>4, <1>5
  <2> QED BY <1>5, <2>1
<1>7. v[i] \in Nat
  BY <1>1, <1>2, <1>5, <1>6, ShiftedIsNumber
<1> QED BY <1>4, <1>7

\* What the fields of a decoded program p are.
AreFields(r, b, p) ==
  /\ p.len = Size(r) /\ p.starts = StartsOf(r) /\ p.useBlockGas = b
  /\ p.skip = Mask(r).skip /\ p.costs \in Costs(r)
  /\ p.arg = [i \in 0 .. Size(r) - 1 |-> r.code[i + 1].arg]
  /\ p.jumps = [i \in 1 .. Len(r.jumps) |-> JumpItem(r.jumps[i])]
  /\ \A n \in 0 .. Size(r) - 1 :
       /\ IsInstruction(p, n) <=> n \in Marked(r)
       /\ NextOf(p, n) = Onward(r)[n]
       /\ Own(p, n) = InstructionCosts(r, Mask(r))[n].gas
  /\ \A n \in Marked(r) :
       /\ p.costs[n].op = OpAt(r, n)
       /\ p.costs[n].gas = CASE ~b -> Price(r)[n]
                             [] b /\ n \in StartsOf(r) -> BlockCharge(r, n) % U24
                             [] OTHER -> 0

LEMMA DeblobFields ==
  ASSUME NEW r, IsCode(r), NEW b \in BOOLEAN, b => r.code # <<>>
  PROVE  AreFields(r, b, Deblob(r, b))
<1> DEFINE p == Deblob(r, b)
           M == Mask(r)
           ics == InstructionCosts(r, M)
           bcs == BlockCosts(r, M, StartsOf(r))
<1>1. /\ p.len = M.len /\ p.skip = M.skip /\ p.starts = StartsOf(r) /\ p.useBlockGas = b
      /\ p.costs = IF b THEN bcs ELSE ics
      /\ p.arg = [i \in 0 .. M.len - 1 |-> r.code[i + 1].arg]
      /\ p.jumps = [i \in 1 .. Len(r.jumps) |-> JumpItem(r.jumps[i])]
  BY DEF Deblob, StartsOf
<1>2. /\ M.len = Size(r) /\ Size(r) \in Nat /\ Marked(r) \subseteq 0 .. Size(r) - 1
      /\ \A n \in 0 .. Size(r) - 1 : IsInstruction(M, n) <=> n \in Marked(r)
  BY CodeFacts
<1>3. /\ ics \in Costs(r)
      /\ \A n \in 0 .. Size(r) - 1 : ics[n].gas = IF n \in Marked(r) THEN Price(r)[n] ELSE 0
      /\ \A n \in Marked(r) : ics[n].op = OpAt(r, n)
  <2>1. \A n \in Marked(r) : ics[n] = [op |-> OpAt(r, n), gas |-> Price(r)[n]]
    BY InstructionCostsAre
  <2> HIDE DEF ics
  <2>2. ASSUME NEW n \in Marked(r) PROVE ics[n].op = OpAt(r, n)
    <3>1. ics[n] = [op |-> OpAt(r, n), gas |-> Price(r)[n]]
      BY <2>1
    <3> QED BY <3>1
  <2> QED BY <2>2, InstructionCostsAre DEF ics
<1>4. b => /\ bcs \in Costs(r)
           /\ \A n \in Marked(r) : bcs[n].op = OpAt(r, n)
           /\ \A n \in 0 .. Size(r) - 1 :
                bcs[n].gas = IF n \in StartsOf(r) THEN BlockCharge(r, n) % U24 ELSE 0
  BY BlockCostsAre
<1> HIDE DEF p, M, ics, bcs
<1>5. /\ p.costs \in Costs(r)
      /\ \A n \in Marked(r) :
           /\ p.costs[n].op = OpAt(r, n)
           /\ p.costs[n].gas = CASE ~b -> Price(r)[n]
                                 [] b /\ n \in StartsOf(r) -> BlockCharge(r, n) % U24
                                 [] OTHER -> 0
  BY <1>1, <1>2, <1>3, <1>4
<1>6. ASSUME NEW n \in 0 .. Size(r) - 1
      PROVE  /\ IsInstruction(p, n) <=> n \in Marked(r)
             /\ NextOf(p, n) = Onward(r)[n]
             /\ Own(p, n) = ics[n].gas
  <2>1. IsInstruction(p, n) <=> n \in Marked(r)
    BY <1>1, <1>2 DEF IsInstruction
  <2>2. NextOf(p, n) = Onward(r)[n]
    BY <1>1 DEF NextOf, Onward, SkipBytes, M
  <2>3. Own(p, n) = ics[n].gas
    BY <1>3, <1>5, <2>1 DEF Own, Price
  <2> QED BY <2>1, <2>2, <2>3
<1>7. AreFields(r, b, p)
  BY <1>1, <1>2, <1>5, <1>6 DEF AreFields, M, ics
<1> QED BY <1>7 DEF p

LEMMA DeblobIsProgram ==
  ASSUME NEW r, IsRaw(r), NEW b \in BOOLEAN, b => r.code # <<>>
  PROVE  IsProgram(Deblob(r, b))
<1> DEFINE p == Deblob(r, b)
<1>1. /\ IsCode(r) /\ Size(r) <= U32 - 2 /\ U32 \in Nat /\ r.jumps \in Seq(Seq(Digit))
      /\ \A i \in 0 .. Size(r) - 1 : OpAt(r, i) = "ECALLI" => r.code[i + 1].arg \in 0 .. U32 - 1
  BY WidthsAssumption DEF IsRaw, Digit
<1>2. /\ p.len = Size(r) /\ p.starts = StartsOf(r) /\ p.useBlockGas = b
      /\ p.skip = Mask(r).skip /\ p.costs \in Costs(r)
      /\ p.arg = [i \in 0 .. Size(r) - 1 |-> r.code[i + 1].arg]
      /\ p.jumps = [i \in 1 .. Len(r.jumps) |-> JumpItem(r.jumps[i])]
  BY <1>1, DeblobFields DEF AreFields
<1>3. /\ Size(r) \in Nat /\ StartsOf(r) \subseteq 0 .. Size(r) - 1 /\ Mask(r).len = Size(r)
      /\ \A n \in 0 .. Size(r) - 1 :
           Onward(r)[n] \in 0 .. Size(r) /\ Onward(r)[n] = n + 1 + SkipBytes(Mask(r), n)
  BY <1>1, CodeFacts, StartFacts DEF Onward
<1> HIDE DEF p
<1>4. p.skip \in [0 .. p.len - 1 -> Nat]
  <2>1. \A n \in 0 .. Size(r) : LastInstructionOffset(r)[n] \in Nat
    BY <1>3, OffsetFacts
  <2>2. MAX_SKIP \in Nat
    BY WidthsAssumption
  <2> QED BY <1>2, <1>3, <2>1, <2>2 DEF Mask, BytesToSkip
<1>5. \A i \in 0 .. p.len - 1 : i + 1 < p.len => i + 1 + p.skip[i + 1] <= p.len
  BY <1>2, <1>3 DEF SkipBytes
<1>6. p.costs \in [0 .. p.len - 1 -> [op : Opcode, gas : Nat]]
  BY <1>2 DEF Costs, Cost
<1>7. \A i \in 0 .. p.len - 1 : r.code[i + 1] \in [op : Opcode, arg : Int]
  <2> DEFINE c == r.code  S == [op : Opcode, arg : Int]
  <2>1. c \in Seq(S) /\ p.len = Len(c)
    BY <1>1, <1>2 DEF IsCode, Size
  <2> HIDE DEF c, S
  <2>2. \A i \in 0 .. p.len - 1 : c[i + 1] \in S
    BY <2>1
  <2> QED BY <2>2 DEF c, S
<1>8. p.arg \in [0 .. p.len - 1 -> Int]
  BY <1>2, <1>7
<1>9. ASSUME NEW i \in 0 .. p.len - 1, p.costs[i].op = "ECALLI" PROVE p.arg[i] \in 0 .. U32 - 1
  <2>1. OpAt(r, i) = "ECALLI"
    BY <1>2, <1>9 DEF Costs
  <2> QED BY <1>1, <1>2, <2>1
<1>10. p.jumps \in Seq(Nat)
  <2> DEFINE js == r.jumps  S == Seq(Digit)
  <2>1. js \in Seq(S)
    BY <1>1
  <2> HIDE DEF js, S
  <2>2. Len(js) \in Nat /\ \A i \in 1 .. Len(js) : js[i] \in S
    BY <2>1
  <2>3. \A i \in 1 .. Len(js) : JumpItem(js[i]) \in Nat
    BY <2>2, JumpItemIsNumber DEF S
  <2>4. p.jumps = [i \in 1 .. Len(js) |-> JumpItem(js[i])]
    BY <1>2 DEF js
  <2> QED BY <2>2, <2>3, <2>4
<1>11. p.len \in 0 .. U32 - 2 /\ p.starts \subseteq 0 .. p.len - 1 /\ p.useBlockGas \in BOOLEAN
  BY <1>1, <1>2, <1>3
<1>12. IsProgram(p)
  BY <1>4, <1>5, <1>6, <1>8, <1>9, <1>10, <1>11 DEF IsProgram
<1> QED BY <1>12 DEF p

-----------------------------------------------------------------------------
(* What remains of a block.                                                *)

\* Before n no instruction reaches beyond it, as at every place that the
\* machine may come to.
Apart(r, n) == \A j \in Marked(r) : j < n => Onward(r)[j] <= n

\* Where the block that n is in ends, or n if one starts there.
RestEnd(r, n) == IF n \in StartsOf(r) \cup {Size(r)} THEN n ELSE BlockEnd(r, n)

LEMMA MarkedApart ==
  ASSUME NEW r, IsCode(r), NEW n \in Marked(r)
  PROVE  Apart(r, n)
<1>1. ASSUME NEW j \in Marked(r), j < n, ~(Onward(r)[j] <= n) PROVE FALSE
  <2>1. j \in 0 .. Size(r) - 1 /\ n \in 0 .. Size(r) - 1 /\ Size(r) \in Nat
    BY CodeFacts
  <2>2. Onward(r)[j] \in 0 .. Size(r) /\ \A i \in j + 1 .. Onward(r)[j] - 1 : i \notin Marked(r)
    BY <2>1, CodeFacts
  <2>3. n \in j + 1 .. Onward(r)[j] - 1
    BY <1>1, <2>1, <2>2
  <2> QED BY <2>2, <2>3
<1> QED BY <1>1 DEF Apart

\* The block that goes on at n goes on to where it does behind n.
LEMMA EndOnward ==
  ASSUME NEW r, IsCode(r), NEW n \in 0 .. Size(r) - 1, Apart(r, n)
  PROVE  /\ BlockEnd(r, n) = RestEnd(r, Onward(r)[n]) /\ BlockEnd(r, n) \in 0 .. Size(r)
         /\ Onward(r)[n] <= BlockEnd(r, n)
<1> DEFINE q == Onward(r)[n]
<1>1. /\ Size(r) \in Nat /\ StartsOf(r) \subseteq 0 .. Size(r) - 1 /\ q \in 0 .. Size(r) /\ n < q
      /\ \A s \in StartsOf(r) : ~(n < s /\ s < q)
  BY CodeFacts, StartFacts, Between DEF Apart
<1> HIDE DEF q
<1>2. CASE q \in StartsOf(r) \cup {Size(r)}
  <2>1. BlockEnd(r, n) = q
    BY <1>1, <1>2, BlockEndIs
  <2> QED BY <1>1, <1>2, <2>1 DEF RestEnd, q
<1>3. CASE q \notin StartsOf(r) \cup {Size(r)}
  <2> DEFINE T == {s \in StartsOf(r) : s > q} \cup {Size(r)}
  <2>1. T \subseteq Nat /\ T # {}
    BY <1>1
  <2>2. PICK e \in T : \A s \in T : e <= s
    <3> HIDE DEF T
    <3> QED BY <2>1, LeastElement
  <2>3. e \in StartsOf(r) \cup {Size(r)} /\ e \in 0 .. Size(r) /\ q < e /\ q \in 0 .. Size(r) - 1
    BY <1>1, <1>3, <2>2
  <2>4. \A s \in StartsOf(r) : s \in Nat /\ ~(q < s /\ s < e)
    BY <1>1, <2>2, <2>3
  <2> HIDE DEF T
  <2>5. \A s \in StartsOf(r) : ~(n < s /\ s < e)
    BY <1>1, <1>3, <2>3, <2>4
  <2>6. n < e
    BY <1>1, <2>3
  <2>7. BlockEnd(r, n) = e /\ BlockEnd(r, q) = e
    BY <2>3, <2>4, <2>5, <2>6, BlockEndIs
  <2> QED BY <1>3, <2>3, <2>7 DEF RestEnd, q
<1> QED BY <1>2, <1>3

\* What is owed from n on is what n costs and what is owed behind it.
LEMMA OwedShrinks ==
  ASSUME NEW r, IsCode(r), NEW n \in 0 .. Size(r) - 1, NEW e \in 0 .. Size(r), Onward(r)[n] <= e
  PROVE  /\ ChargeOf(r, Owed(r, Onward(r)[n], e)) \in Nat
         /\ InstructionCosts(r, Mask(r))[n].gas \in Nat
         /\ ChargeOf(r, Owed(r, n, e)) =
              InstructionCosts(r, Mask(r))[n].gas + ChargeOf(r, Owed(r, Onward(r)[n], e))
<1> DEFINE q == Onward(r)[n]
           T == Owed(r, q, e)
<1>1. /\ Size(r) \in Nat /\ Marked(r) \subseteq 0 .. Size(r) - 1 /\ q \in 0 .. Size(r) /\ n < q
      /\ Price(r)[n] \in Nat
      /\ \A j \in n + 1 .. q - 1 : j \notin Marked(r)
      /\ InstructionCosts(r, Mask(r))[n].gas = IF n \in Marked(r) THEN Price(r)[n] ELSE 0
  BY CodeFacts, InstructionCostsAre
<1> HIDE DEF q
<1>2. T \in SUBSET (0 .. Size(r) - 1) /\ n \in (0 .. Size(r) - 1) \ T
  BY <1>1 DEF Owed
<1>3. ASSUME NEW j \in Marked(r) PROVE j \in Owed(r, n, e) <=> j \in T \/ j = n
  <2>1. j \in 0 .. Size(r) - 1 /\ j \notin n + 1 .. q - 1
    BY <1>1
  <2>2. n <= j <=> (q <= j \/ j = n)
    BY <1>1, <2>1
  <2>3. n < e
    BY <1>1 DEF q
  <2> QED BY <2>1, <2>2, <2>3 DEF Owed
<1>4. Owed(r, n, e) \subseteq Marked(r) /\ T \subseteq Marked(r)
  BY DEF Owed
<1> HIDE DEF T
<1>5. ChargeOf(r, T) \in Nat /\ ChargeOf(r, T \cup {n}) = ChargeOf(r, T) + Price(r)[n]
  BY <1>2, ChargeAdds
<1>6. CASE n \in Marked(r)
  <2>1. Owed(r, n, e) = T \cup {n}
    BY <1>3, <1>4, <1>6
  <2> QED BY <1>1, <1>5, <1>6, <2>1 DEF T, q
<1>7. CASE n \notin Marked(r)
  <2>1. Owed(r, n, e) = T
    BY <1>3, <1>4, <1>7
  <2> QED BY <1>1, <1>5, <1>7, <2>1 DEF T, q
<1> QED BY <1>6, <1>7

\* What RestOfBlock says of the places the machine may come to is what the
\* instructions from there to the end of the block cost.
LEMMA RestIsOwed ==
  ASSUME NEW r, IsRaw(r), NEW b \in BOOLEAN, b => r.code # <<>>
  PROVE  \A n \in 0 .. Size(r) :
           Apart(r, n) =>
             RestOfBlock(Deblob(r, b))[n] = ChargeOf(r, Owed(r, n, RestEnd(r, n)))
<1> DEFINE p == Deblob(r, b)
           rest == RestOfBlock(p)
           Good(n) == Apart(r, n) => rest[n] = ChargeOf(r, Owed(r, n, RestEnd(r, n)))
           bad == {k \in 0 .. Size(r) : ~Good(Size(r) - k)}
<1>1. /\ IsCode(r) /\ IsProgram(p) /\ Size(r) \in Nat /\ p.len = Size(r) /\ p.starts = StartsOf(r)
      /\ \A n \in 0 .. Size(r) - 1 :
           NextOf(p, n) = Onward(r)[n] /\ Own(p, n) = InstructionCosts(r, Mask(r))[n].gas
  <2>1. IsCode(r)
    BY DEF IsRaw
  <2>2. Size(r) \in Nat
    BY <2>1, CodeFacts
  <2>3. IsProgram(p) /\ AreFields(r, b, p)
    BY <2>1, DeblobIsProgram, DeblobFields
  <2> HIDE DEF p
  <2> QED BY <2>1, <2>2, <2>3 DEF AreFields
<1>2. \A n \in 0 .. Size(r) :
        rest[n] = IF n = Size(r) \/ n \in StartsOf(r) THEN 0 ELSE Own(p, n) + rest[NextOf(p, n)]
  BY <1>1, RestFacts
<1> HIDE DEF rest, p
<1>3. SUFFICES ASSUME bad # {} PROVE FALSE
  <2>1. ASSUME NEW n \in 0 .. Size(r) PROVE Good(n)
    <3>1. Size(r) - n \in 0 .. Size(r) /\ Size(r) - (Size(r) - n) = n
      BY <1>1
    <3> HIDE DEF Good
    <3> QED BY <1>3, <3>1
  <2> QED BY <2>1 DEF rest, p
<1>4. PICK k \in bad : \A j \in bad : k <= j
  <2>1. bad \subseteq Nat
    OBVIOUS
  <2> HIDE DEF bad
  <2> QED BY <1>3, <2>1, LeastElement
<1> DEFINE n == Size(r) - k
<1>5. n \in 0 .. Size(r) /\ k \in 0 .. Size(r) /\ ~Good(n)
  <2> HIDE DEF Good
  <2> QED BY <1>1, <1>4
<1>6. Apart(r, n) /\ rest[n] # ChargeOf(r, Owed(r, n, RestEnd(r, n)))
  BY <1>5
<1> HIDE DEF n
<1>7. CASE n \in StartsOf(r) \cup {Size(r)}
  <2>1. RestEnd(r, n) = n /\ rest[n] = 0
    BY <1>2, <1>5, <1>7 DEF RestEnd
  <2>2. Owed(r, n, n) = {}
    <3>1. ASSUME NEW j \in Owed(r, n, n) PROVE FALSE
      <4>1. j \in 0 .. Size(r) - 1 /\ n <= j /\ j < n
        BY <1>1, CodeFacts DEF Owed
      <4> QED BY <1>5, <4>1
    <3> QED BY <3>1
  <2>3. ChargeOf(r, {}) = 0
    BY <1>1, ChargeAdds
  <2> QED BY <1>6, <2>1, <2>2, <2>3
<1>8. CASE n \notin StartsOf(r) \cup {Size(r)}
  <2> DEFINE q == Onward(r)[n]  e == BlockEnd(r, n)
  <2>1. n \in 0 .. Size(r) - 1 /\ RestEnd(r, n) = e
    BY <1>1, <1>5, <1>8 DEF RestEnd
  <2>2. q \in 0 .. Size(r) /\ n < q
    BY <1>1, <2>1, CodeFacts
  <2>3. Apart(r, q)
    BY <1>1, <1>6, <2>1, Between DEF Apart
  <2>4. e = RestEnd(r, q) /\ e \in 0 .. Size(r) /\ q <= e
    BY <1>1, <1>6, <2>1, EndOnward
  <2>5. Good(q)
    <3>1. Size(r) - q \in 0 .. Size(r) /\ Size(r) - q < k /\ Size(r) - (Size(r) - q) = q
      <4> HIDE DEF q
      <4> QED BY <1>1, <1>5, <2>1, <2>2 DEF n
    <3>2. Size(r) - q \notin bad
      <4> HIDE DEF bad, q
      <4> QED BY <1>1, <1>4, <1>5, <3>1
    <3> HIDE DEF Good, q
    <3> QED BY <3>1, <3>2
  <2>6. rest[n] = Own(p, n) + rest[q]
    BY <1>1, <1>2, <1>5, <1>8, <2>1
  <2>7. ChargeOf(r, Owed(r, n, e)) = Own(p, n) + ChargeOf(r, Owed(r, q, e))
    <3> HIDE DEF e
    <3> QED BY <1>1, <2>1, <2>4, OwedShrinks
  <2> HIDE DEF q, e
  <2>8. rest[q] = ChargeOf(r, Owed(r, q, e))
    BY <2>3, <2>4, <2>5
  <2> QED BY <1>6, <2>1, <2>6, <2>7, <2>8
<1> QED BY <1>7, <1>8

\* A block costs no more than the bytes from its start on.
LEMMA RestIsBounded ==
  ASSUME NEW p, IsProgram(p)
  PROVE  \A n \in 0 .. p.len : RestOfBlock(p)[n] <= p.len - n
<1> DEFINE rest == RestOfBlock(p)
           bad == {k \in 0 .. p.len : ~(rest[p.len - k] <= k)}
<1>1. /\ p.len \in Nat
      /\ \A n \in 0 .. p.len : /\ rest[n] \in Nat
                               /\ rest[n] = IF n = p.len \/ n \in p.starts THEN 0
                                            ELSE Own(p, n) + rest[NextOf(p, n)]
  <2>1. p.len \in Nat
    BY WidthsAssumption DEF IsProgram
  <2> QED BY <2>1, RestFacts
<1>2. \A n \in 0 .. p.len - 1 :
        /\ Own(p, n) \in Nat /\ Own(p, n) <= 1
        /\ NextOf(p, n) \in 0 .. p.len /\ n < NextOf(p, n)
  <2>1. ASSUME NEW n \in 0 .. p.len - 1 PROVE Own(p, n) <= 1
    <3>1. p.costs[n].op \in Opcode
      BY DEF IsProgram
    <3> QED BY <3>1 DEF Own, GAS
  <2> QED BY <2>1, PositionFacts
<1> HIDE DEF rest
<1>3. SUFFICES ASSUME bad # {} PROVE FALSE
  <2>1. ASSUME NEW n \in 0 .. p.len PROVE rest[n] <= p.len - n
    <3>1. p.len - n \in 0 .. p.len /\ p.len - (p.len - n) = n
      BY <1>1
    <3> QED BY <1>3, <3>1
  <2> QED BY <2>1 DEF rest
<1>4. PICK k \in bad : \A j \in bad : k <= j
  <2>1. bad \subseteq Nat
    OBVIOUS
  <2> HIDE DEF bad
  <2> QED BY <1>3, <2>1, LeastElement
<1> DEFINE n == p.len - k
           q == NextOf(p, n)
<1>5. k \in 0 .. p.len /\ n \in 0 .. p.len /\ ~(rest[n] <= k) /\ n = p.len - k
  BY <1>1, <1>4
<1> HIDE DEF n
<1>6. n \in 0 .. p.len - 1 /\ rest[n] = Own(p, n) + rest[q]
  BY <1>1, <1>5
<1>7. q \in 0 .. p.len /\ n < q /\ Own(p, n) \in Nat /\ Own(p, n) <= 1
  BY <1>2, <1>6
<1> HIDE DEF q
<1>8. rest[q] <= p.len - q
  <2> DEFINE j == p.len - q
  <2>1. j \in 0 .. p.len /\ ~(k <= j) /\ p.len - j = q
    BY <1>1, <1>5, <1>7
  <2> HIDE DEF j
  <2>2. j \notin bad
    <3> HIDE DEF bad
    <3> QED BY <1>4, <2>1
  <2>3. rest[p.len - j] <= j
    BY <2>1, <2>2
  <2> QED BY <2>1, <2>3 DEF j
<1>9. rest[q] \in Nat
  BY <1>1, <1>7
<1> QED BY <1>1, <1>5, <1>6, <1>7, <1>8, <1>9

LEMMA DeblobIsCharged ==
  ASSUME NEW r, IsRaw(r), NEW b \in BOOLEAN, b => r.code # <<>> /\ Size(r) < U24
  PROVE  IsCharged(Deblob(r, b))
<1> DEFINE p == Deblob(r, b)
<1>1. /\ IsCode(r) /\ Size(r) \in Nat /\ p.len = Size(r) /\ p.starts = StartsOf(r)
      /\ p.useBlockGas = b /\ Marked(r) \subseteq 0 .. Size(r) - 1
      /\ \A n \in 0 .. Size(r) - 1 :
           /\ IsInstruction(p, n) <=> n \in Marked(r)
           /\ NextOf(p, n) = Onward(r)[n]
      /\ \A n \in Marked(r) :
           /\ p.costs[n].op = OpAt(r, n)
           /\ p.costs[n].gas = CASE ~b -> Price(r)[n]
                                 [] b /\ n \in StartsOf(r) -> BlockCharge(r, n) % U24
                                 [] OTHER -> 0
  <2>1. IsCode(r)
    BY DEF IsRaw
  <2>2. Size(r) \in Nat /\ Marked(r) \subseteq 0 .. Size(r) - 1
    BY <2>1, CodeFacts
  <2>3. AreFields(r, b, p)
    BY <2>1, DeblobFields
  <2> HIDE DEF p
  <2> QED BY <2>1, <2>2, <2>3 DEF AreFields
<1>2. SUFFICES ASSUME NEW i \in Marked(r)
      PROVE  /\ p.costs[i].gas =
                  CASE ~p.useBlockGas -> GAS[p.costs[i].op]
                    [] p.useBlockGas /\ i \in p.starts ->
                         GAS[p.costs[i].op] + RestOfBlock(p)[NextOf(p, i)]
                    [] OTHER -> 0
             /\ p.costs[i].op \in Terminating => NextOf(p, i) = p.len \/ NextOf(p, i) \in p.starts
  <2>1. \A i \in 0 .. p.len - 1 : IsInstruction(p, i) => i \in Marked(r)
    BY <1>1
  <2> HIDE DEF p
  <2>2. IsCharged(p)
    BY <1>2, <2>1 DEF IsCharged, NextOf
  <2> QED BY <2>2 DEF p
<1>3. i \in 0 .. Size(r) - 1 /\ Price(r)[i] = GAS[OpAt(r, i)] /\ Price(r)[i] \in Nat
  BY <1>1, CodeFacts DEF Price
<1> DEFINE q == Onward(r)[i]
<1>4. q \in 0 .. Size(r) /\ i < q
  BY <1>1, <1>3, CodeFacts
<1>5. BlockCharge(r, i) = Price(r)[i] + RestOfBlock(p)[q]
  <2> DEFINE e == BlockEnd(r, i)
  <2>1. Apart(r, i) /\ Apart(r, q)
    BY <1>1, <1>3, MarkedApart, Between DEF Apart
  <2>2. e = RestEnd(r, q) /\ e \in 0 .. Size(r) /\ q <= e
    BY <1>1, <1>3, <2>1, EndOnward
  <2>3. RestOfBlock(p)[q] = ChargeOf(r, Owed(r, q, e))
    BY <1>4, <2>1, <2>2, RestIsOwed
  <2>4. InstructionCosts(r, Mask(r))[i].gas = Price(r)[i]
    BY <1>1, <1>3, InstructionCostsAre
  <2> HIDE DEF e
  <2>5. ChargeOf(r, Owed(r, i, e)) = Price(r)[i] + ChargeOf(r, Owed(r, q, e))
    BY <1>1, <1>3, <2>2, <2>4, OwedShrinks
  <2>6. BlockCharge(r, i) = ChargeOf(r, Owed(r, i, e))
    BY DEF BlockCharge, Owed, e
  <2> QED BY <2>3, <2>5, <2>6
<1>6. b => BlockCharge(r, i) % U24 = BlockCharge(r, i)
  <2>1. IsProgram(p)
    BY DeblobIsProgram
  <2> HIDE DEF p, q
  <2>2. RestOfBlock(p)[q] \in Nat /\ RestOfBlock(p)[q] <= Size(r) - q
    BY <1>1, <1>4, <2>1, RestFacts, RestIsBounded
  <2>3. Price(r)[i] = 1
    BY <1>3, <1>1, CodeFacts DEF GAS
  <2>4. BlockCharge(r, i) \in Nat /\ BlockCharge(r, i) <= Size(r)
    BY <1>1, <1>3, <1>4, <1>5, <2>2, <2>3
  <2>5. ASSUME NEW c \in Nat, c < U24 PROVE c % U24 = c
    BY <2>5, WidthsAssumption
  <2> QED BY <1>1, <2>4, <2>5, WidthsAssumption
<1>7. OpAt(r, i) \in Terminating => q = Size(r) \/ q \in StartsOf(r)
  <2>1. q = i + 1 + SkipBytes(Mask(r), i) /\ IsInstruction(Mask(r), i)
    BY <1>1, <1>3, CodeFacts DEF Onward
  <2>2. q # Size(r) => q \in 0 .. Size(r) - 1 /\ i \in 0 .. q - 1
    BY <1>1, <1>3, <1>4
  <2> HIDE DEF q
  <2> QED BY <2>1, <2>2 DEF StartsOf, Starts
<1> HIDE DEF p, q
<1>8. NextOf(p, i) = q /\ p.costs[i].op = OpAt(r, i)
  BY <1>1, <1>3 DEF q
<1> QED BY <1>1, <1>3, <1>5, <1>6, <1>7, <1>8

\* Whatever deblob makes of a raw program, of any length and with any mask and
\* jump table, is what the interpreter relies on: tables that fit each other,
\* and costs by which an instruction pays for itself or for its block
\* (program.ts:45-71,136-176).  Gas per block needs code that is not empty, and
\* so short that an entry of codeAndGas has room for the gas of every block.
THEOREM DeblobTheorem ==
  ASSUME NEW r, IsRaw(r), NEW b \in BOOLEAN, b => r.code # <<>> /\ Size(r) < U24
  PROVE  IsProgram(Deblob(r, b)) /\ IsCharged(Deblob(r, b))
BY DeblobIsProgram, DeblobIsCharged
=============================================================================
