--------------------------- MODULE MCInterpreter ---------------------------
(* Small programs for the model checker.                                   *)
EXTENDS Interpreter

I(op) == [op |-> op, arg |-> 0]
To(op, offset) == [op |-> op, arg |-> offset]
Ecalli(id) == [op |-> "ECALLI", arg |-> id]

\* Jump table items are two bytes to the base 4, or three: the start of the
\* code, a byte in it, the first number that is no u32.
Table == <<<<0, 0>>, <<2, 0>>, <<0, 0, 1>>>>

Raw(code, mask, jumps) == [code |-> code, mask |-> mask, jumps |-> jumps]

\* Straight code with host calls in the middle of a block, loops, forward and
\* backward branches, bytes that are no instructions, code that starts with
\* one, a gap no skip gets across, every way to stop.
Handwritten ==
  {Raw(<<I("ALU"), Ecalli(3), I("ALU"), To("BRANCH", -3), I("TRAP")>>,
       <<TRUE, TRUE, TRUE, TRUE, TRUE>>, <<>>),
   Raw(<<I("LOAD"), I("ALU"), I("FALLTHROUGH"), Ecalli(5), To("JUMP", -3)>>,
       <<TRUE, FALSE, TRUE, TRUE, TRUE>>, <<>>),
   Raw(<<I("ALU"), I("FALLTHROUGH"), I("SBRK"), I("ALU"), I("JUMP_IND")>>,
       <<FALSE, TRUE, TRUE, TRUE, TRUE>>, Table),
   Raw(<<I("FALLTHROUGH"), I("ALU"), I("FALLTHROUGH"), I("JUMP_IND"), I("MISSING")>>,
       <<TRUE, TRUE, TRUE, TRUE, TRUE>>, Table),
   Raw(<<I("ALU"), I("ALU"), I("ALU"), I("ALU"), I("ALU"), To("JUMP", -5)>>,
       <<TRUE, FALSE, FALSE, FALSE, TRUE, TRUE>>, <<>>),
   Raw(<<To("BRANCH", 2), I("MISSING"), To("BRANCH", 1), Ecalli(1)>>,
       <<TRUE, TRUE, TRUE, TRUE>>, <<>>)}

\* Every program of three bytes over these.
Words == {To("BRANCH", -1), To("JUMP", -2), To("BRANCH", 1), I("ALU"), I("FALLTHROUGH"),
          Ecalli(1), I("JUMP_IND"), I("MISSING")}
Exhaustive ==
  {Raw(code, mask, <<<<0, 0>>, <<2, 0>>>>) :
     code \in [1 .. 3 -> Words],
     mask \in {<<TRUE, TRUE, TRUE>>, <<TRUE, FALSE, TRUE>>, <<TRUE, TRUE, FALSE>>}}
AllPrograms == Handwritten \cup Exhaustive

Decoded(programs) == {Deblob(r, b) : r \in programs, b \in BOOLEAN}
ForDebugger == Decoded(Handwritten)
ForExecute == Decoded(Exhaustive)
-----------------------------------------------------------------------------
(* Who drives the machine: a debugger, which may call anything between two *)
(* calls, or vmExecute.                                                    *)
VARIABLE unattended
mcvars == <<vars, unattended>>

MCInit ==
  /\ Init /\ unattended \in BOOLEAN
  /\ prog \in IF unattended THEN ForExecute ELSE ForDebugger
  /\ unattended => nextPc \in {0, 2} /\ gas < MaxGas

Debugged == ~unattended /\ Next /\ UNCHANGED unattended
Executed == unattended /\ RunNext /\ UNCHANGED unattended

MCSpec == MCInit /\ [][Debugged \/ Executed]_mcvars /\ WF_mcvars(Executed)

\* What vmExecute drives stops (api-internal.ts:89-125).
ExecutedStops == unattended => RunStops
=============================================================================
