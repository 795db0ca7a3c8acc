--------------------------- MODULE MCComputation ----------------------------
(* Small numbers for the model checker.                                    *)
EXTENDS Computation

\* Of 16 opcodes, one for each kind of arguments; the others are missing.
OpcodeKinds ==
  [op \in 0 .. 15 |->
     CASE op = 0 -> "ThreeReg" [] op = 1 -> "OneImm" [] op = 2 -> "TwoImm"
       [] op = 3 -> "OneOff" [] op = 4 -> "OneRegOneImm" [] op = 5 -> "OneRegOneExtImm"
       [] op = 6 -> "OneRegTwoImm" [] op = 7 -> "OneRegOneImmOneOff" [] op = 8 -> "TwoReg"
       [] op = 9 -> "TwoRegOneImm" [] op = 10 -> "TwoRegOneOff" [] op = 11 -> "TwoRegTwoImm"
       [] OTHER -> "Zero"]
=============================================================================
