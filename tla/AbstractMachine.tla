-------------------------- MODULE AbstractMachine --------------------------
(***************************************************************************)
(* What the interpreter promises: a machine that executes one instruction  *)
(* at a time, whoever asks for however many of them at once.  It pays, and *)
(* then goes on, stops for good or waits for the host; nothing but a       *)
(* resumption takes it out of a host call and nothing at all out of a      *)
(* state it has finished in.                                               *)
(***************************************************************************)
EXTENDS Program

CONSTANTS Programs, RESERVED_MEMORY

VARIABLES aprog, apc, agas, astatus,
  aexit  \* the host call or the address of the fault, 0 if there is none

avars == <<aprog, apc, agas, astatus, aexit>>

AInit ==
  /\ aprog \in Programs
  /\ apc \in Nat /\ agas \in Nat
  /\ astatus = "OK" /\ aexit = 0

Op == IF IsInstruction(aprog, apc) THEN aprog.costs[apc].op ELSE "MISSING"
Cost == IF IsInstruction(aprog, apc) THEN aprog.costs[apc].gas ELSE GAS["MISSING"]
Following == apc + 1 + SkipBytes(aprog, apc)

Pay == astatus = "OK" /\ Cost <= agas /\ agas' = agas - Cost /\ UNCHANGED aprog
Halted(st, code) == astatus' = st /\ aexit' = code /\ UNCHANGED apc
Arrive(to) == apc' = to /\ UNCHANGED <<astatus, aexit>>

ARunDry ==
  /\ astatus = "OK" /\ Cost > agas
  /\ agas' = 0 /\ Halted("OOG", 0) /\ UNCHANGED aprog

AProceed == Pay /\ Op \in {"FALLTHROUGH", "ALU", "LOAD", "SBRK", "BRANCH"} /\ Arrive(Following)
AJump == Pay /\ Op \in {"JUMP", "BRANCH", "JUMP_IND"} /\ \E to \in aprog.starts : Arrive(to)
AHalt == Pay /\ Op = "JUMP_IND" /\ Halted("HALT", 0)
APanic == Pay /\ Op \notin {"FALLTHROUGH", "ALU", "ECALLI"} /\ Halted("PANIC", 0)
AFault == /\ Pay /\ Op = "LOAD"
          /\ \E address \in RESERVED_MEMORY .. U32 - 1 : Halted("FAULT", address)
AHostCall == /\ Pay /\ Op = "ECALLI"
             /\ astatus' = "HOST" /\ aexit' = aprog.arg[apc] /\ apc' = Following

AResume == astatus = "HOST" /\ astatus' = "OK" /\ aexit' = 0 /\ UNCHANGED <<aprog, apc, agas>>
ARedirect == /\ astatus \in {"OK", "HOST"}
             /\ apc' \in Nat /\ UNCHANGED <<aprog, agas, astatus, aexit>>
ARefuel == agas' \in Nat /\ UNCHANGED <<aprog, apc, astatus, aexit>>

ANext ==
  \/ ARunDry \/ AProceed \/ AJump \/ AHalt \/ APanic \/ AFault \/ AHostCall
  \/ AResume \/ ARedirect \/ ARefuel

ASpec == AInit /\ [][ANext]_avars
=============================================================================
