---------------------------- MODULE ReplayProofs ----------------------------
(***************************************************************************)
(* Proofs about PvmApi: the table of machines keeps what it promises the   *)
(* owner of a handle, for every set of programs, however many are prepared *)
(* and started, and whatever is asked of them.                             *)
(*                                                                         *)
(* Proofs about TraceReplay: its clients use the table of machines as they *)
(* may, and a replay that verifies succeeds exactly if the trace is a      *)
(* recording, for every trace, however long it is and whatever it says.    *)
(*                                                                         *)
(* The loop of the replay keeps its machine in the state that Recording    *)
(* has after as many host calls (Resumes, Pauses); a line that is not what *)
(* the loop sees there is not what would have been recorded either         *)
(* (UnlikeRecording), and what is recorded once stays (Later).             *)
(***************************************************************************)
EXTENDS TraceReplay, NumberProofs, SequenceTheorems

-----------------------------------------------------------------------------
(* What a call makes of a machine is a machine of the same code.           *)

MachineFields ==
  {"code", "regs", "mem", "pc", "nextPc", "gas", "status", "exitCode", "lastCode"}
IsMachine(m, code) == m = [f \in MachineFields |-> m[f]] /\ m.code = code

LEMMA JoinedIsMachine ==
  ASSUME NEW p, NEW v
  PROVE  IsMachine(Joined(p, v), p.code)
BY DEF IsMachine, MachineFields, Joined

LEMMA MachineIsJoined ==
  ASSUME NEW m, NEW p, IsMachine(m, p.code), p.regs = m.regs, p.mem = m.mem
  PROVE  Joined(p, m) = m
BY DEF IsMachine, MachineFields, Joined

LEMMA InstructedIsMachine ==
  ASSUME NEW m, NEW code, IsMachine(m, code), NEW i
  PROVE  IsMachine(Instructed(m, i), code)
<1>1. ASSUME NEW status, NEW exit
      PROVE  IsMachine(Stopped(m, status, exit), code)
  BY DEF IsMachine, MachineFields, Stopped
<1>2. ASSUME NEW a PROVE IsMachine(Faulted(m, a), code)
  BY DEF IsMachine, MachineFields, Stopped, Faulted
<1>3. CASE i.op = "ADD"
  <2>1. Instructed(m, i) = Onward([m EXCEPT !.regs[i.reg] = (@ + 1) % WORD])
    BY <1>3 DEF Instructed
  <2> QED BY <2>1 DEF IsMachine, MachineFields, Onward
<1>4. CASE i.op = "LOAD"
  <2>1. Instructed(m, i) = IF Can(m.mem, i.at, "Read")
                           THEN Onward([m EXCEPT !.regs[i.reg] = m.mem[i.at].byte])
                           ELSE Faulted(m, i.at)
    BY <1>4 DEF Instructed
  <2> QED BY <1>2, <2>1 DEF IsMachine, MachineFields, Onward
<1>5. CASE i.op = "STORE"
  <2>1. Instructed(m, i) = IF Can(m.mem, i.at, "Write")
                           THEN Onward([m EXCEPT !.mem[i.at].byte = m.regs[i.reg] % BYTE])
                           ELSE Faulted(m, i.at)
    BY <1>5 DEF Instructed
  <2> QED BY <1>2, <2>1 DEF IsMachine, MachineFields, Onward
<1>6. CASE i.op = "JUMP"
  <2>1. Instructed(m, i) = [Onward(m) EXCEPT !.pc = i.at]
    BY <1>6 DEF Instructed
  <2> QED BY <2>1 DEF IsMachine, MachineFields, Onward
<1>7. CASE i.op = "ECALLI"
  <2>1. Instructed(m, i) = [Stopped(m, "HOST", i.at) EXCEPT !.lastCode = i.at, !.nextPc = m.pc + 1]
    BY <1>7 DEF Instructed
  <2> QED BY <2>1 DEF IsMachine, MachineFields, Stopped
<1>8. CASE i.op = "HALT"
  <2>1. Instructed(m, i) = Stopped(m, "HALT", 0)
    BY <1>8 DEF Instructed
  <2> QED BY <1>1, <2>1
<1>9. CASE i.op = "TRAP"
  <2>1. Instructed(m, i) = Stopped(m, "PANIC", m.lastCode)
    BY <1>9 DEF Instructed
  <2> QED BY <1>1, <2>1
<1>10. CASE i.op \notin {"ADD", "LOAD", "STORE", "JUMP", "ECALLI", "HALT", "TRAP"}
  <2>1. Instructed(m, i) = Stopped(m, "PANIC", 0)
    BY <1>10 DEF Instructed
  <2> QED BY <1>1, <2>1
<1> QED BY <1>3, <1>4, <1>5, <1>6, <1>7, <1>8, <1>9, <1>10

LEMMA SteppedIsMachine ==
  ASSUME NEW m, NEW code, IsMachine(m, code)
  PROVE  IsMachine(Stepped(m), code)
<1> DEFINE paid == [m EXCEPT !.gas = @ - 1]
<1>1. IsMachine(paid, code)
  BY DEF IsMachine, MachineFields
<1>2. ASSUME NEW n, IsMachine(n, code), NEW status, NEW exit
      PROVE  IsMachine(Stopped(n, status, exit), code)
  BY <1>2 DEF IsMachine, MachineFields, Stopped
<1>3. Stepped(m) = IF m.gas = 0 THEN Stopped(m, "OOG", 0)
                   ELSE IF m.pc + 1 \in DOMAIN m.code THEN Instructed(paid, m.code[m.pc + 1])
                   ELSE Stopped(paid, "PANIC", 0)
  BY DEF Stepped
<1> HIDE DEF paid
<1> QED BY <1>1, <1>2, <1>3, InstructedIsMachine

LEMMA BegunIsMachine ==
  ASSUME NEW m, NEW code, IsMachine(m, code)
  PROVE  IsMachine(Begun(m), code)
BY DEF Begun, IsMachine, MachineFields

-----------------------------------------------------------------------------
(* A run: the states that a machine goes through while there is gas.       *)

OneMore(q) == IF q.status = "OK" THEN Stepped(q) ELSE q
AreStates(f, m, k) == f = [n \in 0 .. k |-> IF n = 0 THEN Begun(m) ELSE OneMore(f[n - 1])]

LEMMA StatesExist ==
  ASSUME NEW m, NEW k \in Nat
  PROVE  \E f : AreStates(f, m, k)
<1> DEFINE bad == {j \in Nat : ~\E f : AreStates(f, m, j)}
<1>1. SUFFICES ASSUME bad # {} PROVE FALSE
  OBVIOUS
<1>2. PICK j \in bad : \A y \in bad : j <= y
  <2>1. bad \subseteq Nat
    OBVIOUS
  <2> HIDE DEF bad
  <2> QED BY <1>1, <2>1, LeastElement
<1>3. CASE j = 0
  <2> DEFINE f == [n \in 0 .. 0 |-> Begun(m)]
  <2>1. AreStates(f, m, 0)
    BY DEF AreStates
  <2> HIDE DEF f
  <2> QED BY <1>2, <1>3, <2>1
<1>4. CASE j # 0
  <2>1. j - 1 \in Nat /\ j - 1 \notin bad
    BY <1>2, <1>4
  <2>2. PICK f : AreStates(f, m, j - 1)
    BY <2>1
  <2> DEFINE g == [n \in 0 .. j |-> IF n = j THEN OneMore(f[j - 1]) ELSE f[n]]
  <2>3. ASSUME NEW n \in 0 .. j
        PROVE  g[n] = IF n = 0 THEN Begun(m) ELSE OneMore(g[n - 1])
    <3>1. CASE n = j
      <4>1. g[n - 1] = f[j - 1] /\ g[n] = OneMore(f[j - 1])
        BY <1>4, <2>1, <3>1
      <4> QED BY <1>4, <3>1, <4>1
    <3>2. CASE n # j
      <4>1. n \in 0 .. j - 1 /\ g[n] = f[n]
        BY <1>2, <3>2
      <4>2. f[n] = IF n = 0 THEN Begun(m) ELSE OneMore(f[n - 1])
        BY <2>2, <4>1 DEF AreStates
      <4>3. n # 0 => g[n - 1] = f[n - 1]
        BY <1>2, <3>2
      <4> QED BY <4>1, <4>2, <4>3
    <3> QED BY <3>1, <3>2
  <2>4. g = [n \in 0 .. j |-> g[n]]
    OBVIOUS
  <2> HIDE DEF g
  <2>5. AreStates(g, m, j)
    BY <2>3, <2>4 DEF AreStates
  <2> QED BY <1>2, <2>5
<1> QED BY <1>3, <1>4

LEMMA StatesAreMachines ==
  ASSUME NEW m, NEW code, IsMachine(m, code), NEW k \in Nat, NEW f, AreStates(f, m, k)
  PROVE  \A n \in 0 .. k : IsMachine(f[n], code)
<1> DEFINE bad == {n \in 0 .. k : ~IsMachine(f[n], code)}
<1>1. SUFFICES ASSUME bad # {} PROVE FALSE
  OBVIOUS
<1>2. PICK n \in bad : \A y \in bad : n <= y
  <2>1. bad \subseteq Nat
    OBVIOUS
  <2> HIDE DEF bad
  <2> QED BY <1>1, <2>1, LeastElement
<1>3. f[n] = IF n = 0 THEN Begun(m) ELSE OneMore(f[n - 1])
  BY <1>2 DEF AreStates
<1>4. n # 0 => IsMachine(f[n - 1], code)
  BY <1>2
<1>5. IsMachine(f[n], code)
  BY <1>3, <1>4, BegunIsMachine, SteppedIsMachine DEF OneMore
<1> QED BY <1>2, <1>5

LEMMA ExecutedIsState ==
  ASSUME NEW m, m.gas \in Nat
  PROVE  \E f : AreStates(f, m, m.gas + 1) /\ Executed(m) = f[m.gas + 1]
<1> DEFINE Only(S) == CHOOSE q \in S : TRUE
           k == m.gas + 1
           run == CHOOSE f : f = [n \in 0 .. k |->
                    IF n = 0 THEN Begun(m)
                    ELSE Only({IF q.status = "OK" THEN Stepped(q) ELSE q : q \in {f[n - 1]}})]
<1>1. Executed(m) = run[k]
  BY DEF Executed
<1>2. ASSUME NEW x PROVE Only({IF q.status = "OK" THEN Stepped(q) ELSE q : q \in {x}}) = OneMore(x)
  BY DEF OneMore
<1>3. k \in Nat
  OBVIOUS
<1> HIDE DEF Only, k
<1>4. ASSUME NEW f
      PROVE  (f = [n \in 0 .. k |->
                    IF n = 0 THEN Begun(m)
                    ELSE Only({IF q.status = "OK" THEN Stepped(q) ELSE q : q \in {f[n - 1]}})])
             <=> AreStates(f, m, k)
  BY <1>2 DEF AreStates
<1>5. AreStates(run, m, k)
  <2>1. PICK f : AreStates(f, m, k)
    BY <1>3, StatesExist
  <2> QED BY <1>4, <2>1
<1> HIDE DEF run
<1> QED BY <1>1, <1>5 DEF k

LEMMA ExecutedIsMachine ==
  ASSUME NEW m, NEW code, IsMachine(m, code), m.gas \in Nat
  PROVE  IsMachine(Executed(m), code)
<1>1. PICK f : AreStates(f, m, m.gas + 1) /\ Executed(m) = f[m.gas + 1]
  BY ExecutedIsState
<1>2. m.gas + 1 \in Nat /\ m.gas + 1 \in 0 .. m.gas + 1
  OBVIOUS
<1>3. IsMachine(f[m.gas + 1], code)
  BY <1>1, <1>2, StatesAreMachines
<1> QED BY <1>1, <1>3

LEMMA ResumedIsMachine ==
  ASSUME NEW m, NEW code, IsMachine(m, code), NEW gas \in Nat, NEW pc
  PROVE  IsMachine(Resumed(m, gas, pc), code)
<1> DEFINE n == [m EXCEPT !.nextPc = pc, !.gas = gas]
<1>1. IsMachine(n, code) /\ n.gas = gas
  BY DEF IsMachine, MachineFields
<1>2. Resumed(m, gas, pc) = Executed(n)
  BY DEF Resumed
<1> HIDE DEF n
<1> QED BY <1>1, <1>2, ExecutedIsMachine

LEMMA WithRegistersIsMachine ==
  ASSUME NEW m, NEW code, IsMachine(m, code), NEW values
  PROVE  IsMachine(WithRegisters(m, values), code)
BY DEF WithRegisters, IsMachine, MachineFields

LEMMA WithBytesIsMachine ==
  ASSUME NEW m, NEW code, IsMachine(m, code), NEW a, NEW v
  PROVE  IsMachine(WithBytes(m, a, v), code)
<1>1. \E mem : WithBytes(m, a, v) = [m EXCEPT !.mem = mem]
  BY DEF WithBytes
<1> QED BY <1>1 DEF IsMachine, MachineFields

-----------------------------------------------------------------------------
(* The table.                                                              *)

HandleFields == {"program", "pc", "nextPc", "gas", "status", "exitCode", "lastCode"}
ProgramFields == {"code", "regs", "mem"}

\* A handle refers to a program that was prepared, a program of which at most
\* one machine was made has at most that one, and numbers above nextPvmId
\* have not been given out.
TableInv ==
  /\ nextPvmId \in Nat /\ DOMAIN pvms \subseteq 1 .. nextPvmId
  /\ programs \in Seq({programs[p] : p \in DOMAIN programs})
  /\ \A p \in DOMAIN programs : programs[p] = [f \in ProgramFields |-> programs[p][f]]
  /\ uses \in Seq(Nat) /\ DOMAIN uses = DOMAIN programs
  /\ \A id \in DOMAIN pvms :
       /\ pvms[id] = [f \in HandleFields |-> pvms[id][f]]
       /\ pvms[id].program \in DOMAIN programs /\ uses[pvms[id].program] > 0
  /\ \A i, j \in DOMAIN pvms :
       pvms[i].program = pvms[j].program /\ uses[pvms[i].program] = 1 => i = j

LEMMA InitTable == Init => TableInv
BY DEF Init, TableInv

\* A table in which only what programs hold and machines do has changed.
SameTable ==
  /\ DOMAIN pvms' \subseteq DOMAIN pvms /\ nextPvmId' = nextPvmId /\ uses' = uses
  /\ \A id \in DOMAIN pvms' :
       pvms'[id].program = pvms[id].program /\ pvms'[id] = [f \in HandleFields |-> pvms'[id][f]]
  /\ DOMAIN programs' = DOMAIN programs
  /\ programs' = [p \in DOMAIN programs |-> programs'[p]]
  /\ \A p \in DOMAIN programs : programs'[p] = [f \in ProgramFields |-> programs'[p][f]]

LEMMA SequenceOfItself ==
  ASSUME NEW n \in Nat, NEW f
  PROVE  [i \in 1 .. n |-> f[i]] \in Seq({f[i] : i \in 1 .. n})
OBVIOUS

LEMMA SameTableInv == ASSUME TableInv, SameTable PROVE TableInv'
<1>1. programs' \in Seq({programs'[p] : p \in DOMAIN programs'})
  <2>1. DOMAIN programs = 1 .. Len(programs) /\ Len(programs) \in Nat
    BY DEF TableInv
  <2>2. programs' = [p \in 1 .. Len(programs) |-> programs'[p]]
    BY <2>1 DEF SameTable
  <2>3. DOMAIN programs' = 1 .. Len(programs)
    BY <2>1 DEF SameTable
  <2> QED BY <2>1, <2>2, <2>3, SequenceOfItself
<1>2. nextPvmId' \in Nat /\ DOMAIN pvms' \subseteq 1 .. nextPvmId'
  BY DEF TableInv, SameTable
<1>3. \A p \in DOMAIN programs' : programs'[p] = [f \in ProgramFields |-> programs'[p][f]]
  BY DEF SameTable
<1>4. uses' \in Seq(Nat) /\ DOMAIN uses' = DOMAIN programs'
  BY DEF TableInv, SameTable
<1>5. ASSUME NEW id \in DOMAIN pvms'
      PROVE  /\ pvms'[id] = [f \in HandleFields |-> pvms'[id][f]]
             /\ pvms'[id].program \in DOMAIN programs' /\ uses'[pvms'[id].program] > 0
  BY DEF TableInv, SameTable
<1>6. ASSUME NEW i \in DOMAIN pvms', NEW j \in DOMAIN pvms',
             pvms'[i].program = pvms'[j].program, uses'[pvms'[i].program] = 1
      PROVE  i = j
  BY <1>6 DEF TableInv, SameTable
<1> QED BY <1>1, <1>2, <1>3, <1>4, <1>5, <1>6 DEF TableInv

LEMMA UnchangedTable ==
  ASSUME TableInv, UNCHANGED <<programs, pvms, nextPvmId, uses>>
  PROVE  TableInv'
BY DEF TableInv

LEMMA BecomesSame ==
  ASSUME TableInv, NEW id \in DOMAIN pvms, NEW m, IsMachine(m, programs[pvms[id].program].code),
         Becomes(id, m), nextPvmId' = nextPvmId, uses' = uses
  PROVE  /\ SameTable /\ DOMAIN pvms' = DOMAIN pvms
         /\ Machine(id)' = m
         /\ \A p \in DOMAIN programs : p # pvms[id].program => programs'[p] = programs[p]
         /\ \A i \in DOMAIN pvms : i # id => pvms'[i] = pvms[i]
<1> DEFINE q == pvms[id].program
<1>1. q \in DOMAIN programs /\ programs[q] = [f \in ProgramFields |-> programs[q][f]]
      /\ pvms[id] = [f \in HandleFields |-> pvms[id][f]]
  BY DEF TableInv
<1>2. programs' = [programs EXCEPT ![q].regs = m.regs, ![q].mem = m.mem]
      /\ pvms' = [pvms EXCEPT ![id] = [f \in DOMAIN pvms[id] |-> IF f = "program" THEN pvms[id][f] ELSE m[f]]]
  BY DEF Becomes
<1>3. /\ programs'[q] = [programs[q] EXCEPT !.regs = m.regs, !.mem = m.mem]
      /\ programs' = [p \in DOMAIN programs |-> programs'[p]] /\ DOMAIN programs' = DOMAIN programs
      /\ \A p \in DOMAIN programs : p # q => programs'[p] = programs[p]
  <2> HIDE DEF q
  <2> QED BY <1>1, <1>2
<1>4. /\ programs'[q].regs = m.regs /\ programs'[q].mem = m.mem /\ programs'[q].code = programs[q].code
      /\ programs'[q] = [f \in ProgramFields |-> programs'[q][f]]
  <2> HIDE DEF q
  <2> QED BY <1>1, <1>3 DEF ProgramFields
<1>5. DOMAIN pvms' = DOMAIN pvms /\ \A i \in DOMAIN pvms : i # id => pvms'[i] = pvms[i]
  BY <1>2
<1>6. pvms'[id] = [f \in HandleFields |-> IF f = "program" THEN q ELSE m[f]]
  BY <1>1, <1>2
<1>7. pvms'[id].program = q /\ pvms'[id] = [f \in HandleFields |-> pvms'[id][f]]
  BY <1>6 DEF HandleFields
<1> HIDE DEF q
<1>8. SameTable
  <2>1. ASSUME NEW p \in DOMAIN programs PROVE programs'[p] = [f \in ProgramFields |-> programs'[p][f]]
    BY <1>3, <1>4 DEF TableInv
  <2>2. ASSUME NEW i \in DOMAIN pvms'
        PROVE  pvms'[i].program = pvms[i].program /\ pvms'[i] = [f \in HandleFields |-> pvms'[i][f]]
    BY <1>5, <1>7 DEF TableInv, q
  <2> QED BY <1>3, <1>5, <2>1, <2>2 DEF SameTable
<1>9. Machine(id)' = m
  <2>1. Machine(id)' = Joined(programs'[q], pvms'[id])
    BY <1>7 DEF Machine
  <2>2. Joined(programs'[q], pvms'[id]) = Joined(programs'[q], m)
    BY <1>6 DEF Joined, HandleFields
  <2>3. Joined(programs'[q], m) = m
    <3>1. IsMachine(m, programs'[q].code)
      BY <1>4 DEF q
    <3> QED BY <1>4, <3>1, MachineIsJoined
  <2> QED BY <2>1, <2>2, <2>3
<1> QED BY <1>3, <1>5, <1>8, <1>9 DEF q

LEMMA PrepareKeeps ==
  ASSUME TableInv, NEW code, NEW regs, NEW mem, PrepareProgram(code, regs, mem)
  PROVE  /\ TableInv'
         /\ \A p \in DOMAIN programs : programs'[p] = programs[p] /\ uses'[p] = uses[p]
<1> DEFINE P == {programs[p] : p \in DOMAIN programs}
           new == [code |-> code, regs |-> regs, mem |-> mem]
           n == Len(programs)
<1>1. n \in Nat /\ DOMAIN programs = 1 .. n /\ programs \in Seq(P \cup {new})
  BY DEF TableInv
<1>2. programs' = Append(programs, new) /\ uses' = Append(uses, 0)
  BY DEF PrepareProgram
<1> HIDE DEF P, new
<1>3. /\ Len(programs') = n + 1 /\ programs' \in Seq(P \cup {new})
      /\ \A p \in 1 .. n : programs'[p] = programs[p]
      /\ programs'[n + 1] = new
  BY <1>1, <1>2, AppendProperties
<1>4. DOMAIN programs' = 1 .. n + 1 /\ n + 1 \in Nat
  BY <1>1, <1>3
<1>5. programs' \in Seq({programs'[p] : p \in DOMAIN programs'})
  <2>1. programs' = [p \in 1 .. n + 1 |-> programs'[p]]
    BY <1>3, <1>4
  <2> QED BY <1>4, <2>1, SequenceOfItself
<1>6. ASSUME NEW p \in 1 .. n + 1 PROVE programs'[p] = [f \in ProgramFields |-> programs'[p][f]]
  <2>1. CASE p = n + 1
    BY <1>3, <2>1 DEF new, ProgramFields
  <2>2. CASE p # n + 1
    <3>1. p \in DOMAIN programs /\ programs'[p] = programs[p]
      BY <1>1, <1>3, <2>2
    <3> QED BY <3>1 DEF TableInv
  <2> QED BY <2>1, <2>2
<1>7. uses' \in Seq(Nat) /\ DOMAIN uses' = 1 .. n + 1 /\ \A p \in 1 .. n : uses'[p] = uses[p]
  <2>1. uses \in Seq(Nat) /\ DOMAIN uses = 1 .. n
    BY <1>1 DEF TableInv
  <2>2. Len(uses) = n
    BY <1>1, <2>1
  <2> QED BY <1>1, <1>2, <2>1, <2>2, AppendProperties
<1>8. pvms' = pvms /\ nextPvmId' = nextPvmId
  BY DEF PrepareProgram
<1>9. \A id \in DOMAIN pvms : pvms[id].program \in 1 .. n
  BY <1>1 DEF TableInv
<1> HIDE DEF n
<1>10. TableInv'
  <2>1. ASSUME NEW id \in DOMAIN pvms'
        PROVE  /\ pvms'[id] = [f \in HandleFields |-> pvms'[id][f]]
               /\ pvms'[id].program \in DOMAIN programs' /\ uses'[pvms'[id].program] > 0
    BY <1>1, <1>4, <1>7, <1>8, <1>9 DEF TableInv
  <2>2. ASSUME NEW i \in DOMAIN pvms', NEW j \in DOMAIN pvms',
               pvms'[i].program = pvms'[j].program, uses'[pvms'[i].program] = 1
        PROVE  i = j
    BY <1>7, <1>8, <1>9, <2>2 DEF TableInv
  <2>3. nextPvmId' \in Nat /\ DOMAIN pvms' \subseteq 1 .. nextPvmId'
    BY <1>8 DEF TableInv
  <2> QED BY <1>4, <1>5, <1>6, <1>7, <2>1, <2>2, <2>3 DEF TableInv
<1> QED BY <1>1, <1>3, <1>7, <1>10

LEMMA StartKeeps ==
  ASSUME TableInv, NEW p, PvmStart(p)
  PROVE  /\ TableInv' /\ p \in DOMAIN programs /\ nextPvmId' = nextPvmId + 1
         /\ DOMAIN pvms' = DOMAIN pvms \cup {nextPvmId + 1} /\ nextPvmId + 1 \notin DOMAIN pvms
         /\ pvms'[nextPvmId + 1] = Interpreter(p)
         /\ \A id \in DOMAIN pvms : pvms'[id] = pvms[id]
         /\ uses' = [uses EXCEPT ![p] = @ + 1] /\ programs' = programs
<1> DEFINE new == nextPvmId + 1
<1>1. /\ p \in DOMAIN programs /\ nextPvmId' = new /\ programs' = programs
      /\ pvms' = [i \in DOMAIN pvms \cup {new} |-> IF i = new THEN Interpreter(p) ELSE pvms[i]]
      /\ uses' = [uses EXCEPT ![p] = @ + 1]
  BY DEF PvmStart
<1>2. nextPvmId \in Nat /\ new \notin DOMAIN pvms /\ new \in Nat /\ new >= 1
      /\ DOMAIN pvms \subseteq 1 .. new
  BY DEF TableInv
<1> HIDE DEF new
<1>3. /\ DOMAIN pvms' = DOMAIN pvms \cup {new} /\ pvms'[new] = Interpreter(p)
      /\ \A id \in DOMAIN pvms : pvms'[id] = pvms[id]
  BY <1>1, <1>2
<1>4. Interpreter(p).program = p /\ Interpreter(p) = [f \in HandleFields |-> Interpreter(p)[f]]
  BY DEF Interpreter, HandleFields
<1>5. /\ uses' \in Seq(Nat) /\ DOMAIN uses' = DOMAIN programs' /\ uses[p] \in Nat /\ uses'[p] = uses[p] + 1
      /\ \A q \in DOMAIN programs : uses'[q] = IF q = p THEN uses[p] + 1 ELSE uses[q]
  BY <1>1 DEF TableInv
<1>6. TableInv'
  <2>1. ASSUME NEW id \in DOMAIN pvms'
        PROVE  /\ pvms'[id] = [f \in HandleFields |-> pvms'[id][f]]
               /\ pvms'[id].program \in DOMAIN programs' /\ uses'[pvms'[id].program] > 0
    <3>1. CASE id = new
      BY <1>1, <1>3, <1>4, <1>5, <3>1
    <3>2. CASE id # new
      <4>1. id \in DOMAIN pvms /\ pvms'[id] = pvms[id]
        BY <1>3, <3>2
      <4>2. /\ pvms[id] = [f \in HandleFields |-> pvms[id][f]]
            /\ pvms[id].program \in DOMAIN programs /\ uses[pvms[id].program] > 0
        BY <4>1 DEF TableInv
      <4> QED BY <1>1, <1>5, <4>1, <4>2
    <3> QED BY <3>1, <3>2
  <2>2. ASSUME NEW i \in DOMAIN pvms', NEW j \in DOMAIN pvms',
               pvms'[i].program = pvms'[j].program, uses'[pvms'[i].program] = 1
        PROVE  i = j
    <3>1. ASSUME NEW k \in DOMAIN pvms, uses'[pvms[k].program] = 1
          PROVE  pvms[k].program # p /\ uses[pvms[k].program] = 1
      BY <1>5, <3>1 DEF TableInv
    <3> QED BY <1>3, <1>4, <2>2, <3>1 DEF TableInv
  <2>3. nextPvmId' \in Nat /\ DOMAIN pvms' \subseteq 1 .. nextPvmId'
    BY <1>1, <1>2, <1>3
  <2>4. programs' \in Seq({programs'[q] : q \in DOMAIN programs'})
        /\ \A q \in DOMAIN programs' : programs'[q] = [f \in ProgramFields |-> programs'[q][f]]
    BY <1>1 DEF TableInv
  <2> QED BY <1>5, <2>1, <2>2, <2>3, <2>4 DEF TableInv
<1> QED BY <1>1, <1>2, <1>3, <1>6 DEF new

LEMMA DestroyKeeps ==
  ASSUME TableInv, NEW id \in DOMAIN pvms, PvmDestroy(id)
  PROVE  /\ TableInv' /\ DOMAIN pvms' = DOMAIN pvms \ {id}
         /\ nextPvmId' = nextPvmId /\ uses' = uses
         /\ \A i \in DOMAIN pvms' : pvms'[i] = pvms[i]
         /\ \A p \in DOMAIN programs : p # pvms[id].program => programs'[p] = programs[p]
<1> DEFINE q == pvms[id].program
<1>1. /\ pvms' = Restrict(pvms, DOMAIN pvms \ {id}) /\ nextPvmId' = nextPvmId /\ uses' = uses
      /\ programs' = [programs EXCEPT ![q].mem = Unmapped]
  BY DEF PvmDestroy, Live
<1>2. q \in DOMAIN programs /\ programs[q] = [f \in ProgramFields |-> programs[q][f]]
  BY DEF TableInv
<1> HIDE DEF q
<1>3. DOMAIN pvms' = DOMAIN pvms \ {id} /\ \A i \in DOMAIN pvms' : pvms'[i] = pvms[i]
  BY <1>1 DEF Restrict
<1>4. /\ programs'[q] = [programs[q] EXCEPT !.mem = Unmapped]
      /\ programs' = [p \in DOMAIN programs |-> programs'[p]] /\ DOMAIN programs' = DOMAIN programs
      /\ \A p \in DOMAIN programs : p # q => programs'[p] = programs[p]
  BY <1>1, <1>2
<1>5. programs'[q] = [f \in ProgramFields |-> programs'[q][f]]
  BY <1>2, <1>4 DEF ProgramFields
<1>6. SameTable
  <2>1. ASSUME NEW p \in DOMAIN programs PROVE programs'[p] = [f \in ProgramFields |-> programs'[p][f]]
    BY <1>4, <1>5 DEF TableInv
  <2>2. ASSUME NEW i \in DOMAIN pvms'
        PROVE  pvms'[i].program = pvms[i].program /\ pvms'[i] = [f \in HandleFields |-> pvms'[i][f]]
    <3>1. i \in DOMAIN pvms /\ pvms'[i] = pvms[i]
      BY <1>3
    <3> QED BY <3>1 DEF TableInv
  <2> QED BY <1>1, <1>3, <1>4, <2>1, <2>2 DEF SameTable
<1> QED BY <1>1, <1>3, <1>4, <1>6, SameTableInv DEF q

LEMMA RunKeeps ==
  ASSUME TableInv, NEW p, NEW gas, NEW pc, RunProgram(p, gas, pc)
  PROVE  /\ TableInv' /\ p \in DOMAIN programs /\ pvms' = pvms /\ nextPvmId' = nextPvmId
         /\ uses' = [uses EXCEPT ![p] = @ + 1]
         /\ \A q \in DOMAIN programs : q # p => programs'[q] = programs[q]
<1>1. PICK m : programs' = [programs EXCEPT ![p].regs = m.regs, ![p].mem = Unmapped]
  BY DEF RunProgram
<1>2. /\ p \in DOMAIN programs /\ pvms' = pvms /\ nextPvmId' = nextPvmId
      /\ uses' = [uses EXCEPT ![p] = @ + 1]
  BY DEF RunProgram
<1>3. programs[p] = [f \in ProgramFields |-> programs[p][f]]
  BY <1>2 DEF TableInv
<1>4. /\ programs'[p] = [programs[p] EXCEPT !.regs = m.regs, !.mem = Unmapped]
      /\ programs' = [q \in DOMAIN programs |-> programs'[q]] /\ DOMAIN programs' = DOMAIN programs
      /\ \A q \in DOMAIN programs : q # p => programs'[q] = programs[q]
  BY <1>1, <1>2
<1>5. programs'[p] = [f \in ProgramFields |-> programs'[p][f]]
  BY <1>3, <1>4 DEF ProgramFields
<1>6. ASSUME NEW q \in DOMAIN programs' PROVE programs'[q] = [f \in ProgramFields |-> programs'[q][f]]
  BY <1>4, <1>5 DEF TableInv
<1>7. programs' \in Seq({programs'[q] : q \in DOMAIN programs'})
  <2>1. DOMAIN programs = 1 .. Len(programs) /\ Len(programs) \in Nat
    BY DEF TableInv
  <2> QED BY <1>4, <2>1, SequenceOfItself
<1>8. /\ uses' \in Seq(Nat) /\ DOMAIN uses' = DOMAIN programs' /\ uses[p] \in Nat
      /\ \A q \in DOMAIN programs : uses'[q] = IF q = p THEN uses[p] + 1 ELSE uses[q]
  BY <1>2, <1>4 DEF TableInv
<1>9. TableInv'
  <2>1. ASSUME NEW id \in DOMAIN pvms'
        PROVE  /\ pvms'[id] = [f \in HandleFields |-> pvms'[id][f]]
               /\ pvms'[id].program \in DOMAIN programs' /\ uses'[pvms'[id].program] > 0
    BY <1>2, <1>4, <1>8 DEF TableInv
  <2>2. ASSUME NEW i \in DOMAIN pvms', NEW j \in DOMAIN pvms',
               pvms'[i].program = pvms'[j].program, uses'[pvms'[i].program] = 1
        PROVE  i = j
    <3>1. pvms[i].program # p /\ uses[pvms[i].program] = 1
      BY <1>2, <1>8, <2>2 DEF TableInv
    <3> QED BY <1>2, <2>2, <3>1 DEF TableInv
  <2>3. nextPvmId' \in Nat /\ DOMAIN pvms' \subseteq 1 .. nextPvmId'
    BY <1>2 DEF TableInv
  <2> QED BY <1>6, <1>7, <1>8, <2>1, <2>2, <2>3 DEF TableInv
<1> QED BY <1>2, <1>4, <1>9

-----------------------------------------------------------------------------
(* The refinement.                                                         *)

\* The abstract table, under names of its own.
Owners == {i \in DOMAIN pvms : uses[pvms[i].program] = 1}
Table == [id \in Owners |-> Machine(id)]
Gone == 1 .. nextPvmId \ DOMAIN pvms

\* A machine is the same on either side of the refinement.
LEMMA SameGuest ==
  ASSUME NEW m
  PROVE  /\ Handles!NULL = NULL /\ Handles!Fresh(m.code, m.regs, m.mem) = Fresh(m.code, m.regs, m.mem)
         /\ \A values : Handles!WithRegisters(m, values) = WithRegisters(m, values)
         /\ \A a, n : Handles!BytesAt(m, a, n) = BytesAt(m, a, n)
         /\ \A a, v : Handles!WithBytes(m, a, v) = WithBytes(m, a, v)
         /\ \A a, v : Handles!Written(m, a, v) = Written(m, a, v)
         /\ Handles!Output(m) = Output(m) /\ Handles!Pause(m) = Pause(m)
         /\ \A op : Handles!Silence(op) = Silence(op)
<1>1. \A mem, access, a, n : Handles!Reach(mem, access, a, n) = Reach(mem, access, a, n)
  BY DEF Handles!Reach, Reach, Handles!Can, Can, Handles!At, At
<1>2. /\ Handles!NULL = NULL /\ Handles!Fresh(m.code, m.regs, m.mem) = Fresh(m.code, m.regs, m.mem)
      /\ Handles!Pause(m) = Pause(m) /\ \A op : Handles!Silence(op) = Silence(op)
  BY DEF Handles!NULL, NULL, Handles!Fresh, Fresh, Handles!Pause, Pause, Handles!Silence, Silence
<1>3. \A values : Handles!WithRegisters(m, values) = WithRegisters(m, values)
  BY DEF Handles!WithRegisters, WithRegisters, Handles!Reg, Reg
<1>4. \A a, n : Handles!BytesAt(m, a, n) = BytesAt(m, a, n)
  BY <1>1, <1>2 DEF Handles!BytesAt, BytesAt, Handles!At, At
<1>5. \A a, v : Handles!WithBytes(m, a, v) = WithBytes(m, a, v)
  BY DEF Handles!WithBytes, WithBytes, Handles!Reach, Reach, Handles!Can, Can, Handles!At, At,
         Handles!Addr, Addr
<1>6. \A a, v : Handles!Written(m, a, v) = Written(m, a, v)
  BY <1>1 DEF Handles!Written, Written
<1>7. Handles!ResultOf(m) = ResultOf(m)
  BY DEF Handles!ResultOf, ResultOf, Handles!Can, Can
<1>8. Handles!Output(m) = Output(m)
  BY <1>7 DEF Handles!Output, Output
<1> QED BY <1>2, <1>3, <1>4, <1>5, <1>6, <1>8

LEMMA SameResumed ==
  ASSUME NEW m, NEW gas, NEW pc
  PROVE  Handles!Resumed(m, gas, pc) = Resumed(m, gas, pc)
BY DEF Handles!Resumed, Resumed, Handles!Executed, Executed, Handles!Begun, Begun, Handles!Stepped,
       Stepped, Handles!Instructed, Instructed, Handles!Faulted, Faulted, Handles!Stopped, Stopped,
       Handles!Onward, Onward, Handles!Can, Can

LEMMA KnownHandles ==
  ASSUME TableInv
  PROVE  /\ Owners \subseteq DOMAIN pvms /\ DOMAIN Table = Owners
         /\ Handles!Known = Owners \cup Gone /\ Handles!Known \subseteq 1 .. nextPvmId
         /\ NoId \notin Handles!Known /\ nextPvmId + 1 \notin Handles!Known
         /\ \A id \in DOMAIN pvms : id \in Handles!Known <=> id \in Owners
         /\ \A id : id \notin DOMAIN pvms => (id \in Handles!Known <=> id \in Gone)
<1>1. Owners \subseteq DOMAIN pvms /\ DOMAIN Table = Owners
  BY DEF Owners, Table
<1>2. Handles!Known = Owners \cup Gone
  BY DEF Handles!Known, Owners, Gone
<1>3. Handles!Known \subseteq 1 .. nextPvmId /\ nextPvmId \in Nat
  BY <1>1, <1>2 DEF Gone, TableInv
<1> QED BY <1>1, <1>2, <1>3 DEF Gone, NoId

LEMMA SameMachine ==
  ASSUME TableInv, NEW id \in DOMAIN pvms, pvms'[id] = pvms[id],
         programs'[pvms[id].program] = programs[pvms[id].program]
  PROVE  Machine(id)' = Machine(id)
BY DEF Machine

\* The machines whose owners stay are the same, or fewer.
LEMMA Narrowed ==
  ASSUME NEW lost, Owners' = Owners \ {lost}, \A id \in Owners' : Machine(id)' = Machine(id)
  PROVE  Table' = Restrict(Table, DOMAIN Table \ {lost})
BY DEF Table, Restrict

LEMMA SameOwners ==
  ASSUME Owners' = Owners, \A id \in Owners : Machine(id)' = Machine(id)
  PROVE  Table' = Table
BY DEF Table

LEMMA StartRefines ==
  ASSUME TableInv, NEW p, PvmStart(p)
  PROVE  Handles!AStart \/ Handles!AShare
<1>0. PICK new : new = nextPvmId + 1
  OBVIOUS
<1>1. /\ p \in DOMAIN programs /\ nextPvmId' = new
      /\ DOMAIN pvms' = DOMAIN pvms \cup {new} /\ new \notin DOMAIN pvms
      /\ pvms'[new] = Interpreter(p) /\ Interpreter(p).program = p
      /\ \A id \in DOMAIN pvms : pvms'[id] = pvms[id]
      /\ uses' = [uses EXCEPT ![p] = @ + 1] /\ programs' = programs
  BY <1>0, StartKeeps DEF Interpreter
<1>2. request'.op = "start" /\ request'.id = new
  BY <1>0 DEF PvmStart
<1>3. uses[p] \in Nat /\ \A q \in DOMAIN programs : uses'[q] = IF q = p THEN uses[p] + 1 ELSE uses[q]
  BY <1>1 DEF TableInv
<1>4. Gone' = Gone
  <2>1. nextPvmId \in Nat
    BY DEF TableInv
  <2> QED BY <1>0, <1>1, <2>1 DEF Gone
<1>5. new \notin Handles!Known
  BY <1>0, KnownHandles
<1>6. \A id \in DOMAIN pvms : pvms[id].program \in DOMAIN programs /\ uses[pvms[id].program] > 0
  BY DEF TableInv
<1>7. \A id \in DOMAIN pvms : Machine(id)' = Machine(id)
  BY <1>1, SameMachine
<1>8. CASE uses[p] = 0
  <2>1. Owners' = Owners \cup {new}
    <3>1. new \in Owners'
      BY <1>1, <1>3, <1>8 DEF Owners
    <3>2. ASSUME NEW id \in DOMAIN pvms PROVE id \in Owners' <=> id \in Owners
      BY <1>1, <1>3, <1>6, <1>8 DEF Owners
    <3> QED BY <1>1, <3>1, <3>2 DEF Owners
  <2>2. Machine(new)' = Joined(programs[p], Interpreter(p))
    BY <1>1 DEF Machine
  <2>3. Handles!IsFresh(Machine(new)')
    <3> DEFINE m == Joined(programs[p], Interpreter(p))
    <3>1. m = Fresh(m.code, m.regs, m.mem)
      BY DEF Joined, Fresh, Interpreter
    <3> HIDE DEF m
    <3>2. m = Handles!Fresh(m.code, m.regs, m.mem)
      BY <3>1, SameGuest
    <3> QED BY <2>2, <3>2 DEF Handles!IsFresh, m
  <2>4. DOMAIN Table' = DOMAIN Table \cup {new} /\ \A id \in DOMAIN Table : Table'[id] = Table[id]
    BY <1>7, <2>1 DEF Table, Owners
  <2>5. Table'[new] = Machine(new)'
    BY <2>1 DEF Table
  <2>6. Handles!AStart
    BY <1>2, <1>4, <1>5, <2>3, <2>4, <2>5 DEF Handles!AStart, Table, Owners, Gone
  <2> QED BY <2>6
<1>9. CASE uses[p] # 0
  <2> DEFINE lost == IF \E id \in Owners : pvms[id].program = p
                     THEN CHOOSE id \in Owners : pvms[id].program = p ELSE 0
  <2>1. lost \in Owners \cup {0} /\ (lost \in Owners => pvms[lost].program = p)
        /\ (lost \notin Owners => ~\E id \in Owners : pvms[id].program = p)
    BY DEF TableInv, Owners
  <2> HIDE DEF lost
  <2>2. Owners' = Owners \ {lost}
    <3>1. new \notin Owners'
      BY <1>1, <1>3, <1>9 DEF Owners
    <3>2. ASSUME NEW id \in DOMAIN pvms, pvms[id].program = p
          PROVE  id \notin Owners' /\ (id \in Owners => id = lost)
      BY <1>1, <1>3, <1>6, <1>9, <2>1, <3>2 DEF Owners, TableInv
    <3>3. ASSUME NEW id \in DOMAIN pvms, pvms[id].program # p
          PROVE  (id \in Owners' <=> id \in Owners) /\ (id = lost => id \notin Owners)
      BY <1>1, <1>3, <1>6, <2>1, <3>3 DEF Owners
    <3> QED BY <1>1, <3>1, <3>2, <3>3 DEF Owners
  <2>3. Table' = Restrict(Table, DOMAIN Table \ {lost}) /\ lost \in DOMAIN Table \cup {0}
    BY <1>7, <2>1, <2>2, KnownHandles, Narrowed
  <2>4. Handles!AShare
    BY <1>2, <1>4, <1>5, <2>3 DEF Handles!AShare, Handles!Restrict, Restrict, Table, Owners, Gone
  <2> QED BY <2>4
<1> QED BY <1>8, <1>9

LEMMA PrepareRefines ==
  ASSUME TableInv, NEW code, NEW regs, NEW mem, PrepareProgram(code, regs, mem)
  PROVE  Handles!AOther
<1>1. pvms' = pvms /\ nextPvmId' = nextPvmId /\ request'.op = "prepare" /\ request'.id = NoId
  BY DEF PrepareProgram
<1>2. \A id \in DOMAIN pvms : LET p == pvms[id].program IN programs'[p] = programs[p] /\ uses'[p] = uses[p]
  BY PrepareKeeps DEF TableInv
<1>3. Owners' = Owners /\ Gone' = Gone
  BY <1>1, <1>2 DEF Owners, Gone
<1>4. \A id \in Owners : Machine(id)' = Machine(id)
  BY <1>1, <1>2, SameMachine DEF Owners
<1>5. Table' = Table
  BY <1>3, <1>4, SameOwners
<1>6. NoId \notin Handles!Known
  BY KnownHandles
<1> QED BY <1>1, <1>3, <1>5, <1>6 DEF Handles!AOther, Table, Owners, Gone

LEMMA RunRefines ==
  ASSUME TableInv, NEW p, NEW gas, NEW pc, RunProgram(p, gas, pc)
  PROVE  Handles!AShare
<1>1. /\ p \in DOMAIN programs /\ pvms' = pvms /\ nextPvmId' = nextPvmId
      /\ uses' = [uses EXCEPT ![p] = @ + 1]
      /\ \A q \in DOMAIN programs : q # p => programs'[q] = programs[q]
  BY RunKeeps
<1>2. request'.op = "run" /\ request'.id = NoId
  BY DEF RunProgram
<1>3. uses[p] \in Nat /\ \A q \in DOMAIN programs : uses'[q] = IF q = p THEN uses[p] + 1 ELSE uses[q]
  BY <1>1 DEF TableInv
<1>4. \A id \in DOMAIN pvms : pvms[id].program \in DOMAIN programs /\ uses[pvms[id].program] > 0
  BY DEF TableInv
<1> DEFINE lost == IF \E id \in Owners : pvms[id].program = p
                   THEN CHOOSE id \in Owners : pvms[id].program = p ELSE 0
<1>5. lost \in Owners \cup {0} /\ (lost \in Owners => pvms[lost].program = p)
      /\ (lost \notin Owners => ~\E id \in Owners : pvms[id].program = p)
  BY DEF TableInv, Owners
<1> HIDE DEF lost
<1>6. Owners' = Owners \ {lost}
  <2>1. ASSUME NEW id \in DOMAIN pvms, pvms[id].program = p
        PROVE  id \notin Owners' /\ (id \in Owners => id = lost)
    BY <1>1, <1>3, <1>4, <1>5, <2>1 DEF Owners, TableInv
  <2>2. ASSUME NEW id \in DOMAIN pvms, pvms[id].program # p
        PROVE  (id \in Owners' <=> id \in Owners) /\ (id = lost => id \notin Owners)
    BY <1>1, <1>3, <1>4, <1>5, <2>2 DEF Owners
  <2> QED BY <1>1, <2>1, <2>2 DEF Owners
<1>7. \A id \in Owners' : Machine(id)' = Machine(id)
  <2>1. ASSUME NEW id \in Owners' PROVE id \in DOMAIN pvms /\ pvms[id].program # p
    BY <1>1, <1>3, <1>4 DEF Owners
  <2> QED BY <1>1, <1>4, <2>1, SameMachine
<1>8. Table' = Restrict(Table, DOMAIN Table \ {lost}) /\ lost \in DOMAIN Table \cup {0}
  BY <1>5, <1>6, <1>7, KnownHandles, Narrowed
<1>9. NoId \notin Handles!Known /\ Gone' = Gone
  BY <1>1, KnownHandles DEF Gone
<1> QED BY <1>2, <1>8, <1>9 DEF Handles!AShare, Handles!Restrict, Restrict, Table, Owners, Gone

\* A handle that stands for nothing: the answer is the one of a handle that
\* was destroyed, or nothing is promised.
LEMMA SilentRefines ==
  ASSUME TableInv, NEW id, id \notin DOMAIN pvms, UNCHANGED <<programs, pvms, nextPvmId, uses>>,
         request'.id = id, request'.op # "start", reply' = Silence(request'.op)
  PROVE  Handles!ASilent \/ Handles!AOther
<1>1. Owners' = Owners /\ Gone' = Gone /\ \A i \in Owners : Machine(i)' = Machine(i)
  BY DEF Owners, Gone, Machine
<1>2. Table' = Table
  BY <1>1, SameOwners
<1>3. reply' = Handles!Silence(request'.op)
  BY DEF Handles!Silence, Silence, Handles!NULL, NULL
<1>4. id \in Handles!Known <=> id \in Gone
  BY KnownHandles
<1>5. CASE id \in Gone
  BY <1>1, <1>2, <1>3, <1>5 DEF Handles!ASilent, Table, Owners, Gone
<1>6. CASE id \notin Gone
  BY <1>1, <1>2, <1>4, <1>6 DEF Handles!AOther, Table, Owners, Gone
<1> QED BY <1>5, <1>6

\* A call that changes a machine changes this one in the table, if it is there.
LEMMA ChangeRefines ==
  ASSUME TableInv, NEW id \in DOMAIN pvms, NEW m, IsMachine(m, programs[pvms[id].program].code),
         Becomes(id, m), UNCHANGED <<nextPvmId, uses>>, request'.id = id, request'.op # "start"
  PROVE  /\ TableInv' /\ Gone' = Gone
         /\ id \in Owners => Table' = [Table EXCEPT ![id] = m] /\ Table[id] = Machine(id)
         /\ id \notin Owners => Handles!AOther
<1>1. /\ SameTable /\ DOMAIN pvms' = DOMAIN pvms /\ Machine(id)' = m
      /\ \A p \in DOMAIN programs : p # pvms[id].program => programs'[p] = programs[p]
      /\ \A i \in DOMAIN pvms : i # id => pvms'[i] = pvms[i]
  BY BecomesSame
<1>2. TableInv' /\ Gone' = Gone
  BY <1>1, SameTableInv DEF Gone
<1>3. Owners' = Owners
  BY <1>1 DEF Owners, SameTable
<1>4. ASSUME NEW i \in Owners, i # id PROVE Machine(i)' = Machine(i)
  <2>1. i \in DOMAIN pvms /\ pvms[i].program # pvms[id].program /\ pvms[i].program \in DOMAIN programs
    BY <1>4 DEF Owners, TableInv
  <2> QED BY <1>1, <1>4, <2>1, SameMachine
<1>5. CASE id \in Owners
  <2>1. Table' = [i \in Owners |-> IF i = id THEN m ELSE Machine(i)]
    <3>1. Table' = [i \in Owners |-> Machine(i)']
      BY <1>3 DEF Table
    <3> QED BY <1>1, <1>4, <3>1
  <2>2. Table = [i \in Owners |-> Machine(i)]
    BY DEF Table
  <2> QED BY <1>2, <1>5, <2>1, <2>2
<1>6. CASE id \notin Owners
  <2>1. Table' = Table
    BY <1>3, <1>4, <1>6, SameOwners
  <2>2. id \notin Handles!Known
    BY <1>6, KnownHandles
  <2>3. Handles!AOther
    BY <1>2, <2>1, <2>2 DEF Handles!AOther, Table, Owners, Gone
  <2> QED BY <1>2, <1>6, <2>3
<1> QED BY <1>5, <1>6

LEMMA DestroyRefines ==
  ASSUME TableInv, NEW id \in DOMAIN pvms, PvmDestroy(id)
  PROVE  Handles!ADestroy \/ Handles!AOther
<1>1. /\ DOMAIN pvms' = DOMAIN pvms \ {id} /\ nextPvmId' = nextPvmId /\ uses' = uses
      /\ \A i \in DOMAIN pvms' : pvms'[i] = pvms[i]
      /\ \A p \in DOMAIN programs : p # pvms[id].program => programs'[p] = programs[p]
  BY DestroyKeeps
<1>2. request'.op = "destroy" /\ request'.id = id /\ reply' = Output(Machine(id))
  BY DEF PvmDestroy, Live
<1>3. Gone' = Gone \cup {id}
  BY <1>1 DEF Gone, TableInv
<1>4. Owners' = Owners \ {id}
  BY <1>1 DEF Owners
<1>5. ASSUME NEW i \in Owners' PROVE Machine(i)' = Machine(i)
  <2>1. /\ i \in DOMAIN pvms /\ pvms'[i] = pvms[i] /\ i # id /\ i \in Owners
        /\ pvms[i].program \in DOMAIN programs
    BY <1>1, <1>4 DEF Owners, TableInv
  <2>2. pvms[i].program # pvms[id].program
    BY <2>1 DEF Owners, TableInv
  <2> QED BY <1>1, <2>1, <2>2, SameMachine
<1>6. Table' = Restrict(Table, DOMAIN Table \ {id})
  BY <1>4, <1>5, Narrowed
<1>7. CASE id \in Owners
  <2>1. id \in DOMAIN Table /\ reply' = Handles!Output(Table[id])
    BY <1>2, <1>7, SameGuest DEF Table
  <2> QED BY <1>2, <1>3, <1>6, <2>1
          DEF Handles!ADestroy, Handles!Restrict, Restrict, Table, Owners, Gone
<1>8. CASE id \notin Owners
  <2>1. Table' = Table
    BY <1>4, <1>5, <1>8, SameOwners
  <2>2. id \notin Handles!Known
    BY <1>8, KnownHandles
  <2> QED BY <1>2, <1>3, <2>1, <2>2 DEF Handles!AOther, Table, Owners, Gone
<1> QED BY <1>7, <1>8

LEMMA SetRegistersRefines ==
  ASSUME TableInv, NEW id, NEW values, PvmSetRegisters(id, values)
  PROVE  TableInv' /\ (Handles!ACall \/ Handles!ASilent \/ Handles!AOther)
<1> DEFINE m == Machine(id)
           n == WithRegisters(m, values)
<1>1. /\ request'.op = "registers" /\ request'.id = id /\ request'.values = values
      /\ reply' = NULL /\ NULL = Silence("registers") /\ UNCHANGED <<nextPvmId, uses>>
  BY DEF PvmSetRegisters, Silence
<1>2. CASE id \in DOMAIN pvms
  <2>1. Becomes(id, n) /\ IsMachine(n, programs[pvms[id].program].code)
    <3>1. IsMachine(m, programs[pvms[id].program].code)
      BY JoinedIsMachine DEF Machine
    <3> QED BY <1>2, <3>1, WithRegistersIsMachine DEF PvmSetRegisters, Live
  <2> HIDE DEF n
  <2>2. /\ TableInv' /\ Gone' = Gone /\ (id \notin Owners => Handles!AOther)
        /\ id \in Owners => Table' = [Table EXCEPT ![id] = n] /\ Table[id] = m
    BY <1>1, <1>2, <2>1, ChangeRefines
  <2>3. ASSUME id \in Owners PROVE Handles!ACall
    <3>1. Table' = [Table EXCEPT ![id] = Handles!WithRegisters(Table[id], values)]
      BY <2>2, <2>3, SameGuest DEF n
    <3>2. id \in DOMAIN Table /\ reply' = Handles!NULL
      BY <1>1, <2>3, SameGuest DEF Table
    <3> QED BY <1>1, <2>2, <3>1, <3>2 DEF Handles!ACall, Table, Owners, Gone
  <2> QED BY <2>2, <2>3
<1>3. CASE id \notin DOMAIN pvms
  <2>1. UNCHANGED <<programs, pvms>>
    BY <1>3 DEF PvmSetRegisters, Live
  <2> QED BY <1>1, <1>3, <2>1, SilentRefines, UnchangedTable
<1> QED BY <1>2, <1>3

LEMMA ReadMemoryRefines ==
  ASSUME TableInv, NEW id, NEW a, NEW n, PvmReadMemory(id, a, n)
  PROVE  TableInv' /\ (Handles!ACall \/ Handles!ASilent \/ Handles!AOther)
<1>1. /\ request'.op = "read" /\ request'.id = id /\ request'.addr = a /\ request'.len = n
      /\ UNCHANGED <<programs, pvms, nextPvmId, uses>>
  BY DEF PvmReadMemory
<1>2. TableInv'
  BY <1>1, UnchangedTable
<1>3. CASE id \in Owners
  <2>1. id \in DOMAIN pvms /\ Owners' = Owners /\ Gone' = Gone /\ \A i \in Owners : Machine(i)' = Machine(i)
    BY <1>1, <1>3 DEF Owners, Gone, Machine
  <2>2. Table' = Table /\ Table = [Table EXCEPT ![id] = Table[id]]
    BY <2>1, SameOwners DEF Table
  <2>3. id \in DOMAIN Table /\ reply' = Handles!BytesAt(Table[id], a, n)
    BY <1>3, <2>1, SameGuest DEF PvmReadMemory, Live, Table
  <2>4. Table' = [Table EXCEPT ![id] = Table[id]]
    BY <2>2
  <2> QED BY <1>1, <1>2, <2>1, <2>3, <2>4 DEF Handles!ACall, Table, Owners, Gone
<1>4. CASE id \in DOMAIN pvms /\ id \notin Owners
  <2>1. Owners' = Owners /\ Gone' = Gone /\ \A i \in Owners : Machine(i)' = Machine(i)
    BY <1>1 DEF Owners, Gone, Machine
  <2>2. Table' = Table /\ id \notin Handles!Known
    BY <1>4, <2>1, SameOwners, KnownHandles
  <2> QED BY <1>1, <1>2, <2>1, <2>2 DEF Handles!AOther, Table, Owners, Gone
<1>5. CASE id \notin DOMAIN pvms
  <2>1. reply' = Silence("read")
    BY <1>5 DEF PvmReadMemory, Live
  <2> QED BY <1>1, <1>2, <1>5, <2>1, SilentRefines
<1> QED BY <1>3, <1>4, <1>5

LEMMA WriteMemoryRefines ==
  ASSUME TableInv, NEW id, NEW a, NEW v, PvmWriteMemory(id, a, v)
  PROVE  TableInv' /\ (Handles!ACall \/ Handles!ASilent \/ Handles!AOther)
<1> DEFINE m == Machine(id)
           n == WithBytes(m, a, v)
<1>1. /\ request'.op = "write" /\ request'.id = id /\ request'.addr = a /\ request'.bytes = v
      /\ UNCHANGED <<nextPvmId, uses>>
  BY DEF PvmWriteMemory
<1>2. CASE id \in DOMAIN pvms
  <2>1. Becomes(id, n) /\ IsMachine(n, programs[pvms[id].program].code) /\ reply' = Written(m, a, v)
    <3>1. IsMachine(m, programs[pvms[id].program].code)
      BY JoinedIsMachine DEF Machine
    <3> QED BY <1>2, <3>1, WithBytesIsMachine DEF PvmWriteMemory, Live
  <2> HIDE DEF n
  <2>2. /\ TableInv' /\ Gone' = Gone /\ (id \notin Owners => Handles!AOther)
        /\ id \in Owners => Table' = [Table EXCEPT ![id] = n] /\ Table[id] = m
    BY <1>1, <1>2, <2>1, ChangeRefines
  <2>3. ASSUME id \in Owners PROVE Handles!ACall
    <3>1. Table' = [Table EXCEPT ![id] = Handles!WithBytes(Table[id], a, v)]
      BY <2>2, <2>3, SameGuest DEF n
    <3>2. id \in DOMAIN Table /\ reply' = Handles!Written(Table[id], a, v)
      BY <2>1, <2>2, <2>3, SameGuest DEF Table
    <3> QED BY <1>1, <2>2, <3>1, <3>2 DEF Handles!ACall, Table, Owners, Gone
  <2> QED BY <2>2, <2>3
<1>3. CASE id \notin DOMAIN pvms
  <2>1. UNCHANGED <<programs, pvms>> /\ reply' = Silence("write")
    BY <1>3 DEF PvmWriteMemory, Live
  <2> QED BY <1>1, <1>3, <2>1, SilentRefines, UnchangedTable
<1> QED BY <1>2, <1>3

LEMMA ResumeRefines ==
  ASSUME TableInv, NEW id, NEW gas \in Nat, NEW pc, PvmResume(id, gas, pc)
  PROVE  TableInv' /\ (Handles!ACall \/ Handles!ASilent \/ Handles!AOther)
<1> DEFINE m == Machine(id)
           n == Resumed(m, gas, pc)
<1>1. /\ request'.op = "resume" /\ request'.id = id /\ request'.gas = gas /\ request'.pc = pc
      /\ UNCHANGED <<nextPvmId, uses>>
  BY DEF PvmResume
<1>2. CASE id \in DOMAIN pvms
  <2>1. Becomes(id, n) /\ IsMachine(n, programs[pvms[id].program].code) /\ reply' = Pause(n)
    <3>1. IsMachine(m, programs[pvms[id].program].code)
      BY JoinedIsMachine DEF Machine
    <3> QED BY <1>2, <3>1, ResumedIsMachine DEF PvmResume, Live
  <2> HIDE DEF n
  <2>2. /\ TableInv' /\ Gone' = Gone /\ (id \notin Owners => Handles!AOther)
        /\ id \in Owners => Table' = [Table EXCEPT ![id] = n] /\ Table[id] = m
    BY <1>1, <1>2, <2>1, ChangeRefines
  <2>3. ASSUME id \in Owners PROVE Handles!ACall
    <3>1. n = Handles!Resumed(Table[id], gas, pc)
      BY <2>2, <2>3, SameResumed DEF n
    <3>2. id \in DOMAIN Table /\ reply' = Handles!Pause(n)
      BY <2>1, <2>3, SameGuest DEF Table
    <3>3. Table' = [Table EXCEPT ![id] = n]
      BY <2>2, <2>3
    <3> HIDE DEF m
    <3> QED BY <1>1, <2>2, <3>1, <3>2, <3>3 DEF Handles!ACall, Table, Owners, Gone
  <2> QED BY <2>2, <2>3
<1>3. CASE id \notin DOMAIN pvms
  <2>1. UNCHANGED <<programs, pvms>> /\ reply' = Silence("resume")
    BY <1>3 DEF PvmResume, Live
  <2> QED BY <1>1, <1>3, <2>1, SilentRefines, UnchangedTable
<1> QED BY <1>2, <1>3

LEMMA DestroyCallRefines ==
  ASSUME TableInv, NEW id, PvmDestroy(id)
  PROVE  TableInv' /\ (Handles!ADestroy \/ Handles!ASilent \/ Handles!AOther)
<1>1. CASE id \in DOMAIN pvms
  BY <1>1, DestroyKeeps, DestroyRefines
<1>2. CASE id \notin DOMAIN pvms
  <2>1. /\ request'.op = "destroy" /\ request'.id = id /\ reply' = Silence("destroy")
        /\ UNCHANGED <<programs, pvms, nextPvmId, uses>>
    BY <1>2 DEF PvmDestroy, Live
  <2> QED BY <1>2, <2>1, SilentRefines, UnchangedTable
<1> QED BY <1>1, <1>2

AbstractStep ==
  \/ Handles!AStart \/ Handles!AShare \/ Handles!ACall \/ Handles!ADestroy \/ Handles!ASilent
  \/ Handles!AOther

\* Whoever calls, with whatever arguments, as long as the gas is a number.
Call ==
  \/ \E code, regs, mem : PrepareProgram(code, regs, mem)
  \/ \E p : PvmStart(p)
  \/ \E p, pc : \E gas \in Nat : RunProgram(p, gas, pc)
  \/ \E id : \/ PvmDestroy(id)
             \/ \E values : PvmSetRegisters(id, values)
             \/ \E a, n : PvmReadMemory(id, a, n)
             \/ \E a, v : PvmWriteMemory(id, a, v)
             \/ \E pc : \E gas \in Nat : PvmResume(id, gas, pc)

LEMMA CallRefines == ASSUME TableInv, Call PROVE TableInv' /\ AbstractStep
<1>1. ASSUME NEW code, NEW regs, NEW mem, PrepareProgram(code, regs, mem) PROVE TableInv' /\ AbstractStep
  BY <1>1, PrepareKeeps, PrepareRefines DEF AbstractStep
<1>2. ASSUME NEW p, PvmStart(p) PROVE TableInv' /\ AbstractStep
  BY <1>2, StartKeeps, StartRefines DEF AbstractStep
<1>3. ASSUME NEW p, NEW pc, NEW gas \in Nat, RunProgram(p, gas, pc) PROVE TableInv' /\ AbstractStep
  BY <1>3, RunKeeps, RunRefines DEF AbstractStep
<1>4. ASSUME NEW id, PvmDestroy(id) PROVE TableInv' /\ AbstractStep
  BY <1>4, DestroyCallRefines DEF AbstractStep
<1>5. ASSUME NEW id, NEW values, PvmSetRegisters(id, values) PROVE TableInv' /\ AbstractStep
  BY <1>5, SetRegistersRefines DEF AbstractStep
<1>6. ASSUME NEW id, NEW a, NEW n, PvmReadMemory(id, a, n) PROVE TableInv' /\ AbstractStep
  BY <1>6, ReadMemoryRefines DEF AbstractStep
<1>7. ASSUME NEW id, NEW a, NEW v, PvmWriteMemory(id, a, v) PROVE TableInv' /\ AbstractStep
  BY <1>7, WriteMemoryRefines DEF AbstractStep
<1>8. ASSUME NEW id, NEW pc, NEW gas \in Nat, PvmResume(id, gas, pc) PROVE TableInv' /\ AbstractStep
  BY <1>8, ResumeRefines DEF AbstractStep
<1> QED BY <1>1, <1>2, <1>3, <1>4, <1>5, <1>6, <1>7, <1>8 DEF Call

LEMMA InitRefines == Init => Handles!AInit
BY DEF Init, Handles!AInit

LEMMA StutterRefines ==
  ASSUME TableInv, UNCHANGED apiVars
  PROVE  TableInv' /\ UNCHANGED Handles!avars
<1>1. UNCHANGED <<programs, pvms, nextPvmId, request, reply, uses>>
  BY DEF apiVars
<1>2. Owners' = Owners /\ Gone' = Gone /\ \A i \in Owners : Machine(i)' = Machine(i)
  BY <1>1 DEF Owners, Gone, Machine
<1>3. Table' = Table
  BY <1>2, SameOwners
<1> QED BY <1>1, <1>2, <1>3, UnchangedTable DEF Handles!avars, Table, Owners, Gone

LEMMA NextCalls == ASSUME Next PROVE Call
BY ApiAssumption DEF Next, Call

\* Whatever its users do, the table keeps what it promises the owner of a
\* handle: a machine that was made of a program of its own is changed by the
\* calls with its handle only, each of which makes of it and answers what it
\* would of a machine that stands alone; and a handle that was destroyed is
\* silent for good (api-utils.ts:131-263).
THEOREM HandlesTheorem == Spec => ImplementsHandles
<1>1. Init => TableInv /\ Handles!AInit
  BY InitTable, InitRefines
<1>2. TableInv /\ [Next]_apiVars => TableInv' /\ [AbstractStep]_Handles!avars
  <2>1. ASSUME TableInv, Next PROVE TableInv' /\ AbstractStep
    BY <2>1, NextCalls, CallRefines
  <2>2. ASSUME TableInv, UNCHANGED apiVars PROVE TableInv' /\ UNCHANGED Handles!avars
    BY <2>2, StutterRefines
  <2> QED BY <2>1, <2>2
<1> QED BY <1>1, <1>2, PTL DEF Spec, ImplementsHandles, Handles!ASpec, AbstractStep

-----------------------------------------------------------------------------
(* Sequences.                                                              *)

IsSeq(s) == s \in Seq(Range(s))

LEMMA SeqIs == ASSUME NEW S, NEW s \in Seq(S) PROVE IsSeq(s)
<1>1. Len(s) \in Nat /\ DOMAIN s = 1 .. Len(s) /\ s = [i \in 1 .. Len(s) |-> s[i]]
  OBVIOUS
<1>2. Range(s) = {s[i] : i \in 1 .. Len(s)}
  BY <1>1 DEF Range
<1>3. [i \in 1 .. Len(s) |-> s[i]] \in Seq({s[i] : i \in 1 .. Len(s)})
  BY <1>1, SequenceOfItself
<1> QED BY <1>1, <1>2, <1>3 DEF IsSeq

LEMMA EmptyIsSeq == IsSeq(<<>>)
BY DEF IsSeq

LEMMA AppendIsSeq ==
  ASSUME NEW s, IsSeq(s), NEW e
  PROVE  /\ IsSeq(Append(s, e)) /\ Len(Append(s, e)) = Len(s) + 1 /\ Len(s) \in Nat
         /\ DOMAIN s = 1 .. Len(s) /\ DOMAIN Append(s, e) = 1 .. Len(s) + 1
         /\ \A i \in DOMAIN s : Append(s, e)[i] = s[i]
         /\ Append(s, e)[Len(s) + 1] = e
<1> DEFINE S == Range(s) \cup {e}
<1>1. s \in Seq(S) /\ e \in S
  <2>1. Range(s) \subseteq S
    OBVIOUS
  <2> HIDE DEF S
  <2> QED BY <2>1, SeqMonotonic DEF IsSeq, S
<1> HIDE DEF S
<1>2. /\ Append(s, e) \in Seq(S) /\ Append(s, e) # << >> /\ Len(Append(s, e)) = Len(s) + 1
      /\ \A i \in 1 .. Len(s) : Append(s, e)[i] = s[i]
      /\ Append(s, e)[Len(s) + 1] = e
  BY <1>1, AppendProperties
<1>3. Len(s) \in Nat /\ DOMAIN s = 1 .. Len(s) /\ DOMAIN Append(s, e) = 1 .. Len(s) + 1
  BY <1>1, <1>2
<1> QED BY <1>2, <1>3, SeqIs

LEMMA TailIsSeq ==
  ASSUME NEW s, IsSeq(s), s # <<>>
  PROVE  /\ IsSeq(Tail(s)) /\ Len(Tail(s)) = Len(s) - 1 /\ Len(s) \in Nat \ {0}
         /\ DOMAIN s = 1 .. Len(s) /\ DOMAIN Tail(s) = 1 .. Len(s) - 1
         /\ Head(s) = s[1] /\ \A i \in 1 .. Len(s) - 1 : Tail(s)[i] = s[i + 1]
<1>1. s \in Seq(Range(s))
  BY DEF IsSeq
<1>2. Tail(s) \in Seq(Range(s)) /\ Len(Tail(s)) = Len(s) - 1
      /\ \A i \in 1 .. Len(Tail(s)) : Tail(s)[i] = s[i + 1]
  BY <1>1, HeadTailProperties
<1>3. Len(s) \in Nat \ {0} /\ DOMAIN s = 1 .. Len(s) /\ Head(s) = s[1]
  BY <1>1
<1>4. DOMAIN Tail(s) = 1 .. Len(s) - 1
  BY <1>2, <1>3
<1> QED BY <1>2, <1>3, <1>4, SeqIs

\* What is left of a sequence after its first k elements.
Rest(s, k) == SubSeq(s, k + 1, Len(s))

LEMMA RestOf ==
  ASSUME NEW s, IsSeq(s)
  PROVE  /\ Len(s) \in Nat /\ Rest(s, 0) = s
         /\ \A k \in 0 .. Len(s) :
              /\ Rest(s, k) = <<>> <=> k = Len(s)
              /\ k < Len(s) => Head(Rest(s, k)) = s[k + 1] /\ Tail(Rest(s, k)) = Rest(s, k + 1)
<1> DEFINE n == Len(s)
           S == Range(s)
<1>1. s \in Seq(S) /\ n \in Nat
  BY DEF IsSeq
<1>2. Rest(s, 0) = s
  BY <1>1, SubSeqFull DEF Rest
<1> HIDE DEF S
<1>3. ASSUME NEW k \in 0 .. n
      PROVE  /\ Rest(s, k) = <<>> <=> k = n
             /\ k < n => Head(Rest(s, k)) = s[k + 1] /\ Tail(Rest(s, k)) = Rest(s, k + 1)
  <2>1. CASE k = n
    <3>1. k + 1 \in Int /\ n \in Int /\ n < k + 1
      BY <1>1, <2>1
    <3>2. SubSeq(s, k + 1, n) = <<>>
      BY <3>1, SubSeqEmpty
    <3> QED BY <1>1, <2>1, <3>2 DEF Rest
  <2>2. CASE k < n
    <3>1. k + 1 \in 1 .. n /\ n \in k + 1 .. n /\ k + 1 \in Int /\ n \in Int
      BY <1>1, <2>2
    <3>2. Head(SubSeq(s, k + 1, n)) = s[k + 1] /\ Tail(SubSeq(s, k + 1, n)) = SubSeq(s, (k + 1) + 1, n)
      BY <1>1, <3>1, HeadTailOfSubSeq
    <3>3. Len(SubSeq(s, k + 1, n)) = n - (k + 1) + 1
      <4>1. \A i \in k + 1 .. n : s[i] \in S
        BY <1>1, <3>1
      <4>2. Len(SubSeq(s, k + 1, n)) = IF k + 1 <= n THEN n - (k + 1) + 1 ELSE 0
        BY <3>1, <4>1, SubSeqProperties
      <4> QED BY <3>1, <4>2
    <3>4. SubSeq(s, k + 1, n) # <<>>
      <4>1. Len(SubSeq(s, k + 1, n)) # 0
        BY <1>1, <2>2, <3>3
      <4>2. Len(<<>>) = 0
        OBVIOUS
      <4> QED BY <4>1, <4>2
    <3> QED BY <2>2, <3>2, <3>4 DEF Rest
  <2> QED BY <1>1, <2>1, <2>2
<1> QED BY <1>1, <1>2, <1>3

-----------------------------------------------------------------------------
(* Folds: what FoldLeft computes, and the functions along a sequence that  *)
(* ParseTrace and Recording define.                                        *)

\* One step of Recording.
FirstRun(p, start) ==
  [m |-> Resumed(Fresh(p.code, p.regs, p.mem), start.gas, start.pc), entries |-> <<>>, possible |-> TRUE]
NextRun(r, a) ==
  IF r.m.status # "HOST" THEN r
  ELSE [m |-> Answered(r.m, a), entries |-> Append(r.entries, Seen(r.m, a)),
        possible |-> r.possible /\ Granted(r.m, a)]

\* One step of each fold: kind says which.
FoldStep(kind, s, e) ==
  CASE kind = "set" -> Set(s, e)
    [] kind = "write" -> WithBytes(s, e.addr, e.bytes)
    [] kind = "parse" -> ParseLine(s, e)
    [] kind = "record" -> NextRun(s, e)

\* What MapThenFoldSet recurs on, and the same along the sequence.
Folding(kind, base, seq, g) ==
  g = [s \in SUBSET DOMAIN seq |->
         IF s = {} THEN base ELSE FoldStep(kind, g[s \ {Max(s)}], seq[Max(s)])]

LEMMA SetFolds ==
  ASSUME NEW base, NEW seq
  PROVE  FoldLeft(Set, base, seq) = (CHOOSE g : Folding("set", base, seq, g))[DOMAIN seq]
BY DEF FoldLeft, MapThenFoldSet, Folding, FoldStep

LEMMA WriteFolds ==
  ASSUME NEW m, NEW a
  PROVE  Wrote(m, a) = (CHOOSE g : Folding("write", m, a.writes, g))[DOMAIN a.writes]
BY DEF Wrote, FoldLeft, MapThenFoldSet, Folding, FoldStep

\* The fold of the first n elements.
Folded(kind, base, seq, n) == (CHOOSE g : Folding(kind, base, seq, g))[1 .. n]

LEMMA FoldingsExist ==
  ASSUME NEW kind, NEW base, NEW seq, NEW n \in Nat, DOMAIN seq = 1 .. n
  PROVE  \E g : Folding(kind, base, seq, g)
<1> DEFINE Upto(k, g) == g = [s \in SUBSET (1 .. k) |->
             IF s = {} THEN base ELSE FoldStep(kind, g[s \ {Max(s)}], seq[Max(s)])]
           bad == {k \in Nat : ~\E g : Upto(k, g)}
<1>1. SUFFICES ASSUME bad # {} PROVE FALSE
  <2>1. CASE bad = {}
    <3>1. PICK g : Upto(n, g)
      BY <2>1
    <3>2. Folding(kind, base, seq, g)
      BY <3>1 DEF Folding
    <3> QED BY <3>2
  <2> QED BY <2>1
<1>2. PICK k \in bad : \A j \in bad : k <= j
  <2>1. bad \subseteq Nat
    OBVIOUS
  <2> HIDE DEF bad
  <2> QED BY <1>1, <2>1, LeastElement
<1>3. CASE k = 0
  <2> DEFINE g == [s \in SUBSET (1 .. 0) |-> base]
  <2>1. \A s \in SUBSET (1 .. 0) : s = {}
    OBVIOUS
  <2>2. Upto(0, g)
    BY <2>1
  <2> HIDE DEF g
  <2>3. \E f : Upto(0, f)
    BY <2>2
  <2> QED BY <1>2, <1>3, <2>3
<1>4. CASE k # 0
  <2> HIDE DEF Upto
  <2>1. k - 1 \in Nat /\ k - 1 \notin bad /\ k \in Nat
    BY <1>2, <1>4
  <2>2. PICK f : Upto(k - 1, f)
    BY <2>1
  <2> DEFINE g == [s \in SUBSET (1 .. k) |-> IF k \in s THEN FoldStep(kind, f[s \ {k}], seq[k]) ELSE f[s]]
  <2>3. ASSUME NEW s \in SUBSET (1 .. k)
        PROVE  g[s] = IF s = {} THEN base ELSE FoldStep(kind, g[s \ {Max(s)}], seq[Max(s)])
    <3>1. CASE k \in s
      <4>1. Max(s) = k
        <5>1. s \subseteq Nat /\ \A i \in s : i <= k
          BY <2>1
        <5> QED BY <3>1, <5>1, MaxIs
      <4>2. s \ {k} \in SUBSET (1 .. k) /\ k \notin s \ {k}
        OBVIOUS
      <4>3. g[s \ {k}] = f[s \ {k}] /\ g[s] = FoldStep(kind, f[s \ {k}], seq[k])
        BY <3>1, <4>2
      <4> QED BY <3>1, <4>1, <4>3
    <3>2. CASE k \notin s
      <4>1. s \in SUBSET (1 .. k - 1)
        BY <2>1, <3>2
      <4>2. f[s] = IF s = {} THEN base ELSE FoldStep(kind, f[s \ {Max(s)}], seq[Max(s)])
        BY <2>2, <4>1 DEF Upto
      <4>3. s \ {Max(s)} \in SUBSET (1 .. k) /\ k \notin s \ {Max(s)}
        BY <3>2
      <4>4. g[s] = f[s] /\ g[s \ {Max(s)}] = f[s \ {Max(s)}]
        BY <3>2, <4>3
      <4> QED BY <4>2, <4>4
    <3> QED BY <3>1, <3>2
  <2>4. g = [s \in SUBSET (1 .. k) |-> g[s]]
    OBVIOUS
  <2> HIDE DEF g
  <2>5. Upto(k, g)
    BY <2>3, <2>4 DEF Upto
  <2> QED BY <1>2, <2>5
<1> QED BY <1>3, <1>4

Folds(kind, base, seq, n) ==
  /\ Folded(kind, base, seq, 0) = base
  /\ \A i \in 1 .. n : Folded(kind, base, seq, i)
                         = FoldStep(kind, Folded(kind, base, seq, i - 1), seq[i])

LEMMA FoldsOn ==
  ASSUME NEW kind, NEW base, NEW seq, NEW n \in Nat, DOMAIN seq = 1 .. n
  PROVE  Folds(kind, base, seq, n)
<1> DEFINE g == CHOOSE g : Folding(kind, base, seq, g)
<1>1. Folding(kind, base, seq, g)
  BY FoldingsExist
<1> HIDE DEF g
<1>2. g[1 .. 0] = base
  <2>1. 1 .. 0 = {} /\ {} \in SUBSET DOMAIN seq
    OBVIOUS
  <2> QED BY <1>1, <2>1 DEF Folding
<1>3. ASSUME NEW i \in 1 .. n
      PROVE  g[1 .. i] = FoldStep(kind, g[1 .. i - 1], seq[i])
  <2>1. 1 .. i \in SUBSET DOMAIN seq /\ i \in 1 .. i /\ 1 .. i \subseteq Nat /\ \A j \in 1 .. i : j <= i
    OBVIOUS
  <2>2. Max(1 .. i) = i
    BY <2>1, MaxIs
  <2>3. (1 .. i) \ {i} = 1 .. i - 1
    OBVIOUS
  <2>4. g[1 .. i] = FoldStep(kind, g[(1 .. i) \ {i}], seq[i])
    BY <1>1, <2>1, <2>2 DEF Folding
  <2> QED BY <2>3, <2>4
<1> QED BY <1>2, <1>3 DEF g, Folded, Folds

\* The fold of a prefix is a value on the way.
LEMMA FoldOfPrefix ==
  ASSUME NEW kind, NEW base, NEW seq, NEW n \in Nat, DOMAIN seq = 1 .. n,
         NEW k \in 0 .. n, NEW pre, DOMAIN pre = 1 .. k, \A i \in 1 .. k : pre[i] = seq[i]
  PROVE  Folded(kind, base, pre, k) = Folded(kind, base, seq, k)
<1> DEFINE P(i) == Folded(kind, base, pre, i)
           Q(i) == Folded(kind, base, seq, i)
           bad == {i \in 0 .. k : P(i) # Q(i)}
<1>1. P(0) = base /\ \A i \in 1 .. k : P(i) = FoldStep(kind, P(i - 1), pre[i])
  <2>1. k \in Nat
    OBVIOUS
  <2>2. Folds(kind, base, pre, k)
    BY <2>1, FoldsOn
  <2> QED BY <2>2 DEF Folds
<1>2. Q(0) = base /\ \A i \in 1 .. n : Q(i) = FoldStep(kind, Q(i - 1), seq[i])
  <2>1. Folds(kind, base, seq, n)
    BY FoldsOn
  <2> QED BY <2>1 DEF Folds
<1> HIDE DEF P, Q
<1>3. SUFFICES ASSUME bad # {} PROVE FALSE
  BY DEF P, Q
<1>4. PICK i \in bad : \A j \in bad : i <= j
  <2>1. bad \subseteq Nat
    OBVIOUS
  <2> HIDE DEF bad
  <2> QED BY <1>3, <2>1, LeastElement
<1>5. i # 0
  BY <1>1, <1>2, <1>4
<1>6. i \in 1 .. k /\ i \in 1 .. n /\ i - 1 \notin bad /\ i - 1 \in 0 .. k
  BY <1>4, <1>5
<1>7. P(i) = Q(i)
  BY <1>1, <1>2, <1>6
<1> QED BY <1>4, <1>7

\* What a function that is defined along the sequence computes.
Along(kind, base, seq, n, f) ==
  f = [k \in 0 .. n |-> IF k = 0 THEN base ELSE FoldStep(kind, f[k - 1], seq[k])]

LEMMA AlongExists ==
  ASSUME NEW kind, NEW base, NEW seq, NEW n \in Nat, DOMAIN seq = 1 .. n
  PROVE  \E f : Along(kind, base, seq, n, f)
<1> DEFINE f == [k \in 0 .. n |-> Folded(kind, base, seq, k)]
<1>1. Folds(kind, base, seq, n)
  BY FoldsOn
<1>2. ASSUME NEW k \in 0 .. n
      PROVE  f[k] = IF k = 0 THEN base ELSE FoldStep(kind, f[k - 1], seq[k])
  <2>1. k # 0 => k - 1 \in 0 .. n /\ k \in 1 .. n
    OBVIOUS
  <2> QED BY <1>1, <2>1 DEF Folds
<1>3. f = [k \in 0 .. n |-> f[k]]
  OBVIOUS
<1> HIDE DEF f
<1>4. Along(kind, base, seq, n, f)
  BY <1>2, <1>3 DEF Along
<1> QED BY <1>4

LEMMA AlongIs ==
  ASSUME NEW kind, NEW base, NEW seq, NEW n \in Nat, DOMAIN seq = 1 .. n,
         NEW f, Along(kind, base, seq, n, f)
  PROVE  f[n] = Folded(kind, base, seq, n)
<1> DEFINE Q(k) == Folded(kind, base, seq, k)
           bad == {k \in 0 .. n : f[k] # Q(k)}
<1>1. Q(0) = base /\ \A i \in 1 .. n : Q(i) = FoldStep(kind, Q(i - 1), seq[i])
  <2>1. Folds(kind, base, seq, n)
    BY FoldsOn
  <2> QED BY <2>1 DEF Folds
<1> HIDE DEF Q
<1>2. SUFFICES ASSUME bad # {} PROVE FALSE
  BY DEF Q
<1>3. PICK k \in bad : \A j \in bad : k <= j
  <2>1. bad \subseteq Nat
    OBVIOUS
  <2> HIDE DEF bad
  <2> QED BY <1>2, <2>1, LeastElement
<1>4. f[k] = IF k = 0 THEN base ELSE FoldStep(kind, f[k - 1], seq[k])
  BY <1>3 DEF Along
<1>5. k # 0 => k \in 1 .. n /\ k - 1 \in 0 .. n /\ k - 1 \notin bad
  BY <1>3
<1>6. f[k] = Q(k)
  BY <1>1, <1>4, <1>5
<1> QED BY <1>3, <1>6

LEMMA RecordFolds ==
  ASSUME NEW p, NEW start, NEW answers, NEW n \in Nat, DOMAIN answers = 1 .. n, Len(answers) = n
  PROVE  Recording(p, start, answers) = Folded("record", FirstRun(p, start), answers, n)
<1> DEFINE Is(f) ==
      f = [k \in 0 .. Len(answers) |->
             IF k = 0 THEN [m |-> Resumed(Fresh(p.code, p.regs, p.mem), start.gas, start.pc),
                            entries |-> <<>>, possible |-> TRUE]
             ELSE IF f[k - 1].m.status # "HOST" THEN f[k - 1]
                  ELSE [m |-> Answered(f[k - 1].m, answers[k]),
                        entries |-> Append(f[k - 1].entries, Seen(f[k - 1].m, answers[k])),
                        possible |-> f[k - 1].possible /\ Granted(f[k - 1].m, answers[k])]]
           run == CHOOSE f : Is(f)
<1>1. Recording(p, start, answers) = run[Len(answers)]
  BY DEF Recording
<1>2. ASSUME NEW f PROVE Is(f) <=> Along("record", FirstRun(p, start), answers, n, f)
  BY DEF Along, FoldStep, NextRun, FirstRun
<1> HIDE DEF Is
<1>3. Is(run)
  <2>1. PICK f : Along("record", FirstRun(p, start), answers, n, f)
    BY AlongExists
  <2> QED BY <1>2, <2>1
<1> HIDE DEF run
<1>4. Along("record", FirstRun(p, start), answers, n, run)
  BY <1>2, <1>3
<1> QED BY <1>1, <1>4, AlongIs

Parsed(ls, n) == Folded("parse", NOTHING, ls, n)
Complete(t) == t # THROWN /\ NULL \notin {t.blob, t.start, t.termination}

LEMMA ParseFolds ==
  ASSUME NEW ls, NEW n \in Nat, DOMAIN ls = 1 .. n, Len(ls) = n
  PROVE  ParseTrace(ls) = IF Complete(Parsed(ls, n)) THEN Parsed(ls, n) ELSE THROWN
<1> DEFINE Only(S) == CHOOSE t \in S : TRUE
           Is(f) == f = [k \in 0 .. Len(ls) |->
                      IF k = 0 THEN NOTHING ELSE Only({ParseLine(t, ls[k]) : t \in {f[k - 1]}})]
           parsed == CHOOSE f : Is(f)
<1>1. ParseTrace(ls) = Only({IF Complete(t) THEN t ELSE THROWN : t \in {parsed[Len(ls)]}})
  BY DEF ParseTrace, Complete
<1>2. ASSUME NEW x, NEW y PROVE Only({ParseLine(t, y) : t \in {x}}) = ParseLine(x, y)
  OBVIOUS
<1>3. ASSUME NEW x PROVE Only({IF Complete(t) THEN t ELSE THROWN : t \in {x}})
                           = IF Complete(x) THEN x ELSE THROWN
  OBVIOUS
<1> HIDE DEF Only
<1>4. ASSUME NEW f PROVE Is(f) <=> Along("parse", NOTHING, ls, n, f)
  BY <1>2 DEF Along, FoldStep
<1> HIDE DEF Is
<1>5. Is(parsed)
  <2>1. PICK f : Along("parse", NOTHING, ls, n, f)
    BY AlongExists
  <2> QED BY <1>4, <2>1
<1> HIDE DEF parsed
<1>6. Along("parse", NOTHING, ls, n, parsed)
  BY <1>4, <1>5
<1>7. parsed[n] = Parsed(ls, n)
  BY <1>6, AlongIs DEF Parsed
<1> QED BY <1>1, <1>3, <1>7

-----------------------------------------------------------------------------
(* What parseTrace makes of lines.                                         *)

EntryFields == {"index", "pc", "gas", "regs", "reads", "writes", "setRegs", "setGas"}
IsChunk(c) == c = [addr |-> c.addr, bytes |-> c.bytes] /\ c.bytes # <<>>
IsEntry(e) ==
  /\ e = [f \in EntryFields |-> e[f]] /\ IsDump(e.regs)
  /\ IsSeq(e.reads) /\ IsSeq(e.writes) /\ IsSeq(e.setRegs)
  /\ \A i \in DOMAIN e.reads : IsChunk(e.reads[i])
  /\ e.setGas = <<>> \/ \E g \in Nat : e.setGas = <<g>>
AreEntries(es) == IsSeq(es) /\ \A i \in DOMAIN es : IsEntry(es[i])

ParseFields == {"blob", "initial", "start", "entries", "termination", "current"}
IsTermination(line) ==
  line.is = "termination" /\ line = [f \in {"is", "type", "pc", "gas", "regs", "code"} |-> line[f]]
IsParse(t) ==
  /\ t = [f \in ParseFields |-> t[f]]
  /\ AreEntries(t.entries) /\ t.current \in {NoEntry} \cup DOMAIN t.entries
  /\ t.start # NULL => t.start.gas \in Nat
  /\ t.termination # NULL => IsTermination(t.termination)

LEMMA EntryIsEntry ==
  ASSUME NEW line, line.is = "ecalli", IsLine(line)
  PROVE  IsEntry(Entry(line))
<1>1. line.is \in DOMAIN LineFields /\ line = [f \in {"is", "index", "pc", "gas", "regs"} |-> line[f]]
  BY DEF IsLine, LineFields
<1>2. "regs" \in DOMAIN line
  BY <1>1
<1>3. IsDump(line.regs)
  BY <1>2 DEF IsLine
<1>4. Entry(line) = [f \in EntryFields |-> Entry(line)[f]]
  BY DEF Entry, EntryFields
<1>5. /\ Entry(line).regs = line.regs /\ Entry(line).reads = <<>> /\ Entry(line).writes = <<>>
      /\ Entry(line).setRegs = <<>> /\ Entry(line).setGas = <<>>
  BY DEF Entry
<1>6. DOMAIN <<>> = {}
  OBVIOUS
<1> HIDE DEF Entry
<1> QED BY <1>3, <1>4, <1>5, <1>6, EmptyIsSeq DEF IsEntry

\* What an entry becomes of a line that belongs to it.
LEMMA EntryGrows ==
  ASSUME NEW e, IsEntry(e), NEW field \in {"reads", "writes", "setRegs"}, NEW item,
         field = "reads" => IsChunk(item)
  PROVE  IsEntry([e EXCEPT ![field] = Append(@, item)])
<1> DEFINE n == [e EXCEPT ![field] = Append(@, item)]
<1>1. e = [f \in EntryFields |-> e[f]] /\ field \in EntryFields
  BY DEF IsEntry, EntryFields
<1>2. /\ n = [f \in EntryFields |-> n[f]] /\ n[field] = Append(e[field], item)
      /\ \A f \in EntryFields : f # field => n[f] = e[f]
  BY <1>1
<1> HIDE DEF n
<1>3. IsSeq(e[field])
  BY DEF IsEntry
<1>4. /\ IsSeq(Append(e[field], item)) /\ Len(e[field]) \in Nat
      /\ DOMAIN e[field] = 1 .. Len(e[field]) /\ DOMAIN Append(e[field], item) = 1 .. Len(e[field]) + 1
      /\ \A i \in DOMAIN e[field] : Append(e[field], item)[i] = e[field][i]
      /\ Append(e[field], item)[Len(e[field]) + 1] = item
  BY <1>3, AppendIsSeq
<1>5. ASSUME NEW i \in DOMAIN n.reads PROVE IsChunk(n.reads[i])
  <2>1. CASE field = "reads"
    <3>1. n.reads = Append(e[field], item) /\ IsChunk(item) /\ e[field] = e.reads
      BY <1>2, <2>1
    <3>2. i \in 1 .. Len(e[field]) + 1
      BY <1>4, <3>1
    <3>3. CASE i = Len(e[field]) + 1
      BY <1>4, <3>1, <3>3
    <3>4. CASE i # Len(e[field]) + 1
      <4>1. i \in DOMAIN e[field]
        BY <1>4, <3>2, <3>4
      <4>2. n.reads[i] = e.reads[i] /\ i \in DOMAIN e.reads
        BY <1>4, <3>1, <4>1
      <4> QED BY <4>2 DEF IsEntry
    <3> QED BY <3>3, <3>4
  <2>2. CASE field # "reads"
    <3>1. n.reads = e.reads
      BY <1>2, <2>2 DEF EntryFields
    <3> QED BY <3>1 DEF IsEntry
  <2> QED BY <2>1, <2>2
<1>6. n.regs = e.regs /\ n.setGas = e.setGas
  BY <1>2 DEF EntryFields
<1>7. IsSeq(n.reads) /\ IsSeq(n.writes) /\ IsSeq(n.setRegs)
  BY <1>2, <1>4 DEF IsEntry, EntryFields
<1> QED BY <1>2, <1>5, <1>6, <1>7 DEF IsEntry, n

LEMMA EntriesChange ==
  ASSUME NEW t, IsParse(t), t.current # NoEntry, NEW e, IsEntry(e)
  PROVE  IsParse([t EXCEPT !.entries[t.current] = e])
<1> DEFINE n == [t EXCEPT !.entries[t.current] = e]
           es == [t.entries EXCEPT ![t.current] = e]
<1>1. t = [f \in ParseFields |-> t[f]] /\ t.current \in DOMAIN t.entries /\ IsSeq(t.entries)
  BY DEF IsParse, AreEntries
<1>2. /\ n = [f \in ParseFields |-> n[f]] /\ n.entries = es
      /\ \A f \in ParseFields : f # "entries" => n[f] = t[f]
  BY <1>1 DEF ParseFields
<1> HIDE DEF n
<1>3. IsSeq(es) /\ DOMAIN es = DOMAIN t.entries
  <2>1. t.entries \in Seq(Range(t.entries) \cup {e}) /\ e \in Range(t.entries) \cup {e}
    <3>1. t.entries \in Seq(Range(t.entries)) /\ Range(t.entries) \subseteq Range(t.entries) \cup {e}
      BY <1>1 DEF IsSeq
    <3> QED BY <3>1, SeqMonotonic
  <2>2. t.current \in 1 .. Len(t.entries)
    BY <1>1, <2>1
  <2>3. es \in Seq(Range(t.entries) \cup {e})
    BY <2>1, <2>2, ExceptSeq
  <2> QED BY <2>3, SeqIs
<1>4. \A i \in DOMAIN es : IsEntry(es[i])
  BY <1>3 DEF IsParse, AreEntries
<1> HIDE DEF es
<1>5. n.current = t.current /\ n.start = t.start /\ n.termination = t.termination
  BY <1>2 DEF ParseFields
<1> QED BY <1>1, <1>2, <1>3, <1>4, <1>5 DEF IsParse, AreEntries, n

LEMMA ToEntryParses ==
  ASSUME NEW t, IsParse(t), NEW field \in {"reads", "writes", "setRegs"}, NEW item,
         field = "reads" => IsChunk(item)
  PROVE  ToEntry(t, field, item) = THROWN \/ IsParse(ToEntry(t, field, item))
<1>1. SUFFICES ASSUME t.current # NoEntry
               PROVE  IsParse([t EXCEPT !.entries[t.current][field] = Append(@, item)])
  BY DEF ToEntry
<1> DEFINE e == [t.entries[t.current] EXCEPT ![field] = Append(@, item)]
<1>2. t.current \in DOMAIN t.entries /\ IsEntry(t.entries[t.current])
  BY <1>1 DEF IsParse, AreEntries
<1>3. IsEntry(e)
  BY <1>2, EntryGrows
<1>4. [t EXCEPT !.entries[t.current][field] = Append(@, item)] = [t EXCEPT !.entries[t.current] = e]
  OBVIOUS
<1> HIDE DEF e
<1> QED BY <1>1, <1>3, <1>4, EntriesChange

LEMMA FieldsOfLine ==
  ASSUME NEW line, IsLine(line)
  PROVE  /\ line.is \in DOMAIN LineFields
         /\ line.is = "start" => line.gas \in Nat
         /\ line.is = "setgas" => line.gas \in Nat
         /\ line.is = "termination" => IsTermination(line)
<1>1. line.is \in DOMAIN LineFields /\ line = [f \in LineFields[line.is] |-> line[f]]
  BY DEF IsLine
<1>2. DOMAIN line = LineFields[line.is]
  BY <1>1
<1>3. (line.is = "start" \/ line.is = "setgas") => "gas" \in LineFields[line.is]
  BY DEF LineFields
<1>4. line.is = "termination" => LineFields[line.is] = {"is", "type", "pc", "gas", "regs", "code"}
  BY DEF LineFields
<1> QED BY <1>1, <1>2, <1>3, <1>4 DEF IsLine, IsTermination

LEMMA ParseLineParses ==
  ASSUME NEW t, IsParse(t), NEW line, IsLine(line)
  PROVE  ParseLine(t, line) = THROWN \/ IsParse(ParseLine(t, line))
<1>1. SUFFICES ASSUME t # THROWN, ~Malformed(line)
               PROVE  ParseLine(t, line) = THROWN \/ IsParse(ParseLine(t, line))
  BY DEF ParseLine
<1>2. t = [f \in ParseFields |-> t[f]] /\ AreEntries(t.entries) /\ t.current \in {NoEntry} \cup DOMAIN t.entries
  BY DEF IsParse
<1>3. CASE line.is = "program"
  <2>1. ParseLine(t, line) = [t EXCEPT !.blob = line.blob]
    BY <1>1, <1>3 DEF ParseLine
  <2> QED BY <1>2, <2>1 DEF IsParse, ParseFields
<1>4. CASE line.is = "start"
  <2>1. ParseLine(t, line) = [t EXCEPT !.start = line] /\ line.gas \in Nat
    BY <1>1, <1>4, FieldsOfLine DEF ParseLine
  <2> QED BY <1>2, <2>1 DEF IsParse, ParseFields
<1>5. CASE line.is = "ecalli"
  <2> DEFINE e == Entry(line)
             es == Append(t.entries, e)
             n == [t EXCEPT !.entries = es, !.current = Len(t.entries) + 1]
  <2>1. ParseLine(t, line) = n
    BY <1>1, <1>5 DEF ParseLine
  <2>2. IsEntry(e)
    BY <1>5, EntryIsEntry
  <2> HIDE DEF e
  <2>3. /\ IsSeq(es) /\ Len(t.entries) \in Nat /\ DOMAIN t.entries = 1 .. Len(t.entries)
        /\ DOMAIN es = 1 .. Len(t.entries) + 1
        /\ \A i \in DOMAIN t.entries : es[i] = t.entries[i] /\ es[Len(t.entries) + 1] = e
        /\ es[Len(t.entries) + 1] = e
    <3>1. IsSeq(t.entries)
      BY <1>2 DEF AreEntries
    <3> QED BY <3>1, AppendIsSeq
  <2> HIDE DEF es
  <2>4. AreEntries(es)
    <3>1. ASSUME NEW i \in DOMAIN es PROVE IsEntry(es[i])
      <4>1. CASE i = Len(t.entries) + 1
        BY <2>2, <2>3, <4>1
      <4>2. CASE i # Len(t.entries) + 1
        <5>1. i \in DOMAIN t.entries
          BY <2>3, <4>2
        <5> QED BY <1>2, <2>3, <5>1 DEF AreEntries
      <4> QED BY <4>1, <4>2
    <3> QED BY <2>3, <3>1 DEF AreEntries
  <2>5. Len(t.entries) + 1 \in DOMAIN es
    BY <2>3
  <2>6. /\ n = [f \in ParseFields |-> n[f]] /\ n.entries = es /\ n.current = Len(t.entries) + 1
        /\ n.start = t.start /\ n.termination = t.termination
    BY <1>2 DEF ParseFields
  <2> HIDE DEF n
  <2>7. IsParse(n)
    BY <2>4, <2>5, <2>6 DEF IsParse
  <2> QED BY <2>1, <2>7
<1>6. CASE line.is = "memwrite"
  <2>1. ParseLine(t, line) = IF t.current = NoEntry
                             THEN [t EXCEPT !.initial = Append(@, Chunk(line))]
                             ELSE ToEntry(t, "writes", Chunk(line))
    BY <1>1, <1>6 DEF ParseLine
  <2>2. IsParse([t EXCEPT !.initial = Append(@, Chunk(line))])
    BY <1>2 DEF IsParse, ParseFields
  <2> QED BY <2>1, <2>2, ToEntryParses
<1>7. CASE line.is = "memread"
  <2>1. ParseLine(t, line) = ToEntry(t, "reads", Chunk(line))
    BY <1>1, <1>7 DEF ParseLine
  <2>2. IsChunk(Chunk(line))
    BY <1>1, <1>7 DEF Malformed, Chunk, IsChunk
  <2> QED BY <2>1, <2>2, ToEntryParses
<1>8. CASE line.is = "setreg"
  <2>1. ParseLine(t, line) = ToEntry(t, "setRegs", [reg |-> line.reg, value |-> line.value])
    BY <1>1, <1>8 DEF ParseLine
  <2> QED BY <2>1, ToEntryParses
<1>9. CASE line.is = "setgas"
  <2>1. ParseLine(t, line) = IF t.current = NoEntry THEN THROWN
                             ELSE [t EXCEPT !.entries[t.current].setGas = <<line.gas>>]
    BY <1>1, <1>9 DEF ParseLine
  <2>2. ASSUME t.current # NoEntry
        PROVE  IsParse([t EXCEPT !.entries[t.current].setGas = <<line.gas>>])
    <3> DEFINE e == [t.entries[t.current] EXCEPT !.setGas = <<line.gas>>]
    <3>1. IsEntry(t.entries[t.current]) /\ line.gas \in Nat
      BY <1>2, <1>9, <2>2, FieldsOfLine DEF AreEntries
    <3>2. IsEntry(e)
      BY <3>1 DEF IsEntry, EntryFields
    <3>3. [t EXCEPT !.entries[t.current].setGas = <<line.gas>>] = [t EXCEPT !.entries[t.current] = e]
      OBVIOUS
    <3> HIDE DEF e
    <3> QED BY <2>2, <3>2, <3>3, EntriesChange
  <2> QED BY <2>1, <2>2
<1>10. CASE line.is = "termination"
  <2>1. ParseLine(t, line) = [t EXCEPT !.termination = line, !.current = NoEntry] /\ IsTermination(line)
    BY <1>1, <1>10, FieldsOfLine DEF ParseLine
  <2> QED BY <1>2, <2>1 DEF IsParse, ParseFields
<1> QED BY <1>3, <1>4, <1>5, <1>6, <1>7, <1>8, <1>9, <1>10, FieldsOfLine DEF LineFields

\* A trace that parses has typed entries, begins with gas, and ends with a
\* termination.
LEMMA TraceIsTyped ==
  ASSUME NEW ls, IsTrace(ls), ParseTrace(ls) # THROWN
  PROVE  IsParse(ParseTrace(ls)) /\ Complete(ParseTrace(ls))
<1> DEFINE n == Len(ls)
           bad == {k \in 0 .. n : ~(Parsed(ls, k) = THROWN \/ IsParse(Parsed(ls, k)))}
<1>1. n \in Nat /\ DOMAIN ls = 1 .. n
  BY DEF IsTrace
<1>2. Parsed(ls, 0) = NOTHING /\ \A k \in 1 .. n : Parsed(ls, k) = ParseLine(Parsed(ls, k - 1), ls[k])
  <2> HIDE DEF n
  <2>1. Folds("parse", NOTHING, ls, n)
    BY <1>1, FoldsOn
  <2> QED BY <2>1 DEF Folds, Parsed, FoldStep
<1>3. ParseTrace(ls) = IF Complete(Parsed(ls, n)) THEN Parsed(ls, n) ELSE THROWN
  BY <1>1, ParseFolds
<1> HIDE DEF n
<1>4. SUFFICES ASSUME bad # {} PROVE FALSE
  BY <1>1, <1>3 DEF Complete
<1>5. PICK k \in bad : \A j \in bad : k <= j
  <2>1. bad \subseteq Nat
    OBVIOUS
  <2> HIDE DEF bad
  <2> QED BY <1>4, <2>1, LeastElement
<1>6. CASE k = 0
  <2>1. IsParse(NOTHING)
    BY EmptyIsSeq DEF IsParse, NOTHING, ParseFields, AreEntries, NULL
  <2> QED BY <1>2, <1>5, <1>6, <2>1
<1>7. CASE k # 0
  <2>1. k \in 1 .. n /\ k - 1 \in 0 .. n /\ k - 1 \notin bad
    BY <1>1, <1>5, <1>7
  <2>2. Parsed(ls, k) = ParseLine(Parsed(ls, k - 1), ls[k]) /\ IsLine(ls[k])
    BY <1>1, <1>2, <2>1 DEF IsTrace
  <2>3. Parsed(ls, k - 1) = THROWN \/ IsParse(Parsed(ls, k - 1))
    BY <2>1
  <2>4. ParseLine(THROWN, ls[k]) = THROWN
    BY DEF ParseLine
  <2>5. Parsed(ls, k) = THROWN \/ IsParse(Parsed(ls, k))
    BY <2>2, <2>3, <2>4, ParseLineParses
  <2> QED BY <1>5, <2>5
<1> QED BY <1>6, <1>7

-----------------------------------------------------------------------------
(* Machines that are resumed have gas to count and all their registers.    *)

\* A machine with gas left to count and, if this is asked, all its registers.
Whole(regs) == regs = [r \in Reg |-> regs[r]]
IsGuest(m, code, all) == IsMachine(m, code) /\ m.gas \in Nat /\ (all => Whole(m.regs))

LEMMA WholeChanges ==
  ASSUME NEW regs, Whole(regs), NEW r, NEW v
  PROVE  Whole([regs EXCEPT ![r] = v])
BY DEF Whole

\* n is m but for its registers, of which there are as many.
KeepsGuest(m, n) == n.gas = m.gas /\ (Whole(m.regs) => Whole(n.regs))

LEMMA InstructedKeeps ==
  ASSUME NEW m, NEW code, IsMachine(m, code), NEW i
  PROVE  KeepsGuest(m, Instructed(m, i))
<1>1. ASSUME NEW status, NEW exit
      PROVE  KeepsGuest(m, Stopped(m, status, exit))
  BY DEF IsMachine, MachineFields, Stopped, KeepsGuest
<1>2. ASSUME NEW a PROVE KeepsGuest(m, Faulted(m, a))
  BY DEF IsMachine, MachineFields, Stopped, Faulted, KeepsGuest
<1>10. ASSUME NEW v PROVE KeepsGuest(m, Onward([m EXCEPT !.regs[i.reg] = v]))
  <2> DEFINE n == Onward([m EXCEPT !.regs[i.reg] = v])
  <2>1. n.gas = m.gas /\ n.regs = [m.regs EXCEPT ![i.reg] = v]
    BY DEF IsMachine, MachineFields, Onward
  <2>2. Whole(m.regs) => Whole([m.regs EXCEPT ![i.reg] = v])
    BY DEF Whole
  <2> HIDE DEF n
  <2>3. KeepsGuest(m, n)
    BY <2>1, <2>2 DEF KeepsGuest
  <2> QED BY <2>3 DEF n
<1>3. CASE i.op = "ADD"
  <2>1. Instructed(m, i) = Onward([m EXCEPT !.regs[i.reg] = (@ + 1) % WORD])
    BY <1>3 DEF Instructed
  <2>2. \E v : Instructed(m, i) = Onward([m EXCEPT !.regs[i.reg] = v])
    BY <2>1
  <2> QED BY <1>10, <2>2
<1>4. CASE i.op = "LOAD"
  <2>1. Instructed(m, i) = IF Can(m.mem, i.at, "Read")
                           THEN Onward([m EXCEPT !.regs[i.reg] = m.mem[i.at].byte])
                           ELSE Faulted(m, i.at)
    BY <1>4 DEF Instructed
  <2>2. \/ \E v : Instructed(m, i) = Onward([m EXCEPT !.regs[i.reg] = v])
        \/ Instructed(m, i) = Faulted(m, i.at)
    BY <2>1
  <2> QED BY <1>10, <1>2, <2>2
<1>5. CASE i.op = "STORE"
  <2>1. Instructed(m, i) = IF Can(m.mem, i.at, "Write")
                           THEN Onward([m EXCEPT !.mem[i.at].byte = m.regs[i.reg] % BYTE])
                           ELSE Faulted(m, i.at)
    BY <1>5 DEF Instructed
  <2>2. KeepsGuest(m, Onward([m EXCEPT !.mem[i.at].byte = m.regs[i.reg] % BYTE]))
    BY DEF IsMachine, MachineFields, Onward, KeepsGuest
  <2> QED BY <1>2, <2>1, <2>2
<1>6. CASE i.op = "JUMP"
  <2>1. Instructed(m, i) = [Onward(m) EXCEPT !.pc = i.at]
    BY <1>6 DEF Instructed
  <2> QED BY <2>1 DEF IsMachine, MachineFields, Onward, KeepsGuest
<1>7. CASE i.op = "ECALLI"
  <2>1. Instructed(m, i) = [Stopped(m, "HOST", i.at) EXCEPT !.lastCode = i.at, !.nextPc = m.pc + 1]
    BY <1>7 DEF Instructed
  <2> QED BY <2>1 DEF IsMachine, MachineFields, Stopped, KeepsGuest
<1>8. CASE i.op = "HALT"
  <2>1. Instructed(m, i) = Stopped(m, "HALT", 0)
    BY <1>8 DEF Instructed
  <2> QED BY <1>1, <2>1
<1>9. CASE i.op = "TRAP"
  <2>1. Instructed(m, i) = Stopped(m, "PANIC", m.lastCode)
    BY <1>9 DEF Instructed
  <2> QED BY <1>1, <2>1
<1>11. CASE i.op \notin {"ADD", "LOAD", "STORE", "JUMP", "ECALLI", "HALT", "TRAP"}
  <2>1. Instructed(m, i) = Stopped(m, "PANIC", 0)
    BY <1>11 DEF Instructed
  <2> QED BY <1>1, <2>1
<1> QED BY <1>3, <1>4, <1>5, <1>6, <1>7, <1>8, <1>9, <1>11

LEMMA SteppedIsGuest ==
  ASSUME NEW m, NEW code, NEW all, IsGuest(m, code, all)
  PROVE  IsGuest(Stepped(m), code, all)
<1> DEFINE paid == [m EXCEPT !.gas = @ - 1]
<1>1. IsMachine(m, code) /\ m.gas \in Nat /\ (all => Whole(m.regs))
  BY DEF IsGuest
<1>2. IsMachine(paid, code) /\ paid.regs = m.regs /\ (m.gas # 0 => paid.gas \in Nat)
  BY <1>1 DEF IsMachine, MachineFields
<1>3. ASSUME NEW n, IsMachine(n, code), NEW status, NEW exit
      PROVE  Stopped(n, status, exit).gas = n.gas /\ Stopped(n, status, exit).regs = n.regs
  BY <1>3 DEF IsMachine, MachineFields, Stopped
<1>4. Stepped(m) = IF m.gas = 0 THEN Stopped(m, "OOG", 0)
                   ELSE IF m.pc + 1 \in DOMAIN m.code THEN Instructed(paid, m.code[m.pc + 1])
                   ELSE Stopped(paid, "PANIC", 0)
  BY DEF Stepped
<1>5. IsMachine(Stepped(m), code)
  BY <1>1, SteppedIsMachine
<1> HIDE DEF paid
<1>6. ASSUME NEW i PROVE KeepsGuest(paid, Instructed(paid, i))
  BY <1>2, InstructedKeeps
<1>7. CASE m.gas = 0
  BY <1>1, <1>3, <1>4, <1>5, <1>7 DEF IsGuest
<1>8. CASE m.gas # 0 /\ m.pc + 1 \in DOMAIN m.code
  BY <1>1, <1>2, <1>4, <1>5, <1>6, <1>8 DEF IsGuest, KeepsGuest
<1>9. CASE m.gas # 0 /\ m.pc + 1 \notin DOMAIN m.code
  BY <1>1, <1>2, <1>3, <1>4, <1>5, <1>9 DEF IsGuest
<1> QED BY <1>7, <1>8, <1>9

LEMMA ExecutedIsGuest ==
  ASSUME NEW m, NEW code, NEW all, IsGuest(m, code, all)
  PROVE  IsGuest(Executed(m), code, all)
<1> DEFINE k == m.gas + 1
<1>1. k \in Nat
  BY DEF IsGuest
<1>2. PICK f : AreStates(f, m, k) /\ Executed(m) = f[k]
  BY ExecutedIsState DEF IsGuest
<1> HIDE DEF k
<1> DEFINE bad == {n \in 0 .. k : ~IsGuest(f[n], code, all)}
<1>3. SUFFICES ASSUME bad # {} PROVE FALSE
  BY <1>1, <1>2
<1>4. PICK n \in bad : \A y \in bad : n <= y
  <2>1. bad \subseteq Nat
    OBVIOUS
  <2> HIDE DEF bad
  <2> QED BY <1>3, <2>1, LeastElement
<1>5. f[n] = IF n = 0 THEN Begun(m) ELSE OneMore(f[n - 1])
  BY <1>2, <1>4 DEF AreStates
<1>6. n # 0 => IsGuest(f[n - 1], code, all)
  BY <1>1, <1>4
<1>7. IsGuest(Begun(m), code, all)
  <2>1. IsMachine(Begun(m), code)
    BY BegunIsMachine DEF IsGuest
  <2>2. Begun(m).gas = m.gas /\ Begun(m).regs = m.regs
    BY DEF Begun, IsGuest, IsMachine, MachineFields
  <2> QED BY <2>1, <2>2 DEF IsGuest
<1>8. IsGuest(f[n], code, all)
  BY <1>5, <1>6, <1>7, SteppedIsGuest DEF OneMore
<1> QED BY <1>4, <1>8

LEMMA ResumedIsGuest ==
  ASSUME NEW m, NEW code, NEW all, IsMachine(m, code), all => Whole(m.regs), NEW gas \in Nat, NEW pc
  PROVE  IsGuest(Resumed(m, gas, pc), code, all)
<1> DEFINE n == [m EXCEPT !.nextPc = pc, !.gas = gas]
<1>1. IsMachine(n, code) /\ n.gas = gas /\ n.regs = m.regs
  BY DEF IsMachine, MachineFields
<1>2. Resumed(m, gas, pc) = Executed(n)
  BY DEF Resumed
<1> HIDE DEF n
<1>3. IsGuest(n, code, all)
  BY <1>1 DEF IsGuest
<1> QED BY <1>2, <1>3, ExecutedIsGuest

LEMMA SetsAreWhole ==
  ASSUME NEW regs, Whole(regs), NEW sets, IsSeq(sets)
  PROVE  Whole(FoldLeft(Set, regs, sets))
<1> DEFINE n == Len(sets)
           bad == {k \in 0 .. n : ~Whole(Folded("set", regs, sets, k))}
<1>1. n \in Nat /\ DOMAIN sets = 1 .. n
  BY DEF IsSeq
<1> HIDE DEF n
<1>2. FoldLeft(Set, regs, sets) = Folded("set", regs, sets, n)
  BY <1>1, SetFolds DEF Folded
<1>3. /\ Folded("set", regs, sets, 0) = regs
      /\ \A k \in 1 .. n : Folded("set", regs, sets, k) = Set(Folded("set", regs, sets, k - 1), sets[k])
  <2>1. Folds("set", regs, sets, n)
    BY <1>1, FoldsOn
  <2> QED BY <2>1 DEF Folds, FoldStep
<1>4. SUFFICES ASSUME bad # {} PROVE FALSE
  BY <1>1, <1>2
<1>5. PICK k \in bad : \A j \in bad : k <= j
  <2>1. bad \subseteq Nat
    OBVIOUS
  <2> HIDE DEF bad
  <2> QED BY <1>4, <2>1, LeastElement
<1>6. k # 0
  BY <1>3, <1>5
<1>7. k \in 1 .. n /\ Whole(Folded("set", regs, sets, k - 1))
  BY <1>1, <1>5, <1>6
<1>8. Whole(Set(Folded("set", regs, sets, k - 1), sets[k]))
  BY <1>7, WholeChanges DEF Set
<1> QED BY <1>3, <1>5, <1>7, <1>8

\* All registers written back are the registers.
LEMMA WrittenBack ==
  ASSUME NEW m, NEW code, IsMachine(m, code), NEW regs, Whole(regs)
  PROVE  WithRegisters(m, [i \in 1 .. NO_OF_REGISTERS |-> regs[i - 1]]) = [m EXCEPT !.regs = regs]
<1> DEFINE values == [i \in 1 .. NO_OF_REGISTERS |-> regs[i - 1]]
           new == [r \in Reg |-> IF r + 1 \in DOMAIN values THEN values[r + 1] ELSE m.regs[r]]
<1>1. WithRegisters(m, values) = [m EXCEPT !.regs = new]
  BY DEF WithRegisters
<1>2. new = regs
  <2>1. ASSUME NEW r \in Reg PROVE new[r] = regs[r]
    <3>1. r + 1 \in 1 .. NO_OF_REGISTERS /\ (r + 1) - 1 = r
      BY GuestAssumption DEF Reg
    <3> QED BY <3>1
  <2>2. new = [r \in Reg |-> new[r]]
    OBVIOUS
  <2> HIDE DEF new
  <2>3. new = [r \in Reg |-> regs[r]]
    BY <2>1, <2>2
  <2> QED BY <2>3 DEF Whole
<1> QED BY <1>1, <1>2

LEMMA DumpIsExact ==
  ASSUME NEW regs, Whole(regs), NEW dump, IsDump(dump), \A r \in Reg : regs[r] = Dumped(dump, r)
  PROVE  Dump(regs) = dump
<1> DEFINE D == {r \in Reg : regs[r] # 0}
<1>1. DOMAIN dump \subseteq Reg /\ dump = [r \in DOMAIN dump |-> dump[r]]
      /\ \A r \in DOMAIN dump : dump[r] # 0
  BY DEF IsDump
<1>2. D = DOMAIN dump
  BY <1>1 DEF Dumped
<1>3. \A r \in D : regs[r] = dump[r]
  BY <1>1, <1>2 DEF Dumped
<1>4. Dump(regs) = [r \in D |-> regs[r]]
  BY DEF Dump, Restrict, Whole
<1> HIDE DEF D
<1> QED BY <1>1, <1>2, <1>3, <1>4

LEMMA ExactIsDump ==
  ASSUME NEW regs, Whole(regs), NEW dump, Dump(regs) = dump
  PROVE  \A r \in Reg : regs[r] = Dumped(dump, r)
<1> DEFINE D == {r \in Reg : regs[r] # 0}
<1>1. Dump(regs) = [r \in D |-> regs[r]]
  BY DEF Dump, Restrict, Whole
<1>2. DOMAIN dump = D /\ \A r \in D : dump[r] = regs[r]
  BY <1>1
<1> QED BY <1>2 DEF Dumped

-----------------------------------------------------------------------------
(* What there is to record.                                                *)

\* What there is to record of trace t once its first k entries were answered.
Run(t, k) == Folded("record", FirstRun(ProgramOf(t), t.start), t.entries, k)

\* Of two stages of a recording, q is the later.
Later(r, q) ==
  /\ r.m.status # "HOST" => q = r
  /\ q.possible => r.possible
  /\ IsSeq(r.entries) /\ IsSeq(q.entries) /\ Len(r.entries) <= Len(q.entries)
  /\ \A i \in DOMAIN r.entries : q.entries[i] = r.entries[i]

Runs(t) ==
  /\ Run(t, 0) = FirstRun(ProgramOf(t), t.start)
  /\ \A k \in 1 .. Len(t.entries) : Run(t, k) = NextRun(Run(t, k - 1), t.entries[k])

LEMMA RunsOn ==
  ASSUME NEW t, IsSeq(t.entries)
  PROVE  /\ Runs(t) /\ Len(t.entries) \in Nat /\ DOMAIN t.entries = 1 .. Len(t.entries)
         /\ Recording(ProgramOf(t), t.start, t.entries) = Run(t, Len(t.entries))
<1> DEFINE n == Len(t.entries)
           first == FirstRun(ProgramOf(t), t.start)
<1>1. n \in Nat /\ DOMAIN t.entries = 1 .. n
  BY DEF IsSeq
<1>2. Folds("record", first, t.entries, n)
  BY <1>1, FoldsOn
<1>3. Runs(t)
  BY <1>2 DEF Folds, FoldStep, Runs, Run
<1>4. Recording(ProgramOf(t), t.start, t.entries) = Run(t, n)
  BY <1>1, RecordFolds DEF Run
<1> QED BY <1>1, <1>3, <1>4

LEMMA NextRunIs ==
  ASSUME NEW r, r.m.status = "HOST", NEW a
  PROVE  /\ NextRun(r, a).m = Answered(r.m, a) /\ NextRun(r, a).entries = Append(r.entries, Seen(r.m, a))
         /\ NextRun(r, a).possible <=> r.possible /\ Granted(r.m, a)
<1> DEFINE ok == r.possible /\ Granted(r.m, a)
<1>1. NextRun(r, a) = [m |-> Answered(r.m, a), entries |-> Append(r.entries, Seen(r.m, a)),
                       possible |-> ok]
  BY DEF NextRun
<1> HIDE DEF ok
<1>2. NextRun(r, a).m = Answered(r.m, a) /\ NextRun(r, a).entries = Append(r.entries, Seen(r.m, a))
  BY <1>1
<1>3. NextRun(r, a).possible = ok
  BY <1>1
<1> QED BY <1>2, <1>3, Zenon DEF ok

LEMMA NextIsLater ==
  ASSUME NEW r, IsSeq(r.entries), NEW a
  PROVE  Later(r, NextRun(r, a))
<1>1. CASE r.m.status # "HOST"
  BY <1>1 DEF NextRun, Later, IsSeq
<1>2. CASE r.m.status = "HOST"
  <2> DEFINE s == Seen(r.m, a)
  <2>2. NextRun(r, a).entries = Append(r.entries, s) /\ (NextRun(r, a).possible => r.possible)
    BY <1>2, NextRunIs
  <2> HIDE DEF s
  <2>3. /\ IsSeq(Append(r.entries, s)) /\ Len(Append(r.entries, s)) = Len(r.entries) + 1
        /\ Len(r.entries) \in Nat /\ \A i \in DOMAIN r.entries : Append(r.entries, s)[i] = r.entries[i]
    BY AppendIsSeq
  <2> QED BY <1>2, <2>2, <2>3 DEF Later
<1> QED BY <1>1, <1>2

LEMMA LaterIsLater ==
  ASSUME NEW r, NEW q, NEW s, Later(r, q), Later(q, s)
  PROVE  Later(r, s)
<1>1. /\ Len(r.entries) \in Nat /\ DOMAIN r.entries = 1 .. Len(r.entries)
      /\ Len(q.entries) \in Nat /\ DOMAIN q.entries = 1 .. Len(q.entries) /\ Len(s.entries) \in Nat
  BY DEF Later, IsSeq
<1>2. \A i \in DOMAIN r.entries : i \in DOMAIN q.entries
  BY <1>1 DEF Later
<1> QED BY <1>1, <1>2 DEF Later

LEMMA RunsAreLater ==
  ASSUME NEW t, IsSeq(t.entries), NEW k \in 0 .. Len(t.entries), NEW j \in k .. Len(t.entries)
  PROVE  Later(Run(t, k), Run(t, j))
<1> DEFINE n == Len(t.entries)
<1>1. Runs(t) /\ n \in Nat
  BY RunsOn
<1> HIDE DEF n
<1>2. ASSUME NEW i \in 0 .. n PROVE IsSeq(Run(t, i).entries)
  <2> DEFINE bad == {x \in 0 .. n : ~IsSeq(Run(t, x).entries)}
  <2>1. SUFFICES ASSUME bad # {} PROVE FALSE
    OBVIOUS
  <2>2. PICK x \in bad : \A y \in bad : x <= y
    <3>1. bad \subseteq Nat
      OBVIOUS
    <3> HIDE DEF bad
    <3> QED BY <2>1, <3>1, LeastElement
  <2>3. x # 0
    <3>1. Run(t, 0).entries = <<>>
      BY <1>1 DEF Runs, FirstRun
    <3> QED BY <2>2, <3>1, EmptyIsSeq
  <2>4. x \in 1 .. n /\ IsSeq(Run(t, x - 1).entries)
    BY <1>1, <2>2, <2>3
  <2>5. Run(t, x) = NextRun(Run(t, x - 1), t.entries[x])
    BY <1>1, <2>4 DEF Runs, n
  <2>6. Later(Run(t, x - 1), Run(t, x))
    BY <2>4, <2>5, NextIsLater
  <2> QED BY <2>2, <2>6 DEF Later
<1> DEFINE bad == {x \in k .. n : ~Later(Run(t, k), Run(t, x))}
<1>3. SUFFICES ASSUME bad # {} PROVE FALSE
  BY DEF n
<1>4. PICK x \in bad : \A y \in bad : x <= y
  <2>1. bad \subseteq Nat
    BY <1>1 DEF n
  <2> HIDE DEF bad
  <2> QED BY <1>3, <2>1, LeastElement
<1>5. k \in 0 .. n
  BY DEF n
<1>6. CASE x = k
  BY <1>2, <1>4, <1>5, <1>6 DEF Later, IsSeq
<1>7. CASE x # k
  <2>1. x \in 1 .. n /\ x - 1 \in 0 .. n /\ x - 1 \in k .. n /\ x - 1 \notin bad
    BY <1>1, <1>4, <1>5, <1>7
  <2>2. Run(t, x) = NextRun(Run(t, x - 1), t.entries[x]) /\ Later(Run(t, k), Run(t, x - 1))
    BY <1>1, <2>1 DEF Runs, n
  <2>3. Later(Run(t, x - 1), Run(t, x))
    BY <1>2, <2>1, <2>2, NextIsLater
  <2> QED BY <1>4, <2>2, <2>3, LaterIsLater
<1> QED BY <1>6, <1>7

\* The first k entries of t are a recording so far.
Reached(t, k) ==
  LET r == Run(t, k)
  IN /\ k \in 0 .. Len(t.entries) /\ r.possible
     /\ IsSeq(r.entries) /\ Len(r.entries) = k /\ \A i \in 1 .. k : r.entries[i] = t.entries[i]

\* What a replay that verifies compares of the termination.
EndsAs(m, line) ==
  StatusToTermination(m.status) = line.type /\ m.pc = line.pc /\ m.gas = line.gas

LEMMA TerminationAgrees ==
  ASSUME NEW m, NEW line, IsTermination(line)
  PROVE  line = [Termination(m) EXCEPT !.regs = line.regs, !.code = line.code] <=> EndsAs(m, line)
<1> DEFINE end == [Termination(m) EXCEPT !.regs = line.regs, !.code = line.code]
<1>1. end = [is |-> "termination", type |-> StatusToTermination(m.status), pc |-> m.pc, gas |-> m.gas,
             regs |-> line.regs, code |-> line.code]
  <2> DEFINE F == {"is", "type", "pc", "gas", "regs", "code"}
             x == Termination(m)
  <2>1. /\ x = [f \in F |-> x[f]] /\ x.is = "termination"
        /\ x.type = StatusToTermination(m.status) /\ x.pc = m.pc /\ x.gas = m.gas
    BY DEF Termination
  <2> HIDE DEF x
  <2>2. [x EXCEPT !.regs = line.regs, !.code = line.code]
          = [f \in F |-> IF f = "regs" THEN line.regs ELSE IF f = "code" THEN line.code ELSE x[f]]
    BY <2>1
  <2>3. end = [f \in F |-> IF f = "regs" THEN line.regs ELSE IF f = "code" THEN line.code ELSE x[f]]
    BY <2>2 DEF x
  <2> QED BY <2>1, <2>3
<1>2. line = [is |-> "termination", type |-> line.type, pc |-> line.pc, gas |-> line.gas,
              regs |-> line.regs, code |-> line.code]
  BY DEF IsTermination
<1> HIDE DEF end
<1>3. EndsAs(m, line) => line = end
  BY <1>1, <1>2 DEF EndsAs
<1>4. line = end => EndsAs(m, line)
  <2>1. end.type = StatusToTermination(m.status) /\ end.pc = m.pc /\ end.gas = m.gas
    BY <1>1
  <2> QED BY <2>1 DEF EndsAs
<1> QED BY <1>3, <1>4 DEF end

LEMMA StoppedIsRecording ==
  ASSUME NEW t, IsSeq(t.entries), IsTermination(t.termination), NEW k, Reached(t, k),
         Run(t, k).m.status # "HOST"
  PROVE  IsRecording(t) <=> k = Len(t.entries) /\ EndsAs(Run(t, k).m, t.termination)
<1> DEFINE n == Len(t.entries)
           r == Run(t, k)
<1>1. n \in Nat /\ k \in 0 .. n /\ n \in k .. n /\ Recording(ProgramOf(t), t.start, t.entries) = Run(t, n)
      /\ DOMAIN t.entries = 1 .. n
  BY RunsOn DEF Reached
<1>2. Run(t, n) = r
  <2>1. Later(r, Run(t, n))
    BY <1>1, RunsAreLater
  <2> QED BY <2>1 DEF Later
<1>3. r.entries = t.entries <=> k = n
  <2>1. /\ r.entries \in Seq(Range(r.entries)) /\ t.entries \in Seq(Range(t.entries))
        /\ Len(r.entries) = k /\ \A i \in 1 .. k : r.entries[i] = t.entries[i]
    BY DEF Reached, IsSeq
  <2>2. k = n => r.entries = t.entries
    <3>1. r.entries = [i \in 1 .. k |-> r.entries[i]] /\ t.entries = [i \in 1 .. n |-> t.entries[i]]
      BY <2>1, <1>1
    <3> QED BY <2>1, <3>1
  <2> QED BY <2>1, <2>2
<1>4. r.possible
  BY DEF Reached
<1>5. t.termination = [Termination(r.m) EXCEPT !.regs = t.termination.regs, !.code = t.termination.code]
        <=> EndsAs(r.m, t.termination)
  BY TerminationAgrees
<1> HIDE DEF r, n
<1>6. IsRecording(t) <=> /\ r.possible /\ r.entries = t.entries /\ r.m.status # "HOST"
                         /\ t.termination = [Termination(r.m) EXCEPT !.regs = t.termination.regs,
                                                                     !.code = t.termination.code]
  BY <1>1, <1>2 DEF IsRecording
<1> QED BY <1>3, <1>4, <1>5, <1>6 DEF r, n

LEMMA RunsOut ==
  ASSUME NEW t, IsSeq(t.entries), Run(t, Len(t.entries)).m.status = "HOST"
  PROVE  ~IsRecording(t)
BY RunsOn DEF IsRecording

LEMMA UnlikeRecording ==
  ASSUME NEW t, IsSeq(t.entries), NEW k, Reached(t, k), k < Len(t.entries), Run(t, k).m.status = "HOST",
         Seen(Run(t, k).m, t.entries[k + 1]) # t.entries[k + 1] \/ ~Granted(Run(t, k).m, t.entries[k + 1])
  PROVE  ~IsRecording(t)
<1> DEFINE n == Len(t.entries)
           e == t.entries[k + 1]
           s == Seen(Run(t, k).m, e)
<1>1. /\ n \in Nat /\ Runs(t) /\ Recording(ProgramOf(t), t.start, t.entries) = Run(t, n)
      /\ k + 1 \in 1 .. n /\ k + 1 \in 0 .. n /\ n \in k + 1 .. n /\ k \in Nat /\ (k + 1) - 1 = k
  BY RunsOn DEF Reached
<1>2. Run(t, k + 1) = NextRun(Run(t, k), e)
  BY <1>1 DEF Runs
<1>3. Later(Run(t, k + 1), Run(t, n))
  BY <1>1, RunsAreLater
<1> HIDE DEF e, s, n
<1>4. /\ Run(t, k + 1).entries = Append(Run(t, k).entries, s)
      /\ Run(t, k + 1).possible => Granted(Run(t, k).m, e)
  <2>1. Run(t, k).m.status = "HOST"
    OBVIOUS
  <2> QED BY <1>2, <2>1, NextRunIs DEF s
<1>5. k + 1 \in DOMAIN Run(t, k + 1).entries /\ Run(t, k + 1).entries[k + 1] = s
  <2>1. IsSeq(Run(t, k).entries) /\ Len(Run(t, k).entries) = k
    BY DEF Reached
  <2> QED BY <1>1, <1>4, <2>1, AppendIsSeq
<1>6. Run(t, n).entries[k + 1] = s /\ (Run(t, n).possible => Granted(Run(t, k).m, e))
  BY <1>3, <1>4, <1>5 DEF Later
<1>7. s # e \/ ~Granted(Run(t, k).m, e)
  BY DEF e, s
<1> QED BY <1>1, <1>6, <1>7 DEF IsRecording, e

LEMMA LikeRecording ==
  ASSUME NEW t, IsSeq(t.entries), NEW k, Reached(t, k), k < Len(t.entries), Run(t, k).m.status = "HOST",
         Seen(Run(t, k).m, t.entries[k + 1]) = t.entries[k + 1], Granted(Run(t, k).m, t.entries[k + 1])
  PROVE  Reached(t, k + 1) /\ Run(t, k + 1).m = Answered(Run(t, k).m, t.entries[k + 1])
<1> DEFINE n == Len(t.entries)
           e == t.entries[k + 1]
           es == Run(t, k).entries
<1>1. /\ n \in Nat /\ Runs(t) /\ k + 1 \in 1 .. n /\ k + 1 \in 0 .. n /\ k \in Nat /\ (k + 1) - 1 = k
  BY RunsOn DEF Reached
<1>2. Run(t, k + 1) = NextRun(Run(t, k), e)
  BY <1>1 DEF Runs
<1>3. /\ Run(t, k + 1).m = Answered(Run(t, k).m, e) /\ Run(t, k + 1).entries = Append(es, e)
      /\ Run(t, k + 1).possible <=> Run(t, k).possible /\ Granted(Run(t, k).m, e)
  <2>1. Run(t, k).m.status = "HOST" /\ Seen(Run(t, k).m, e) = e
    OBVIOUS
  <2> QED BY <1>2, <2>1, NextRunIs
<1>4. IsSeq(es) /\ Len(es) = k /\ Run(t, k).possible /\ \A i \in 1 .. k : es[i] = t.entries[i]
  BY DEF Reached
<1> HIDE DEF e, es
<1>5. /\ IsSeq(Append(es, e)) /\ Len(Append(es, e)) = k + 1
      /\ DOMAIN es = 1 .. k /\ \A i \in DOMAIN es : Append(es, e)[i] = es[i]
      /\ Append(es, e)[k + 1] = e
  BY <1>4, AppendIsSeq
<1>6. ASSUME NEW i \in 1 .. k + 1 PROVE Append(es, e)[i] = t.entries[i]
  <2>1. CASE i = k + 1
    BY <1>5, <2>1 DEF e
  <2>2. CASE i # k + 1
    <3>1. i \in 1 .. k
      BY <1>1, <2>2
    <3> QED BY <1>4, <1>5, <3>1
  <2> QED BY <2>1, <2>2
<1>7. /\ Run(t, k + 1).m = Answered(Run(t, k).m, e) /\ Run(t, k + 1).entries = Append(es, e)
      /\ Run(t, k + 1).possible
  BY <1>3, <1>4 DEF e
<1> QED BY <1>1, <1>5, <1>6, <1>7 DEF Reached, e, n

-----------------------------------------------------------------------------
(* What is compared of a host call, and what is written.                   *)

\* What a replay that verifies compares of a read, and what it needs of a write.
ReadsAs(m, read) ==
  LET r == BytesAt(m, read.addr, Len(read.bytes)) IN r # NULL /\ r.bytes = read.bytes
Writes(m, write) == Written(m, write.addr, write.bytes).ok

LEMMA SeenRead ==
  ASSUME NEW m, NEW e, IsEntry(e), NEW i \in DOMAIN e.reads
  PROVE  Seen(m, e).reads[i] = e.reads[i] <=> ReadsAs(m, e.reads[i])
<1> DEFINE read == e.reads[i]
           r == BytesAt(m, read.addr, Len(read.bytes))
           bytes == IF r = NULL THEN <<>> ELSE r.bytes
<1>1. Seen(m, e).reads[i] = [addr |-> read.addr, bytes |-> bytes]
  BY DEF Seen
<1>2. read = [addr |-> read.addr, bytes |-> read.bytes] /\ read.bytes # <<>>
  BY DEF IsEntry, IsChunk
<1> HIDE DEF read
<1>3. bytes = read.bytes <=> ReadsAs(m, read)
  BY <1>2 DEF ReadsAs
<1> HIDE DEF bytes
<1>4. [addr |-> read.addr, bytes |-> bytes] = [addr |-> read.addr, bytes |-> read.bytes] <=> bytes = read.bytes
  OBVIOUS
<1> QED BY <1>1, <1>2, <1>3, <1>4 DEF read

LEMMA SeenFields ==
  ASSUME NEW m, NEW e
  PROVE  LET s == Seen(m, e)
         IN /\ s = [f \in EntryFields |-> s[f]] /\ DOMAIN s.reads = DOMAIN e.reads
            /\ s.reads = [i \in DOMAIN e.reads |-> s.reads[i]]
            /\ s.index = m.exitCode /\ s.pc = m.pc /\ s.gas = m.gas /\ s.regs = Dump(m.regs)
            /\ s.writes = e.writes /\ s.setRegs = e.setRegs /\ s.setGas = e.setGas
<1> DEFINE F(i) == [addr |-> e.reads[i].addr,
                    bytes |-> LET r == BytesAt(m, e.reads[i].addr, Len(e.reads[i].bytes))
                              IN IF r = NULL THEN <<>> ELSE r.bytes]
           reads == [i \in DOMAIN e.reads |-> F(i)]
<1>1. Seen(m, e) = [index |-> m.exitCode, pc |-> m.pc, gas |-> m.gas, regs |-> Dump(m.regs),
                    reads |-> reads, writes |-> e.writes, setRegs |-> e.setRegs, setGas |-> e.setGas]
  BY DEF Seen
<1>2. DOMAIN reads = DOMAIN e.reads /\ reads = [i \in DOMAIN e.reads |-> reads[i]]
  <2> HIDE DEF F
  <2> QED OBVIOUS
<1> HIDE DEF reads
<1> QED BY <1>1, <1>2 DEF EntryFields

LEMMA SeenAgrees ==
  ASSUME NEW m, Whole(m.regs), NEW e, IsEntry(e)
  PROVE  Seen(m, e) = e <=> /\ AsRecorded(Pause(m), e)
                            /\ \A i \in DOMAIN e.reads : ReadsAs(m, e.reads[i])
<1> DEFINE s == Seen(m, e)
<1>1. /\ s = [f \in EntryFields |-> s[f]] /\ DOMAIN s.reads = DOMAIN e.reads
      /\ s.reads = [i \in DOMAIN e.reads |-> s.reads[i]]
      /\ s.index = m.exitCode /\ s.pc = m.pc /\ s.gas = m.gas /\ s.regs = Dump(m.regs)
      /\ s.writes = e.writes /\ s.setRegs = e.setRegs /\ s.setGas = e.setGas
  BY SeenFields
<1>2. \A i \in DOMAIN e.reads : s.reads[i] = e.reads[i] <=> ReadsAs(m, e.reads[i])
  BY SeenRead
<1> HIDE DEF s
<1>3. e = [f \in EntryFields |-> e[f]] /\ IsDump(e.regs) /\ e.reads = [i \in DOMAIN e.reads |-> e.reads[i]]
  BY DEF IsEntry, IsSeq
<1>4. Dump(m.regs) = e.regs <=> \A r \in Reg : m.regs[r] = Dumped(e.regs, r)
  BY <1>3, DumpIsExact, ExactIsDump
<1>5. AsRecorded(Pause(m), e) <=> /\ m.exitCode = e.index /\ m.pc = e.pc /\ m.gas = e.gas
                                  /\ \A r \in Reg : m.regs[r] = Dumped(e.regs, r)
  BY DEF AsRecorded, Pause
<1>6. s.reads = e.reads <=> \A i \in DOMAIN e.reads : ReadsAs(m, e.reads[i])
  BY <1>1, <1>2, <1>3
<1>7. s = e <=> /\ s.index = e.index /\ s.pc = e.pc /\ s.gas = e.gas /\ s.regs = e.regs
                /\ s.reads = e.reads /\ s.writes = e.writes /\ s.setRegs = e.setRegs /\ s.setGas = e.setGas
  BY <1>1, <1>3 DEF EntryFields
<1> QED BY <1>1, <1>4, <1>5, <1>6, <1>7 DEF s

LEMMA GrantedIs ==
  ASSUME NEW m, NEW e, IsEntry(e)
  PROVE  Granted(m, e) <=>
           \A i \in DOMAIN e.writes : Writes(Folded("write", m, e.writes, i - 1), e.writes[i])
<1> DEFINE n == Len(e.writes)
<1>1. n \in Nat /\ DOMAIN e.writes = 1 .. n /\ e.writes \in Seq(Range(e.writes))
  BY DEF IsEntry, IsSeq
<1> HIDE DEF n
<1>2. ASSUME NEW i \in 1 .. n
      PROVE  Wrote(m, [e EXCEPT !.writes = SubSeq(@, 1, i - 1)]) = Folded("write", m, e.writes, i - 1)
  <2> DEFINE pre == SubSeq(e.writes, 1, i - 1)
             a == [e EXCEPT !.writes = SubSeq(@, 1, i - 1)]
  <2>1. a.writes = pre
    BY DEF IsEntry, EntryFields
  <2>2. i - 1 \in 0 .. n /\ i - 1 \in Nat
    BY <1>1
  <2>3. DOMAIN pre = 1 .. i - 1 /\ \A x \in 1 .. i - 1 : pre[x] = e.writes[x]
    <3>1. \A x \in 1 .. i - 1 : e.writes[x] \in Range(e.writes)
      BY <1>1, <2>2 DEF Range
    <3>2. /\ pre \in Seq(Range(e.writes)) /\ Len(pre) = (IF 1 <= i - 1 THEN (i - 1) - 1 + 1 ELSE 0)
          /\ \A x \in 1 .. (i - 1) - 1 + 1 : pre[x] = e.writes[1 + x - 1]
      BY <2>2, <3>1, SubSeqProperties
    <3>3. Len(pre) = i - 1 /\ DOMAIN pre = 1 .. Len(pre)
      BY <2>2, <3>2
    <3> HIDE DEF pre
    <3>4. \A x \in 1 .. i - 1 : pre[x] = e.writes[x]
      BY <2>2, <3>2
    <3> QED BY <3>3, <3>4
  <2>4. Wrote(m, a) = Folded("write", m, a.writes, i - 1)
    <3>1. Wrote(m, a) = (CHOOSE g : Folding("write", m, a.writes, g))[DOMAIN a.writes]
      BY WriteFolds
    <3>2. DOMAIN a.writes = 1 .. i - 1
      BY <2>1, <2>3
    <3> HIDE DEF a, pre
    <3> QED BY <3>1, <3>2 DEF Folded
  <2> HIDE DEF pre, a
  <2>5. Folded("write", m, pre, i - 1) = Folded("write", m, e.writes, i - 1)
    BY <1>1, <2>2, <2>3, FoldOfPrefix
  <2> QED BY <2>1, <2>4, <2>5 DEF a
<1>3. Granted(m, e) <=>
        \A i \in DOMAIN e.writes : Writes(Wrote(m, [e EXCEPT !.writes = SubSeq(@, 1, i - 1)]), e.writes[i])
  BY DEF Granted, Writes
<1> QED BY <1>1, <1>2, <1>3

-----------------------------------------------------------------------------
(* What the calls of a client make of the machine.                         *)

LEMMA ResumeMakes ==
  ASSUME TableInv, NEW id \in DOMAIN pvms, NEW gas \in Nat, NEW pc, PvmResume(id, gas, pc)
  PROVE  /\ reply' = Pause(Resumed(Machine(id), gas, pc))
         /\ DOMAIN pvms' = DOMAIN pvms /\ Machine(id)' = Resumed(Machine(id), gas, pc)
         /\ Resumed(Machine(id), gas, pc).gas \in Nat
         /\ Whole(Machine(id).regs) => Whole(Resumed(Machine(id), gas, pc).regs)
<1> DEFINE m == Resumed(Machine(id), gas, pc)
           code == programs[pvms[id].program].code
<1>1. reply' = Pause(m) /\ Becomes(id, m) /\ nextPvmId' = nextPvmId /\ uses' = uses
  BY DEF PvmResume, Live
<1>2. IsMachine(Machine(id), code)
  BY JoinedIsMachine DEF Machine
<1>3. IsMachine(m, code)
  BY <1>2, ResumedIsMachine
<1>4. m.gas \in Nat
  <2>1. IsGuest(m, code, FALSE)
    BY <1>2, ResumedIsGuest
  <2> QED BY <2>1 DEF IsGuest
<1>5. Whole(Machine(id).regs) => Whole(m.regs)
  <2>1. SUFFICES ASSUME Whole(Machine(id).regs) PROVE Whole(m.regs)
    OBVIOUS
  <2>2. IsGuest(m, code, TRUE)
    BY <1>2, <2>1, ResumedIsGuest
  <2> QED BY <2>2 DEF IsGuest
<1> HIDE DEF m
<1>6. Machine(id)' = m /\ DOMAIN pvms' = DOMAIN pvms
  BY <1>1, <1>3, BecomesSame
<1> QED BY <1>1, <1>4, <1>5, <1>6 DEF m

LEMMA WriteMakes ==
  ASSUME TableInv, NEW id \in DOMAIN pvms, NEW w, PvmWriteMemory(id, w.addr, w.bytes)
  PROVE  /\ reply' = Written(Machine(id), w.addr, w.bytes)
         /\ DOMAIN pvms' = DOMAIN pvms /\ Machine(id)' = WithBytes(Machine(id), w.addr, w.bytes)
<1> DEFINE m == WithBytes(Machine(id), w.addr, w.bytes)
           code == programs[pvms[id].program].code
<1>1. /\ reply' = Written(Machine(id), w.addr, w.bytes) /\ Becomes(id, m)
      /\ nextPvmId' = nextPvmId /\ uses' = uses
  BY DEF PvmWriteMemory, Live
<1>2. IsMachine(Machine(id), code)
  BY JoinedIsMachine DEF Machine
<1>3. IsMachine(m, code)
  BY <1>2, WithBytesIsMachine
<1> HIDE DEF m
<1>4. Machine(id)' = m /\ DOMAIN pvms' = DOMAIN pvms
  BY <1>1, <1>3, BecomesSame
<1> QED BY <1>1, <1>4 DEF m

LEMMA SetMakes ==
  ASSUME TableInv, NEW id \in DOMAIN pvms, NEW regs, Whole(regs),
         PvmSetRegisters(id, [i \in 1 .. NO_OF_REGISTERS |-> regs[i - 1]])
  PROVE  DOMAIN pvms' = DOMAIN pvms /\ Machine(id)' = [Machine(id) EXCEPT !.regs = regs]
<1> DEFINE m == WithRegisters(Machine(id), [i \in 1 .. NO_OF_REGISTERS |-> regs[i - 1]])
           code == programs[pvms[id].program].code
<1>1. Becomes(id, m) /\ nextPvmId' = nextPvmId /\ uses' = uses
  BY DEF PvmSetRegisters, Live
<1>2. IsMachine(Machine(id), code)
  BY JoinedIsMachine DEF Machine
<1>3. IsMachine(m, code)
  BY <1>2, WithRegistersIsMachine
<1>4. m = [Machine(id) EXCEPT !.regs = regs]
  BY <1>2, WrittenBack
<1> HIDE DEF m
<1>5. Machine(id)' = m /\ DOMAIN pvms' = DOMAIN pvms
  BY <1>1, <1>3, BecomesSame
<1> QED BY <1>4, <1>5

\* Registers are set of a machine whatever they are.
LEMMA SetStays ==
  ASSUME TableInv, NEW id \in DOMAIN pvms, NEW values, PvmSetRegisters(id, values)
  PROVE  DOMAIN pvms' = DOMAIN pvms
BY DEF PvmSetRegisters, Live, Becomes

LEMMA StartMakes ==
  ASSUME TableInv, NEW p, PvmStart(p)
  PROVE  /\ nextPvmId' \in DOMAIN pvms'
         /\ \A id : id = nextPvmId' =>
              Machine(id)' = Fresh(programs[p].code, programs[p].regs, programs[p].mem)
<1>1. /\ nextPvmId' = nextPvmId + 1 /\ DOMAIN pvms' = DOMAIN pvms \cup {nextPvmId + 1}
      /\ pvms'[nextPvmId + 1] = Interpreter(p) /\ programs' = programs
  BY StartKeeps
<1>2. ASSUME NEW id, id = nextPvmId'
      PROVE  Machine(id)' = Fresh(programs[p].code, programs[p].regs, programs[p].mem)
  <2>1. Machine(id)' = Joined(programs'[pvms'[id].program], pvms'[id])
    BY DEF Machine
  <2>2. pvms'[id] = Interpreter(p) /\ Interpreter(p).program = p
    BY <1>1, <1>2 DEF Interpreter
  <2> QED BY <1>1, <2>1, <2>2 DEF Joined, Interpreter, Fresh
<1> QED BY <1>1, <1>2

-----------------------------------------------------------------------------
(* The clients.                                                            *)

ClientFields ==
  {"phase", "id", "entries", "entry", "pause", "gas", "pc", "termination", "success"}

\* A client asks with gas that is a number, and has a machine from when it
\* started one until it is done.
ClientInv ==
  /\ TableInv /\ IsTrace(lines)
  /\ client = [f \in ClientFields |-> client[f]] /\ client.gas \in Nat
  /\ client.phase \in {"resume", "reads", "run", "log"} => client.id \in DOMAIN pvms
  /\ client.phase \in {"reads", "log"} => client.pause.gas \in Nat
  /\ client.phase \in {"start", "resume", "reads"} => AreEntries(client.entries)
  /\ client.phase = "reads" => IsEntry(client.entry)

LEMMA ClientInitInv == ASSUME ClientInit PROVE ClientInv
<1>1. PICK phase \in {"open", "prepare", "idle"} : client = [NoClient EXCEPT !.phase = phase]
  BY DEF ClientInit, Doing
<1>2. /\ client = [f \in ClientFields |-> client[f]] /\ client.gas = 0
      /\ client.phase \in {"open", "prepare", "idle"}
  BY <1>1 DEF NoClient, ClientFields
<1>3. TableInv /\ IsTrace(lines)
  BY InitTable DEF ClientInit
<1> QED BY <1>2, <1>3 DEF ClientInv

LEMMA TailOfEntries ==
  ASSUME NEW es, AreEntries(es), es # <<>>
  PROVE  IsEntry(Head(es)) /\ AreEntries(Tail(es))
<1>1. IsSeq(es)
  BY DEF AreEntries
<1>2. /\ IsSeq(Tail(es)) /\ Len(es) \in Nat \ {0}
      /\ DOMAIN es = 1 .. Len(es) /\ DOMAIN Tail(es) = 1 .. Len(es) - 1
      /\ Head(es) = es[1] /\ \A i \in 1 .. Len(es) - 1 : Tail(es)[i] = es[i + 1]
  BY <1>1, TailIsSeq
<1>3. 1 \in DOMAIN es /\ \A i \in 1 .. Len(es) - 1 : i + 1 \in DOMAIN es
  BY <1>2
<1> QED BY <1>2, <1>3 DEF AreEntries

LEMMA EntryShrinks ==
  ASSUME NEW e, IsEntry(e)
  PROVE  /\ e.reads # <<>> => IsEntry([e EXCEPT !.reads = Tail(@)])
         /\ e.writes # <<>> => IsEntry([e EXCEPT !.writes = Tail(@)])
<1>1. ASSUME e.reads # <<>> PROVE IsEntry([e EXCEPT !.reads = Tail(@)])
  <2> DEFINE s == e.reads
             u == Tail(e.reads)
  <2>1. IsSeq(s)
    BY DEF IsEntry
  <2>2. /\ IsSeq(u) /\ Len(s) \in Nat \ {0} /\ DOMAIN s = 1 .. Len(s) /\ DOMAIN u = 1 .. Len(s) - 1
        /\ \A i \in 1 .. Len(s) - 1 : u[i] = s[i + 1]
    BY <1>1, <2>1, TailIsSeq
  <2>3. ASSUME NEW i \in DOMAIN u PROVE IsChunk(u[i])
    <3> HIDE DEF u
    <3>1. u[i] = s[i + 1] /\ i + 1 \in DOMAIN s
      BY <2>2
    <3> QED BY <3>1 DEF IsEntry
  <2> HIDE DEF u
  <2>4. IsEntry([e EXCEPT !.reads = u])
    BY <2>2, <2>3 DEF IsEntry, EntryFields
  <2> QED BY <2>4 DEF u
<1>2. ASSUME e.writes # <<>> PROVE IsEntry([e EXCEPT !.writes = Tail(@)])
  <2>1. IsSeq(e.writes)
    BY DEF IsEntry
  <2>2. IsSeq(Tail(e.writes))
    BY <1>2, <2>1, TailIsSeq
  <2> DEFINE u == Tail(e.writes)
  <2> HIDE DEF u
  <2>4. IsEntry([e EXCEPT !.writes = u])
    BY <2>2 DEF IsEntry, EntryFields, u
  <2> QED BY <2>4 DEF u
<1> QED BY <1>1, <1>2

LEMMA ReplayOpenInv == ASSUME ClientInv, TableInv', ReplayOpen PROVE ClientInv'
<1> DEFINE t == ParseTrace(lines)
<1>1. lines' = lines /\ client = [f \in ClientFields |-> client[f]] /\ client.gas \in Nat
  BY DEF ClientInv, ReplayOpen, untouched
<1>2. CASE Goes("done")
  BY <1>1, <1>2 DEF ClientInv, Goes, ClientFields
<1>3. CASE /\ t # THROWN
           /\ client' = [client EXCEPT !.phase = "start", !.entries = t.entries, !.gas = t.start.gas,
                                       !.pc = t.start.pc, !.termination = t.termination]
  <2>1. IsParse(t) /\ Complete(t)
    BY <1>3, TraceIsTyped DEF ClientInv
  <2>2. t.start.gas \in Nat /\ AreEntries(t.entries)
    BY <2>1 DEF IsParse, Complete
  <2> HIDE DEF t
  <2> QED BY <1>1, <1>3, <2>2 DEF ClientInv, ClientFields
<1>4. \/ Goes("done")
      \/ /\ t # THROWN
         /\ client' = [client EXCEPT !.phase = "start", !.entries = t.entries, !.gas = t.start.gas,
                                     !.pc = t.start.pc, !.termination = t.termination]
  BY DEF ReplayOpen
<1> QED BY <1>2, <1>3, <1>4

LEMMA StartInv == ASSUME ClientInv, TableInv', ReplayStart \/ RunStart PROVE ClientInv'
<1>1. /\ lines' = lines /\ client = [f \in ClientFields |-> client[f]] /\ client.gas \in Nat
      /\ client.phase = "start" => AreEntries(client.entries)
  BY DEF ClientInv, ReplayStart, RunStart, untouched
<1>2. nextPvmId' \in DOMAIN pvms'
  BY StartMakes DEF ClientInv, ReplayStart, RunStart
<1>3. CASE ReplayStart
  <2>1. client.phase = "start" /\ client' = [client EXCEPT !.phase = "resume", !.id = nextPvmId']
    BY <1>3 DEF ReplayStart, In
  <2> QED BY <1>1, <1>2, <2>1 DEF ClientInv, ClientFields
<1>4. CASE RunStart
  <2>1. client' = [client EXCEPT !.phase = "run", !.id = nextPvmId']
    BY <1>4 DEF RunStart
  <2> QED BY <1>1, <1>2, <2>1 DEF ClientInv, ClientFields
<1> QED BY <1>3, <1>4

LEMMA ReplayResumeInv == ASSUME ClientInv, TableInv', ReplayResume PROVE ClientInv'
<1> DEFINE m == Resumed(Machine(client.id), client.gas, client.pc)
<1>1. /\ lines' = lines /\ client = [f \in ClientFields |-> client[f]] /\ client.gas \in Nat
      /\ client.id \in DOMAIN pvms /\ AreEntries(client.entries)
  BY DEF ClientInv, ReplayResume, untouched, In
<1>2. reply' = Pause(m) /\ DOMAIN pvms' = DOMAIN pvms /\ m.gas \in Nat
  BY <1>1, ResumeMakes DEF ClientInv, ReplayResume
<1> HIDE DEF m
<1>3. reply'.gas \in Nat
  BY <1>2 DEF Pause
<1>4. CASE Fails
  BY <1>1, <1>4 DEF ClientInv, Fails, Goes, ClientFields
<1>5. CASE /\ client.entries # <<>>
           /\ client' = [client EXCEPT !.phase = "reads", !.pause = reply',
                                       !.entry = Head(client.entries), !.entries = Tail(@)]
  <2>1. IsEntry(Head(client.entries)) /\ AreEntries(Tail(client.entries))
    BY <1>1, <1>5, TailOfEntries
  <2> DEFINE h == Head(client.entries)
             u == Tail(client.entries)
  <2>2. client' = [client EXCEPT !.phase = "reads", !.pause = reply', !.entry = h, !.entries = u]
    BY <1>5
  <2> HIDE DEF h, u
  <2> QED BY <1>1, <1>2, <1>3, <2>1, <2>2 DEF ClientInv, ClientFields, h, u
<1>6. CASE \E success : client' = [client EXCEPT !.phase = "finally", !.success = success]
  BY <1>1, <1>6 DEF ClientInv, ClientFields
<1>7. \/ Fails
      \/ /\ client.entries # <<>>
         /\ client' = [client EXCEPT !.phase = "reads", !.pause = reply',
                                     !.entry = Head(client.entries), !.entries = Tail(@)]
      \/ \E success : client' = [client EXCEPT !.phase = "finally", !.success = success]
  <2>1. \/ Fails
        \/ /\ client.entries # <<>>
           /\ client' = [client EXCEPT !.phase = "reads", !.pause = reply',
                                       !.entry = Head(client.entries), !.entries = Tail(@)]
        \/ client' = [client EXCEPT !.phase = "finally", !.success = verify => TerminatedAsRecorded(reply')]
    <3>1. reply'.kind = "pause"
      BY <1>2 DEF Pause
    <3> QED BY <3>1, Zenon DEF ReplayResume
  <2> QED BY <2>1, Zenon
<1> QED BY <1>4, <1>5, <1>6, <1>7

LEMMA ReplayReadInv == ASSUME ClientInv, TableInv', ReplayRead PROVE ClientInv'
<1> DEFINE e == client.entry
           n == [e EXCEPT !.reads = Tail(@)]
<1>1. /\ lines' = lines /\ client = [f \in ClientFields |-> client[f]] /\ client.gas \in Nat
      /\ client.id \in DOMAIN pvms /\ AreEntries(client.entries) /\ IsEntry(e)
      /\ client.pause.gas \in Nat /\ client.phase = "reads" /\ e.reads # <<>>
  BY DEF ClientInv, ReplayRead, untouched, In
<1>2. pvms' = pvms
  BY DEF ReplayRead, PvmReadMemory
<1>3. CASE Fails
  BY <1>1, <1>3 DEF ClientInv, Fails, Goes, ClientFields
<1>4. CASE client' = [client EXCEPT !.entry.reads = Tail(@)]
  <2>1. IsEntry(n)
    BY <1>1, EntryShrinks
  <2>2. client' = [client EXCEPT !.entry = n]
    BY <1>4
  <2> HIDE DEF n, e
  <2> QED BY <1>1, <1>2, <2>1, <2>2 DEF ClientInv, ClientFields
<1> QED BY <1>3, <1>4 DEF ReplayRead

LEMMA ReplayWriteInv == ASSUME ClientInv, TableInv', ReplayWrite PROVE ClientInv'
<1> DEFINE e == client.entry
           n == [e EXCEPT !.writes = Tail(@)]
           w == Head(e.writes)
<1>1. /\ lines' = lines /\ client = [f \in ClientFields |-> client[f]] /\ client.gas \in Nat
      /\ client.id \in DOMAIN pvms /\ AreEntries(client.entries) /\ IsEntry(e)
      /\ client.pause.gas \in Nat /\ client.phase = "reads" /\ e.writes # <<>>
  BY DEF ClientInv, ReplayWrite, untouched, In
<1>2. DOMAIN pvms' = DOMAIN pvms
  <2>1. TableInv /\ PvmWriteMemory(client.id, w.addr, w.bytes)
    BY DEF ReplayWrite, ClientInv
  <2> QED BY <1>1, <2>1, WriteMakes
<1>3. CASE Fails
  BY <1>1, <1>3 DEF ClientInv, Fails, Goes, ClientFields
<1>4. CASE client' = [client EXCEPT !.entry.writes = Tail(@)]
  <2>1. IsEntry(n)
    BY <1>1, EntryShrinks
  <2>2. client' = [client EXCEPT !.entry = n]
    BY <1>4
  <2> HIDE DEF n, e, w
  <2> QED BY <1>1, <1>2, <2>1, <2>2 DEF ClientInv, ClientFields
<1> QED BY <1>3, <1>4 DEF ReplayWrite

LEMMA ReplayAnswerInv == ASSUME ClientInv, TableInv', ReplayAnswer PROVE ClientInv'
<1> DEFINE gas == IF client.entry.setGas # <<>> THEN client.entry.setGas[1] ELSE client.pause.gas
<1>1. /\ lines' = lines /\ client = [f \in ClientFields |-> client[f]] /\ client.gas \in Nat
      /\ client.id \in DOMAIN pvms /\ AreEntries(client.entries) /\ IsEntry(client.entry)
      /\ client.pause.gas \in Nat
  BY DEF ClientInv, ReplayAnswer, untouched, In
<1>2. gas \in Nat
  <2> DEFINE s == client.entry.setGas
  <2>1. s = <<>> \/ \E g \in Nat : s = <<g>>
    BY <1>1 DEF IsEntry
  <2> HIDE DEF s
  <2>2. (IF s # <<>> THEN s[1] ELSE client.pause.gas) \in Nat
    BY <1>1, <2>1
  <2> QED BY <2>2 DEF s
<1>3. DOMAIN pvms' = DOMAIN pvms
  <2>1. TableInv /\ \E values : PvmSetRegisters(client.id, values)
    BY DEF ReplayAnswer, ClientInv
  <2> QED BY <1>1, <2>1, SetStays
<1>4. client' = [client EXCEPT !.phase = "resume", !.pc = client.pause.nextPc, !.gas = gas]
  BY DEF ReplayAnswer
<1> HIDE DEF gas
<1> QED BY <1>1, <1>2, <1>3, <1>4 DEF ClientInv, ClientFields

LEMMA RunResumeInv == ASSUME ClientInv, TableInv', RunResume PROVE ClientInv'
<1> DEFINE m == Resumed(Machine(client.id), client.gas, client.pc)
<1>1. /\ lines' = lines /\ client = [f \in ClientFields |-> client[f]] /\ client.gas \in Nat
      /\ client.id \in DOMAIN pvms
  BY DEF ClientInv, RunResume, untouched, In
<1>2. reply' = Pause(m) /\ DOMAIN pvms' = DOMAIN pvms /\ m.gas \in Nat
  BY <1>1, ResumeMakes DEF ClientInv, RunResume
<1> HIDE DEF m
<1>3. reply'.gas \in Nat
  BY <1>2 DEF Pause
<1>4. CASE Fails
  BY <1>1, <1>4 DEF ClientInv, Fails, Goes, ClientFields
<1>5. CASE client' = [client EXCEPT !.phase = "log", !.pause = reply']
  BY <1>1, <1>2, <1>3, <1>5 DEF ClientInv, ClientFields
<1> QED BY <1>4, <1>5 DEF RunResume

LEMMA RunLogInv == ASSUME ClientInv, TableInv', RunLog PROVE ClientInv'
<1>1. /\ lines' = lines /\ client = [f \in ClientFields |-> client[f]] /\ client.gas \in Nat
      /\ client.id \in DOMAIN pvms /\ client.pause.gas \in Nat
  BY DEF ClientInv, RunLog, untouched, In
<1>2. LogGas \in Nat
  BY <1>1, ReplayAssumption DEF LogGas
<1>3. DOMAIN pvms' = DOMAIN pvms
  <2>1. TableInv /\ \E values : PvmSetRegisters(client.id, values)
    BY DEF RunLog, ClientInv
  <2> QED BY <1>1, <2>1, SetStays
<1>4. client' = [client EXCEPT !.phase = "run", !.pc = client.pause.nextPc, !.gas = LogGas]
  BY DEF RunLog
<1> QED BY <1>1, <1>2, <1>3, <1>4 DEF ClientInv, ClientFields

LEMMA ClientCalls ==
  ASSUME client.gas \in Nat, ClientNext
  PROVE  Call \/ UNCHANGED apiVars
<1>1. CASE ReplayOpen
  BY <1>1 DEF ReplayOpen, Call
<1>2. CASE ReplayStart \/ RunStart
  BY <1>2 DEF ReplayStart, RunStart, Call
<1>3. CASE ReplayResume \/ RunResume
  BY <1>3 DEF ReplayResume, RunResume, Call
<1>4. CASE ReplayRead \/ ReplayWrite
  BY <1>4 DEF ReplayRead, ReplayWrite, Call
<1>5. CASE ReplayAnswer \/ RunLog
  BY <1>5 DEF ReplayAnswer, RunLog, Call
<1>6. CASE ReplayFinally
  BY <1>6 DEF ReplayFinally, Call
<1>7. ASSUME NEW p, NEW gas, NEW pc, RunPrepare(p, gas, pc) PROVE Call
  BY <1>7 DEF RunPrepare, Call
<1> QED BY <1>1, <1>2, <1>3, <1>4, <1>5, <1>6, <1>7 DEF ClientNext

LEMMA ClientNextInv ==
  ASSUME ClientInv, ClientNext \/ UserNext
  PROVE  ClientInv' /\ (AbstractStep \/ UNCHANGED Handles!avars)
<1>1. TableInv' /\ (AbstractStep \/ UNCHANGED Handles!avars)
  <2>1. TableInv /\ client.gas \in Nat
    BY DEF ClientInv
  <2>2. Call \/ UNCHANGED apiVars
    BY <2>1, ClientCalls, NextCalls DEF UserNext
  <2> QED BY <2>1, <2>2, CallRefines, StutterRefines
<1>2. CASE ReplayFinally
  BY <1>1, <1>2 DEF ClientInv, ReplayFinally, Goes, ClientFields, untouched
<1>3. ASSUME NEW p, NEW gas \in GasValues, NEW pc, RunPrepare(p, gas, pc) PROVE ClientInv'
  <2>1. gas \in Nat
    BY ApiAssumption
  <2> QED BY <1>1, <1>3, <2>1 DEF ClientInv, RunPrepare, ClientFields, untouched
<1>4. CASE UserNext
  BY <1>1, <1>4 DEF ClientInv, UserNext, In
<1> QED BY <1>1, <1>2, <1>3, <1>4, ReplayOpenInv, StartInv, ReplayResumeInv, ReplayReadInv,
           ReplayWriteInv, ReplayAnswerInv, RunResumeInv, RunLogInv DEF ClientNext

LEMMA ClientStutters ==
  ASSUME ClientInv, UNCHANGED vars
  PROVE  ClientInv' /\ UNCHANGED Handles!avars
<1>1. TableInv' /\ UNCHANGED Handles!avars
  BY StutterRefines DEF ClientInv, vars
<1>2. UNCHANGED <<client, lines, pvms>>
  BY DEF vars, apiVars
<1> QED BY <1>1, <1>2 DEF ClientInv

\* The same when the replay of a trace or the run command is the user: the gas
\* it asks with, which is of the trace, of the command line or what is left at
\* a pause, is a number (trace-replay.ts:76-178, index.ts:228-269).
THEOREM ClientTheorem == ClientSpec => ImplementsHandles
<1>1. ClientInit => ClientInv /\ Handles!AInit
  BY ClientInitInv, InitRefines DEF ClientInit
<1>2. ClientInv /\ [ClientNext \/ UserNext]_vars => ClientInv' /\ [AbstractStep]_Handles!avars
  BY ClientNextInv, ClientStutters
<1> QED BY <1>1, <1>2, PTL DEF ClientSpec, ImplementsHandles, Handles!ASpec, AbstractStep

-----------------------------------------------------------------------------
(* The replay that verifies.                                               *)

\* The replay of trace t, verified: where it stands in the recording of what
\* the program of t does when it is answered as t says.
Replayable(t) ==
  /\ t # THROWN /\ ~Unbuildable(t)
  /\ AreEntries(t.entries) /\ IsTermination(t.termination) /\ t.start.gas \in Nat
Verdict(t) == t # THROWN /\ ~Unbuildable(t) /\ IsRecording(t)

\* The program was prepared.
Starts(t) ==
  /\ client.entries = t.entries /\ client.gas = t.start.gas /\ client.pc = t.start.pc
  /\ programs[Len(programs)] = ProgramOf(t)

\* Machine id is about to do what it did after k entries.
Resumes(t, k, id) ==
  /\ Reached(t, k) /\ client.id = id /\ client.entries = Rest(t.entries, k)
  /\ Whole(Machine(id).regs) /\ Resumed(Machine(id), client.gas, client.pc) = Run(t, k).m

\* It is paused as entry k + 1 says, of which i reads and j writes are done.
Pauses(t, k, id, i, j) ==
  LET m == Run(t, k).m
      e == t.entries[k + 1]
  IN /\ Reached(t, k) /\ k < Len(t.entries) /\ m.status = "HOST" /\ Whole(m.regs)
     /\ client.id = id /\ client.entries = Rest(t.entries, k + 1)
     /\ client.pause = Pause(m) /\ AsRecorded(Pause(m), e)
     /\ client.entry.setRegs = e.setRegs /\ client.entry.setGas = e.setGas
     /\ i \in 0 .. Len(e.reads) /\ client.entry.reads = Rest(e.reads, i)
     /\ \A x \in 1 .. i : ReadsAs(m, e.reads[x])
     /\ j \in 0 .. Len(e.writes) /\ client.entry.writes = Rest(e.writes, j)
     /\ \A x \in 1 .. j : Writes(Folded("write", m, e.writes, x - 1), e.writes[x])
     /\ Machine(id) = Folded("write", m, e.writes, j)
     /\ j > 0 => i = Len(e.reads)

Replaying(t) ==
  /\ client.phase \in {"open", "start", "resume", "reads", "finally", "done"}
  /\ client.phase \in {"open", "start", "resume", "reads"} => ~client.success
  /\ client.phase \in {"start", "resume", "reads"} => Replayable(t) /\ client.termination = t.termination
  /\ client.phase = "start" => Starts(t)
  /\ client.phase = "resume" => \E k, id : Resumes(t, k, id)
  /\ client.phase = "reads" => \E k, id, i, j : Pauses(t, k, id, i, j)
  /\ client.phase \in {"finally", "done"} => (client.success <=> Verdict(t))

LEMMA Failing ==
  ASSUME NEW t, client = [f \in ClientFields |-> client[f]], ~client.success, ~Verdict(t),
         Fails \/ Goes("done")
  PROVE  Replaying(t)'
<1>1. PICK phase \in {"finally", "done"} : client' = [client EXCEPT !.phase = phase]
  BY DEF Fails, Goes
<1>2. client'.phase = phase /\ client'.success = client.success
  BY <1>1 DEF ClientFields
<1>3. ~client'.success
  BY <1>2
<1> QED BY <1>1, <1>2, <1>3 DEF Replaying

LEMMA OpenReplays ==
  ASSUME NEW t, t = ParseTrace(lines), ClientInv, Replaying(t), ReplayOpen
  PROVE  Replaying(t)'
<1> DEFINE p == ProgramOf(t)
<1>1. client = [f \in ClientFields |-> client[f]] /\ client.phase = "open" /\ ~client.success
  BY DEF ClientInv, ReplayOpen, In, Replaying
<1>2. CASE t = THROWN \/ Unbuildable(t)
  <2>1. Goes("done") /\ ~Verdict(t)
    BY <1>2 DEF ReplayOpen, Verdict
  <2> QED BY <1>1, <2>1, Failing
<1>3. CASE t # THROWN /\ ~Unbuildable(t)
  <2>1. /\ PrepareProgram(p.code, p.regs, p.mem)
        /\ client' = [client EXCEPT !.phase = "start", !.entries = t.entries, !.gas = t.start.gas,
                                    !.pc = t.start.pc, !.termination = t.termination]
    BY <1>3 DEF ReplayOpen
  <2>2. IsParse(t) /\ Complete(t)
    BY <1>3, TraceIsTyped DEF ClientInv
  <2>3. Replayable(t)
    BY <1>3, <2>2 DEF IsParse, Complete, Replayable
  <2>4. p = [code |-> p.code, regs |-> p.regs, mem |-> p.mem]
    BY DEF ProgramOf
  <2> HIDE DEF p
  <2>5. programs'[Len(programs')] = p
    <3> DEFINE S == {programs[q] : q \in DOMAIN programs} \cup {p}
    <3>1. programs' = Append(programs, p)
      BY <2>1, <2>4 DEF PrepareProgram
    <3>2. programs \in Seq(S) /\ p \in S
      <4>1. programs \in Seq({programs[q] : q \in DOMAIN programs})
        BY DEF ClientInv, TableInv
      <4>2. {programs[q] : q \in DOMAIN programs} \subseteq S
        OBVIOUS
      <4> HIDE DEF S
      <4> QED BY <4>1, <4>2, SeqMonotonic DEF S
    <3> HIDE DEF S
    <3> QED BY <3>1, <3>2, AppendProperties
  <2>6. /\ client'.phase = "start" /\ client'.entries = t.entries /\ client'.gas = t.start.gas
        /\ client'.pc = t.start.pc /\ client'.termination = t.termination
        /\ client'.success = client.success
    BY <1>1, <2>1 DEF ClientFields
  <2>7. ~client'.success
    BY <1>1, <2>6
  <2> QED BY <2>3, <2>5, <2>6, <2>7 DEF Replaying, Starts, p
<1> QED BY <1>2, <1>3

LEMMA NothingRecorded ==
  ASSUME NEW t, IsSeq(t.entries)
  PROVE  /\ Reached(t, 0)
         /\ Run(t, 0).m = Resumed(Fresh(ProgramOf(t).code, ProgramOf(t).regs, ProgramOf(t).mem),
                                  t.start.gas, t.start.pc)
<1> DEFINE first == FirstRun(ProgramOf(t), t.start)
           m == Resumed(Fresh(ProgramOf(t).code, ProgramOf(t).regs, ProgramOf(t).mem),
                        t.start.gas, t.start.pc)
           ok == TRUE
<1>1. Run(t, 0) = first /\ 0 \in 0 .. Len(t.entries)
  BY RunsOn DEF Runs
<1>2. first = [m |-> m, entries |-> <<>>, possible |-> ok]
  BY DEF FirstRun
<1> HIDE DEF first, m, ok
<1>3. first.m = m /\ first.entries = <<>> /\ first.possible = ok
  BY <1>2
<1>4. first.possible
  BY <1>3, Zenon DEF ok
<1>5. Len(<<>>) = 0
  OBVIOUS
<1> QED BY <1>1, <1>3, <1>4, <1>5, EmptyIsSeq DEF Reached, m

LEMMA StartReplays ==
  ASSUME NEW t, ClientInv, Replaying(t), ReplayStart
  PROVE  Replaying(t)'
<1> DEFINE p == ProgramOf(t)
<1>1. /\ client = [f \in ClientFields |-> client[f]] /\ client.phase = "start" /\ ~client.success
      /\ Replayable(t) /\ Starts(t) /\ client.termination = t.termination
  BY DEF ClientInv, ReplayStart, In, Replaying
<1>2. /\ client' = [client EXCEPT !.phase = "resume", !.id = nextPvmId']
      /\ PvmStart(Len(programs)) /\ programs[Len(programs)] = p
  BY <1>1 DEF ReplayStart, Starts
<1>3. PICK id : id = nextPvmId'
  OBVIOUS
<1>4. Machine(id)' = Fresh(p.code, p.regs, p.mem)
  <2> HIDE DEF p
  <2> QED BY <1>2, <1>3, StartMakes DEF ClientInv
<1>5. /\ client'.phase = "resume" /\ client'.id = id /\ client'.entries = t.entries
      /\ client'.gas = t.start.gas /\ client'.pc = t.start.pc /\ client'.termination = t.termination
      /\ client'.success = client.success
  <2>1. client.entries = t.entries /\ client.gas = t.start.gas /\ client.pc = t.start.pc
    BY <1>1 DEF Starts
  <2> QED BY <1>1, <1>2, <1>3, <2>1 DEF ClientFields
<1>6. Whole(Fresh(p.code, p.regs, p.mem).regs)
  <2>1. Whole(p.regs)
    <3>1. CASE IsSpiTrace(t)
      BY <3>1 DEF ProgramOf, SpiRegisters, Whole
    <3>2. CASE ~IsSpiTrace(t)
      BY <3>2 DEF ProgramOf, EncodeRegistersFromDump, Whole
    <3> QED BY <3>1, <3>2
  <2> QED BY <2>1 DEF Fresh
<1>7. IsSeq(t.entries)
  BY <1>1 DEF Replayable, AreEntries
<1> HIDE DEF p
<1>8. /\ Reached(t, 0) /\ Rest(t.entries, 0) = t.entries
      /\ Run(t, 0).m = Resumed(Fresh(p.code, p.regs, p.mem), t.start.gas, t.start.pc)
  BY <1>7, NothingRecorded, RestOf DEF p
<1>9. Resumes(t, 0, id)'
  BY <1>4, <1>5, <1>6, <1>8 DEF Resumes
<1>10. ~client'.success
  BY <1>1, <1>5
<1> QED BY <1>1, <1>5, <1>9, <1>10 DEF Replaying

LEMMA ResumeReplays ==
  ASSUME NEW t, ClientInv, Replaying(t), verify, ReplayResume
  PROVE  Replaying(t)'
<1>1. /\ client = [f \in ClientFields |-> client[f]] /\ client.phase = "resume" /\ ~client.success
      /\ Replayable(t) /\ client.termination = t.termination
      /\ TableInv /\ client.id \in DOMAIN pvms /\ client.gas \in Nat
  BY DEF ClientInv, ReplayResume, In, Replaying
<1>2. PICK k, id : Resumes(t, k, id)
  BY <1>1 DEF Replaying
<1> DEFINE m == Run(t, k).m
           n == Len(t.entries)
           e == t.entries[k + 1]
<1>3. /\ Reached(t, k) /\ client.id = id /\ client.entries = Rest(t.entries, k)
      /\ Whole(Machine(id).regs) /\ Resumed(Machine(id), client.gas, client.pc) = m
      /\ id \in DOMAIN pvms
  BY <1>1, <1>2 DEF Resumes
<1>4. reply' = Pause(m) /\ Machine(id)' = m /\ Whole(m.regs)
  <2>1. PvmResume(id, client.gas, client.pc)
    BY <1>3 DEF ReplayResume
  <2> HIDE DEF m
  <2> QED BY <1>1, <1>3, <2>1, ResumeMakes
<1>5. AreEntries(t.entries) /\ IsSeq(t.entries) /\ IsTermination(t.termination) /\ t # THROWN /\ ~Unbuildable(t)
  BY <1>1 DEF Replayable, AreEntries
<1>6. /\ k \in 0 .. n /\ n \in Nat /\ (client.entries = <<>> <=> k = n)
      /\ k < n => Head(client.entries) = e /\ Tail(client.entries) = Rest(t.entries, k + 1)
  BY <1>3, <1>5, RestOf DEF Reached
<1>7. k < n => IsEntry(e)
  <2>1. k < n => k + 1 \in DOMAIN t.entries
    BY <1>5, <1>6 DEF IsSeq
  <2> QED BY <1>5, <2>1 DEF AreEntries
<1> HIDE DEF m, e
<1>8. reply'.kind = "pause" /\ reply'.status = m.status
  BY <1>4 DEF Pause
<1>9. CASE m.status = "HOST" /\ k = n
  <2>1. Fails
    BY <1>6, <1>8, <1>9, Zenon DEF ReplayResume
  <2>2. ~Verdict(t)
    BY <1>5, <1>9, RunsOut DEF Verdict, m
  <2> QED BY <1>1, <2>1, <2>2, Failing
<1>10. CASE m.status = "HOST" /\ k # n /\ ~AsRecorded(Pause(m), e)
  <2>1. k < n
    BY <1>6, <1>10
  <2>2. Fails
    BY <1>4, <1>6, <1>8, <1>10, <2>1, Zenon DEF ReplayResume
  <2>3. Seen(m, e) # e
    BY <1>4, <1>7, <1>10, <2>1, SeenAgrees
  <2>4. ~IsRecording(t)
    BY <1>3, <1>5, <1>10, <2>1, <2>3, UnlikeRecording DEF m, e
  <2> QED BY <1>1, <2>2, <2>4, Failing DEF Verdict
<1>11. CASE m.status = "HOST" /\ k # n /\ AsRecorded(Pause(m), e)
  <2>1. k < n /\ k + 1 \in 1 .. n
    BY <1>6, <1>11
  <2>2. client' = [client EXCEPT !.phase = "reads", !.pause = reply',
                                 !.entry = Head(client.entries), !.entries = Tail(@)]
    BY <1>4, <1>6, <1>8, <1>11, <2>1, Zenon DEF ReplayResume
  <2>3. client' = [client EXCEPT !.phase = "reads", !.pause = reply',
                                 !.entry = e, !.entries = Rest(t.entries, k + 1)]
    BY <1>6, <2>1, <2>2
  <2>4. /\ client'.phase = "reads" /\ client'.pause = Pause(m) /\ client'.entry = e
        /\ client'.entries = Rest(t.entries, k + 1) /\ client'.id = id
        /\ client'.termination = t.termination /\ client'.success = client.success
    BY <1>1, <1>3, <1>4, <2>3 DEF ClientFields
  <2>5. IsEntry(e)
    BY <1>7, <2>1
  <2>6. IsSeq(e.reads) /\ IsSeq(e.writes)
    BY <2>5 DEF IsEntry
  <2>7. Len(e.reads) \in Nat /\ Len(e.writes) \in Nat /\ Rest(e.reads, 0) = e.reads /\ Rest(e.writes, 0) = e.writes
    BY <2>6, RestOf
  <2>8. Folded("write", m, e.writes, 0) = m
    <3>1. DOMAIN e.writes = 1 .. Len(e.writes)
      BY <2>6 DEF IsSeq
    <3>2. Folds("write", m, e.writes, Len(e.writes))
      BY <2>7, <3>1, FoldsOn
    <3> QED BY <3>2 DEF Folds
  <2>9. Pauses(t, k, id, 0, 0)'
    BY <1>3, <1>4, <1>11, <2>1, <2>4, <2>7, <2>8 DEF Pauses, m, e
  <2>10. ~client'.success
    BY <1>1, <2>4
  <2> QED BY <1>1, <2>4, <2>9, <2>10 DEF Replaying
<1>12. CASE m.status # "HOST"
  <2> DEFINE ok == verify => TerminatedAsRecorded(reply')
  <2>1. client' = [client EXCEPT !.phase = "finally", !.success = ok]
    BY <1>8, <1>12, Zenon DEF ReplayResume
  <2>2. ok <=> Verdict(t)
    <3>1. IsRecording(t) <=> k = n /\ EndsAs(m, t.termination)
      BY <1>3, <1>5, <1>12, StoppedIsRecording DEF m
    <3>2. TerminatedAsRecorded(reply') <=> k = n /\ EndsAs(m, t.termination)
      <4>1. reply'.status = m.status /\ reply'.pc = m.pc /\ reply'.gas = m.gas
        BY <1>4 DEF Pause
      <4> QED BY <1>1, <1>6, <4>1 DEF TerminatedAsRecorded, EndsAs
    <3> QED BY <1>5, <3>1, <3>2 DEF Verdict
  <2> HIDE DEF ok
  <2>3. client'.phase = "finally" /\ client'.success = ok
    BY <1>1, <2>1 DEF ClientFields
  <2>4. client'.success <=> Verdict(t)
    BY <2>2, <2>3, Zenon
  <2> QED BY <2>3, <2>4 DEF Replaying
<1> QED BY <1>9, <1>10, <1>11, <1>12

\* What is known while a replay is paused.
LEMMA PausedReplay ==
  ASSUME NEW t, ClientInv, Replaying(t), client.phase = "reads"
  PROVE  /\ client = [f \in ClientFields |-> client[f]] /\ ~client.success
         /\ Replayable(t) /\ client.termination = t.termination
         /\ TableInv /\ client.id \in DOMAIN pvms /\ IsEntry(client.entry) /\ IsSeq(t.entries)
         /\ \E k, id, i, j : Pauses(t, k, id, i, j) /\ IsEntry(t.entries[k + 1])
<1>1. /\ client = [f \in ClientFields |-> client[f]] /\ ~client.success
      /\ Replayable(t) /\ client.termination = t.termination
      /\ TableInv /\ client.id \in DOMAIN pvms /\ IsEntry(client.entry)
  BY DEF ClientInv, Replaying
<1>2. PICK k, id, i, j : Pauses(t, k, id, i, j)
  BY DEF Replaying
<1>3. IsSeq(t.entries) /\ AreEntries(t.entries)
  BY <1>1 DEF Replayable, AreEntries
<1>4. k + 1 \in DOMAIN t.entries
  <2>1. k \in 0 .. Len(t.entries) /\ k < Len(t.entries)
    BY <1>2 DEF Pauses, Reached
  <2>2. Len(t.entries) \in Nat /\ DOMAIN t.entries = 1 .. Len(t.entries)
    BY <1>3 DEF IsSeq
  <2> QED BY <2>1, <2>2
<1> QED BY <1>1, <1>2, <1>3, <1>4 DEF AreEntries

LEMMA ReadReplays ==
  ASSUME NEW t, ClientInv, Replaying(t), verify, ReplayRead
  PROVE  Replaying(t)'
<1>1. /\ client = [f \in ClientFields |-> client[f]] /\ ~client.success /\ client.phase = "reads"
      /\ Replayable(t) /\ client.termination = t.termination
      /\ TableInv /\ client.id \in DOMAIN pvms /\ IsEntry(client.entry) /\ IsSeq(t.entries)
  BY PausedReplay DEF ReplayRead, In
<1>2. PICK k, id, i, j : Pauses(t, k, id, i, j) /\ IsEntry(t.entries[k + 1])
  BY PausedReplay DEF ReplayRead, In
<1> DEFINE m == Run(t, k).m
           e == t.entries[k + 1]
           read == Head(client.entry.reads)
<1>3. /\ Reached(t, k) /\ k < Len(t.entries) /\ m.status = "HOST" /\ Whole(m.regs)
      /\ client.id = id /\ client.entries = Rest(t.entries, k + 1)
      /\ client.pause = Pause(m) /\ AsRecorded(Pause(m), e)
      /\ client.entry.setRegs = e.setRegs /\ client.entry.setGas = e.setGas
      /\ i \in 0 .. Len(e.reads) /\ client.entry.reads = Rest(e.reads, i)
      /\ \A x \in 1 .. i : ReadsAs(m, e.reads[x])
      /\ j \in 0 .. Len(e.writes) /\ client.entry.writes = Rest(e.writes, j)
      /\ \A x \in 1 .. j : Writes(Folded("write", m, e.writes, x - 1), e.writes[x])
      /\ Machine(id) = Folded("write", m, e.writes, j)
      /\ j > 0 => i = Len(e.reads)
  BY <1>2 DEF Pauses
<1>4. IsSeq(e.reads) /\ IsSeq(e.writes) /\ IsEntry(e)
  BY <1>2 DEF IsEntry
<1>5. client.entry.reads # <<>> /\ PvmReadMemory(id, read.addr, Len(read.bytes))
  BY <1>3 DEF ReplayRead
<1> HIDE DEF m, e
<1>6. /\ Len(e.reads) \in Nat /\ i < Len(e.reads) /\ i + 1 \in 1 .. Len(e.reads) /\ j = 0
      /\ DOMAIN e.reads = 1 .. Len(e.reads) /\ Len(e.writes) \in Nat
      /\ read = e.reads[i + 1] /\ Tail(client.entry.reads) = Rest(e.reads, i + 1)
  <2>1. Len(e.reads) \in Nat /\ DOMAIN e.reads = 1 .. Len(e.reads) /\ Len(e.writes) \in Nat
    BY <1>4 DEF IsSeq
  <2>2. i # Len(e.reads)
    BY <1>3, <1>4, <1>5, RestOf
  <2>3. i < Len(e.reads)
    BY <1>3, <2>1, <2>2
  <2>4. read = e.reads[i + 1] /\ Tail(client.entry.reads) = Rest(e.reads, i + 1)
    BY <1>3, <1>4, <2>3, RestOf
  <2> QED BY <1>3, <2>1, <2>2, <2>3, <2>4
<1>7. Machine(id) = m
  <2>1. DOMAIN e.writes = 1 .. Len(e.writes)
    BY <1>4 DEF IsSeq
  <2>2. Folds("write", m, e.writes, Len(e.writes))
    BY <1>6, <2>1, FoldsOn
  <2> QED BY <1>3, <1>6, <2>2 DEF Folds
<1>8. reply' = BytesAt(m, read.addr, Len(read.bytes)) /\ UNCHANGED <<programs, pvms>>
  BY <1>1, <1>3, <1>5, <1>7 DEF PvmReadMemory, Live
<1>9. Machine(id)' = Machine(id)
  BY <1>8 DEF Machine
<1>10. CASE ReadsAs(m, read)
  <2> DEFINE u == Rest(e.reads, i + 1)
  <2>1. client' = [client EXCEPT !.entry.reads = Tail(@)]
    BY <1>8, <1>10 DEF ReplayRead, ReadsAs
  <2>2. client' = [client EXCEPT !.entry.reads = u]
    BY <1>6, <2>1
  <2> HIDE DEF u
  <2>3. /\ client'.phase = "reads" /\ client'.pause = client.pause /\ client'.id = client.id
        /\ client'.entries = client.entries /\ client'.termination = client.termination
        /\ client'.success = client.success /\ client'.entry.reads = u
        /\ client'.entry.writes = client.entry.writes /\ client'.entry.setRegs = client.entry.setRegs
        /\ client'.entry.setGas = client.entry.setGas
    <3>1. client'.entry = [client.entry EXCEPT !.reads = u]
      BY <1>1, <2>2 DEF ClientFields
    <3> QED BY <1>1, <2>2, <3>1 DEF ClientFields, IsEntry, EntryFields
  <2>4. \A x \in 1 .. i + 1 : ReadsAs(m, e.reads[x])
    BY <1>3, <1>6, <1>10
  <2>5. Pauses(t, k, id, i + 1, j)'
    BY <1>3, <1>6, <1>9, <2>3, <2>4 DEF Pauses, u, m, e
  <2>6. ~client'.success
    BY <1>1, <2>3
  <2> QED BY <1>1, <2>3, <2>5, <2>6 DEF Replaying
<1>11. CASE ~ReadsAs(m, read)
  <2>1. Fails
    BY <1>8, <1>11 DEF ReplayRead, ReadsAs
  <2>2. Seen(m, e) # e
    BY <1>3, <1>4, <1>6, <1>11, SeenAgrees
  <2>3. ~IsRecording(t)
    BY <1>1, <1>3, <2>2, UnlikeRecording DEF m, e
  <2> QED BY <1>1, <2>1, <2>3, Failing DEF Verdict
<1> QED BY <1>10, <1>11

LEMMA WriteReplays ==
  ASSUME NEW t, ClientInv, Replaying(t), verify, ReplayWrite
  PROVE  Replaying(t)'
<1>1. /\ client = [f \in ClientFields |-> client[f]] /\ ~client.success /\ client.phase = "reads"
      /\ Replayable(t) /\ client.termination = t.termination
      /\ TableInv /\ client.id \in DOMAIN pvms /\ IsEntry(client.entry) /\ IsSeq(t.entries)
  BY PausedReplay DEF ReplayWrite, In
<1>2. PICK k, id, i, j : Pauses(t, k, id, i, j) /\ IsEntry(t.entries[k + 1])
  BY PausedReplay DEF ReplayWrite, In
<1> DEFINE m == Run(t, k).m
           e == t.entries[k + 1]
           write == Head(client.entry.writes)
<1>3. /\ Reached(t, k) /\ k < Len(t.entries) /\ m.status = "HOST" /\ Whole(m.regs)
      /\ client.id = id /\ client.entries = Rest(t.entries, k + 1)
      /\ client.pause = Pause(m) /\ AsRecorded(Pause(m), e)
      /\ client.entry.setRegs = e.setRegs /\ client.entry.setGas = e.setGas
      /\ i \in 0 .. Len(e.reads) /\ client.entry.reads = Rest(e.reads, i)
      /\ \A x \in 1 .. i : ReadsAs(m, e.reads[x])
      /\ j \in 0 .. Len(e.writes) /\ client.entry.writes = Rest(e.writes, j)
      /\ \A x \in 1 .. j : Writes(Folded("write", m, e.writes, x - 1), e.writes[x])
      /\ Machine(id) = Folded("write", m, e.writes, j)
      /\ j > 0 => i = Len(e.reads)
  BY <1>2 DEF Pauses
<1>4. IsSeq(e.reads) /\ IsSeq(e.writes) /\ IsEntry(e)
  BY <1>2 DEF IsEntry
<1>5. /\ client.entry.writes # <<>> /\ client.entry.reads = <<>>
      /\ PvmWriteMemory(id, write.addr, write.bytes)
  BY <1>3 DEF ReplayWrite
<1> HIDE DEF m, e
<1>6. /\ Len(e.reads) \in Nat /\ i = Len(e.reads) /\ DOMAIN e.reads = 1 .. Len(e.reads)
      /\ Len(e.writes) \in Nat /\ j < Len(e.writes) /\ j + 1 \in 1 .. Len(e.writes)
      /\ DOMAIN e.writes = 1 .. Len(e.writes)
      /\ write = e.writes[j + 1] /\ Tail(client.entry.writes) = Rest(e.writes, j + 1)
  <2>1. /\ Len(e.reads) \in Nat /\ Len(e.writes) \in Nat /\ DOMAIN e.reads = 1 .. Len(e.reads)
        /\ DOMAIN e.writes = 1 .. Len(e.writes)
    BY <1>4 DEF IsSeq
  <2>2. i = Len(e.reads) /\ j # Len(e.writes)
    BY <1>3, <1>4, <1>5, RestOf
  <2>3. j < Len(e.writes)
    BY <1>3, <2>1, <2>2
  <2>4. write = e.writes[j + 1] /\ Tail(client.entry.writes) = Rest(e.writes, j + 1)
    BY <1>3, <1>4, <2>3, RestOf
  <2> QED BY <1>3, <2>1, <2>2, <2>3, <2>4
<1>7. Folded("write", m, e.writes, j + 1) = WithBytes(Folded("write", m, e.writes, j), write.addr, write.bytes)
  <2>1. Folds("write", m, e.writes, Len(e.writes))
    BY <1>6, FoldsOn
  <2>2. Folded("write", m, e.writes, j + 1) = FoldStep("write", Folded("write", m, e.writes, (j + 1) - 1), write)
    BY <1>6, <2>1 DEF Folds
  <2>3. (j + 1) - 1 = j
    BY <1>3
  <2> QED BY <2>2, <2>3 DEF FoldStep
<1>8. /\ reply' = Written(Machine(id), write.addr, write.bytes)
      /\ Machine(id)' = Folded("write", m, e.writes, j + 1)
  <2>1. /\ reply' = Written(Machine(id), write.addr, write.bytes)
        /\ Machine(id)' = WithBytes(Machine(id), write.addr, write.bytes)
    BY <1>1, <1>3, <1>5, WriteMakes
  <2> QED BY <1>3, <1>7, <2>1
<1>9. reply'.ok <=> Writes(Folded("write", m, e.writes, j), write)
  BY <1>3, <1>8, Zenon DEF Writes
<1>10. CASE Writes(Folded("write", m, e.writes, j), write)
  <2> DEFINE u == Rest(e.writes, j + 1)
  <2>1. client' = [client EXCEPT !.entry.writes = Tail(@)]
    BY <1>9, <1>10 DEF ReplayWrite
  <2>2. client' = [client EXCEPT !.entry.writes = u]
    BY <1>6, <2>1
  <2> HIDE DEF u
  <2>3. /\ client'.phase = "reads" /\ client'.pause = client.pause /\ client'.id = client.id
        /\ client'.entries = client.entries /\ client'.termination = client.termination
        /\ client'.success = client.success /\ client'.entry.writes = u
        /\ client'.entry.reads = client.entry.reads /\ client'.entry.setRegs = client.entry.setRegs
        /\ client'.entry.setGas = client.entry.setGas
    <3>1. client'.entry = [client.entry EXCEPT !.writes = u]
      BY <1>1, <2>2 DEF ClientFields
    <3> QED BY <1>1, <2>2, <3>1 DEF ClientFields, IsEntry, EntryFields
  <2>4. ASSUME NEW x \in 1 .. j + 1 PROVE Writes(Folded("write", m, e.writes, x - 1), e.writes[x])
    <3>1. CASE x = j + 1
      <4>1. x - 1 = j
        BY <1>3, <3>1
      <4> QED BY <1>6, <1>10, <3>1, <4>1
    <3>2. CASE x # j + 1
      <4>1. x \in 1 .. j
        BY <1>3, <3>2
      <4> QED BY <1>3, <4>1
    <3> QED BY <3>1, <3>2
  <2>5. j + 1 \in 0 .. Len(e.writes)
    BY <1>6
  <2>6. Pauses(t, k, id, i, j + 1)'
    BY <1>3, <1>6, <1>8, <2>3, <2>4, <2>5 DEF Pauses, u, m, e
  <2>7. ~client'.success
    BY <1>1, <2>3
  <2> QED BY <1>1, <2>3, <2>6, <2>7 DEF Replaying
<1>11. CASE ~Writes(Folded("write", m, e.writes, j), write)
  <2>1. Fails
    BY <1>9, <1>11 DEF ReplayWrite
  <2>2. ~Granted(m, e)
    <3>1. (j + 1) - 1 = j /\ j + 1 \in DOMAIN e.writes
      BY <1>3, <1>6
    <3> QED BY <1>4, <1>6, <1>11, <3>1, GrantedIs
  <2>3. ~IsRecording(t)
    BY <1>1, <1>3, <2>2, UnlikeRecording DEF m, e
  <2> QED BY <1>1, <2>1, <2>3, Failing DEF Verdict
<1> QED BY <1>10, <1>11

LEMMA AnswerReplays ==
  ASSUME NEW t, ClientInv, Replaying(t), verify, ReplayAnswer
  PROVE  Replaying(t)'
<1>1. /\ client = [f \in ClientFields |-> client[f]] /\ ~client.success /\ client.phase = "reads"
      /\ Replayable(t) /\ client.termination = t.termination
      /\ TableInv /\ client.id \in DOMAIN pvms /\ IsEntry(client.entry) /\ IsSeq(t.entries)
  BY PausedReplay DEF ReplayAnswer, In
<1>2. PICK k, id, i, j : Pauses(t, k, id, i, j) /\ IsEntry(t.entries[k + 1])
  BY PausedReplay DEF ReplayAnswer, In
<1> DEFINE m == Run(t, k).m
           e == t.entries[k + 1]
           regs == FoldLeft(Set, m.regs, e.setRegs)
           gas == IF e.setGas # <<>> THEN e.setGas[1] ELSE m.gas
<1>3. /\ Reached(t, k) /\ k < Len(t.entries) /\ m.status = "HOST" /\ Whole(m.regs)
      /\ client.id = id /\ client.entries = Rest(t.entries, k + 1)
      /\ client.pause = Pause(m) /\ AsRecorded(Pause(m), e)
      /\ client.entry.setRegs = e.setRegs /\ client.entry.setGas = e.setGas
      /\ i \in 0 .. Len(e.reads) /\ client.entry.reads = Rest(e.reads, i)
      /\ \A x \in 1 .. i : ReadsAs(m, e.reads[x])
      /\ j \in 0 .. Len(e.writes) /\ client.entry.writes = Rest(e.writes, j)
      /\ \A x \in 1 .. j : Writes(Folded("write", m, e.writes, x - 1), e.writes[x])
      /\ Machine(id) = Folded("write", m, e.writes, j)
  BY <1>2 DEF Pauses
<1>4. IsSeq(e.reads) /\ IsSeq(e.writes) /\ IsSeq(e.setRegs) /\ IsEntry(e)
  BY <1>2 DEF IsEntry
<1>5. /\ client.entry.writes = <<>> /\ client.entry.reads = <<>>
      /\ client.pause.regs = m.regs /\ client.pause.nextPc = m.nextPc /\ client.pause.gas = m.gas
  BY <1>3 DEF ReplayAnswer, Pause
<1>6. /\ PvmSetRegisters(id, [x \in 1 .. NO_OF_REGISTERS |-> regs[x - 1]])
      /\ client' = [client EXCEPT !.phase = "resume", !.pc = m.nextPc, !.gas = gas]
  <2>1. PvmSetRegisters(client.id, [x \in 1 .. NO_OF_REGISTERS |->
                                      FoldLeft(Set, client.pause.regs, client.entry.setRegs)[x - 1]])
    BY DEF ReplayAnswer
  <2>2. client' = [client EXCEPT !.phase = "resume", !.pc = client.pause.nextPc,
                                 !.gas = IF client.entry.setGas # <<>> THEN client.entry.setGas[1]
                                         ELSE client.pause.gas]
    BY DEF ReplayAnswer
  <2>3. FoldLeft(Set, client.pause.regs, client.entry.setRegs) = regs
    BY <1>3, <1>5, Zenon
  <2>4. PvmSetRegisters(id, [x \in 1 .. NO_OF_REGISTERS |-> regs[x - 1]])
    BY <1>3, <2>1, <2>3, Zenon
  <2> HIDE DEF m, e, regs
  <2>5. client' = [client EXCEPT !.phase = "resume", !.pc = m.nextPc, !.gas = gas]
    BY <1>3, <1>5, <2>2
  <2> QED BY <2>4, <2>5
<1> HIDE DEF m, e
<1>7. Whole(regs)
  BY <1>3, <1>4, SetsAreWhole
<1>8. Wrote(m, e) = Folded("write", m, e.writes, Len(e.writes))
  <2>1. DOMAIN e.writes = 1 .. Len(e.writes)
    BY <1>4 DEF IsSeq
  <2> QED BY <2>1, WriteFolds DEF Folded
<1>9. Answered(m, e) = Resumed([Wrote(m, e) EXCEPT !.regs = regs], gas, m.nextPc)
  BY DEF Answered
<1> HIDE DEF regs, gas
<1>10. Machine(id)' = [Machine(id) EXCEPT !.regs = regs]
  BY <1>1, <1>3, <1>6, <1>7, SetMakes
<1>11. i = Len(e.reads) /\ j = Len(e.writes)
  <2>1. ASSUME NEW s, IsSeq(s), NEW x \in 0 .. Len(s), Rest(s, x) = <<>> PROVE x = Len(s)
    BY <2>1, RestOf
  <2> QED BY <1>3, <1>4, <1>5, <2>1
<1>12. Machine(id)' = [Wrote(m, e) EXCEPT !.regs = regs]
  BY <1>3, <1>8, <1>10, <1>11
<1>13. Whole(Machine(id)'.regs)
  <2>1. IsMachine(Machine(id), programs[pvms[id].program].code)
    BY JoinedIsMachine DEF Machine
  <2>2. [Machine(id) EXCEPT !.regs = regs].regs = regs
    BY <2>1 DEF IsMachine, MachineFields
  <2> QED BY <1>7, <1>10, <2>2
<1>14. Reached(t, k + 1) /\ Run(t, k + 1).m = Answered(m, e)
  <2>1. DOMAIN e.reads = 1 .. Len(e.reads) /\ DOMAIN e.writes = 1 .. Len(e.writes)
    BY <1>4 DEF IsSeq
  <2>2. Seen(m, e) = e
    BY <1>3, <1>4, <1>11, <2>1, SeenAgrees
  <2>3. Granted(m, e)
    BY <1>3, <1>4, <1>11, <2>1, GrantedIs
  <2> QED BY <1>1, <1>3, <2>2, <2>3, LikeRecording DEF m, e
<1>15. /\ client'.phase = "resume" /\ client'.id = id /\ client'.entries = Rest(t.entries, k + 1)
       /\ client'.gas = gas /\ client'.pc = m.nextPc /\ client'.termination = client.termination
       /\ client'.success = client.success
  BY <1>1, <1>3, <1>6 DEF ClientFields
<1>16. Resumes(t, k + 1, id)'
  BY <1>9, <1>12, <1>13, <1>14, <1>15 DEF Resumes
<1>17. ~client'.success
  BY <1>1, <1>15
<1> QED BY <1>1, <1>15, <1>16, <1>17 DEF Replaying

LEMMA FinallyReplays ==
  ASSUME NEW t, ClientInv, Replaying(t), ReplayFinally
  PROVE  Replaying(t)'
<1>1. client = [f \in ClientFields |-> client[f]] /\ (client.success <=> Verdict(t))
      /\ client' = [client EXCEPT !.phase = "done"]
  BY DEF ClientInv, ReplayFinally, In, Goes, Replaying
<1>2. client'.phase = "done" /\ client'.success = client.success
  BY <1>1 DEF ClientFields
<1>3. client'.success <=> Verdict(t)
  BY <1>1, <1>2, Zenon
<1> QED BY <1>2, <1>3 DEF Replaying

ReplayInv == verify => \A t : t = ParseTrace(lines) => Replaying(t)

LEMMA ReplayInitInv == ASSUME ClientInit PROVE ReplayInv
<1>1. SUFFICES ASSUME verify, NEW t PROVE Replaying(t)
  BY DEF ReplayInv
<1>2. client = [NoClient EXCEPT !.phase = "open"]
  BY <1>1 DEF ClientInit, Doing
<1>3. client.phase = "open" /\ ~client.success
  BY <1>2 DEF NoClient
<1> QED BY <1>3 DEF Replaying

LEMMA ReplayNextInv ==
  ASSUME ClientInv, ReplayInv, ClientNext \/ UserNext
  PROVE  ReplayInv'
<1>1. lines' = lines /\ verify' = verify
  BY DEF ClientNext, UserNext, untouched, ReplayOpen, ReplayStart, ReplayResume, ReplayRead, ReplayWrite,
         ReplayAnswer, ReplayFinally, RunPrepare, RunStart, RunResume, RunLog
<1>2. SUFFICES ASSUME verify, NEW t, t = ParseTrace(lines) PROVE Replaying(t)'
  BY <1>1 DEF ReplayInv
<1>3. Replaying(t)
  BY <1>2 DEF ReplayInv
<1>4. client.phase \in {"open", "start", "resume", "reads", "finally", "done"}
  BY <1>3 DEF Replaying
<1>5. \/ ReplayOpen \/ ReplayStart \/ ReplayResume \/ ReplayRead \/ ReplayWrite \/ ReplayAnswer
      \/ ReplayFinally
  BY <1>4 DEF ClientNext, UserNext, RunPrepare, RunStart, RunResume, RunLog, In
<1> QED BY <1>2, <1>3, <1>5, OpenReplays, StartReplays, ResumeReplays, ReadReplays, WriteReplays,
           AnswerReplays, FinallyReplays

LEMMA ReplayStutters ==
  ASSUME ReplayInv, UNCHANGED vars
  PROVE  ReplayInv'
<1>1. UNCHANGED <<client, lines, verify, programs, pvms>>
  BY DEF vars, apiVars
<1>2. SUFFICES ASSUME verify, NEW t, t = ParseTrace(lines) PROVE Replaying(t)'
  BY <1>1 DEF ReplayInv
<1>3. Replaying(t)
  BY <1>2 DEF ReplayInv
<1>4. ASSUME NEW id PROVE Machine(id)' = Machine(id)
  BY <1>1 DEF Machine
<1>5. (\E k, id : Resumes(t, k, id)) => (\E k, id : Resumes(t, k, id))'
  BY <1>1, <1>4 DEF Resumes
<1>6. (\E k, id, i, j : Pauses(t, k, id, i, j)) => (\E k, id, i, j : Pauses(t, k, id, i, j))'
  BY <1>1, <1>4 DEF Pauses
<1> QED BY <1>1, <1>3, <1>5, <1>6 DEF Replaying, Starts

\* A replay that verifies succeeds exactly if the trace is a recording of its
\* program with a host that answers as the trace says, however long it is,
\* whatever is on its lines, and wherever they were changed
\* (trace-replay.ts:83-160).
THEOREM VerifiedTheorem == ClientSpec => []VerifiedIffRecording
<1>1. ClientInit => ClientInv /\ ReplayInv
  BY ClientInitInv, ReplayInitInv
<1>2. ClientInv /\ ReplayInv /\ [ClientNext \/ UserNext]_vars => (ClientInv /\ ReplayInv)'
  BY ClientNextInv, ReplayNextInv, ClientStutters, ReplayStutters
<1>3. ReplayInv => VerifiedIffRecording
  <2>1. SUFFICES ASSUME ReplayInv, client.phase = "done", verify
                 PROVE  client.success <=> Verdict(ParseTrace(lines))
    BY DEF VerifiedIffRecording, In, Verdict
  <2>2. PICK t : t = ParseTrace(lines)
    OBVIOUS
  <2>3. Replaying(t)
    BY <2>1, <2>2 DEF ReplayInv
  <2> QED BY <2>1, <2>2, <2>3 DEF Replaying
<1> QED BY <1>1, <1>2, <1>3, PTL DEF ClientSpec
=============================================================================
