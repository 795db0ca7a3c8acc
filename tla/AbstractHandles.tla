-------------------------- MODULE AbstractHandles --------------------------
(***************************************************************************)
(* What the table of machines promises the owner of one: as long as its    *)
(* program was prepared for this machine alone, a handle stands for a      *)
(* machine that only the calls with this handle change; once destroyed it  *)
(* stands for nothing, ever again.                                         *)
(***************************************************************************)
EXTENDS Guest, Functions

VARIABLES
  handles,  \* handle -> machine, for the machines with a program of their own
  gone,     \* handles that were destroyed
  request,  \* the last call
  reply     \* what it answered

avars == <<handles, gone, request, reply>>

AInit == handles = <<>> /\ gone = {}

Known == DOMAIN handles \cup gone
IsFresh(m) == m = Fresh(m.code, m.regs, m.mem)

AStart ==
  LET id == request'.id
  IN /\ request'.op = "start" /\ id \notin Known
     /\ DOMAIN handles' = DOMAIN handles \cup {id}
     /\ \A other \in DOMAIN handles : handles'[other] = handles[other]
     /\ IsFresh(handles'[id])
     /\ UNCHANGED gone

\* A second machine of the same program: neither is promised anything.
AShare ==
  /\ request'.op \in {"start", "run"} /\ request'.id \notin Known
  /\ \E lost \in DOMAIN handles \cup {0} : handles' = Restrict(handles, DOMAIN handles \ {lost})
  /\ UNCHANGED gone

ACall ==
  LET q == request'
      m == handles[q.id]
      Becomes(n, answer) == handles' = [handles EXCEPT ![q.id] = n] /\ reply' = answer
  IN /\ q.id \in DOMAIN handles
     /\ \/ q.op = "registers" /\ Becomes(WithRegisters(m, q.values), NULL)
        \/ q.op = "read" /\ Becomes(m, BytesAt(m, q.addr, q.len))
        \/ q.op = "write" /\ Becomes(WithBytes(m, q.addr, q.bytes), Written(m, q.addr, q.bytes))
        \/ LET n == Resumed(m, q.gas, q.pc)
           IN q.op = "resume" /\ Becomes(n, Pause(n))
     /\ UNCHANGED gone

ADestroy ==
  LET id == request'.id
  IN /\ request'.op = "destroy" /\ id \in DOMAIN handles
     /\ handles' = Restrict(handles, DOMAIN handles \ {id}) /\ gone' = gone \cup {id}
     /\ reply' = Output(handles[id])

ASilent ==
  /\ request'.id \in gone /\ request'.op # "start" /\ reply' = Silence(request'.op)
  /\ UNCHANGED <<handles, gone>>

\* Preparations, and calls with the handles that are promised nothing else.
AOther ==
  /\ request'.op # "start" /\ request'.id \notin Known
  /\ gone' \in {gone, gone \cup {request'.id}}
  /\ UNCHANGED handles

ASpec == AInit /\ [][AStart \/ AShare \/ ACall \/ ADestroy \/ ASilent \/ AOther]_avars
=============================================================================
