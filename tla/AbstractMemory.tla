-------------------------- MODULE AbstractMemory --------------------------
(***************************************************************************)
(* What the memory of a PVM promises its program: a byte per address, an   *)
(* access right per page, and a heap that grows by zeroed writable pages.  *)
(* There is no cache, no arena and no page object here.  An access either  *)
(* sees all of its bytes or faults at the first page it may not use.       *)
(***************************************************************************)
EXTENDS Integers, Sequences

CONSTANTS PAGE_SIZE, NUM_PAGES, MaxByte, Sizes, MaxRange

VARIABLES
  perm,    \* PageIdx -> right, "Unmapped" if the page is not there
  bytes,   \* Addr -> Byte, 0 where unmapped
  brk,     \* the heap pointer
  limit,   \* what the heap pointer may not pass
  outcome, \* [isFault, isAccess, fault] of the last call
  result,  \* what the last call returned
  dead     \* the memory has been freed

avars == <<perm, bytes, brk, limit, outcome, result, dead>>

AllAddr == 0 .. NUM_PAGES * PAGE_SIZE - 1
AllPages == 0 .. NUM_PAGES - 1
AllBytes == 0 .. MaxByte
At(a, i) == (a + i) % (NUM_PAGES * PAGE_SIZE)
Home(a) == a \div PAGE_SIZE

Right(p) == IF p \in AllPages THEN perm[p] ELSE "Unmapped"
May(p, access) == Right(p) \in {"Write", access}

\* i is the offset of the first byte of a .. a+n-1 that may not be accessed.
Bad(access, a, n, i) ==
  /\ i \in 0 .. n - 1 /\ ~May(Home(At(a, i)), access)
  /\ \A j \in 0 .. i - 1 : May(Home(At(a, j)), access)

OutcomeOf(access, a, n) ==
  IF \E i \in 0 .. n - 1 : Bad(access, a, n, i)
  THEN LET p == Home(At(a, CHOOSE i \in 0 .. n - 1 : Bad(access, a, n, i)))
       IN [isFault |-> TRUE, isAccess |-> Right(p) # "Unmapped", fault |-> p * PAGE_SIZE]
  ELSE [isFault |-> FALSE, isAccess |-> FALSE, fault |-> 0]

\* How many bytes of the range precede the first inaccessible one.
Good(access, a, n) ==
  IF \E i \in 0 .. n - 1 : Bad(access, a, n, i)
  THEN CHOOSE i \in 0 .. n - 1 : Bad(access, a, n, i) ELSE n

Read(a, n) == [i \in 1 .. n |-> bytes[At(a, i - 1)]]
Written(a, n, v) ==
  [x \in AllAddr |-> IF \E i \in 1 .. n : At(a, i - 1) = x
                     THEN v[CHOOSE i \in 1 .. n : At(a, i - 1) = x] ELSE bytes[x]]

ALoad(a, n) ==
  /\ outcome' = OutcomeOf("Read", a, n)
  /\ result' = IF outcome'.isFault THEN <<>> ELSE Read(a, n)
  /\ UNCHANGED <<perm, bytes, brk, limit, dead>>

AStore(a, v) ==
  /\ outcome' = OutcomeOf("Write", a, Len(v))
  /\ bytes' = IF outcome'.isFault THEN bytes ELSE Written(a, Len(v), v)
  /\ result' = <<>>
  /\ UNCHANGED <<perm, brk, limit, dead>>

\* Ranges are copied up to the first inaccessible byte.
AReadRange(a, n) ==
  /\ outcome' = OutcomeOf("Read", a, n)
  /\ result' = Read(a, Good("Read", a, n))
  /\ UNCHANGED <<perm, bytes, brk, limit, dead>>

AWriteRange(a, n, b) ==
  /\ outcome' = OutcomeOf("Write", a, n)
  /\ bytes' = LET g == Good("Write", a, n) IN Written(a, g, [i \in 1 .. g |-> b])
  /\ result' = <<>>
  /\ UNCHANGED <<perm, brk, limit, dead>>

\* A view of page i, <<-1>> if there is none to give.  Only for an index that
\* is the index of no page may the view also be empty.
AView(i, mustRead) ==
  /\ result' \in IF Right(i) = "Unmapped" \/ (mustRead /\ ~May(i, "Read"))
                 THEN {<<-1>>} \cup (IF i \in AllPages \/ mustRead THEN {} ELSE {<<>>})
                 ELSE {Read(i * PAGE_SIZE, PAGE_SIZE)}
  /\ outcome' = [isFault |-> FALSE, isAccess |-> FALSE, fault |-> 0]
  /\ UNCHANGED <<perm, bytes, brk, limit, dead>>

\* Every page of [brk, brk + amount) is there afterwards; those that were not
\* are writable and zero, and nothing else changes.
ASbrk(amount) ==
  LET refused == amount > 0 /\ brk + amount > limit
      grown == amount > 0 /\ ~refused
      New(p) == grown /\ Right(p) = "Unmapped" /\ p \in Home(brk) .. Home(brk + amount - 1)
  IN /\ outcome' = [isFault |-> refused, isAccess |-> FALSE, fault |-> 0]
     /\ result' = <<brk>>
     /\ brk' = IF grown THEN brk + amount ELSE brk
     /\ perm' = [p \in AllPages |-> IF New(p) THEN "Write" ELSE perm[p]]
     /\ ~dead
     /\ UNCHANGED <<bytes, limit, dead>>

\* free: no page is left and the bytes are gone; the break stays.
AFree ==
  /\ dead' = TRUE
  /\ perm' = [p \in AllPages |-> "Unmapped"]
  /\ bytes' = [x \in AllAddr |-> 0]
  /\ outcome' = [isFault |-> FALSE, isAccess |-> FALSE, fault |-> 0]
  /\ result' = <<>>
  /\ UNCHANGED <<brk, limit>>

\* A freed memory still moves its break.  It promises neither the page the
\* break was in nor that a page it maps is clean.
ASbrkFreed(amount) ==
  LET refused == amount > 0 /\ brk + amount > limit
      grown == amount > 0 /\ ~refused
      Near(p) == grown /\ p \in Home(brk) .. Home(brk + amount - 1)
  IN /\ dead
     /\ outcome' = [isFault |-> refused, isAccess |-> FALSE, fault |-> 0]
     /\ result' = <<brk>>
     /\ brk' = IF grown THEN brk + amount ELSE brk
     /\ \A p \in AllPages : perm'[p] \in IF Near(p) THEN {perm[p], "Write"} ELSE {perm[p]}
     /\ \A x \in AllAddr : ~Near(Home(x)) => bytes'[x] = bytes[x]
     /\ UNCHANGED <<limit, dead>>

AInit ==
  /\ outcome = [isFault |-> FALSE, isAccess |-> FALSE, fault |-> 0]
  /\ result = <<>>
  /\ dead = FALSE

ANext ==
  \/ \E a \in AllAddr, n \in Sizes : ALoad(a, n)
  \/ \E n \in Sizes : \E a \in AllAddr, v \in [1 .. n -> AllBytes] : AStore(a, v)
  \/ \E a \in AllAddr, n \in 1 .. MaxRange : AReadRange(a, n)
  \/ \E a \in AllAddr, n \in 1 .. MaxRange, b \in AllBytes : AWriteRange(a, n, b)
  \/ \E i \in AllAddr, mustRead \in BOOLEAN : AView(i, mustRead)
  \/ \E amount \in AllAddr : ASbrk(amount)
  \/ \E amount \in AllAddr : ASbrkFreed(amount)
  \/ AFree

ASpec == AInit /\ [][ANext]_avars
=============================================================================
