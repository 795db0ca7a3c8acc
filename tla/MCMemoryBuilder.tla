-------------------------- MODULE MCMemoryBuilder --------------------------
(* Small inputs for the model checker.                                     *)
EXTENDS MemoryBuilder

\* Every combination of lengths; arguments may be one byte too long.
AllSpiInputs ==
  [roLength : 0 .. MaxLength, rwLength : 0 .. MaxLength, stackSize : 0 .. MaxLength,
   heapPages : 0 .. MaxHeapPages, argsLength : 0 .. MAX_ARGS_LEN + 1]

\* Pages and chunks that begin in the reserved memory, at its end, in the
\* middle of a page and before the top of the address space, that are empty,
\* overlap, span pages and wrap around.
Places == {3, 4, 7, MEMORY_SIZE - 2}
APage == [access : {"Read", "Write"}, addr : Places, len : {0, 2, 3}]
AChunk == [access : {"None"}, addr : Places, len : {1, 3}]
Some(S) == {<<>>} \cup {<<s>> : s \in S}
SmallGenericInputs ==
  [pages : Some(APage) \cup {<<s, t>> : s, t \in APage}, chunks : Some(AChunk)]
=============================================================================
