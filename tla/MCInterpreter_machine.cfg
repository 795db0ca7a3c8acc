SPECIFICATION MCSpec
CHECK_DEADLOCK FALSE
CONSTANTS
  MAX_SKIP = 1
  BYTE_BASE = 4
  U64 = 64
  U32 = 16
  U24 = 8
  RawPrograms <- AllPrograms
  MaxGas = 4
  MaxSteps = 2
  EntryPcs = {0, 2, 3}
  FaultAddrs = {1, 6}
  JumpAddrs = {0, 2, 3, 4, 6, 8, 12}
  RESERVED_MEMORY = 4
  EXIT = 12
  JUMP_ALIGNMENT_FACTOR = 2
INVARIANTS IInv GasPrepaid
PROPERTIES ImplementsMachine ExecutedStops
