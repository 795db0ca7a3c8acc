SPECIFICATION MCSpec
CHECK_DEADLOCK FALSE
CONSTANTS
  NO_OF_REGISTERS = 3
  WORD = 16
  MEMORY_SIZE = 6
  RESERVED_MEMORY = 1
  BYTE = 2
  PTR = 1
  LEN = 2
  NO_PC = 15
  ARGS_SEGMENT_START = 4
  MAX_ARG_LEN = 3
  EXIT = 15
  LOG_HOST_CALL_INDEX = 2
  LOG_GAS_COST = 2
  WHAT = 14
  StandardPrograms <- Prepared
  GasValues <- Fuel
  PcValues <- EntryPcs
  RegisterValues <- ArgValues
  Chunks <- Writes
  MaxPrograms = 2
  MaxHandles = 2
INVARIANTS VerifiedIffRecording RecordingsReplay
VIEW WithoutAnswers
PROPERTIES ImplementsHandles ClientEnds
