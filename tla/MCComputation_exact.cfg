SPECIFICATION Spec
CHECK_DEADLOCK FALSE
CONSTANTS
  MAX_SKIP = 2
  BYTE_BASE = 4
  U64 = 64
  U32 = 16
  U24 = 3
  WORD_BYTES = 3
  MaxItem = 4
  MaxCode = 5
  Ops = {"TRAP", "ALU", "MISSING"}
  WIDTH = 2
  BITS = 4
  KindOf <- OpcodeKinds
  CodeBytes = {0, 2, 5, 6, 9, 11, 15}
  MaxBytes = 5
  Beyond = {0, 7, 15}
  MaxNumber = 4500
  BYTE = 1
  Values = {0, 1, 2, 3, 5, 7, 8, 9, 15, 16, 17, 24, 100, 112, 119, 120, 127, 128, 129, 136, 143, 200, 240, 247, 248, 254, 255}
  Immediates = {0, 1, 2, 3, 4, 5, 6, 7, 8, 9, 10, 11, 12, 13, 14, 15}
INVARIANTS SkipExact BlockGasExact JumpItemExact NumberExact SectionsExact ArgumentsExact WrappedApart BuildsAgree ImmediatesAsLoaded ProductsExact DivisionExact BitsExact
