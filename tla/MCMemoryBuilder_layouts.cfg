SPECIFICATION Spec
CONSTANTS
  PAGE_SIZE = 2
  NUM_PAGES = 18
  RESERVED_PAGES = 2
  MaxByte = 0
  SEGMENT_SIZE = 4
  MAX_ARGS_LEN = 4
  MaxLength = 3
  MaxHeapPages = 2
  SpiInputs <- AllSpiInputs
  GenericInputs <- SmallGenericInputs
CHECK_DEADLOCK FALSE
INVARIANTS LayoutSound SpiHeapClear SpiSectionsApart SpiGuards SbrkBehindSections
