SPECIFICATION HostSpec
CONSTANTS
  PAGE_SIZE = 2
  NUM_PAGES = 4
  RESERVED_PAGES = 1
  PAGE_CACHE_SIZE = 2
  PREALLOC = 0
  MaxByte = 1
  MaxRange = 4
  Sizes <- OneAndTwoBytes
  Layouts <- HostLayouts
VIEW WithoutOutcome
PROPERTY WriteAllOrNothing
