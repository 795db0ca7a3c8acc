SPECIFICATION Spec
VIEW WithoutOutcome
CONSTANTS
  PAGE_SIZE = 2
  NUM_PAGES = 4
  RESERVED_PAGES = 1
  PAGE_CACHE_SIZE = 2
  PREALLOC = 1
  MaxByte = 1
  MaxRange = 3
  Sizes <- UpToTwoBytes
  Layouts <- AllLayouts
INVARIANTS TypeOK IInv CacheCoherent NoAliasing GrantedWritable
PROPERTIES GrantedZeroed MappedPagesStay ImplementsAbstract
