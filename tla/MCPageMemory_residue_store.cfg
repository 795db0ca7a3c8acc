SPECIFICATION Spec
VIEW WithoutOutcome
CONSTANTS
  PAGE_SIZE = 2
  NUM_PAGES = 4
  RESERVED_PAGES = 1
  PAGE_CACHE_SIZE = 2
  PREALLOC = 2
  MaxByte = 1
  MaxRange = 0
  Sizes <- UpToTwoBytes
  Layouts <- WideLayouts
PROPERTY ReadOnlyImmutable
