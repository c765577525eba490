CONSTANTS
  Package <- Names
  NoPackage = NoPackage
  Catalogs <- Editions
  DefaultPrefix = TRUE
  Faults = {"network", "disk", "select", "insert", "memory"}
  MaxBlocks = 14
  MaxChunks = 2
  Malloc <- FirstFree
SPECIFICATION MemorySpec
INVARIANTS ListIsStack OneOwnerEach OnlyAppendFreesTwice
