CONSTANTS
  Package <- Names
  NoPackage = NoPackage
  Catalogs <- CyclesAndEdges
  DefaultPrefix = FALSE
  Faults = {"network", "disk", "select", "insert", "delete", "memory"}
SPECIFICATION FairSpec
INVARIANTS StackMatchesCalls InsertIsFresh
PROPERTIES CoreIsKept OnlyDependenciesAreCleaned OnlySelfDependencySpins
