CONSTANTS
  Package <- Names
  NoPackage = NoPackage
  Catalogs <- AcyclicCatalogs
  DefaultPrefix = TRUE
  Faults = {"network", "disk", "insert", "delete"}
SPECIFICATION Spec
INVARIANTS TypeOK DependencyClosed NothingUnneeded SuccessMeansDone
PROPERTIES ImplementsInstalledSet
