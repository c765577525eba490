CONSTANTS
  Package <- Names
  NoPackage = NoPackage
  Catalogs <- Trees
  DefaultPrefix = TRUE
  Faults = {}
SPECIFICATION RequestsSpec
PROPERTIES ApplicationsStay
