CONSTANTS
  Package <- Names
  NoPackage = NoPackage
  Catalogs <- SelfCatalogs
  DefaultPrefix = TRUE
  Faults = {}
SPECIFICATION FairSpec
PROPERTIES CommandsEnd
