CONSTANTS
  Package <- Names
  NoPackage = NoPackage
  Catalogs <- Catalog
  DefaultPrefix = TRUE
  Faults = {"disk", "insert", "delete"}
  Path <- Paths
  Dir <- Dirs
  Above <- Inside
  RootDir = "./"
  AbsolutePath = "/"
  Archives <- Published
  Bystander = Bystander
  Environment = {"insert", "delete", "read", "unlink", "crash"}
  MaxRows = 4
SPECIFICATION PackdudeSpec
INVARIANTS DiskMatchesTable
PROPERTIES NeededFilesStay
