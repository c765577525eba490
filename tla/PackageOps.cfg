CONSTANTS
  Package <- Two
  Path <- SharedPaths
  Dir <- Dirs
  Above <- Inside
  RootDir = "./"
  AbsolutePath = "/"
  Archives <- Sharing
  Nobody = Nobody
  User = User
  Environment = {"insert", "delete", "corrupt", "header", "read", "write", "unlink", "readonly", "crash", "user"}
  MaxRows = 5
SPECIFICATION Spec
INVARIANTS TypeOK OwnedFilesAreRegistered RemovedFilesAreGone
PROPERTIES RemovesOnlyItsPaths
