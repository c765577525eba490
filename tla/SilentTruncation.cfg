CONSTANTS
  Package <- One
  Path <- TreePaths
  Dir <- Dirs
  Above <- Inside
  RootDir = "./"
  AbsolutePath = "/"
  Archives <- Tree
  Nobody = Nobody
  User = User
  Environment = {"write"}
  MaxRows = 4
SPECIFICATION Spec
INVARIANTS InstalledIsComplete
CHECK_DEADLOCK FALSE
