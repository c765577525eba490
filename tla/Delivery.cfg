SPECIFICATION Spec
CONSTANTS
  Archives <- MCArchives
  Machines <- MCMachines
  Version <- MCVersion
  ReaderOrder = "little"
  Pieces = {2, 7}
  Bits = {0}
  Page = 8
  MaxAttempts = 2
  Faults = {"read", "write", "kill", "network", "cut", "damage", "rewrite", "extract"}
INVARIANTS
  DoneIsPackage
  AcceptedIsWhole
  RejectedIsFlawed
  UnpackedIsWhole
  AcceptedAsPacked
PROPERTIES
  VerifiedAtOnce
CHECK_DEADLOCK FALSE
