CONSTANTS
  Process = {p1, p2}
  Nobody = Nobody
  Faults = {"crash"}
SPECIFICATION Spec
INVARIANTS TablesAlwaysExist
