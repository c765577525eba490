SPECIFICATION Spec
CONSTANTS
  Comma = Comma
  Newline = Newline
  Other = {a, b, v}
  a = a
  b = b
  v = v
  MaxLines = 2
  Texts <- MCTexts
  MaxLength = 15
  MaxRuns = 2
  Faults = {"open", "unlink", "tables", "read", "insert", "kill"}
INVARIANTS
  RowsAreLines
  WellFormedSucceeds
CHECK_DEADLOCK FALSE
