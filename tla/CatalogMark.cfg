SPECIFICATION Spec
CONSTANTS
  None = None
  Asked <- Marks
  Net <- Networks
  lowered <- Lower
INVARIANTS
  ReadsAsWritten
CHECK_DEADLOCK FALSE
