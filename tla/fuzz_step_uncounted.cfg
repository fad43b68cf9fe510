CONSTANTS
  a = a
  b = b
  Origin = {a, b}
  Repairs = 2
  Job <- TwoOriginWorkflow
SPECIFICATION Spec
CHECK_DEADLOCK FALSE
INVARIANTS
  WithheldIsCounted
