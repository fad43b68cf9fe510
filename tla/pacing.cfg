SPECIFICATION Spec
CONSTANTS
  NoOwner = NoOwner
  Invocation = {a, b}
  Second = 3
  Rate = 2
  TTL = 2
  MaxTime = 6
  MaxAttempts = 3
INVARIANTS
  SlotsKeepRate
  DeparturesKeepRate
CHECK_DEADLOCK FALSE
