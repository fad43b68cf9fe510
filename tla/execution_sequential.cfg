CONSTANTS
  w1 = w1
  w2 = w2
  o1 = o1
  o2 = o2
  NoWorker = NoWorker
  Worker = {w1}
  NodeCount = 3
  CaseCount = 2
  RequestLimit = 2
  Origin = {o1, o2}
  OriginOf <- FirstTwoShare
  FaultLimit = 2
SPECIFICATION Spec
CHECK_DEADLOCK FALSE
INVARIANTS
  BudgetIsExact
  SuccessHidesNoFailure
  SealMatchesEvidence
  StopsAreIsolated
PROPERTIES
  ImplementsLifecycle
