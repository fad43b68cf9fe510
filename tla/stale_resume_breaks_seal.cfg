CONSTANTS
  w1 = w1
  w2 = w2
  o1 = o1
  o2 = o2
  NoWorker = NoWorker
  Worker = {w1, w2}
  NodeCount = 1
  CaseCount = 1
  RequestLimit = 1
  Origin = {o1}
  OriginOf <- OneOrigin
  FaultLimit = 1
SPECIFICATION Spec
CHECK_DEADLOCK FALSE
INVARIANTS
  SealMatchesEvidence
