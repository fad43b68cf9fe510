CONSTANTS
  w1 = w1
  w2 = w2
  o1 = o1
  o2 = o2
  NoWorker = NoWorker
  Worker = {w1, w2}
  NodeCount = 1
  CaseCount = 1
  RequestLimit = 1
  Origin = {o1}
  OriginOf <- OneOrigin
  FaultLimit = 2
SPECIFICATION FairSpec
CHECK_DEADLOCK FALSE
PROPERTIES
  RunningEventuallyFinishes
