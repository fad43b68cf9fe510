CONSTANTS
  w1 = w1
  w2 = w2
  o1 = o1
  o2 = o2
  NoWorker = NoWorker
  Worker = {w1, w2}
  NodeCount = 2
  CaseCount = 1
  RequestLimit = 2
  Origin = {o1}
  OriginOf <- OneOrigin
  FaultLimit = 2
SPECIFICATION Spec
SYMMETRY WorkerSymmetry
CHECK_DEADLOCK FALSE
INVARIANTS
  TypeOK
  AtMostOnceSend
  RetryIsJustified
  QueuedNodeIsSafe
  SucceededNodeHasProof
PROPERTIES
  OriginStaysStopped
  OutcomesAreFinal
