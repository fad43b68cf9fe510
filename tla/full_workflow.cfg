SPECIFICATION Spec
CONSTANTS
  o1 = o1
  o2 = o2
  u1 = u1
  u2 = u2
  u3 = u3
  u4 = u4
  t1 = t1
  t2 = t2
  n1 = n1
  NoTarget = NoTarget
  w1 = w1
  w2 = w2
  Origin = {o1, o2}
  Url = {u1, u2, u3, u4}
  Source = {u1, u2, u3, u4}
  Target = {t1, t2}
  Name = {n1}
  BruteWorker = {w1, w2}
  MaxReferenceDepth = 1
  MinExactWildcard = 2
  MinSizeWildcard = 3
  WorkflowJobs <- MCWorkflowJobs
INVARIANTS
  TypeOK
  RunsTellTheOutcome
  SuccessIsComplete
  CoverageGapsAreExact
  NothingAfterOriginStops
  UnsafeNeedsConsent
  PrivateHeadersStayHome
  DiscoveryIsAccounted
PROPERTIES
  WorkflowReturns
