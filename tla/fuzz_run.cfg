CONSTANTS
  a = a
  b = b
  Origin = {a, b}
  Repairs = 2
  Job <- AllJobs
SPECIFICATION FairSpec
CHECK_DEADLOCK FALSE
INVARIANTS
  TypeOK
  BudgetIsHard
  PreflightSuffices
  NothingAfterRateLimit
  NothingAfterThreeFaults
  IDORFollowsBaseline
  GuidedRetriesAreChains
  SuccessIsComplete
  ProgressIsFinal
PROPERTIES
  RunTerminates
