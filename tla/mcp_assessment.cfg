SPECIFICATION Spec
CONSTANTS
  o1 = o1
  o2 = o2
  alice = alice
  bob = bob
  carol = carol
  t1 = t1
  i1 = i1
  i2 = i2
  i3 = i3
  n1 = n1
  n2 = n2
  draft = draft
  api = api
  results = results
  run1 = run1
  c1 = c1
  c2 = c2
  Origin = {o1, o2}
  Identity = {alice, bob, carol}
  Anonymous = Anonymous
  Type = {t1}
  Identifier = {i1, i2, i3}
  Name = {n1, n2}
  File = {draft, api, results}
  ReferenceName = {n1}
  Mentions <- MCMentions
  MaxOperations = 3
  MaxUint64 = 255
  MaxInt64 = 127
  Nonexistent = Nonexistent
  Pointer = {"id", "peer", "data", "trace"}
  IdentifierPointer = {"id", "peer"}
  VolatilePointer = {"trace"}
  Call = {c1, c2}
  Earlier = Earlier
  Jobs <- MCJobs
  MaxWrites = 1
INVARIANTS
  TypeOK
  EverySendIsAllowed
  PlanFitsBudgets
  VerdictsAreRight
  EffectsAreReported
PROPERTIES
  CallsAreAnswered
