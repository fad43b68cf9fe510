--------------------------- MODULE AssessmentPlan ---------------------------
(***************************************************************************)
(* prepare of pkg/assessment/runtime/plan.go: from a manifest and its      *)
(* inputs to the ownership matrix of every object reference, its worst     *)
(* cost, and the reservation of that cost in the budgets of the manifest   *)
(* (pkg/assessment/planner and policy). Nothing is sent here.              *)
(***************************************************************************)
EXTENDS AssessmentInventory

CONSTANTS MaxUint64,      \* the largest cost the planner computes with
          MaxInt64,       \* the largest cost the store keeps
          Nonexistent     \* an identifier no object has

ASSUME WidthAssumption == MaxInt64 \in Nat \ {0} /\ MaxUint64 = 2 * MaxInt64 + 1
ASSUME NonexistentAssumption == Nonexistent \notin Identifier

Bola == "bola"
Refused == [requests |-> -1, bytes |-> -1]
Uint64(n) == n % (MaxUint64 + 1)

-----------------------------------------------------------------------------
\* The five cases of a proof, each repeated. The anonymous one asks for the
\* object of the victim, the nonexistent one is the attacker's.
MatrixRepeats == 1..2
CaseKind == {"victim-own", "attacker-own", "cross", "anonymous", "nonexistent"}
CaseIdentity(kind, victim, attacker) ==
  IF kind = "victim-own" THEN victim.owner
  ELSE IF kind = "anonymous" THEN Anonymous ELSE attacker.owner
CaseIdentifier(kind, victim, attacker) ==
  IF kind = "nonexistent" THEN Nonexistent
  ELSE IF kind = "attacker-own" THEN attacker.identifier ELSE victim.identifier
Cases(url, victim, attacker) ==
  {[kind |-> kind, repeat |-> repeat, identity |-> CaseIdentity(kind, victim, attacker),
    identifier |-> CaseIdentifier(kind, victim, attacker),
    url |-> url, origin |-> CanonicalOrigin(url)] :
     kind \in CaseKind, repeat \in MatrixRepeats}

IsMatrix(proof) ==
  /\ proof.victim.owner # proof.attacker.owner
  /\ \E case \in proof.cases : proof.cases = Cases(case.url, proof.victim, proof.attacker)

\* A declared expectation other than deny, and none, both clear the flag.
ExpectedDeny(victim, attacker) ==
  attacker.owner \in DOMAIN victim.expected /\ victim.expected[attacker.owner] = "deny"

\* buildProof. The key names the operation by the ID it was imported under,
\* which applyBaseURL does not change.
BuildProof(m, operation, candidate, victim, attacker) ==
  [key |-> <<operation.id, candidate, victim.name, attacker.name>>,
   victim |-> victim, attacker |-> attacker,
   expectedDeny |-> ExpectedDeny(victim, attacker),
   origins |-> OriginSet(m), redirects |-> m.transport.redirects,
   proxy |-> m.transport.proxy, insecure |-> m.transport.insecure,
   requestBytes |-> m.budgets.global.requestBytes,
   responseBytes |-> m.budgets.global.responseBytes,
   cases |-> Cases(The(operation.origin), victim, attacker)]

BolaEnabled(m) ==
  \E module \in Range(m.modules) :
    module.name = Bola /\ module.enabled /\ ~IsStateChanging(module.class)
Testable(operation) ==
  operation.method = "GET" /\ operation.surface \in {"path", "observed"} /\ operation.origin # {}
Pairs(objects) ==
  {pair \in objects \X objects :
     pair[1].owner # pair[2].owner /\ pair[1].name # pair[2].name}
DiscoverProofs(m, operations) ==
  LET objects == Range(m.objects)
      matrix(operation, candidate) ==
        {BuildProof(m, operation, candidate, pair[1], pair[2]) :
           pair \in Pairs(MatchingObjects(candidate.name, objects))}
  IN  UNION {matrix(oc[1], oc[2]) : oc \in
        UNION {{operation} \X Extract(operation, objects) :
                 operation \in {o \in operations : Testable(o)}}}

-----------------------------------------------------------------------------
\* Costs: requests and bytes, unsigned, every sum and product guarded.
ProofCaseCost(proof) ==
  LET requests == proof.redirects + 1
      bytes    == proof.requestBytes + proof.responseBytes
  IN  IF bytes > MaxUint64 \/ bytes = 0 \/ requests > MaxUint64 \div bytes THEN Refused
      ELSE [requests |-> requests, bytes |-> Uint64(requests * bytes)]
MultiplyCost(cost, n) ==
  IF cost = Refused \/ cost.requests > MaxUint64 \div n \/ cost.bytes > MaxUint64 \div n
  THEN Refused
  ELSE [requests |-> Uint64(cost.requests * n), bytes |-> Uint64(cost.bytes * n)]
\* Mutant: the sums of addCost are not guarded.
SumCostUnguarded(charges) ==
  IF \E charge \in charges : charge.cost = Refused THEN Refused
  ELSE [requests |-> Uint64(SumFunction([charge \in charges |-> charge.cost.requests])),
        bytes |-> Uint64(SumFunction([charge \in charges |-> charge.cost.bytes]))]
\* addCost refuses a partial sum that overflows: costs are not negative, so
\* the whole sum then does too.
SumCost(charges) ==
  LET requests == SumFunction([charge \in charges |-> charge.cost.requests])
      bytes    == SumFunction([charge \in charges |-> charge.cost.bytes])
  IN  IF \/ \E charge \in charges : charge.cost = Refused
         \/ requests > MaxUint64 \/ bytes > MaxUint64
      THEN Refused ELSE [requests |-> requests, bytes |-> bytes]

\* budgetLimits: the bytes of a limit are those of its requests.
BudgetLimits(limit) ==
  LET bytes == limit.requestBytes + limit.responseBytes
  IN  IF bytes > MaxUint64 \/ limit.maxRequests > MaxUint64 \div bytes THEN Refused
      ELSE [requests |-> limit.maxRequests, bytes |-> Uint64(limit.maxRequests * bytes)]
\* A limit that is not configured is the global one.
LimitOr(limits, name, global) == IF name \in DOMAIN limits THEN limits[name] ELSE global
PlannerBudget(m) ==
  LET limit(limits, name) == BudgetLimits(LimitOr(limits, name, m.budgets.global))
  IN  [global |-> BudgetLimits(m.budgets.global),
       origins |-> [a \in OriginSet(m) |-> limit(m.budgets.perOrigin, a)],
       modules |-> [name \in {Bola} |-> limit(m.budgets.perModule, name)],
       identities |-> [i \in IdentitySet(m) \cup {Anonymous} |->
                         IF i = Anonymous THEN BudgetLimits(m.budgets.global)
                         ELSE limit(m.budgets.perIdentity, i)]]
LimitsOf(budget) ==
  {budget.global} \cup Range(budget.origins) \cup Range(budget.modules)
  \cup Range(budget.identities)

\* NewLedger keys origins canonically: two spellings of one are refused.
NewLedgerFails(budget) ==
  \/ Refused \in LimitsOf(budget)
  \/ \E a, b \in DOMAIN budget.origins :
       a # b /\ CanonicalOrigin(a) = CanonicalOrigin(b)
OriginLimit(budget, origin) ==
  budget.origins[CHOOSE a \in DOMAIN budget.origins : CanonicalOrigin(a) = origin]

Within(cost, limit) ==
  cost # Refused /\ cost.requests <= limit.requests /\ cost.bytes <= limit.bytes
\* ReserveBatch: all charges or none, in every dimension.
ReserveBatch(budget, charges) ==
  /\ charges # {}
  /\ \A charge \in charges : charge.cost # Refused
  /\ Within(SumCost(charges), budget.global)
  /\ \A origin \in {charge.origin : charge \in charges} :
       /\ origin \in {CanonicalOrigin(a) : a \in DOMAIN budget.origins}
       /\ Within(SumCost({c \in charges : c.origin = origin}), OriginLimit(budget, origin))
  /\ Within(SumCost(charges), budget.modules[Bola])
  /\ \A identity \in {charge.identity : charge \in charges} :
       /\ identity \in DOMAIN budget.identities
       /\ Within(SumCost({c \in charges : c.identity = identity}), budget.identities[identity])

\* exactProofCharges: every case is charged to the identity that sends it.
ExactProofCharges(proofs) ==
  UNION {{[id |-> <<proof, case>>, origin |-> case.origin, identity |-> case.identity,
           cost |-> ProofCaseCost(proof)] : case \in proof.cases} : proof \in proofs}
\* The intents of the plan charge a whole proof to the attacker, against
\* identity limits raised to the global one.
ProofCost(proof) == MultiplyCost(ProofCaseCost(proof), Cardinality(proof.cases))
IntentCharges(proofs) ==
  {[id |-> proof.key, origin |-> (CHOOSE case \in proof.cases : TRUE).origin,
    identity |-> proof.attacker.owner, cost |-> ProofCost(proof)] : proof \in proofs}
PlanBudget(budget) ==
  [budget EXCEPT !.identities = [i \in DOMAIN budget.identities |-> budget.global]]

\* policy.New and Authorize, for read-only requests.
PolicyFails(m) == m.transport.proxy = "socks-without-port"
Authorize(m, proof) == \A case \in proof.cases : case.origin \in CanonicalOrigins(m)

\* planner.Build refuses two intents with one key.
BuildFails(m, proofs) ==
  \/ \E p, q \in proofs : p # q /\ p.key = q.key
  \/ \E proof \in proofs : ~Authorize(m, proof)
  \/ ~ReserveBatch(PlanBudget(PlannerBudget(m)), IntentCharges(proofs))

-----------------------------------------------------------------------------
\* prepare: the outcome and, when planned, the proofs.
StateChanging(m) ==
  \/ \E module \in Range(m.modules) : module.enabled /\ IsStateChanging(module.class)
  \/ \E workflow \in Range(m.workflows) : IsStateChanging(workflow.class)
ReservationFails(m, proofs) ==
  \/ PolicyFails(m)
  \/ NewLedgerFails(PlannerBudget(m))
  \/ ~ReserveBatch(PlannerBudget(m), ExactProofCharges(proofs))
  \/ BuildFails(m, proofs)
Outcome(result, proofs) == [result |-> result, proofs |-> proofs]
PrepareLoaded(m, contents, stored, database, allowNoCandidates) ==
  LET operations == WithinAuthorizedOrigins(ImportOperations(m, contents, stored), m)
      proofs     == DiscoverProofs(m, operations)
  IN  IF \/ StateChanging(m)
         \/ \E input \in Range(m.inputs) : ImportFails(input, contents, database)
      THEN Outcome("refused", {})
      ELSE IF operations = {} \/ ~BolaEnabled(m) THEN Outcome("refused", {})
      ELSE IF proofs = {}
      THEN Outcome(IF allowNoCandidates THEN "empty" ELSE "refused", {})
      ELSE IF ReservationFails(m, proofs) THEN Outcome("refused", {})
      ELSE Outcome("planned", proofs)
\* readable: the files that are regular and small enough.
Prepare(m, contents, stored, database, allowNoCandidates) ==
  IF Parse(m, DOMAIN contents)
  THEN PrepareLoaded(m, contents, stored, database, allowNoCandidates)
  ELSE Outcome("refused", {})

\* persistPreparedPlan: a node whose cost the store cannot hold fails the
\* assessment after it has begun.
Storable(proofs) ==
  \A proof \in proofs : ProofCost(proof).requests <= MaxInt64 /\ ProofCost(proof).bytes <= MaxInt64

\* What a plan may really send, counted without any width.
Requests(proofs) ==
  SumFunction([proof \in proofs |-> Cardinality(proof.cases) * (proof.redirects + 1)])
Bytes(proofs) ==
  SumFunction([proof \in proofs |-> Cardinality(proof.cases) * (proof.redirects + 1)
                                     * (proof.requestBytes + proof.responseBytes)])
RequestsAs(proofs, identity) ==
  SumFunction([proof \in proofs |-> Cardinality({c \in proof.cases : c.identity = identity})
                                     * (proof.redirects + 1)])
RequestsTo(proofs, origin) ==
  SumFunction([proof \in proofs |-> Cardinality({c \in proof.cases : c.origin = origin})
                                     * (proof.redirects + 1)])

=============================================================================
