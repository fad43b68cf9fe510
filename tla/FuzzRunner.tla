----------------------------- MODULE FuzzRunner -----------------------------
(***************************************************************************)
(* The sequential fuzz run: RunFuzz's preflight (internal/cli/fuzz.go),    *)
(* fuzz.Plan and fuzz.run (pkg/fuzz/runner.go), response-guided retries    *)
(* (guided.go) and business workflows (workflow.go).                       *)
(*                                                                         *)
(* The run works through a plan that grows while it is executed: a         *)
(* response may cause one repaired copy of its request to be appended.     *)
(* With ContinueOnTargetError a rate limit or repeated transport faults    *)
(* open a circuit for one origin, which probes and workflows share;        *)
(* without it a rate limit ends the run.  Requests, responses and repairs  *)
(* are abstracted to what the control flow tells apart.                    *)
(***************************************************************************)
EXTENDS Integers, FiniteSets, SequencesExt

CONSTANTS
  Origin,       \* target origins
  Repairs,      \* distinct repaired requests of an operation and identity
  Job           \* the option and input records a run may be started with

\* A request case of an operation: its captured baseline or a mutation of it.
\* The cases of an operation are neighbours and its baseline comes first.
Case == [op : Nat \ {0}, origin : Origin, unsafe : BOOLEAN, oversized : BOOLEAN,
         base : BOOLEAN,      \* a baseline that object-identifier cases need
         idor : BOOLEAN]      \* an object-identifier mutation
WorkflowStep == [origin : Origin, unsafe : BOOLEAN, capture : BOOLEAN]

ASSUME FuzzAssumption ==
  /\ Repairs \in Nat
  /\ Job \subseteq [cases : Seq(Case),           \* of all operations, in their order
                    workflows : Seq(Seq(WorkflowStep)),
                    identities : Nat \ {0},      \* every case is sent as each
                    acceptRisk : BOOLEAN,
                    isolate : BOOLEAN,           \* ContinueOnTargetError
                    guided : Nat,                \* MaxGuidedRetries, 0: not guided
                    budget : Nat \ {0},          \* MaxRequests
                    preflight : BOOLEAN]         \* started by RunFuzz
  \* LoadWorkflows and validateWorkflow refuse a workflow without steps.
  /\ \A j \in Job : \A w \in DOMAIN j.workflows : j.workflows[w] # <<>>

maximumOriginTransportErrors == 3

\* A planned probe.  variant tells the requests of one operation and identity
\* apart; root is the fingerprint of the probe a chain of repairs began with.
Plan == [op : Nat, id : Nat, variant : Nat, origin : Origin, depth : Nat,
         root : Nat \X Nat \X Nat, base : BOOLEAN, idor : BOOLEAN,
         fromFailure : BOOLEAN]

\* What executeProbe reports.  class: a 2xx response with object data, with
\* other data, without data (or a 3xx), an application failure, a body that
\* could not be read, a transport error of the target, any other error.
Class == {"object", "data", "empty", "failure", "unread", "fault", "ambiguous"}
Response == {r \in [class : Class, rate : BOOLEAN] :
               r.rate => r.class \notin {"fault", "ambiguous"}}
Failed(r) == r.class \in {"unread", "fault", "ambiguous"}      \* probe.Error # ""

Summary == [unsafe : Nat, invalid : Nat, isolated : Nat, rateOrigins : Nat,
            transportOrigins : Nat, errors : Nat, qualified : Nat, rejected : Nat,
            guided : Nat, successes : Nat, unresolved : Nat]

VARIABLES
  job,        \* the options and inputs, fixed
  pc,         \* plan, probe, stopped, workflow, done, failed, refused
  plans,      \* state.plans
  index,      \* the plan executed next
  flow,       \* the workflow and step executed next
  probes,     \* report.Probes: every request that was sent
  baselines,  \* state.idorBaselineStates: the keys that are true
  unresolved, \* state.unresolvedRoots
  blocked,    \* state.blockedOrigins
  errs,       \* state.transportErrors
  summary,    \* the counters of report.Summary
  rateLimited, budgetHit,  \* its flags
  progress,   \* the snapshot in the ProgressTracker
  canceled,   \* the context
  withheld    \* probes and steps not run because of a circuit (history)

planVars == <<plans, index, baselines, unresolved>>
circuitVars == <<blocked, errs>>
reportVars == <<summary, rateLimited, budgetHit>>
vars == <<job, pc, planVars, flow, probes, circuitVars, reportVars, progress, canceled,
          withheld>>

Requests == Len(probes)

-----------------------------------------------------------------------------
(* Planning                                                                *)

\* stateChanging operations need AcceptRisk.
Sendable == {c \in DOMAIN job.cases : ~job.cases[c].unsafe \/ job.acceptRisk}
SendableBefore(c) == {d \in Sendable : d < c}
Nth(n) == CHOOSE c \in Sendable : Cardinality(SendableBefore(c)) = n - 1

PlanOf(c, id) ==
  LET case == job.cases[c]
  IN [op |-> case.op, id |-> id, variant |-> c, origin |-> case.origin, depth |-> 0,
      root |-> <<case.op, id, c>>, base |-> case.base, idor |-> case.idor,
      fromFailure |-> FALSE]

\* planOperationProbes for every operation, without its limit: case by case,
\* identity by identity.
AllPlans ==
  [k \in 1..(Cardinality(Sendable) * job.identities) |->
     PlanOf(Nth(((k - 1) \div job.identities) + 1), ((k - 1) % job.identities) + 1)]

\* buildProbePlans comes to a case's operation unless the limit cut an earlier one.
FirstCase(op) == CHOOSE c \in DOMAIN job.cases :
  /\ job.cases[c].op = op
  /\ \A d \in DOMAIN job.cases : job.cases[d].op = op => c <= d
Reached(op) == Cardinality(SendableBefore(FirstCase(op))) * job.identities <= job.budget
Truncated == Len(AllPlans) > job.budget
BuildProbePlans == IF Truncated THEN SubSeq(AllPlans, 1, job.budget) ELSE AllPlans
SkippedOperations ==
  {op \in {job.cases[c].op : c \in (DOMAIN job.cases) \ Sendable} : Reached(op)}

UnsafeSteps(w) == Cardinality({s \in DOMAIN job.workflows[w] : job.workflows[w][s].unsafe})
SkipsWorkflow(w) == UnsafeSteps(w) > 0 /\ ~job.acceptRisk

\* fuzz.Plan: every case, every step of a workflow that may run, and every
\* retry a case can cause.
StepsToRun ==
  UNION {{w} \X DOMAIN job.workflows[w] : w \in {v \in DOMAIN job.workflows : ~SkipsWorkflow(v)}}
PlannedSteps == Cardinality(StepsToRun)
DeterministicRequests == Len(AllPlans) + PlannedSteps
RequiredRequests == DeterministicRequests + Len(AllPlans) * job.guided

Oversized == {job.cases[c].op : c \in {d \in Sendable : job.cases[d].oversized}}
PreflightRefuses == Oversized # {} \/ RequiredRequests > job.budget
BuildRefuses == \E op \in Oversized : Reached(op)

publishRunProgress(done) ==
  progress' = [sent |-> Len(probes'),
               planned |-> IF Len(plans') > Len(probes') THEN Len(plans')
                                                         ELSE Len(probes'),
               done |-> done]

NoProgress == [sent |-> 0, planned |-> 0, done |-> FALSE]

Init ==
  /\ job \in Job
  /\ pc = "plan"
  /\ plans = <<>>
  /\ index = 1
  /\ flow = [w |-> 1, s |-> 1]
  /\ probes = <<>>
  /\ baselines = {}
  /\ unresolved = {}
  /\ blocked = {}
  /\ errs = [o \in Origin |-> 0]
  /\ summary = [unsafe |-> 0, invalid |-> 0, isolated |-> 0, rateOrigins |-> 0,
                transportOrigins |-> 0, errors |-> 0, qualified |-> 0, rejected |-> 0,
                guided |-> 0, successes |-> 0, unresolved |-> 0]
  /\ rateLimited = FALSE
  /\ budgetHit = FALSE
  /\ progress = NoProgress
  /\ canceled = FALSE
  /\ withheld = 0

\* The plan is rejected before any traffic.
Refuse ==
  /\ pc = "plan"
  /\ BuildRefuses \/ (job.preflight /\ PreflightRefuses)
  /\ pc' = "refused"
  /\ UNCHANGED <<job, planVars, flow, probes, circuitVars, reportVars, progress, canceled,
                 withheld>>

Begin ==
  /\ pc = "plan"
  /\ ~BuildRefuses
  /\ job.preflight => ~PreflightRefuses
  /\ pc' = "probe"
  /\ plans' = BuildProbePlans
  /\ summary' = [summary EXCEPT !.unsafe = Cardinality(SkippedOperations)]
  /\ budgetHit' = Truncated
  /\ UNCHANGED <<job, index, flow, probes, baselines, unresolved, circuitVars,
                 rateLimited, canceled, withheld>>
  /\ publishRunProgress(FALSE)

-----------------------------------------------------------------------------
(* Circuits and guidance                                                   *)

originBlocked(origin) == job.isolate /\ origin \in blocked
Fingerprint(plan) == <<plan.op, plan.id, plan.variant>>
SeenPlans == {Fingerprint(plans[i]) : i \in DOMAIN plans}
BaselineKeyOfOperation(plan) == <<plan.op, 0>>
BaselineKey(plan) == <<plan.op, plan.id>>

\* A response opens the circuit of its origin: a rate limit, or the third
\* consecutive fault of the target (blockOrigin, recordTransportResult).
RateStops(r) == r.rate
OpensByFaultTooLate(origin, r) ==
  /\ ~RateStops(r)
  /\ r.class = "fault"
  /\ errs[origin] >= maximumOriginTransportErrors
OpensByFault(origin, r) ==
  /\ ~RateStops(r)
  /\ r.class = "fault"
  /\ errs[origin] + 1 >= maximumOriginTransportErrors
Opens(origin, r) == job.isolate /\ (RateStops(r) \/ OpensByFault(origin, r))

RecordCircuit(origin, r) ==
  /\ blocked' = IF Opens(origin, r) THEN blocked \cup {origin} ELSE blocked
  /\ errs' = IF job.isolate /\ ~RateStops(r)
             THEN [errs EXCEPT ![origin] = IF r.class = "fault" THEN @ + 1 ELSE 0]
             ELSE errs

\* updateSummary and the counters of the circuits.
Counted(s, origin, r) ==
  [s EXCEPT !.errors = IF Failed(r) THEN @ + 1 ELSE @,
            !.rateOrigins = IF Opens(origin, r) /\ RateStops(r) THEN @ + 1 ELSE @,
            !.transportOrigins = IF Opens(origin, r) /\ ~RateStops(r) THEN @ + 1 ELSE @]

Probe(plan, r) ==
  [plan |-> plan, object |-> r.class = "object",
   rate |-> r.rate, fault |-> r.class = "fault"]

\* A canceled context turns the request in flight into an error.
MayReceive(r) ==
  /\ canceled => Failed(r)
  /\ canceled' \in IF Failed(r) THEN {canceled, TRUE} ELSE {canceled}

NoHint == -1
Unresolved == -2

\* guidedRetry: nothing, an unresolved hint, or the variant a repair makes of
\* the request.  A failure always is a hint, an unread body never a repair.
GuidedRetry(plan, r) ==
  LET cases == {c \in DOMAIN job.cases : job.cases[c].op = plan.op}
      repairs == (cases \cup {Len(job.cases) + i : i \in 1..Repairs}) \ {plan.variant}
  IN CASE r.class \in {"fault", "ambiguous"} -> {NoHint}
       [] r.class = "unread" -> {NoHint, Unresolved}
       [] r.class = "failure" -> {Unresolved} \cup repairs
       [] OTHER -> {NoHint, Unresolved} \cup repairs

Retry(plan, r, variant) ==
  [op |-> plan.op, id |-> plan.id, variant |-> variant, origin |-> plan.origin,
   depth |-> plan.depth + 1, root |-> plan.root, base |-> FALSE, idor |-> plan.idor,
   fromFailure |-> r.class = "failure"]

AsksForGuidanceOnceMore(plan, r) ==
  /\ ~RateStops(r)
  /\ ~Opens(plan.origin, r)
  /\ job.guided > 0
  /\ plan.depth <= job.guided

\* Only a probe that neither stopped the run nor opened a circuit is repaired.
AsksForGuidance(plan, r) ==
  /\ ~RateStops(r)
  /\ ~Opens(plan.origin, r)
  /\ plan.depth < job.guided

\* A repair that is available; otherwise g says why there is none.
IsRepairWithoutCheck(g) == TRUE
IsRepair(g) == g >= 0

\* scheduleGuidedRetry: append a new request while the plan has room for it.
ScheduleGuidedRetry(plan, r, g) ==
  LET retry == Retry(plan, r, g)
      new == IsRepair(g) /\ Fingerprint(retry) \notin SeenPlans
  IN /\ plans' = IF new /\ Len(plans) < job.budget THEN Append(plans, retry) ELSE plans
     /\ unresolved' = IF g = Unresolved THEN unresolved \cup {plan.root} ELSE unresolved
     /\ summary' = [Counted(summary, plan.origin, r) EXCEPT
          !.qualified = IF plan.base /\ r.class = "object" THEN @ + 1 ELSE @,
          !.rejected = IF plan.base /\ r.class # "object" THEN @ + 1 ELSE @,
          !.guided = IF plan.depth > 0 THEN @ + 1 ELSE @,
          !.successes = IF /\ plan.depth > 0
                           /\ plan.fromFailure
                           /\ r.class \in {"object", "data"}
                        THEN @ + 1 ELSE @,
          !.unresolved = IF g = Unresolved /\ plan.root \notin unresolved
                         THEN @ + 1 ELSE @]
     /\ budgetHit' = (budgetHit \/ (new /\ Len(plans) >= job.budget))
     /\ rateLimited' = (rateLimited \/ RateStops(r))

-----------------------------------------------------------------------------
(* executeProbePlans                                                       *)

AtPlan == pc = "probe" /\ index <= Len(plans)
Current == plans[index]
LacksBaseline(plan) == plan.idor /\ BaselineKey(plan) \notin baselines
PacingFails == canceled /\ Requests > 0

SkipPlan(counted) ==
  /\ index' = index + 1
  /\ summary' = counted
  /\ UNCHANGED <<job, pc, plans, flow, probes, baselines, unresolved, circuitVars,
                 rateLimited, budgetHit, canceled>>
  /\ publishRunProgress(FALSE)

SkipIsolatedPlan ==
  /\ AtPlan
  /\ originBlocked(Current.origin)
  /\ withheld' = withheld + 1
  /\ SkipPlan([summary EXCEPT !.isolated = @ + 1])

SkipInvalidIDOR ==
  /\ AtPlan
  /\ ~originBlocked(Current.origin)
  /\ LacksBaseline(Current)
  /\ UNCHANGED withheld
  /\ SkipPlan([summary EXCEPT !.invalid = @ + 1])

Due == AtPlan /\ ~originBlocked(Current.origin) /\ ~LacksBaseline(Current)

AbortProbesQuietly ==
  /\ Due
  /\ PacingFails
  /\ pc' = "failed"
  /\ UNCHANGED <<job, planVars, flow, probes, circuitVars, reportVars, canceled, withheld>>
  /\ publishRunProgress(FALSE)

\* The context died while the run waited for its next slot.
AbortProbes ==
  /\ Due
  /\ PacingFails
  /\ pc' = "failed"
  /\ UNCHANGED <<job, planVars, flow, probes, circuitVars, reportVars, canceled, withheld>>
  /\ publishRunProgress(TRUE)

\* executePlannedProbe
SendProbe ==
  /\ Due
  /\ ~PacingFails
  /\ \E r \in Response :
       /\ MayReceive(r)
       /\ probes' = Append(probes, Probe(Current, r))
       /\ baselines' = IF ~Current.base THEN baselines
                       ELSE IF r.class = "object" THEN baselines \cup {BaselineKey(Current)}
                       ELSE baselines \ {BaselineKey(Current)}
       /\ RecordCircuit(Current.origin, r)
       /\ \E g \in IF AsksForGuidance(Current, r) THEN GuidedRetry(Current, r)
                                                  ELSE {NoHint} :
            ScheduleGuidedRetry(Current, r, g)
       /\ IF RateStops(r) /\ ~job.isolate
          THEN pc' = "stopped" /\ UNCHANGED index
          ELSE index' = index + 1 /\ UNCHANGED pc
  /\ UNCHANGED <<job, flow, withheld>>
  /\ publishRunProgress(FALSE)

ProbesOverAtEnd == pc = "probe" /\ index > Len(plans)
ProbesOver == pc = "stopped" \/ (pc = "probe" /\ index > Len(plans))

RunsWorkflowsAlways == job.workflows # <<>>
RunsWorkflows == (~rateLimited \/ job.isolate) /\ job.workflows # <<>>

\* run, after the probes: the workflows, or the report.
EndProbes ==
  /\ ProbesOver
  /\ UNCHANGED <<job, planVars, flow, probes, circuitVars, reportVars, canceled, withheld>>
  /\ IF RunsWorkflows
     THEN pc' = "workflow" /\ UNCHANGED progress
     ELSE pc' = "done" /\ publishRunProgress(TRUE)

-----------------------------------------------------------------------------
(* executeWorkflows                                                        *)

AtWorkflow == pc = "workflow" /\ flow.w <= Len(job.workflows)
Steps == job.workflows[flow.w]
AtStep == AtWorkflow /\ ~SkipsWorkflow(flow.w)
Step == Steps[flow.s]
NextWorkflow == [w |-> flow.w + 1, s |-> 1]
WorkflowPlan == [op |-> 0, id |-> flow.w, variant |-> flow.s, origin |-> Step.origin,
                 depth |-> 0, root |-> <<0, flow.w, flow.s>>, base |-> FALSE,
                 idor |-> FALSE, fromFailure |-> FALSE]

\* recordBlockedWorkflowSteps, with the circuits open after the step.
BlockedRest(open) ==
  IF job.isolate
  THEN Cardinality({s \in DOMAIN Steps : s > flow.s /\ Steps[s].origin \in open})
  ELSE 0
Rest == Len(Steps) - flow.s

SkipUnsafeWorkflow ==
  /\ AtWorkflow
  /\ SkipsWorkflow(flow.w)
  /\ summary' = [summary EXCEPT !.unsafe = @ + UnsafeSteps(flow.w)]
  /\ flow' = NextWorkflow
  /\ UNCHANGED <<job, pc, planVars, probes, circuitVars, rateLimited, budgetHit,
                 progress, canceled, withheld>>

EndWorkflows ==
  /\ pc = "workflow"
  /\ flow.w > Len(job.workflows)
  /\ pc' = "done"
  /\ UNCHANGED <<job, planVars, flow, probes, circuitVars, reportVars, canceled, withheld>>
  /\ publishRunProgress(TRUE)

BudgetOverspent == Requests > job.budget
BudgetSpent == Requests >= job.budget

StopWorkflowsSilently ==
  /\ AtStep
  /\ BudgetSpent
  /\ pc' = "done"
  /\ UNCHANGED <<job, planVars, flow, probes, circuitVars, reportVars, canceled, withheld>>
  /\ publishRunProgress(TRUE)

StopWorkflowsOnBudget ==
  /\ AtStep
  /\ BudgetSpent
  /\ pc' = "done"
  /\ budgetHit' = TRUE
  /\ UNCHANGED <<job, planVars, flow, probes, circuitVars, summary, rateLimited,
                 canceled, withheld>>
  /\ publishRunProgress(TRUE)

SkipIsolatedStep ==
  /\ AtStep
  /\ ~BudgetSpent
  /\ originBlocked(Step.origin)
  /\ summary' = [summary EXCEPT !.isolated = @ + 1 + BlockedRest(blocked)]
  /\ withheld' = withheld + 1 + Rest
  /\ flow' = NextWorkflow
  /\ UNCHANGED <<job, pc, planVars, probes, circuitVars, rateLimited, budgetHit,
                 progress, canceled>>

StepDue == AtStep /\ ~BudgetSpent /\ ~originBlocked(Step.origin)

AbortWorkflows ==
  /\ StepDue
  /\ PacingFails
  /\ pc' = "failed"
  /\ UNCHANGED <<job, planVars, flow, probes, circuitVars, reportVars, canceled, withheld>>
  /\ publishRunProgress(TRUE)

\* verifyStep and captureWorkflowVariables need a response; a status outside
\* 2xx may be the expected one, and an unread body can be captured nowhere.
CanVerify(r) == r.class \notin {"fault", "ambiguous"}
CanCapture(r) == ~Failed(r)

\* What follows a response: the run stops, goes on with the next workflow,
\* fails, or goes on with the next step.
StepOutcome(r) ==
  IF RateStops(r) /\ ~job.isolate THEN {"stop"}
  ELSE IF Opens(Step.origin, r) THEN {"open"}
  ELSE {"unverified"}
       \cup (IF CanVerify(r) /\ Step.capture THEN {"error"} ELSE {})
       \cup (IF CanVerify(r) /\ (Step.capture => CanCapture(r)) THEN {"continue"} ELSE {})

\* executeStep
SendStep ==
  /\ StepDue
  /\ ~PacingFails
  /\ UNCHANGED <<job, planVars>>
  /\ \E r \in Response : \E outcome \in StepOutcome(r) :
       /\ MayReceive(r)
       /\ probes' = Append(probes, Probe(WorkflowPlan, r))
       /\ RecordCircuit(Step.origin, r)
       /\ pc' = IF outcome = "stop" THEN "done"
                ELSE IF outcome = "error" THEN "failed" ELSE pc
       /\ flow' = IF \/ outcome \in {"open", "unverified"}
                     \/ outcome = "continue" /\ flow.s = Len(Steps)
                  THEN NextWorkflow
                  ELSE IF outcome = "continue" THEN [flow EXCEPT !.s = @ + 1] ELSE flow
       /\ withheld' = IF outcome = "open" THEN withheld + Rest ELSE withheld
       /\ summary' = [Counted(summary, Step.origin, r) EXCEPT
            !.isolated = IF outcome \in {"open", "unverified"}
                         THEN @ + BlockedRest(blocked') ELSE @]
       /\ rateLimited' = (rateLimited \/ RateStops(r))
       /\ UNCHANGED budgetHit
       /\ IF pc' = "workflow" THEN UNCHANGED progress ELSE publishRunProgress(TRUE)

-----------------------------------------------------------------------------

Cancel ==
  /\ pc \in {"probe", "workflow"}
  /\ ~canceled
  /\ canceled' = TRUE
  /\ UNCHANGED <<job, pc, planVars, flow, probes, circuitVars, reportVars, progress,
                 withheld>>

RunStep ==
  \/ Refuse \/ Begin
  \/ SkipIsolatedPlan \/ SkipInvalidIDOR \/ AbortProbes \/ SendProbe \/ EndProbes
  \/ SkipUnsafeWorkflow \/ StopWorkflowsOnBudget \/ SkipIsolatedStep
  \/ AbortWorkflows \/ SendStep \/ EndWorkflows

Next == RunStep \/ Cancel

Spec == Init /\ [][Next]_vars
\* The run is one goroutine, and its waits and requests are bounded.
FairSpec == Spec /\ WF_vars(RunStep)

-----------------------------------------------------------------------------
(* Properties                                                              *)

TypeOK ==
  /\ job \in Job
  /\ pc \in {"plan", "probe", "stopped", "workflow", "done", "failed", "refused"}
  /\ plans \in Seq(Plan)
  /\ index \in Nat
  /\ flow \in [w : Nat, s : Nat]
  /\ probes \in Seq([plan : Plan, object : BOOLEAN, rate : BOOLEAN, fault : BOOLEAN])
  /\ baselines \subseteq Nat \X Nat
  /\ unresolved \subseteq Nat \X Nat \X Nat
  /\ blocked \subseteq Origin
  /\ errs \in [Origin -> Nat]
  /\ summary \in Summary
  /\ rateLimited \in BOOLEAN
  /\ budgetHit \in BOOLEAN
  /\ progress \in [sent : Nat, planned : Nat, done : BOOLEAN]
  /\ canceled \in BOOLEAN
  /\ withheld \in Nat

\* The request budget is hard: cases, retries and workflow steps together never
\* send more than MaxRequests, although the plan grows while it is executed.
BudgetIsHard == Requests <= job.budget /\ Len(plans) <= job.budget

\* fuzz.Plan reserves enough: a run that passed the preflight never drops a
\* case, a retry or a workflow step for want of budget.
PreflightSuffices == job.preflight => ~budgetHit

\* After a rate-limit signal nothing more is sent; with ContinueOnTargetError
\* nothing more is sent to that origin, by probes, retries or workflows.
NothingAfterRateLimit ==
  \A i, j \in DOMAIN probes :
    i < j /\ probes[i].rate => job.isolate /\ probes[j].plan.origin # probes[i].plan.origin

\* With ContinueOnTargetError an origin that failed three times in a row is not
\* contacted again.
NothingAfterThreeFaults ==
  job.isolate =>
    \A j \in DOMAIN probes :
      LET earlier == {i \in 1..(j - 1) : probes[i].plan.origin = probes[j].plan.origin}
      IN ~\E first, last \in earlier :
           LET between == {i \in earlier : first <= i /\ i <= last}
           IN /\ Cardinality(between) = maximumOriginTransportErrors
              /\ \A i \in between : probes[i].fault

\* An object-identifier mutation, or a repair of one, is sent only after the
\* captured baseline of its own operation and identity returned object data.
\* A repaired baseline does not release them.
IDORFollowsBaseline ==
  \A i \in DOMAIN probes :
    probes[i].plan.idor =>
      \E j \in 1..(i - 1) :
        /\ probes[j].plan.base /\ probes[j].plan.depth = 0
        /\ probes[j].object
        /\ probes[j].plan.op = probes[i].plan.op
        /\ probes[j].plan.id = probes[i].plan.id

\* Guided retries form one chain per planned case, no longer than
\* MaxGuidedRetries; each follows its predecessor's response, and no request
\* of the plan is sent twice.
GuidedRetriesAreChains ==
  \A i \in DOMAIN probes :
    LET p == probes[i].plan
    IN /\ p.depth <= job.guided
       /\ p.depth > 0 => \E j \in 1..(i - 1) :
            /\ probes[j].plan.root = p.root
            /\ probes[j].plan.depth = p.depth - 1
            /\ ~probes[j].rate
       /\ \A j \in 1..(i - 1) :
            /\ Fingerprint(probes[j].plan) # Fingerprint(p)
            /\ <<probes[j].plan.root, probes[j].plan.depth>> # <<p.root, p.depth>>

\* fuzzCompletionErrorForMode
CompletionError ==
  CASE rateLimited /\ ~job.isolate -> "rate limited"
    [] budgetHit -> "budget"
    [] Requests > 0 /\ summary.errors = Requests -> "transport"
    [] OTHER -> "none"

\* A run without a completion error went through every case that may be sent,
\* every retry it scheduled and every workflow.
SuccessIsComplete ==
  pc = "done" /\ CompletionError = "none" =>
    /\ IsPrefix(AllPlans, plans)
    /\ index > Len(plans)
    /\ flow.w > Len(job.workflows)

\* When the run returns, the last published snapshot is marked done and counts
\* every request; a progress renderer never sees done earlier.
ProgressIsFinal ==
  /\ pc \in {"done", "failed"} <=> progress.done
  /\ progress.done => progress.sent = Requests
  /\ progress.sent <= progress.planned

\* Every run ends, although each response may extend the plan.
RunTerminates == <>(pc \in {"done", "failed", "refused"})

\* README: "Skipped counts and reasons are retained as coverage gaps".  Every
\* probe and workflow step an open circuit withholds is counted as skipped.
WithheldIsCounted == withheld <= summary.isolated

=============================================================================
