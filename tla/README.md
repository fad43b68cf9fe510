# TLA+ models of sj

sj is a command-line tool and MCP server that discovers, tests and reports on
HTTP APIs.  Its most demanding part is the *assessment runtime*: a durable,
resumable execution of a reviewed plan of requests, shared by competing
processes through a SQLite database.  This directory holds TLA+ models of that
part, of the scanning commands and the workflow that sequences them, of the fuzz
runner, and of the planning of assessments and the MCP server in front of it, the
TLC configurations that check them, and TLAPS proofs.

## 1. Inventory

| Part | State it keeps | Operations | Hard behaviour |
|---|---|---|---|
| Assessment store (`pkg/store/assessment*.go`) | one row per assessment, node, budget, attempt, coverage, comparison, finding, artifact, lease | transactions: begin, plan, reserve, finish, publish, seal, reactivate | fencing by lease, exact charging, what a reactivation may requeue |
| Runtime (`pkg/assessment/runtime`) | per invocation: schedule, retry sources, stopped origins, lease heartbeat, context | `Run`, `Resume`, `Status`, `Report` | crash or cancellation between any two transactions, two invocations at once, a lease lost while paused |
| Executor (`pkg/assessment/executor`) | stop reason of one node | `Execute` | classification of outcomes, stop on a rate limit |
| Pacing (`runtime/pacing.go`) | next send slot | `wait`, `resumeFromAttempts` | rate kept across a restart |
| Planner (`pkg/assessment/planner`, `runtime/plan*.go`) | budget ledger during planning | charge, order | overflow, atomic charge over several limits |
| BOLA module (`pkg/modules/bola`), comparison (`pkg/assessment/compare`) | none across calls | classify, compare, evaluate | a verdict from ten responses, some of them misleading |
| Manifest and inventory (`pkg/assessment/manifest`, `inventory`, `reference`) | none across calls | validate, import, select | references between parts, limits |
| Scanner (`pkg/scanner`) | one circuit per origin for a whole batch | plan, send, retry on a hint, replay | what an open circuit leaves out is counted once |
| Brute forcer (`pkg/brute`) | worker pool, growing candidate queue per target | scan | five limits, early stop, cancellation of the pool |
| HTTP client (`pkg/httpclient`) | settings | send | refusal of unsafe requests on every path |
| Fuzzer (`pkg/fuzz`) | growing plan, baselines, circuits, report | `Plan`, `Run` | the plan grows from responses, one budget for three kinds of request, circuits across two phases |
| Scan store (`pkg/store`, `internal/cli/result_store.go`) | one run per command with its observations and findings | begin, add, finish | a record that outlives a failed or canceled command |
| Full workflow (`internal/cli/full_workflow.go`) | stage, joined errors, artifacts, header policy | six stages | which failures stop it, which it survives |
| MCP server (`pkg/mcpserver`) | slots, snapshot directories | fourteen tools | policy under files that change, slots released on every path, answers that fit |
| Assessment report, importers, other modules, OpenAPI, output, configuration, reports | none | parsing and formatting | |

The runtime calls the store for every durable change and the executor for every
request; the executor calls back into the runtime to reserve an attempt before
each request, and the transport calls back to check the lease right before a
request leaves.  A heartbeat goroutine renews the lease and cancels the
invocation's context when it cannot.

What makes the runtime correct: a request is never repeated unless its first
attempt proves it had no side effect; every attempt is charged before it is
sent; a result is never better than its evidence; a sealed result does not
change; a stop of an origin holds for everybody; an interrupted assessment can
be finished.

The full workflow runs the commands one after another in one process; they share
the configuration and the header policy, the artifacts on disk and the database.
The MCP server runs its tools concurrently; they share slots, files and the
database, and call the same planner, runtime and scanner packages.

What makes a scan correct: it sends nothing unsafe without consent and nothing to
an origin that asked it to stop; private headers stay with the origins the operator
named; every operation it did not try is counted; its record says how it ended.

What makes the MCP server correct: whatever a client asks for, and whoever changes
the files meanwhile, only what the operator allowed is sent (the hosts of a full
workflow's operations excepted, see section 3); a plan costs no more than its manifest
grants; a verdict says what the API did; an answer tells what the
call has done; and every call is answered.

What makes the fuzz runner correct: it never sends more than its budget, although
responses extend its plan; it does not contact an origin that asked it to stop; it
orders what depends on earlier responses; and what it left out it reports.

## 2. Modules

| Module | Models |
|---|---|
| `AssessmentStore` | the durable state of one assessment and one action per transaction |
| `NodeExecution` | an invocation while it executes one node: reservation, exchange, evidence, evaluation, and every way a node can end |
| `AssessmentExecution` | `Run` and `Resume`: plan, lease, schedule, finish, seal; faults; the properties |
| `AssessmentLifecycle` | the abstract promise: tasks settle while the assessment runs, it closes once, is sealed once, and only a sealed cancellation runs again, without its proven tasks |
| `MCAssessmentExecution` | instances for TLC |
| `RequestPacer` | the pacer, the lease and the stored attempts under a clock: the request rate across invocations |
| `AssessmentStore_proofs` | the store's guarantees to arbitrary callers |
| `AssessmentExecution_proofs` | the runtime is such a caller, hence the guarantees hold of it |
| `ExecutionSafety_proofs` | what competing invocations cannot do to each other, for any number of them |
| `ExecutionSequential_proofs` | seal, result and lifecycle, for invocations one after another |
| `FuzzRunner` | `fuzz.Plan`, `fuzz.Run` with guided retries and workflows, and the preflight and completion error of the `fuzz` command |
| `MCFuzzRunner` | inputs and options for TLC |
| `FuzzRunner_proofs` | every safety property of `FuzzRunner`, for all inputs |
| `RequestPacer_proofs` | the request rate, for every rate, lease time and number of invocations |
| `HttpClient` | which requests leave the shared client and what its callers learn |
| `RequestPlans` | from an API definition to request plans: `BuildRequestPlans`, `ConfigureTarget` |
| `AutomateScan` | the `automate` command: sources, plans, circuits, guided retries, replay |
| `BruteScan` | the `brute` command: worker pool and the scan of one target |
| `ResultStore` | a command's run in the scan database |
| `FullWorkflow` | composes the four above: `sj run --full-workflow` with its stages, records, artifacts and cancellation |
| `MCFullWorkflow` | fourteen invocations for TLC |
| `FullWorkflow_proofs` | the workflow, the brute scan and the automate scan, for all invocations, documents and responses |
| `AssessmentManifest` | the manifest and its validation |
| `AssessmentInventory` | operations imported from definitions and results, object references, selection |
| `AssessmentPlan` | `prepare`: ownership matrices, their costs with the widths of the integers, reservation |
| `BolaProof` | classes and comparison of responses, the verdict on one matrix |
| `McpServer` | composes planning, verdicts and request plans: every tool, concurrent calls, slots, policy |
| `MCMcpServer` | sixty-three pairs of calls for TLC |
| `McpServer_proofs` | every safety property of `McpServer`, for all servers, calls and files |

`AssessmentPlan` extends `AssessmentInventory`, which extends `AssessmentManifest`;
`McpServer` extends `AssessmentPlan` and `BolaProof` and instantiates `RequestPlans`.

### State and code

* `lease` is the row of `assessment_execution_leases`; `live` stands for
  `expires_at > now`.  `Fenced(w)` is `renewAssessmentExecutionLeaseTx`, the first
  statement of each leased transaction.
* `node`, `attempt`, `used`, `coverage`, `comparison`, `finding`, `artifact`, `seal`
  are the tables.  A message is a `Reason`; the coverage primary key is a hash of
  node and reason, so the set of reasons is the set of rows.
* `run[w]` is an invocation: `pc` is its next transaction or network operation,
  `todo`, `retry`, `down` and `result` are what `newExecutionSchedule` computed from
  the loaded state, `ctx` the cause of its context, `hb` the error of its
  heartbeat.  A worker is a slot for invocations one after another; each
  invocation takes a new owner id in the code, and a slot that closed or crashed
  never acts under its former lease, because it must acquire again first.
* `sent` counts the requests that really left; it is a history variable.
* In `FuzzRunner`, `job` holds the options and inputs of one run; `plans`, `index`,
  `baselines`, `unresolved`, `blocked`, `errs` are the fields of `probeRunState` and the
  loop counter (`seenPlans` is the set of fingerprints of `plans`); `flow` is the
  position in the two nested workflow loops; `probes`, `summary`, `rateLimited`,
  `budgetHit` are the report; `progress` is the tracker's snapshot.  `withheld` counts
  what an open circuit kept from being run; it is a history variable.  One action is one
  turn of a loop: the request, everything `executePlannedProbe` or `executeStep` does
  with its response, and the progress published after it.
* In `RequestPacer`, `now` is the clock of all processes, `lease.expires` and the
  completion times of `attempts` are the stored timestamps, `pacer[w].next` is
  `requestPacer.next`.  `slots` (when the lease was checked for a request) and `sent`
  (when it left) are history variables.
* In `FullWorkflow`, `flow` is the position in `executeFullWorkflow` and in the command
  it is calling, with the errors of that command so far; `outcome` is what
  `executeFullWorkflow` joins; `files` and `runs` are what is on disk and in the
  database.  `scan` and `pool` are `scanState` and the workers of `brute`; `auto`,
  `circuit` and `written` are the loops, the `TargetCircuit` and the writer of
  `automate`; `wire` is a history variable.  One action is one request with everything
  done about its response, one transaction, or one write.
* In `McpServer`, `call[c]` is a tool call: where it is, what it has read, planned and
  prepared; `slots` is the semaphore of the server; `files` are the local files, which
  `WriteFile` changes behind the server's back; `snapshots` the private copies made
  before an assessment is planned; `assessments` the rows of the database.  `sent` and
  `verdicts` are history variables.

### Abstractions

* `lease.ensure` and the leased transaction right after it are one step: both run
  the same fence.  Where the operation after `ensure` is *not* fenced (the request
  itself) they are two steps, `BeforeSend` and `Send`.
* `LoadAssessmentState` is one step, though it reads table by table.  Under the lease
  every other writer is fenced; where `Resume` reads before it has the lease, the model
  takes the state of one moment.
* One artifact stands for the evidence rows of an attempt; storing response bodies
  is off, which is the default.
* A plan that was persisted passed preflight when it was made, so `Execute` can
  only fail before the reservation for its context or its ledger.
* The runtime gives the executor one attempt per case (`MaxAttempts` 1), and every
  case is a read (`GET`): plans hold only safe methods.
* `FuzzRunner`: a response is one of seven classes, those the control tells apart, with
  or without a rate-limit signal; a request of an operation and identity is a number,
  `variant`, and a repair chooses another one, possibly one that is planned already.
  Operations are the runs of `job.cases` with one `op`.  The findings, which are computed
  from the finished probes, redaction, the verified-side-effect and status counters, and
  workflow variables that would change a step's origin are left out.
* One counter, `faults`, bounds crashes, cancellations, store errors and pauses.
* `RequestPacer`: the clock is one for all processes and never goes back; a failed
  transaction is a return of the invocation.
* `FullWorkflow`: writing to the terminal does not fail.  The calls of `fuzz.Run` and of
  the assessment's `Run` are single steps with any outcome here; `FuzzRunner` and
  `AssessmentExecution` have their detail.  Scan clients follow no redirects
  (`httpclient/client.go:109`), and the references of a page stay on its origin
  (`brute/html.go:232`).  Only `--url-file` makes a batch, in which a failing source is
  recorded instead of ending the command.  Redacting an error message that quotes a
  private header loses its class, so the workflow then stops where it would have gone
  on.  The answer to a replayed request is not looked at.
* `McpServer`: `run_full_workflow` is three steps: its scans, the assessment, the answer.
  The scans (in detail in `FullWorkflow`) send some of what their starting points and the
  documents found there allow, each stage with any outcome.  Its assessment is kept in
  `assessment.db` in the artifact directory, not among `assessments`; its manifest is
  generated without identities and objects (`full_workflow_assessment.go:187`), so that it
  has no matrices and sends nothing.  `maxTargets` is one limit for those on candidates
  and on automate targets, and `max_candidates`, which `discover` checks under its slot
  (`tools.go:293`), is among the failures of `Probe`.  `Resume` is one step, in detail in
  `AssessmentExecution`; methods that a client excludes itself are left out, as they only
  make plans shorter; two requests of a scan are one when they agree in origin,
  method and danger.  Identifiers contain no slash, and URLs in plans are spelled
  without the default port.  Whether a name is an object reference, and how an API
  answers, are constants: eight kinds of API, from one that checks ownership to one that
  answers everything alike.
* `AssessmentExecution`: a heartbeat that fails and the context it cancels are one step,
  and the two checks before a node, of the lease and of the context
  (`execution_schedule.go:88,114`), are one read; reactivation takes the invocation's
  context, where `service.go:89` takes the caller's.  An origin with both kinds of stop
  in its coverage rows counts as rate limited; the code takes the last row
  (`recovery.go:85`).
* `NodeExecution`: every response has an artifact; the code stores none for a response
  without a body fingerprint (`node_execution.go:252`).
* `FuzzRunner`: the cases of a job are distinct; the code removes duplicates only from
  what it adds later (`runner.go:364`).
* `BruteScan`: dispatch may stop early for a single target too, which the code scans
  directly (`internal/cli/brute.go:78`), and its options are valid (`pkg/brute/brute.go:73`).
  `AutomateScan`: a retry on a hint is as dangerous as its plan; the code classifies the
  new URL (`client.go:303`).  `GenerateCollection` begins its run before it reads its
  inputs, the code after (`collection.go:46`, `report.go:69`), so that in the code a
  failure to read leaves no run.
* `AssessmentPlan`: rates have a valid interval (`plan_budget.go:102`).
* Two proofs of a plan come as a symmetric pair of victim and attacker, and their costs
  are added before they are stored: what passes the unsigned sum fits the store.

## 3. Runs

| Run | Instance | Shows |
|---|---|---|
| `execution_concurrent` | 2 workers, 2 nodes, 1 case, 2 faults | `AtMostOnceSend`, `RetryIsJustified`, `QueuedNodeIsSafe`, `SucceededNodeHasProof`, `OriginStaysStopped`, `OutcomesAreFinal` under interleaving |
| `execution_sequential` | 1 worker, 3 nodes on 2 origins, 2 cases, 2 faults | `BudgetIsExact`, `SuccessHidesNoFailure`, `SealMatchesEvidence`, `StopsAreIsolated` (a stop leaves out nodes of its own origin only) and `ImplementsLifecycle` over crashes and resumptions |
| `execution_liveness` | 2 workers, 1 node, fair | `RunningEventuallyFinishes` |
| `pacing` | 2 invocations, 3 attempts, a rate that does not divide the second, 6 ticks | `SlotsKeepRate`, `DeparturesKeepRate` across crashes, resumptions, redirects and lost leases |
| `full_workflow` | 14 invocations, 2 origins, 4 URLs, 2 targets, 2 workers | the workflow and scan properties below, over all responses, failures and cancellations |
| `mcp_assessment` | 63 pairs of calls, 1 or 2 slots, 1 write to a file | the MCP and planning properties below |
| `fuzz_run` | 2 origins, 2 repairs, 19 jobs | the fuzz properties below, over all responses, repairs and cancellations |
| `fuzz_step_uncounted` | one workflow over 2 origins | violates `WithheldIsCounted` |
| `stale_resume_breaks_seal` | 2 workers, 1 node | violates `SealMatchesEvidence` |
| `interrupted_node_unreported` | 1 worker, 1 node | violates `AttemptedNodeIsReported` |
| `rate_stop_lost_in_crash` | 1 worker, 2 nodes | violates `RateStopOutlivesCrash` |
| `reactivation_without_fence` | 2 workers, 1 node | violates `SuccessHidesNoFailure` |

The bounds.  Two workers are enough for a stale and a fresh owner; the lease is
exclusive, so a third adds no new kind of conflict with the store.  Two nodes give a
node before and a node after the one that fails; three nodes on two origins give a
second node on the stopped origin and one elsewhere.  Two cases separate the case that
was interrupted from the case never reached.  Two faults allow a fault during the
recovery from a fault, and a second cancellation after a reactivation.  A limit of
two requests is reached by two cases, so that a retry meets an exhausted budget.

`pacing` has an interval of two ticks, so that rounding a second of three ticks at rate
two down instead of up shows, a lease as long as an interval, and time for four slots;
two invocations give one that is suspended past its lease and one that took over.

The invocations of `full_workflow` are: three specifications on two origins that share
circuits; private headers bound to one of them; requests that need consent, with and
without it; up to two failing writes or transactions with an assessment; a
cancellation anywhere; no database; a brute run as the source of the targets; a refused
configuration and an unusable client; and brute scans of two targets, of one target long enough for
every limit, and of a target whose candidates cannot be built.  The limits are small
versions of the code's (references one deep instead of 3, wildcards after 2 and 3 equal
answers instead of 5 and 8), each reached by the four URLs.  They check that
`RunsTellTheOutcome` and `SuccessIsComplete` (records, artifacts and the returned error
agree, also when a write fails after a partial failure), `CoverageGapsAreExact` (what a
circuit kept back is counted once, over several sources), `NothingAfterOriginStops`,
`UnsafeNeedsConsent`, `PrivateHeadersStayHome`, `DiscoveryIsAccounted` (what a scan
tried and what it says it skipped, at each of its limits), and `WorkflowReturns`.

The calls of `mcp_assessment` are chosen tool by tool, each with a second call that
competes for the slot, reads what the first one writes, or resumes what it left:
documents given in three ways, sources that fail, requests with and without consent,
output limits; full workflows from targets, from URLs and from stored runs, with and
without an assessment, on documents whose operations are elsewhere; manifests at, above and below their budgets, with costs at the width of
the planner's and of the store's integers (127 and 255 stand for the largest ones);
every kind of API under a manifest that forbids and one that permits the access;
assessments that are running, canceled, failed, damaged, out of their window, or of
another host.  They check that `EverySendIsAllowed` (also when a file is replaced
between its check and its use), `PlanFitsBudgets` (counted without widths),
`VerdictsAreRight`, `EffectsAreReported` and `CallsAreAnswered`.  The first and the fourth
except what the code of `run_full_workflow` does not ensure: the hosts of its operations
and of the documents of stored runs, and the ID of its assessment (see below).

The jobs of `fuzz_run` are four families: an object-identifier case with chains of two
repairs, under a budget that cuts them and one that holds exactly what the preflight
reserves; the same with two identities; four requests to one origin, so that a fourth
follows three faults, then another origin and workflows that meet the open circuit, an
unsafe step, a capture and a spent budget; and plans that are cut or refused.  Together
they check that
`BudgetIsHard` (at most `MaxRequests` are sent), `PreflightSuffices` (what the preflight
accepts is never cut), `NothingAfterRateLimit` and `NothingAfterThreeFaults` (circuits
hold for retries and workflows too),
`IDORFollowsBaseline`, `GuidedRetriesAreChains` (no request twice, chains of bounded
length), `SuccessIsComplete` (no completion error means nothing was cut),
`ProgressIsFinal` and `RunTerminates`.

Deadlock is checked in `full_workflow` and `mcp_assessment`, where only an ended
workflow, or a server with nothing to do but to wait for slots, may stutter.  In the
others it is not: once the assessment is finished and the faults are used up
nothing has to happen, a fuzz run that has returned does nothing more, and in `pacing`
the clock stops at its bound.

Fairness.  In `execution_liveness`,  `WF(WorkerStep(w))`: a started invocation is a
running goroutine, and every store and network call it makes has a timeout.
`WF(Expire)`: time passes.  `WF(ResumeLoads(w))`: somebody resumes an assessment that
is still running; the code does not do it by itself, the operator does, so
`RunningEventuallyFinishes` reads "if it is resumed whenever it can be".  Faults are
never fair.  In `fuzz_run`, `WF(RunStep)`: the run is one goroutine, its waits are timers
and every request has the client's timeout.  In `full_workflow`, `WF(Step)`: some
goroutine of the command runs on.  In `mcp_assessment`, `WF(Handle(c))` for every call:
its handler is a goroutine whose requests and transactions have timeouts, and a call
that waits for a slot gets one while slots are free.  `Cancel`, failures and writes to
files are never fair.

### Disagreements with the documentation

The five violation runs are listed with their sources under `findings` in
`PROJECT.json`: a stale `Resume` that runs on after another invocation sealed the
result; a node canceled before a crash that a later success does not report; a rate
limit lost between two transactions; a reactivation that commits under another
owner's lease; and a fuzz workflow given up at an open circuit, whose later steps to
healthy origins are neither run nor counted as skipped.

Remarks without a run of their own, on what the models had to follow:

* The comparison recognises an API that echoes the request only by request markers
  (`compare.go:102`), which the runtime never sets; such an API is the one exception of
  `VerdictsAreRight`.
* The evaluation asks the negative control to differ from the object, not to have
  succeeded, which `src/README.md:300` suggests.
* The MCP policy compares hosts as text (`mcpserver/policy.go:143`), while the URLs of a
  stored plan are canonical: a run allowed for a host spelled with its default port may
  later be refused by `assess_status` and `assess_resume`.
* `run_full_workflow` "uses only server-configured [...] host allowlist" says its
  description (`mcpserver/server.go:247`).  It holds `targets` and `spec_urls` against the
  allowlist, but not the operations: these go to the servers a document names
  (`scanner/generator.go:141`), where `scan` and `automate` check every planned request
  (`tools.go:208`, `batch_tools.go:322`).  Nor the documents of `brute_run_ids`, which are
  fetched from wherever a run found them (`mcpserver/full_workflow.go:213`).  Hence the
  exception `OutsideHosts` in `EverySendIsAllowed`; without it the run is violated by one
  workflow whose document names another host.
* The same tool drops its whole answer when that is too large
  (`mcpserver/full_workflow.go:105`), with the ID of the assessment it has run, which
  `assess_run` keeps (`assessment_tools.go:271`); and it knows the ID only from
  `assessment-run.json` (`internal/cli/mcp_full_workflow.go:132`), and not when that file
  could not be written (`internal/cli/full_workflow_assessment.go:121`) or read.
  `EffectsAreReported` therefore claims less of it.
* A request is paced by its slot and leaves after the dial; two requests of one
  invocation may leave closer together than the interval, three may not.
* An `automate` stage that finds no operation makes the fuzz and collection stages fail,
  because both need some.

## 4. Proofs

TLAPS proves, for every number of workers, nodes, cases and faults and every budget
limit (`StoreAssumption`: positive counts, a natural limit; `ExecutionAssumption`:
every node has an origin, a natural number of faults):

* `AssessmentStore_proofs` treats the store as a service to arbitrary callers
  (`StoreSpec`).  `StoreInv` is inductive: types; a node without a reservation has no
  attempt; a waiting node is safe; a retry is justified; reservations are finite sets;
  budgets are exact.  The parts need each other: persisting a reservation resets
  `used` to 0, which is exact only because a fresh node has no attempt; and
  cardinalities add up only over finite sets.
* `AssessmentExecution_proofs` shows that the runtime is such a caller:
  `ExecutionUsesStore` is `Spec => StoreSpec`, a refinement with the store's own
  variables as the mapping.  It needs `RunInv`, which says what `pc` implies for the
  rest of an invocation's memory: a node and a case are being executed, a reason that
  is going to be stored is one the schema has.  From it follow `ExecutionBudget`,
  `ExecutionRetry`, `ExecutionQueue`, the action property `ExecutionOutcomes`, and
  `ExecutionTypeCorrect`.
* `ExecutionSafety_proofs`, for any number of invocations: `ExecutionAtMostOnce`,
  `ExecutionProof`, `ExecutionStops` and `ExecutionIsolation`.  Two kinds of facts carry
  the induction.  What an invocation found stored and can only grow (completed attempts,
  published rows) holds of every invocation, stale ones too (`ProofInv`, `StopInv`).
  What must not have changed since it loaded the state, attempts not yet reserved and
  origins not yet stopped, holds only of the one that owns the lease, expired or not
  (`FreshInv`, `MaySendInv`); a reservation is fenced, so nobody else needs it.  `SendInv`
  then gives every attempt whose request may still leave to one invocation.
* `ExecutionSequential_proofs`, under `OneInvocation` (invocations come one after another,
  each may crash, be canceled, lose its lease or meet store errors): `SequentialSeal`,
  `SequentialSuccess` and `SequentialLifecycle`, the refinement of `AssessmentLifecycle`
  with open nodes and proven nodes as its tasks.  The hypothesis is needed and is stated
  in each theorem: `stale_resume_breaks_seal` and `reactivation_without_fence` refute the
  first two for two invocations.  `SealInv` says what the last read status implies at each
  `pc`, `ResultInv` which nodes are settled by the time a result is chosen.
* `FuzzRunner_proofs`, for every set of origins and every set of jobs that satisfies
  `FuzzAssumption` (among its conjuncts: a workflow has a step, which `validateWorkflow`
  ensures, `fuzz/workflow.go:99`).  None of the properties is inductive.  `FuzzInv`, for
  `FuzzBudget`, `FuzzSilence` and `FuzzBaseline`: while probes are sent each plan causes at
  most one request, so the number of requests is below `index` and the plan within the
  budget; an origin that signalled a limit is in `blocked`, or the run is past sending; a
  key in `baselines` has the probe that qualified it, and only a first probe is a
  baseline.  `TypeInv` and `CompleteInv`: where the nested loops are, and that the plan is
  whole unless the report says it was cut (`FuzzTypeCorrect`, `FuzzProgress`,
  `FuzzComplete`).  `FaultInv`: the error count of an origin is the length of its last run
  of faults, counted backwards over the probes (`FuzzFaults`).  `ChainInv`: every plan is
  the root of an operation or follows a request that was sent, and no two agree
  (`FuzzChains`).  `PreflightInv`: each plan occupies a place of its own, a root and a
  number of repairs, so there are at most as many as the preflight reserved
  (`FuzzPreflight`).
* `FullWorkflow_proofs`, for every set of invocations that satisfies
  `WorkflowAssumption` (jobs have their types, the entries of a target list and the
  sources of a batch are different, as `automateURLCollector` leaves them, a response
  names finitely many URLs, and what brute finds is something automate can read).
  `WorkflowInv` is inductive and has three parts.
  `ScansOK`: the *books* of a brute scan, that every URL named by a page or definition is
  tested, skipped or queued, are kept by every fetch, and so is the bound on known URLs
  (`WorkflowDiscovery`); in the automate scan, a request leaves only for an origin on
  which circuit and wire agree (`Settled`), and while a plan's response is at hand the
  circuit *lags* behind by that response, for its origin alone: this is why a guided
  retry or a replay between the response and its `Observe` does no harm
  (`WorkflowStopsOrigins`); all requests come from `BuildRequestPlans` (`WorkflowConsent`).
  `FlowOK`: what the current command has stored and written follows from its step and its
  errors (`Now`), and what the earlier ones left from their outcomes (`Past`); suppression
  of a partial failure is the case that needs both (`WorkflowRuns`, `WorkflowComplete`).
  `HeadersOK`: the policy is loaded before the first command, so the origins of
  discovered sources never extend it (`WorkflowHeaders`).  `CoverageInv`, inductive beside
  `WorkflowInv`, states the equation of `CoverageGapsAreExact` for every moment of a batch
  instead of its end: what an origin's gap counts are the sources *behind* the loop that
  were neither parsed nor have failed, and the plans behind it that have no result
  (`GapsOK`).  Each step of the loop then moves one source or one plan behind it and
  counts it, records it, or drops the whole batch with an error (`SourceLeft`,
  `PlanLeft`); a source behind the loop does not come back, because no two sources are
  equal (`WorkflowCoverage`).  The lists and loops of the
  model are recursive functions; what they compute is proved by induction over the sets of
  indices for which it holds (`NatSetInduction`, from the well-founded order of the
  naturals).

* `RequestPacer_proofs`, for every set of invocations and every `Second`, `Rate` and
  `TTL` above zero (`PacerAssumption`): `PacerSlots`, `PacerDepartures` and
  `PacerTypeCorrect`.  The rate is not inductive: the pacer of a process that takes over
  starts from nothing.  `PacerInv` adds that every slot and every departure is covered by
  an attempt that is running or was completed later, that attempts at work are distinct
  and running, and that the *owner of the lease* has all slots an interval before its
  `next`.  An invocation that lost its lease knows nothing, and can take no slot.

* `McpServer_proofs`, for every number of calls and every set of servers, requests, files
  and stored assessments that satisfies `JobsAssumption`: options have their types, lists
  are lists, limits are integers (`Decoded`, `DecodedDocument`, `IsContent`: what decoding
  alone gives, no check of the code is assumed), and the proofs of an assessment that is
  already stored are whole matrices, as `persistPreparedPlan` writes them.
  `FieldsAssumption` says of which kind the fields in an API's answers are, and
  `NamesAssumption` that names are finitely many, since they have a limited length.
  `ServerInv` is inductive.  `Local`: what the place of a call implies for it, above all
  that the checks of its handler have been passed (`Permits`), that plans about to be sent
  go to the operator's hosts (`ScanOK`), and that a snapshot of a manifest names no other
  (`SnapshotOK`): the invariant is about the copy, because the file may change after it
  was checked.  `Link`: what a call may rely on in the store, which other calls write.
  A call that executes has a *safe* assessment, running and leased (`Held`), and no two
  calls execute the same one (`Alone`); an assessment, once begun, stays named by the call
  that began it (`Begun`).  `Effect` says what one call may do to everything shared, and
  `EffectKeeps` that this keeps the invariant, so that an action is examined for its own
  call only.  From it follow `McpTypeCorrect`, `McpSends` and `McpEffects`.  For a full
  workflow, `WorkflowSent` shows that its starting points are allowed hosts unless they
  come from stored runs, and that the client's gate let its operations out, with nothing
  about their hosts; `Concluded`, that an assessment is begun only when asked for, and has
  been when no error is left to report.
  `McpBudgets` and `McpVerdicts` rest on lemmas about the operators of planning and
  comparison: `FitsWhenReserved`, that charges which pass the checked products and sums
  (`CaseCost`, `LimitCost`, `SumOfCharges`) are their exact values, and that the charges
  under a name are as many as the cases counted for it (`SelectedCharges`); and
  `MatrixVerdicts`, by kinds of API, that what an answer shows of the victim's object
  survives normalisation.  Sums and folds over finite sets are recursive functions that
  the community modules choose; `SumRecurs`, `SubsetRuns` and `FoldRuns` show that they
  exist, by induction over the subsets of a set (`SubsetInduction`).

Every invariant and every action property the passing runs check is also a theorem.  Only
model-checked is liveness (`RunningEventuallyFinishes`, `RunTerminates`, `WorkflowReturns`,
`CallsAreAnswered`), which is out of the prover's reach, as are `ENABLED` and recursive
operators.

## 5. Not modelled, and the plan

The components and the reasons are in `PROJECT.json`.  Left out because nothing in them
takes more than one step or is called by the modelled parts: the rendering of assessment
reports and of scan reports; the importers of captures (`pkg/assessment/importer`) and
the authentication, authorization and protocol modules, which the runtime does not call;
parsing of API definitions, example values, serialisation of parameters, redaction,
Bruno files, flags and configuration.  The rate limiter of the scan client needs a clock
beside every other model of its commands.

Next: the reads of `LoadAssessmentState` before the lease as separate steps.
