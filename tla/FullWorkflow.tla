---------------------------- MODULE FullWorkflow ----------------------------
(***************************************************************************)
(* `sj run --full-workflow` (internal/cli/full_workflow.go): brute,        *)
(* automate, fuzz, collection, report and assessment, each a command with  *)
(* a run of its own in the result database, and the rules that decide what *)
(* still happens after one of them went wrong.                             *)
(***************************************************************************)
EXTENDS BruteScan, AutomateScan, ResultStore

CONSTANT
  WorkflowJobs   \* the invocations: [workflow : Job, brute : BruteJob, automate : AutomateJob]

\* What one invocation is given. explicit: the origins of its target file;
\* reflects: commands whose error messages quote private header material;
\* refused: stages whose input their own preflight refuses; maxFailures bounds
\* the failing writes and transactions, cancelable allows a cancellation.
Job ==
  [mode : {"brute", "url-file", "brute-run"}, database : BOOLEAN, assessment : BOOLEAN,
   headerFile : BOOLEAN, explicit : SUBSET Origin, reflects : SUBSET Command,
   refused : SUBSET {"workflow", "fuzz"}, maxFailures : Nat, cancelable : BOOLEAN]

\* The entries of a target list are different, and so are the sources of a
\* batch, which an automateURLCollector gathered; a response names finitely
\* many URLs; what brute finds are specifications automate can read.
ASSUME WorkflowAssumption ==
  /\ NoTarget \notin Target
  /\ Url \subseteq Source
  /\ \A j \in WorkflowJobs :
       /\ j.workflow \in Job /\ j.brute \in BruteJob /\ j.automate \in AutomateJob
       /\ IsInjective(j.brute.targets) /\ IsInjective(j.automate.sources)
       /\ \A u \in Url : /\ IsFiniteSet(j.brute.references[u])
                         /\ IsFiniteSet(j.brute.variations[u])

VARIABLES
  job,
  flow,      \* the stage, its step, the errors of its command so far, failures
  outcome,   \* per stage, the error executeFullWorkflow joins into its result
  files,     \* the artifacts on disk; "operations": automate.json holds some
  policy     \* the private header policy the stages' configurations share
flowVars == <<job, flow, outcome, files, policy, runs, canceled>>
vars == <<flowVars, bruteVars, automateVars>>

Stage == Command \cup {"workflow", "assessment", "ended"}
Artifact == Command \cup {"operations", "plan", "run", "assessment"}
Steps ==
  [workflow   |-> <<"begin">>,
   brute      |-> <<"begin", "work", "observations", "write", "finish">>,
   automate   |-> <<"begin", "work", "observations", "write", "finish">>,
   fuzz       |-> <<"begin", "work", "observations", "findings", "write", "finish">>,
   collection |-> <<"begin", "work", "observations", "finish">>,
   report     |-> <<"begin", "observations", "findings", "write", "finish">>,
   assessment |-> <<"plan", "store-plan", "run", "store-run", "reports">>,
   ended      |-> <<"begin">>]

At(stage, step) == flow.stage = stage /\ flow.step = step
FollowingStep ==
  Steps[flow.stage][1 + CHOOSE i \in DOMAIN Steps[flow.stage] : Steps[flow.stage][i] = flow.step]
\* A step that returned no error is followed by the next one; one that did by
\* the deferred finish.
Advance(errors) == [flow EXCEPT !.step = FollowingStep, !.errors = errors]
GiveUp(errors) == [flow EXCEPT !.step = "finish", !.errors = errors]
Enter(stage) == [flow EXCEPT !.stage = stage, !.step = Steps[stage][1], !.errors = {}]
\* A write or transaction may fail, at most maxFailures times.
MayFail(ok, next) ==
  /\ ok \/ flow.failures < job.maxFailures
  /\ flow' = [next EXCEPT !.failures = IF ok THEN @ ELSE @ + 1]
ContextError == {IF canceled THEN "canceled" ELSE "fatal"}
Stored(c) == runs[c].status # "none"

-----------------------------------------------------------------------------
\* loadPrivateHeaders: the first call binds the headers to the origins it is
\* given, later ones keep that policy.
NoPolicy == [loaded |-> FALSE, origins |-> {}]
\* Mutant: every stage binds the headers anew.
ReloadPrivateHeaders(current, explicit) ==
  IF ~job.headerFile THEN current
  ELSE [loaded |-> TRUE, origins |-> explicit \cup automateJob.config.target]
LoadPrivateHeaders(current, explicit) ==
  IF ~job.headerFile \/ current.loaded THEN current
  ELSE [loaded |-> TRUE, origins |-> explicit \cup automateJob.config.target]
\* No explicit origin, or an option validateFullWorkflowOptions refuses.
WorkflowRefused ==
  \/ "workflow" \in job.refused
  \/ job.headerFile /\ LoadPrivateHeaders(NoPolicy, job.explicit).origins = {}
  \/ job.mode = "brute-run" /\ ~job.database
  \/ job.assessment /\ ~job.database
\* Everything before the first stage: options, origins, output directory and,
\* with an assessment, its manifest.
StartWorkflow ==
  /\ flow.stage = "workflow"
  /\ IF WorkflowRefused
       THEN /\ flow' = Enter("ended")
            /\ outcome' = [outcome EXCEPT !["workflow"] = {"fatal"}]
            /\ UNCHANGED policy
       ELSE /\ flow' = Enter(IF job.mode = "brute" THEN "brute" ELSE "automate")
            /\ policy' = LoadPrivateHeaders(policy, job.explicit)
            /\ UNCHANGED outcome
  /\ UNCHANGED <<job, files, runs, canceled, bruteVars, automateVars>>

\* What a command refuses before its run begins.
Refused(c) ==
  CASE c = "brute" -> automateJob.client.initErr
    [] c = "automate" -> \/ automateJob.sources = <<>>
                         \/ Len(automateJob.sources) > automateJob.maxTargets
    [] c = "fuzz" -> \/ automateJob.client.initErr \/ "fuzz" \in job.refused
                     \/ "operations" \notin files
    [] OTHER -> FALSE
SourceOrigins == {automateJob.originOf[s] : s \in Range(automateJob.sources)}
BeginCommand(c, ok) ==
  /\ At(c, "begin")
  /\ IF Refused(c) \/ (job.database /\ (canceled \/ ~ok))
       THEN MayFail(ok, GiveUp(IF Refused(c) THEN {"fatal"} ELSE ContextError))
            /\ UNCHANGED <<runs, policy, automateVars>>
       ELSE /\ ok /\ flow' = Advance({})
            /\ IF job.database THEN BeginRun(c) ELSE UNCHANGED runs
            /\ IF c = "automate"
                 THEN LET loaded == LoadPrivateHeaders(policy, SourceOrigins)
                      IN  /\ policy' = loaded
                          /\ automateJob' = [automateJob EXCEPT !.authorized = loaded.origins]
                          /\ auto' = StartedAuto
                          /\ UNCHANGED <<circuit, written, wire>>
                 ELSE UNCHANGED <<policy, automateVars>>
  /\ UNCHANGED <<job, outcome, files, canceled, bruteVars>>

\* The scans, step by step.
BruteStep ==
  /\ At("brute", "work") /\ BruteNext
  /\ UNCHANGED <<flowVars, automateVars>>
AutomateStep ==
  /\ At("automate", "work") /\ AutomateNext
  /\ UNCHANGED <<flowVars, bruteVars>>
\* Whatever the brute scan returned is stored and written. Its report names
\* the sources automate will read.
BruteReturns ==
  /\ At("brute", "work") /\ BruteOver
  /\ flow' = Advance(BruteErrors)
  /\ automateJob' = [automateJob EXCEPT !.sources = Collected(FoundSpecs)]
  /\ scan' = [t \in Target |-> NoScan] /\ pool' = IdlePool
  /\ UNCHANGED <<job, outcome, files, policy, runs, canceled, bruteJob,
                 auto, circuit, written, wire>>
\* An automate scan that ends with an error stores and writes nothing.
AutomateReturns ==
  /\ At("automate", "work") /\ AutomateOver
  /\ flow' = IF auto.error = {} THEN Advance({}) ELSE GiveUp(auto.error)
  /\ auto' = AutoIdle /\ circuit' = NewTargetCircuit
  /\ UNCHANGED <<job, outcome, files, policy, runs, canceled, bruteVars,
                 automateJob, written, wire>>
\* fuzz.Run, whose steps are those of module FuzzRunner. incomplete: it ends
\* with the error of fuzzCompletionErrorForMode once its report is written.
FuzzReturns(error, incomplete) ==
  /\ At("fuzz", "work")
  /\ error \in {{}, ContextError} /\ (error # {} => ~incomplete)
  /\ flow' = IF error # {} THEN GiveUp(error)
             ELSE [Advance({}) EXCEPT !.incomplete = incomplete]
  /\ UNCHANGED <<job, outcome, files, policy, runs, canceled, bruteVars, automateVars>>
\* bruno.Generate writes the collection, if there is an operation to write.
GenerateCollection(ok) ==
  /\ At("collection", "work")
  /\ IF "operations" \notin files
       THEN ok /\ flow' = GiveUp({"fatal"}) /\ UNCHANGED files
       ELSE /\ MayFail(ok, IF ok THEN Advance({}) ELSE GiveUp({"fatal"}))
            /\ files' = IF ok THEN files \cup {"collection"} ELSE files
  /\ UNCHANGED <<job, outcome, policy, runs, canceled, bruteVars, automateVars>>

\* The errors of a failed transaction. Brute stores on a context of its own
\* and, like automate, goes on to write its files.
BruteArtifact(errors) ==
  errors \cup {IF "partial" \in errors THEN "artifact" ELSE "fatal"}
\* Mutant: automate goes on as if its results were stored.
AfterStoreErrorForgotten(c) ==
  IF c = "brute" THEN Advance(BruteArtifact(flow.errors))
  ELSE IF c = "automate" THEN Advance({})
  ELSE GiveUp(ContextError)
AfterStoreError(c) ==
  IF c = "brute" THEN Advance(BruteArtifact(flow.errors))
  ELSE IF c = "automate" THEN Advance(ContextError)
  ELSE GiveUp(ContextError)
StoreResults(c, step, ok) ==
  /\ At(c, step) /\ step \in {"observations", "findings"}
  /\ IF ~Stored(c) THEN ok /\ flow' = Advance(flow.errors) /\ UNCHANGED runs
     ELSE IF ~ok \/ (canceled /\ c # "brute")
       THEN MayFail(ok, AfterStoreError(c)) /\ UNCHANGED runs
     ELSE /\ flow' = Advance(flow.errors)
          /\ IF step = "observations" THEN AddObservations(c) ELSE AddFindings(c)
  /\ UNCHANGED <<job, outcome, files, policy, canceled, bruteVars, automateVars>>

\* Several formats are written one by one, the JSON file first: "json" is an
\* error after which that file exists. finalizeAutomateRun then returns an
\* error of its own kind only if nothing else went wrong.
AfterWrite(c, wrote) ==
  IF c = "brute" THEN IF wrote = "all" THEN flow.errors ELSE BruteArtifact(flow.errors)
  ELSE IF wrote # "all" THEN flow.errors \cup {"fatal"}
  ELSE IF c = "automate" /\ flow.errors = {} /\ written.failures # {} THEN {"partial"}
  ELSE IF c = "fuzz" /\ flow.incomplete THEN {"fatal"}
  ELSE flow.errors
WriteArtifacts(c, wrote) ==
  /\ At(c, "write")
  /\ wrote = "json" => c # "fuzz"
  /\ MayFail(wrote = "all", [Advance(AfterWrite(c, wrote)) EXCEPT !.incomplete = FALSE])
  /\ files' = IF wrote = "none" THEN files
              ELSE files \cup {c} \cup IF c = "automate" /\ written.results # {}
                                       THEN {"operations"} ELSE {}
  /\ UNCHANGED <<job, outcome, policy, runs, canceled, bruteVars, automateVars>>

-----------------------------------------------------------------------------
(* The end of a command and what follows it.                                 *)
\* A message with private material in it loses its cause with the material.
RedactPrivateError(c, errors) ==
  IF errors # {} /\ policy.loaded /\ c \in job.reflects THEN {"redacted"} ELSE errors
\* Mutant: a partial scan hides that its run could not be finished.
SuppressBrutePartialAndPersistence(errors) ==
  IF "partial" \in errors /\ "artifact" \notin errors /\ "brute" \in files
  THEN {} ELSE errors
SuppressBrutePartialFailure(errors) ==
  IF /\ "partial" \in errors /\ errors \cap {"persistence", "artifact"} = {}
     /\ "brute" \in files
  THEN {} ELSE errors
SuppressAutomatePartialFailure(errors) ==
  IF /\ "partial" \in errors /\ "persistence" \notin errors
     /\ Cardinality(written.failures) < Len(automateJob.sources)
     /\ "automate" \in files
  THEN {} ELSE errors
Continuation(c, errors) ==
  IF c = "brute" THEN SuppressBrutePartialFailure(errors)
  ELSE IF c = "automate" THEN SuppressAutomatePartialFailure(errors) ELSE errors
\* The assessment is skipped with an error after a failure of an active stage.
AssessmentSkipped == outcome["automate"] \cup outcome["fuzz"] # {}
StageAfter(c, errors) ==
  CASE c = "brute" -> IF errors = {} THEN "automate" ELSE "ended"
    [] c = "automate" -> IF errors = {} THEN "fuzz"
                         ELSE IF "automate" \in files THEN "collection" ELSE "ended"
    [] c = "fuzz" -> "collection"
    [] c = "collection" -> "report"
    [] c = "report" -> IF job.assessment /\ ~AssessmentSkipped THEN "assessment" ELSE "ended"

\* resultRun.finish and the return to executeFullWorkflow. finished: FinishRun
\* took effect; ok: and the database closed without an error.
FinishCommand(c, finished, ok) ==
  LET errors == RedactPrivateError(c, flow.errors)
      final  == Continuation(c, IF ok THEN errors ELSE errors \cup {"persistence"})
  IN  /\ At(c, "finish")
      /\ ok => finished
      /\ ~Stored(c) => ok
      /\ MayFail(ok, Enter(StageAfter(c, final)))
      /\ IF Stored(c) /\ finished THEN FinishRun(c, errors) ELSE UNCHANGED runs
      /\ outcome' = [outcome EXCEPT
           ![c] = final,
           !["assessment"] = IF c = "report" /\ job.assessment /\ AssessmentSkipped
                             THEN {"fatal"} ELSE @]
      /\ written' = IF c = "automate" THEN NothingWritten ELSE written
      /\ wire' = IF c = "automate" THEN QuietWire ELSE wire
      /\ UNCHANGED <<job, files, policy, canceled, bruteVars, automateJob, auto, circuit>>

\* executeFullWorkflowAssessment. The engine's Run is AssessmentExecution;
\* here it succeeds, is partial, fails, or fails before it has an ID.
EndAssessment(errors) ==
  /\ flow' = Enter("ended")
  /\ outcome' = [outcome EXCEPT !["assessment"] = errors]
AssessmentStep(ok) ==
  /\ flow.stage = "assessment" /\ flow.step \in {"plan", "store-plan", "store-run"}
  /\ IF ok /\ ~(flow.step = "plan" /\ canceled)
       THEN flow' = Advance(flow.errors) /\ UNCHANGED outcome
       ELSE /\ ok \/ flow.failures < job.maxFailures
            /\ EndAssessment(flow.errors \cup ContextError)
  /\ files' = IF ok /\ flow.step = "store-plan" THEN files \cup {"plan"}
              ELSE IF ok /\ flow.step = "store-run" THEN files \cup {"run"} ELSE files
  /\ UNCHANGED <<job, policy, runs, canceled, bruteVars, automateVars>>
RunAssessment(errors, id) ==
  /\ At("assessment", "run")
  /\ errors \in {{}, {"partial"}, ContextError} /\ (~id => errors = ContextError)
  /\ canceled => errors # {}
  /\ IF id THEN flow' = Advance(errors) /\ UNCHANGED outcome ELSE EndAssessment(errors)
  /\ UNCHANGED <<job, files, policy, runs, canceled, bruteVars, automateVars>>
AssessmentReports(ok) ==
  /\ At("assessment", "reports")
  /\ ok => ~canceled
  /\ canceled \/ ok \/ flow.failures < job.maxFailures
  /\ EndAssessment(IF ~ok THEN flow.errors \cup ContextError
                   ELSE IF flow.errors = {"partial"} THEN {} ELSE flow.errors)
  /\ files' = IF ok THEN files \cup {"assessment"} ELSE files
  /\ UNCHANGED <<job, policy, runs, canceled, bruteVars, automateVars>>

\* An interrupt may arrive at any time.
Cancel ==
  /\ job.cancelable /\ ~canceled /\ flow.stage # "ended"
  /\ canceled' = TRUE
  /\ UNCHANGED <<job, flow, outcome, files, policy, runs, bruteVars, automateVars>>

-----------------------------------------------------------------------------
Init ==
  \E j \in WorkflowJobs :
    /\ job = j.workflow
    /\ BruteInit(j.brute)
    /\ automateJob = j.automate
    /\ auto = AutoIdle /\ circuit = NewTargetCircuit
    /\ written = NothingWritten /\ wire = QuietWire
    /\ flow = [stage |-> "workflow", step |-> "begin", errors |-> {}, failures |-> 0,
               incomplete |-> FALSE]
    /\ outcome = [s \in Stage |-> {}]
    /\ files = {} /\ policy = NoPolicy /\ canceled = FALSE
    /\ runs = [c \in Command |-> NoRun]
Step ==
  \/ StartWorkflow \/ BruteStep \/ AutomateStep \/ BruteReturns \/ AutomateReturns
  \/ \E ok \in BOOLEAN :
       \/ \E c \in Command :
            \/ BeginCommand(c, ok)
            \/ \E step \in {"observations", "findings"} : StoreResults(c, step, ok)
            \/ \E finished \in BOOLEAN : FinishCommand(c, finished, ok)
       \/ \E error \in {{}, ContextError} : FuzzReturns(error, ok)
       \/ \E errors \in {{}, {"partial"}, ContextError} : RunAssessment(errors, ok)
       \/ GenerateCollection(ok) \/ AssessmentStep(ok) \/ AssessmentReports(ok)
  \/ \E c \in Command, wrote \in {"all", "json", "none"} : WriteArtifacts(c, wrote)
Terminated == flow.stage = "ended" /\ UNCHANGED vars
Next == Step \/ Cancel \/ Terminated
\* Every stage is a call that returns: requests and transactions have timeouts.
Spec == Init /\ [][Next]_vars /\ WF_vars(Step)

-----------------------------------------------------------------------------
(* Properties.                                                               *)
\* The states of the workflow and of the scans within it.
TypeOK ==
  /\ BruteTypeOK /\ AutomateTypeOK /\ StoreTypeOK
  /\ flow.stage \in Stage /\ flow.errors \subseteq Error
  /\ flow.failures \in 0..job.maxFailures
  /\ outcome \in [Stage -> SUBSET Error]
  /\ files \subseteq Artifact

Result == UNION {outcome[s] : s \in Stage}
\* A run of the database says what became of its command (resultRun.finish):
\* it is left running only if the workflow reports that closing it failed, and
\* it succeeded only if its results are stored and its files written.
RunsTellTheOutcome ==
  \A c \in Command :
    /\ runs[c].status = "running" /\ flow.stage # c => "persistence" \in outcome[c]
    /\ runs[c].status = "succeeded" =>
         runs[c].observations /\ c \in files /\ outcome[c] \subseteq {"persistence"}
\* A workflow that returns no error has left everything it promises on disk
\* and, with a database, in it: suppressed partial failures included.
SuccessIsComplete ==
  flow.stage = "ended" /\ Result = {} =>
    /\ {"automate", "operations", "fuzz", "collection", "report"} \subseteq files
    /\ job.mode = "brute" => "brute" \in files
    /\ job.assessment => {"plan", "run", "assessment"} \subseteq files
    /\ job.database => \A c \in Command \ {"brute"} :
         runs[c].observations /\ runs[c].status \in {"succeeded", "failed"}

PlannedOf(sources) == UNION {{s} \X DOMAIN PlansOf(s) : s \in sources}
\* Every specification of a batch that ended without an error was parsed, has
\* failed, or is counted in the coverage gap of its origin, and so is every
\* request planned: what a circuit kept from being sent is counted once.
CoverageGapsAreExact ==
  At("automate", "work") /\ AutomateOver /\ auto.error = {} =>
    \A o \in Origin :
      circuit.skipped[o] =
        Cardinality({s \in Range(automateJob.sources) \ (written.parsed \cup written.failures) :
                       automateJob.originOf[s] = o})
        + Cardinality({plan \in PlannedOf(written.parsed) \ written.results :
                         PlansOf(plan[1])[plan[2]].origin = o})
\* No request leaves for an origin that answered 429, advertised a remaining
\* rate of one or less, or failed three times in a row: not by a later
\* specification, a later plan, a guided retry or a replay.
NothingAfterOriginStops == wire.late = {}
\* Unsafe methods and dangerous paths are sent only at the operator's risk,
\* DELETE never, PATCH and excluded methods only when allowed.
UnsafeNeedsConsent ==
  \A request \in wire.unsafe :
    /\ automateJob.client.acceptRisk
    /\ request.method # "DELETE"
    /\ request.method = "PATCH" => automateJob.config.allowPatch
    /\ request.method \notin automateJob.config.excluded
\* Private headers reach only origins the operator named: neither an origin
\* brute discovered nor one a specification names as its server.
PrivateHeadersStayHome ==
  wire.private \subseteq job.explicit \cup automateJob.config.target

\* A scan that no limit stopped has fetched every URL its pages and
\* definitions named, or counted it as skipped; a variation may also be left
\* to the candidate list, and the scan never knows more URLs than it may.
DiscoveryIsAccounted ==
  \A t \in Target :
    LET s == scan[t] IN
    /\ Cardinality(s.known) <= Max({bruteJob.maxCandidates, Len(bruteJob.candidates[t])})
    /\ s.pc = "done" /\ s.limits = {} =>
         /\ \A u \in s.interesting \cup s.filtered :
              bruteJob.references[u] \subseteq s.tested \cup s.skipped
         /\ \A u \in s.found :
              bruteJob.variations[u] \subseteq
                s.tested \cup s.skipped \cup Range(bruteJob.candidates[t])
         /\ s.found = {} => Range(bruteJob.candidates[t]) \subseteq s.tested

\* The workflow always returns.
WorkflowReturns == <>(flow.stage = "ended")

=============================================================================
