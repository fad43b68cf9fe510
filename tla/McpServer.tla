----------------------------- MODULE McpServer -----------------------------
(***************************************************************************)
(* The MCP server (pkg/mcpserver): tool calls that run concurrently under  *)
(* a limited number of slots, and what the operator's policy lets each of  *)
(* them read, send, store and answer. The assessment tools compose the     *)
(* planning of AssessmentPlan and the verdicts of BolaProof; the execution *)
(* of a plan is one step here and AssessmentExecution in detail. Requests  *)
(* of scan and automate come from RequestPlans.                            *)
(***************************************************************************)
EXTENDS AssessmentPlan, BolaProof

CONSTANTS
  Call,        \* tool calls of one server
  Earlier,     \* the assessment the database may hold from before
  Jobs,        \* [server, calls, files, earlier]: what the checks start from
  MaxWrites    \* how often another process writes to a file

Scan == INSTANCE RequestPlans WITH canceled <- FALSE

VARIABLES
  server,       \* the operator's options, and the API behind its hosts
  call,         \* per call its request, where it is and what it holds
  slots,        \* the calls that hold an execution slot
  files,        \* the contents of the local files
  writes,       \* how often they were written
  snapshots,    \* the calls whose input snapshot directory exists
  assessments,  \* the assessments in the database, by ID
  sent,         \* every request that left: the call, its kind and its URL
  verdicts      \* the evaluated proofs
vars == <<server, call, slots, files, writes, snapshots, assessments, sent, verdicts>>
world == <<files, writes, snapshots, assessments, verdicts>>

Id == Call \cup {Earlier}
\* A document given inline, by URL or by path; fits: an inline one is small
\* enough; kind none stands for no source or more than one.
Source == [kind : {"url", "document", "file", "none"}, url : Authority,
           document : Scan!Document, fits : BOOLEAN]
\* An answer: the assessment it names, how many results it shows of how many.
Answer(error, id, shown, total, truncated) ==
  [error |-> error, id |-> id, shown |-> shown, total |-> total, truncated |-> truncated]
Failure == Answer(TRUE, {}, 0, 0, FALSE)
Complete(results) == Answer(FALSE, {}, results, results, FALSE)
\* What a call has so far. plans, failed, planned: of the active scans; the
\* manifest and the copies of its inputs: of the assessment tools.
Work(request) ==
  [request |-> request, answer |-> Failure, pc |-> "received", index |-> 1, plans |-> <<>>,
   planned |-> {}, failed |-> {}, manifest |-> {}, copies |-> <<>>, proofs |-> {}, id |-> {},
   error |-> FALSE]
NoAssessment == [status |-> "none", intact |-> FALSE, leased |-> FALSE, origins |-> {},
                 proofs |-> {}, done |-> {}, fileSecrets |-> FALSE, window |-> {}]

-----------------------------------------------------------------------------
(* The operator's policy.                                                    *)

\* New refuses options that contradict each other, and a database outside the
\* assessment roots if there are any.
New(options) ==
  /\ options.destructive => options.active
  /\ options.slots > 0 /\ options.maxResults > 0
  /\ options.roots # {} => options.database # "outside"

\* checkURL: a rule names a host or a host with its port, as the URL spells it.
CheckURL(authority) ==
  \E rule \in server.hosts : rule.origin = authority.origin /\ (rule.port => authority.port)
CheckAssessmentPath(file) == file \in server.roots
\* checkAssessmentDatabasePath, with ErrDatabaseRequired.
RequirePersistedAssessmentDatabase == server.database = "inside" /\ server.roots # {}
NewClientFails == Scan!InitErr(server.settings)

\* checkAssessmentExecutionPolicy, and the same checks in scan and automate.
ActiveAllowed(request) ==
  /\ server.active
  /\ request.acceptRisk => server.destructive
MethodsAllowed(request) == (request.allowPost \/ request.allowPatch) => request.acceptRisk

ValidateSource(source) ==
  /\ source.kind # "none"
  /\ source.kind = "document" => source.fits
  /\ source.kind = "url" => CheckURL(source.url)
  /\ source.kind = "file" => server.localFiles

\* automateSources and validateAutomateRequest.
ValidateAutomateRequest(request) ==
  /\ ActiveAllowed(request) /\ MethodsAllowed(request) /\ request.valid
  /\ Len(request.sources) \in 1..server.maxTargets
  /\ \A target \in request.target : CheckURL(Spelled(target))
  /\ \A i \in DOMAIN request.sources : ValidateSource(request.sources[i])

\* A workflow starts from targets, or with skipBrute from specification URLs
\* (sources) or from the finds of stored runs. A run is not held against the
\* hosts: it is only an ID.
ValidateFullWorkflowSources(request) ==
  /\ Len(request.targets) + Len(request.sources) + Cardinality(request.runs) <= server.maxTargets
  /\ \/ /\ ~request.skipBrute
        /\ request.targets # <<>> /\ request.sources = <<>> /\ request.runs = {}
        /\ \A i \in DOMAIN request.targets : CheckURL(request.targets[i])
     \/ /\ request.skipBrute
        /\ request.sources = <<>> <=> request.runs # {}
        /\ \A i \in DOMAIN request.sources : CheckURL(request.sources[i].url)

\* validateFullWorkflowInput: request.output says whether the artifact
\* directory is new and within the roots.
ValidateFullWorkflowInput(request) ==
  /\ ActiveAllowed(request) /\ MethodsAllowed(request) /\ request.valid
  /\ RequirePersistedAssessmentDatabase
  /\ request.output
  /\ request.skipAssessment \/ server.key
  /\ ValidateFullWorkflowSources(request)

\* What a handler checks before it asks for a slot. valid: sizes, formats and
\* identifiers of the input are in range. maxTargets stands for MaxCandidates
\* and MaxAutomateTargets.
Admitted(request) ==
  CASE request.tool \in {"audit", "plan", "convert", "analyze", "assess_plan"} -> TRUE
    [] request.tool = "scan" ->
         /\ ActiveAllowed(request) /\ request.valid
         /\ request.allowPatch => request.acceptRisk
    [] request.tool = "automate" -> ValidateAutomateRequest(request)
    [] request.tool = "discover" ->
         server.active /\ request.valid /\ Len(request.targets) = 1 /\ CheckURL(request.targets[1])
    [] request.tool = "brute" ->
         /\ server.active /\ request.valid
         /\ Len(request.targets) \in 1..server.maxTargets
         /\ \A i \in DOMAIN request.targets : CheckURL(request.targets[i])
    [] request.tool = "run_full_workflow" -> ValidateFullWorkflowInput(request)
    [] request.tool = "assess_run" -> ActiveAllowed(request)
    [] request.tool = "assess_resume" -> ActiveAllowed(request) /\ request.valid
    [] request.tool \in {"assess_status", "assess_report"} -> request.valid

-----------------------------------------------------------------------------
(* Steps every call has.                                                     *)

At(c, pc) == call[c].pc = pc
Tool(c) == call[c].request.tool
\* Mutant: a handler that fails keeps its slot.
ReleasedOnSuccess(c, answer) == IF answer.error THEN slots ELSE slots \ {c}
Released(c, answer) == slots \ {c}
Respond(c, answer) ==
  /\ call' = [call EXCEPT ![c].pc = "answered", ![c].answer = answer]
  /\ slots' = Released(c, answer)
Goto(c, work) == call' = [call EXCEPT ![c] = work] /\ UNCHANGED slots
\* ensureOutputSize: a small limit may be too small for a result, a tiny one
\* is too small for any.
Fits == [ample |-> {TRUE}, small |-> BOOLEAN, tiny |-> {FALSE}][server.output]
Outgoing(c, kind, urls, unsafe) ==
  {[call |-> c, kind |-> kind, url |-> url, unsafe |-> unsafe] : url \in urls}
Sends(c, kind, urls, unsafe) == sent' = sent \cup Outgoing(c, kind, urls, unsafe)
Quiet == sent' = sent

Receive(c) ==
  /\ At(c, "received")
  /\ IF Admitted(call[c].request) THEN Goto(c, [call[c] EXCEPT !.pc = "waiting"])
     ELSE Respond(c, Failure)
  /\ Quiet /\ UNCHANGED world

\* Mutant: one call too many.
SlotFreeTooOften == Cardinality(slots) <= server.slots
SlotFree == Cardinality(slots) < server.slots
Acquire(c) ==
  /\ At(c, "waiting") /\ SlotFree
  /\ slots' = slots \cup {c}
  /\ call' = [call EXCEPT ![c].pc = "working"]
  /\ Quiet /\ UNCHANGED world
\* The client cancels a call that waits, or one between two requests of a scan.
CancelCall(c) ==
  /\ server.cancelable
  /\ call[c].pc \in {"waiting", "working", "preparing", "sending"}
  /\ At(c, "working") => Tool(c) \in {"audit", "plan", "convert", "scan", "analyze"}
  /\ Respond(c, Failure)
  /\ Quiet /\ UNCHANGED world

-----------------------------------------------------------------------------
(* Tools on one document: audit, plan, convert and scan; and automate.       *)

\* loadSource fetches the document of a URL, without any safety gate.
Fetched(source) == IF source.kind = "url" /\ ValidateSource(source) /\ ~NewClientFails
                   THEN {source.url} ELSE {}
\* loaded: the fetch or the read succeeded.
ParseFails(source, loaded) ==
  \/ ~ValidateSource(source) \/ (source.kind # "document" /\ (NewClientFails \/ ~loaded))
  \/ ~source.document.readable

\* mcpAutomateExcludedMethods and workflowExcludedMethods; scan and plan
\* exclude nothing themselves.
Excluded(request) ==
  IF request.tool \notin {"automate", "run_full_workflow"} THEN {}
  ELSE {"DELETE"} \cup (IF request.allowPost THEN {} ELSE {"POST"})
       \cup (IF request.allowPatch THEN {} ELSE {"PATCH"})
PlanConfig(request) ==
  [target |-> request.target, excluded |-> Excluded(request), requiredOnly |-> FALSE,
   allowPatch |-> request.allowPatch]
\* A document without a URL of its own cannot have a relative target.
PlanningFails(request, source) ==
  \/ Scan!GenerateFails(source.document, PlanConfig(request))
  \/ /\ source.kind # "url" /\ request.target = {}
     /\ source.document.server.kind \in {"none", "relative"}
PlansFrom(request, source) ==
  Scan!BuildRequestPlans(source.document, PlanConfig(request),
    IF source.kind = "url" THEN source.url.origin ELSE source.document.server.origin)
\* validateAutomatePlanTargets and its like in scan.
TargetsAllowed(plans) == \A i \in DOMAIN plans : CheckURL(Spelled(plans[i].origin))

DocumentResult(c, loaded, fits) ==
  LET request == call[c].request
      source  == request.source
      plans   == PlansFrom(request, source)
  IN  IF \/ ParseFails(source, loaded) \/ ~fits
         \/ Tool(c) = "convert" /\ source.document.version = "other"
         \/ Tool(c) = "plan" /\ (PlanningFails(request, source)
                                 \/ Len(plans) > server.maxResults)
         \/ Tool(c) = "audit" /\ request.findings > server.maxResults
      THEN Failure
      ELSE Complete(IF Tool(c) = "plan" THEN Len(plans) ELSE 1)
ReadDocument(c) ==
  /\ At(c, "working") /\ Tool(c) \in {"audit", "plan", "convert"}
  /\ \E loaded \in BOOLEAN, fits \in Fits : Respond(c, DocumentResult(c, loaded, fits))
  /\ Sends(c, "fetch", Fetched(call[c].request.source), FALSE)
  /\ UNCHANGED world

\* scan refuses everything before it sends anything.
ScanRefused(request, loaded, fits) ==
  LET source == request.source
      plans  == PlansFrom(request, source)
  IN  \/ ParseFails(source, loaded) \/ PlanningFails(request, source)
      \/ Len(plans) > server.maxResults \/ ~TargetsAllowed(plans)
      \/ ~fits \/ NewClientFails
StartScan(c) ==
  LET request == call[c].request
  IN  /\ At(c, "working") /\ Tool(c) = "scan"
      /\ \E loaded \in BOOLEAN, fits \in Fits :
           IF ScanRefused(request, loaded, fits) THEN Respond(c, Failure)
           ELSE Goto(c, [call[c] EXCEPT !.pc = "sending",
                                        !.plans = PlansFrom(request, request.source)])
      /\ Sends(c, "fetch", Fetched(request.source), FALSE)
      /\ UNCHANGED world

\* automate prepares its sources one after the other. A source that fails is
\* reported; the others go on, unless they plan more than the limit together.
SourceFails(request, source, loaded) ==
  \/ ParseFails(source, loaded) \/ PlanningFails(request, source)
  \/ ~TargetsAllowed(PlansFrom(request, source))
UniquePlans(plans, seen) ==
  FoldLeft(LAMBDA unique, plan :
             IF plan \in seen \cup Range(unique) THEN unique ELSE Append(unique, plan),
           <<>>, plans)
PrepareSource(c) ==
  LET request == call[c].request
      source  == request.sources[call[c].index]
      plans   == UniquePlans(PlansFrom(request, source), call[c].planned)
      next    == [call[c] EXCEPT !.pc = "preparing", !.index = @ + 1]
      counted == [next EXCEPT !.planned = @ \cup Range(plans)]
  IN  /\ Tool(c) = "automate" /\ call[c].pc \in {"working", "preparing"}
      /\ call[c].index <= Len(request.sources)
      /\ \E loaded \in BOOLEAN :
           IF SourceFails(request, source, loaded)
           THEN Goto(c, [next EXCEPT !.failed = @ \cup {call[c].index}])
           ELSE IF Cardinality(counted.planned) > server.maxResults THEN Respond(c, Failure)
           ELSE IF plans # <<>> /\ NewClientFails
           THEN Goto(c, [counted EXCEPT !.failed = @ \cup {call[c].index}])
           ELSE Goto(c, [counted EXCEPT !.plans = @ \o plans])
      /\ Sends(c, "fetch", Fetched(source), FALSE)
      /\ UNCHANGED world
\* preflightAutomateOutput, before the first request.
StartAutomate(c) ==
  /\ At(c, "preparing") /\ call[c].index > Len(call[c].request.sources)
  /\ \E fits \in Fits : IF fits THEN Goto(c, [call[c] EXCEPT !.pc = "sending", !.index = 1])
                        ELSE Respond(c, Failure)
  /\ Quiet /\ UNCHANGED world

\* ExecuteRequestPlansContextE: the client's safety gate, and a circuit that
\* may leave out what follows on an origin (AutomateScan).
SendPlan(c) ==
  LET plan   == call[c].plans[call[c].index]
      client == Scan!NewClient(server.settings, call[c].request.acceptRisk)
  IN  /\ At(c, "sending") /\ call[c].index <= Len(call[c].plans)
      /\ Goto(c, [call[c] EXCEPT !.index = @ + 1])
      /\ \/ /\ Scan!Sendable(client, plan, TRUE)
            /\ Sends(c, "operation", {Spelled(plan.origin)},
                     plan.dangerous \/ Scan!IsUnsafeMethod(plan.method))
         \/ Quiet
      /\ UNCHANGED world
FinishScan(c) ==
  /\ At(c, "sending") /\ call[c].index > Len(call[c].plans)
  /\ \E fits \in Fits :
       Respond(c, IF fits THEN Complete(Len(call[c].plans)) ELSE Failure)
  /\ Quiet /\ UNCHANGED world

-----------------------------------------------------------------------------
(* Discovery, the full workflow and the analysis of stored results.          *)

\* truncateBruteReports: reports are kept up to the limit, in order; a report
\* that does not fit whole is cut and marks the answer.
TruncateBruteReports(reports, limit) ==
  FoldLeft(LAMBDA kept, report :
             [shown |-> Min({kept.shown + report, limit}),
              truncated |-> kept.truncated \/ report > limit - kept.shown],
           [shown |-> 0, truncated |-> FALSE], reports)
BruteAnswer(reports) ==
  LET kept == TruncateBruteReports(reports, server.maxResults)
  IN  Answer(FALSE, {}, kept.shown, SumFunction(reports), kept.truncated)
\* Probes go to the target's own origin (BruteScan); request.found bounds what
\* a target may hold. discover checks max_candidates here: it may fail.
Probe(c) ==
  LET request == call[c].request
      reports == [DOMAIN request.targets -> 0..request.found]
  IN  /\ At(c, "working") /\ Tool(c) \in {"discover", "brute"}
      /\ \E fits \in Fits, failed \in BOOLEAN, found \in reports :
           Respond(c, IF NewClientFails \/ failed \/ ~fits THEN Failure
                      ELSE BruteAnswer(found))
      /\ Sends(c, "probe", IF NewClientFails THEN {} ELSE Range(request.targets), FALSE)
      /\ UNCHANGED world

\* Where a workflow looks for documents: under its targets, at the URLs it was
\* given, or at those its stored runs hold, whatever hosts these are.
StartingPoints(request) ==
  IF ~request.skipBrute THEN Range(request.targets)
  ELSE IF request.runs # {}
  THEN UNION {server.discovered[run] : run \in request.runs \cap DOMAIN server.discovered}
  ELSE {source.url : source \in Range(request.sources)}
\* What automate plans from the documents it read and the client's gate lets
\* out. Unlike the tools scan and automate, the workflow does not hold the
\* servers of a document against the hosts.
WorkflowPlans(request, read) ==
  LET client == Scan!NewClient(server.settings, request.acceptRisk)
      plans  == UNION {Range(PlansFrom(request, document)) :
                         document \in {d \in read : ~PlanningFails(request, d)}}
  IN  {plan \in plans : Scan!Sendable(client, plan, TRUE)}
Operations(c, plans) ==
  UNION {Outgoing(c, "operation", {Spelled(plan.origin)},
                  plan.dangerous \/ Scan!IsUnsafeMethod(plan.method)) : plan \in plans}
\* The scans of the native runner (FullWorkflow in detail): some documents are
\* read and some operations sent; fuzz repeats those that succeeded. done: no
\* stage up to fuzz failed, which an assessment needs, and fuzz needs operations
\* of some document; reported: the collection and the report did not fail.
RunFullWorkflow(c) ==
  LET request == call[c].request
      points  == IF NewClientFails THEN {} ELSE StartingPoints(request)
  IN  /\ At(c, "working") /\ Tool(c) = "run_full_workflow"
      /\ \E reached \in SUBSET points :
         \E read \in SUBSET {d \in server.documents : d.url \in reached} :
         \E performed \in SUBSET WorkflowPlans(request, read), done, reported \in BOOLEAN :
           /\ done => \E document \in read : ~PlanningFails(request, document)
           /\ sent' = sent \cup Operations(c, performed)
                 \cup Outgoing(c, "fetch", {d.url : d \in read}, FALSE)
                 \cup Outgoing(c, "probe", IF request.skipBrute THEN {} ELSE reached, FALSE)
           /\ Goto(c, [call[c] EXCEPT
                !.pc = IF done /\ ~request.skipAssessment THEN "assessing" ELSE "concluding",
                !.error = ~(done /\ reported)])
      /\ UNCHANGED world
\* The automatic assessment is kept in a database of its own, in the artifact
\* directory. Its manifest names no identities or objects: there are no proofs
\* to send. One that fails may have begun, and a plan partly stored has an ID.
AssessFullWorkflow(c) ==
  /\ At(c, "assessing")
  /\ \/ Goto(c, [call[c] EXCEPT !.pc = "concluding", !.error = TRUE])
     \/ \E failed \in BOOLEAN :
          Goto(c, [call[c] EXCEPT !.pc = "concluding", !.id = {c}, !.error = @ \/ failed])
  /\ Quiet /\ UNCHANGED world
\* The ID is read from the run file, and missing if that was not written or
\* cannot be read. An answer that is too large is dropped whole.
FinishFullWorkflow(c) ==
  /\ At(c, "concluding")
  /\ \E named \in SUBSET call[c].id, fits \in Fits :
       Respond(c, IF fits THEN Answer(call[c].error, named, 0, 0, FALSE) ELSE Failure)
  /\ Quiet /\ UNCHANGED world

\* analyzeAPIResults: files first, then runs of the database, with what the
\* files left of the limit; runs without any record are an error.
Records(datasets) == FoldSet(LAMBDA dataset, n : n + Len(dataset[2]), 0, datasets)
AnalysisFails(request) ==
  LET inFiles == Records({<<f, files[f].dataset>> : f \in request.paths})
      inRuns  == Records({<<run, server.stored[run]>> : run \in request.runs})
  IN  \/ ~request.valid \/ request.paths \cup request.runs = {}
      \/ Cardinality(request.paths) > server.maxResults
      \/ Cardinality(request.runs) > server.maxResults
      \/ \E f \in request.paths : ~CheckAssessmentPath(f) \/ files[f].kind # "results"
      \/ inFiles > server.maxResults
      \/ request.runs # {} /\ \/ server.database = "none" \/ inRuns = 0
                              \/ inRuns > server.maxResults - inFiles
AnalyzeAPIResults(c) ==
  /\ At(c, "working") /\ Tool(c) = "analyze"
  /\ \E fits \in Fits :
       Respond(c, IF AnalysisFails(call[c].request) \/ ~fits THEN Failure ELSE Complete(1))
  /\ Quiet /\ UNCHANGED world

-----------------------------------------------------------------------------
(* Assessments. A manifest and its inputs are copied into a directory of     *)
(* their own before they are planned: other processes write to the files.    *)

\* assessmentRuntime.
RuntimeUnavailable == ~server.key \/ NewClientFails

\* equivalentProxyURLs fills in the default port of a scheme.
ConfiguredAssessmentProxy ==
  IF server.settings.socks THEN "socks" ELSE IF server.settings.proxy THEN "proxy" ELSE "none"
CanonicalProxyURL(proxy) == IF proxy = "socks-without-port" THEN "socks" ELSE proxy
ValidateAssessmentTransportPolicy(proxy, insecure) ==
  /\ CanonicalProxyURL(proxy) = ConfiguredAssessmentProxy
  /\ insecure => server.insecure

LocalFiles(m) == {input.path : input \in {i \in Range(m.inputs) : "path" \in i.sources}}
FileSecrets(m) ==
  "file" \in UNION ({m.evidence.key} \cup {identity.secrets : identity \in Range(m.identities)})
ValidateAssessmentManifestPolicy(m) ==
  /\ \A authority \in OriginSet(m) : CheckURL(authority)
  /\ \A input \in Range(m.inputs) :
       /\ \A url \in input.baseURL : CheckURL(url.authority)
       /\ "url" \in input.sources => CheckURL(input.url.authority)
       /\ "path" \in input.sources => CheckAssessmentPath(input.path)
  /\ ~FileSecrets(m)
  /\ ValidateAssessmentTransportPolicy(m.transport.proxy, m.transport.insecure)

\* Files that are regular and small enough; a file that changes while it is
\* read is refused, so a read sees one content.
Readable == {f \in DOMAIN files : files[f].kind # "missing"}
SnapshotRefused(path) ==
  \/ ~CheckAssessmentPath(path)
  \/ files[path].kind # "manifest"
  \/ LET m == files[path].manifest
     IN  \/ \E f \in LocalFiles(m) : ~CheckAssessmentPath(f)
         \/ ~Parse(m, Readable)
         \/ ~ValidateAssessmentManifestPolicy(m)
ReadManifest(c) ==
  LET path == call[c].request.manifest
      next == [call[c] EXCEPT !.pc = "copying", !.manifest = {files[path].manifest}]
  IN  /\ At(c, "working") /\ Tool(c) \in {"assess_plan", "assess_run"}
      /\ \E made \in BOOLEAN :
           IF \/ RuntimeUnavailable
              \/ Tool(c) = "assess_run" /\ ~RequirePersistedAssessmentDatabase
              \/ SnapshotRefused(path) \/ ~made
           THEN Respond(c, Failure) /\ UNCHANGED snapshots
           ELSE Goto(c, next) /\ snapshots' = snapshots \cup {c}
      /\ Quiet /\ UNCHANGED <<files, writes, assessments, verdicts>>

\* One input file at a time, and at last the manifest with the paths of the
\* copies. A failure removes the directory again.
ToCopy(c) == LocalFiles(The(call[c].manifest)) \ DOMAIN call[c].copies
GiveUp(c) == Goto(c, [call[c] EXCEPT !.pc = "cleaning", !.error = TRUE])
CopyInput(c) ==
  /\ At(c, "copying")
  /\ \E f \in ToCopy(c), wrote \in BOOLEAN :
       IF f \in Readable /\ wrote
       THEN Goto(c, [call[c] EXCEPT !.copies = [g \in DOMAIN @ \cup {f} |->
                                      IF g = f THEN files[f] ELSE @[g]]])
       ELSE GiveUp(c)
  /\ Quiet /\ UNCHANGED world
WriteManifest(c) ==
  /\ At(c, "copying") /\ ToCopy(c) = {}
  /\ \/ Goto(c, [call[c] EXCEPT !.pc = "ready"])
     \/ GiveUp(c)
  /\ Quiet /\ UNCHANGED world

\* Mutant: the runtime is given the path of the call, not of the snapshot.
OriginalManifest(c) == files[call[c].request.manifest].manifest
SnapshotManifest(c) == The(call[c].manifest)
PreparedPlan(c) ==
  Prepare(SnapshotManifest(c), call[c].copies, server.stored, server.database # "none", FALSE)
\* Refused, or the snapshot cannot be read again.
Plan(c) ==
  LET plan == PreparedPlan(c)
  IN  /\ At(c, "ready") /\ Tool(c) = "assess_plan"
      /\ \/ GiveUp(c)
         \/ /\ plan.result = "planned"
            /\ Goto(c, [call[c] EXCEPT !.pc = "cleaning", !.proofs = plan.proofs])
      /\ Quiet /\ UNCHANGED world

WithinTimeWindow(window) == server.now >= window.start /\ server.now < window.end
Persisted(m, proofs) ==
  [status |-> "running", intact |-> TRUE, leased |-> TRUE, origins |-> OriginSet(m),
   proofs |-> proofs, done |-> {}, fileSecrets |-> FileSecrets(m), window |-> {m.window}]
\* persistPreparedPlan writes in many transactions. One that fails leaves part
\* of the plan, marked failed, or still running when the context is done.
Run(c) ==
  LET plan == PreparedPlan(c)
      m    == SnapshotManifest(c)
      full == Persisted(m, plan.proofs)
      next == [call[c] EXCEPT !.proofs = plan.proofs, !.id = {c}]
  IN  /\ At(c, "ready") /\ Tool(c) = "assess_run"
      /\ \/ /\ GiveUp(c)      \* refused, outside its window, or nothing begun
            /\ UNCHANGED assessments
         \/ /\ plan.result = "planned" /\ WithinTimeWindow(m.window)
            /\ Storable(plan.proofs)
            /\ assessments' = [assessments EXCEPT ![c] = full]
            /\ Goto(c, [next EXCEPT !.pc = "executing"])
         \/ /\ plan.result = "planned" /\ WithinTimeWindow(m.window)
            /\ \E status \in {"failed", "running"} :
                 assessments' = [assessments EXCEPT ![c] =
                   [full EXCEPT !.status = status, !.intact = FALSE, !.leased = FALSE]]
            /\ Goto(c, [next EXCEPT !.pc = "cleaning", !.error = TRUE])
      /\ Quiet /\ UNCHANGED <<files, writes, snapshots, verdicts>>

-----------------------------------------------------------------------------
(* The API behind the hosts: how it answers a request of a proof.            *)

OwnerOf(proof, identifier) ==
  IF identifier = proof.victim.identifier THEN {proof.victim.owner}
  ELSE IF identifier = proof.attacker.identifier THEN {proof.attacker.owner} ELSE {}
Reply(status, body, fields) ==
  [status |-> status, body |-> body, envelope |-> FALSE, fields |-> fields, markers |-> {}]
Denial(status) == Reply(status, "empty", <<>>)
\* An object: its identifier and what only its owner should see.
Object(identifier) == Reply(200, "json", [id |-> identifier, data |-> <<identifier>>])
Behaviour == {"enforcing", "hiding", "broken", "traced", "flaky", "own", "list", "echo"}
Respondent(behaviour, proof, case) ==
  LET owner == OwnerOf(proof, case.identifier)
      own   == IF case.identity = proof.victim.owner THEN proof.victim ELSE proof.attacker
  IN  CASE behaviour = "enforcing" ->
             IF case.identity \in owner THEN Object(case.identifier) ELSE Denial(403)
        [] behaviour = "hiding" ->
             IF case.identity \in owner THEN Object(case.identifier)
             ELSE [Reply(200, "json", [id |-> case.identifier, data |-> <<>>])
                     EXCEPT !.envelope = TRUE]
        [] behaviour = "broken" -> IF owner # {} THEN Object(case.identifier) ELSE Denial(404)
        [] behaviour = "traced" ->
             IF owner = {} THEN Denial(404)
             ELSE Reply(200, "json", [id |-> case.identifier, data |-> <<case.identifier>>,
                                      trace |-> case.repeat])
        [] behaviour = "flaky" ->
             IF owner # {} /\ (case.kind = "cross" => case.repeat = 1)
             THEN Object(case.identifier) ELSE Denial(503)
        [] behaviour = "own" ->
             IF case.identity = Anonymous THEN Denial(401) ELSE Object(own.identifier)
        [] behaviour = "list" ->
             Reply(200, "json", [id |-> proof.victim.identifier,
                                 peer |-> proof.attacker.identifier, data |-> <<>>])
        [] behaviour = "echo" -> Reply(200, "json", [id |-> case.identifier, data |-> <<>>])

\* The responses of one kind of case, in the order of its repeats.
Responses(proof, kind) ==
  [repeat \in MatrixRepeats |->
     Respondent(server.behaviour, proof,
       CHOOSE case \in proof.cases : case.kind = kind /\ case.repeat = repeat)]
Evaluated(proof) ==
  Evaluate([victim |-> proof.victim.identifier, attacker |-> proof.attacker.identifier,
            expectedDeny |-> proof.expectedDeny, victimOwn |-> Responses(proof, "victim-own"),
            attackerOwn |-> Responses(proof, "attacker-own"),
            cross |-> Responses(proof, "cross"), negative |-> Responses(proof, "nonexistent")])

-----------------------------------------------------------------------------
\* execute: some proofs are sent, and those that got all their answers are
\* evaluated; the assessment then succeeded, failed or was canceled.
UrlsOf(proofs) == UNION {{case.url : case \in proof.cases} : proof \in proofs}
Execute(c) ==
  LET id   == The(call[c].id)
      left == assessments[id].proofs \ assessments[id].done
  IN  /\ At(c, "executing")
      /\ \E attempted \in SUBSET left : \E done \in SUBSET attempted :
           /\ Sends(c, "assessment", UrlsOf(attempted), FALSE)
           /\ verdicts' = verdicts \cup {[proof |-> proof, status |-> Evaluated(proof)] :
                                           proof \in done}
           /\ \E status \in IF done = left THEN {"succeeded"} ELSE {"failed", "canceled"} :
                assessments' = [assessments EXCEPT ![id].status = status, ![id].leased = FALSE,
                                                   ![id].done = @ \cup done]
           /\ Goto(c, [call[c] EXCEPT !.pc = "cleaning", !.error = done # left])
      /\ UNCHANGED <<files, writes, snapshots>>

\* Mutant: an error is answered without the ID.
RunResponseWithoutID(id, error, fits) ==
  IF error \/ ~fits THEN Failure ELSE [Complete(1) EXCEPT !.id = id]
\* assessmentRunResponse: the ID is kept as long as the answer has room for it.
AssessmentRunResponse(id, error, fits) ==
  [Answer(error \/ ~fits, id, IF fits THEN 1 ELSE 0, 1, FALSE) EXCEPT
     !.id = IF fits \/ server.output # "tiny" THEN id ELSE {}]

\* The end of a call that may have a snapshot directory to remove.
Clean(c) ==
  /\ At(c, "cleaning")
  /\ \E removed \in IF c \in snapshots THEN BOOLEAN ELSE {TRUE}, fits \in Fits :
       LET error == call[c].error \/ ~removed
       IN  /\ snapshots' = IF removed THEN snapshots \ {c} ELSE snapshots
           /\ Respond(c, IF Tool(c) # "assess_plan"
                         THEN AssessmentRunResponse(call[c].id, error, fits)
                         ELSE IF error \/ ~fits THEN Failure ELSE Complete(1))
  /\ Quiet /\ UNCHANGED <<files, writes, assessments, verdicts>>

\* preflightPersistedAssessment: an assessment of another policy is not read
\* and, with its transport and secrets, not resumed.
PreflightFails(request) ==
  LET stored == assessments[request.id]
  IN  \/ ~RequirePersistedAssessmentDatabase
      \/ stored.status = "none"
      \/ \E authority \in stored.origins \cup UrlsOf(stored.proofs)
                          \cup UNION {proof.origins : proof \in stored.proofs} :
           ~CheckURL(authority)
      \/ /\ request.tool = "assess_resume"
         /\ \/ stored.fileSecrets
            \/ \E proof \in stored.proofs :
                 ~ValidateAssessmentTransportPolicy(proof.proxy, proof.insecure)
Preflight(c) ==
  LET request == call[c].request
  IN  /\ At(c, "working") /\ Tool(c) \in {"assess_resume", "assess_status", "assess_report"}
      /\ IF RuntimeUnavailable \/ PreflightFails(request) THEN Respond(c, Failure)
         ELSE Goto(c, [call[c] EXCEPT !.pc = "preflighted", !.id = {request.id}])
      /\ Quiet /\ UNCHANGED world

\* Resume reads the assessment again. One that ended is returned as it is; a
\* leased one is another call's.
Resume(c) ==
  LET id     == call[c].request.id
      stored == assessments[id]
  IN  /\ At(c, "preflighted") /\ Tool(c) = "assess_resume"
      /\ IF ~stored.intact \/ ~WithinTimeWindow(The(stored.window))
            \/ (stored.status \in {"running", "canceled"} /\ stored.leased)
         THEN GiveUp(c) /\ UNCHANGED assessments
         ELSE IF stored.status \notin {"running", "canceled"}
         THEN Goto(c, [call[c] EXCEPT !.pc = "cleaning"]) /\ UNCHANGED assessments
         ELSE /\ assessments' = [assessments EXCEPT ![id].status = "running", ![id].leased = TRUE]
              /\ Goto(c, [call[c] EXCEPT !.pc = "executing"])
      /\ Quiet /\ UNCHANGED <<files, writes, snapshots, verdicts>>
\* Status and Report verify what they read; only a report needs it sealed.
ReadAssessment(c) ==
  LET stored == assessments[call[c].request.id]
  IN  /\ At(c, "preflighted") /\ Tool(c) \in {"assess_status", "assess_report"}
      /\ \E fits \in Fits :
           Respond(c, IF \/ ~stored.intact \/ ~fits
                         \/ Tool(c) = "assess_report" /\ stored.status = "running"
                      THEN Failure ELSE Complete(1))
      /\ Quiet /\ UNCHANGED world

-----------------------------------------------------------------------------
\* Another process replaces or removes a file.
WriteFile(f) ==
  /\ writes < MaxWrites
  /\ \E draft \in server.drafts[f] :
       draft # files[f] /\ files' = [files EXCEPT ![f] = draft]
  /\ writes' = writes + 1
  /\ UNCHANGED <<server, call, slots, snapshots, assessments, sent, verdicts>>

\* What a server, its clients, its files and an earlier assessment may be: what
\* decoding gives, and what a run has stored.
IsRequest(request) ==
  /\ request.source \in Source /\ request.sources \in Seq(Source)
  /\ request.targets \in Seq(Authority) /\ request.target \subseteq Origin
  /\ request.allowPatch \in BOOLEAN /\ request.acceptRisk \in BOOLEAN
  /\ request.skipBrute \in BOOLEAN /\ request.skipAssessment \in BOOLEAN
  /\ request.found \in Nat /\ request.id \in Id
IsAssessment(stored) ==
  /\ stored = [status |-> stored.status, intact |-> stored.intact, leased |-> stored.leased,
               origins |-> stored.origins, proofs |-> stored.proofs, done |-> stored.done,
               fileSecrets |-> stored.fileSecrets, window |-> stored.window]
  /\ stored.status \in {"none", "running", "succeeded", "failed", "canceled"}
  /\ \A proof \in stored.proofs : IsMatrix(proof)
ASSUME JobsAssumption ==
  /\ Earlier \notin Call /\ MaxWrites \in Nat
  /\ \A job \in Jobs :
       /\ job.server.slots \in Nat /\ job.server.maxResults \in Nat
       /\ job.server.roots \subseteq File
       /\ job.server.output \in {"ample", "small", "tiny"}
       /\ job.server.behaviour \in Behaviour
       /\ job.server.documents \subseteq {source \in Source : source.kind = "url"}
       /\ \A run \in DOMAIN job.server.stored : IsList(job.server.stored[run])
       /\ DOMAIN job.files = File
       /\ \A f \in File : \A content \in {job.files[f]} \cup job.server.drafts[f] :
            IsContent(content)
       /\ \A c \in Call : IsRequest(job.calls[c])
       /\ IsAssessment(job.earlier)
\* How the API answers: which of its fields name objects, and which change.
ASSUME FieldsAssumption ==
  /\ {"id", "peer"} \subseteq IdentifierPointer /\ "data" \notin IdentifierPointer
  /\ VolatilePointer \cap {"id", "peer", "data"} = {} /\ "trace" \in VolatilePointer

Init ==
  \E job \in Jobs :
    /\ New(job.server) /\ server = job.server
    /\ call = [c \in Call |-> Work(job.calls[c])]
    /\ slots = {} /\ writes = 0 /\ snapshots = {} /\ sent = {} /\ verdicts = {}
    /\ files = job.files
    /\ assessments = [id \in Id |-> IF id = Earlier THEN job.earlier ELSE NoAssessment]
Handle(c) ==
  /\ \/ Receive(c) \/ Acquire(c)
     \/ ReadDocument(c) \/ StartScan(c) \/ PrepareSource(c) \/ StartAutomate(c)
     \/ SendPlan(c) \/ FinishScan(c) \/ Probe(c) \/ AnalyzeAPIResults(c)
     \/ RunFullWorkflow(c) \/ AssessFullWorkflow(c) \/ FinishFullWorkflow(c)
     \/ ReadManifest(c) \/ CopyInput(c) \/ WriteManifest(c) \/ Plan(c) \/ Run(c)
     \/ Execute(c) \/ Clean(c) \/ Preflight(c) \/ Resume(c) \/ ReadAssessment(c)
  /\ UNCHANGED server
\* The server waits for calls, or blocked ones wait for a slot.
Idle ==
  /\ \A c \in Call : At(c, "answered") \/ (At(c, "waiting") /\ ~SlotFree)
  /\ UNCHANGED vars
Next ==
  \/ \E c \in Call : Handle(c) \/ (CancelCall(c) /\ UNCHANGED server)
  \/ \E f \in File : WriteFile(f)
  \/ Idle
\* A handler runs on: its requests and transactions have timeouts.
Spec == Init /\ [][Next]_vars /\ \A c \in Call : WF_vars(Handle(c))

-----------------------------------------------------------------------------
(* Properties.                                                               *)
Answered(c) == At(c, "answered")
Working(c) == call[c].pc \notin {"received", "waiting", "answered"}

\* The states of the server: the calls at work are those that hold a slot, and
\* no more than the operator allows (acquire).
TypeOK ==
  /\ slots = {c \in Call : Working(c)}
  /\ Cardinality(slots) <= server.slots
  /\ snapshots \subseteq Call /\ writes \in 0..MaxWrites
  /\ \A c \in Call :
       /\ call[c].answer.error \in BOOLEAN /\ call[c].id \subseteq Id
       /\ call[c].failed \subseteq Nat /\ DOMAIN call[c].copies \subseteq File
  /\ \A id \in Id :
       assessments[id].status \in {"none", "running", "succeeded", "failed", "canceled"}
  /\ {request.call : request \in sent} \subseteq Call

\* The exception to the operator's hosts: run_full_workflow sends operations
\* to whatever servers the documents name, and fetches the documents of stored
\* runs from wherever these were found. No check is made in the code.
OutsideHosts(request) ==
  /\ Tool(request.call) = "run_full_workflow"
  /\ \/ request.kind = "operation"
     \/ request.kind = "fetch" /\ call[request.call].request.runs # {}
\* Whatever a client asks for, and whoever writes to the files meanwhile, a
\* request of every tool but run_full_workflow leaves only for a host of the
\* operator's, and so do the probes of that workflow and its fetches from
\* targets and given URLs. An operation or a proof is sent only by a server
\* with active tools, and a state-changing or dangerous request, that of a
\* workflow included, only at the risk both sides accepted.
EverySendIsAllowed ==
  \A request \in sent :
    /\ request.url.origin \in {rule.origin : rule \in server.hosts} \/ OutsideHosts(request)
    /\ request.kind # "fetch" => server.active
    /\ request.unsafe => server.destructive /\ call[request.call].request.acceptRisk

\* A plan that is accepted costs, counted without any integer width, no more
\* than the manifest grants: in all, as each identity, and to each origin.
Granted(limits, name, global) == LimitOr(limits, name, global).maxRequests
PlanFitsBudgets ==
  \A c \in Call :
    call[c].proofs # {} =>
      LET m      == SnapshotManifest(c)
          proofs == call[c].proofs
          global == m.budgets.global
      IN  /\ Requests(proofs) <= global.maxRequests
          /\ Bytes(proofs) <= global.maxRequests * (global.requestBytes + global.responseBytes)
          /\ \A identity \in IdentitySet(m) :
               RequestsAs(proofs, identity) <= Granted(m.budgets.perIdentity, identity, global)
          /\ \A authority \in OriginSet(m) :
               RequestsTo(proofs, authority.origin)
                 <= Granted(m.budgets.perOrigin, authority, global)

\* The response of an API holds what only the owner of the object should see.
Leaks(response, object) ==
  Success(response) /\ "data" \in DOMAIN response.fields
  /\ response.fields["data"] = <<object.identifier>>
\* A confirmed proof is one where the attacker, whom the manifest denies the
\* object, was served it every time; a disproved denial is one where it never
\* was. An API that only echoes identifiers is excepted: the runtime gives the
\* comparison no request markers to recognise it by (compare.go:102).
VerdictsAreRight ==
  \A verdict \in verdicts :
    LET proof == verdict.proof
        cross == Range(Responses(proof, "cross"))
    IN  server.behaviour # "echo" =>
          /\ verdict.status = "confirmed" =>
               proof.expectedDeny /\ \A response \in cross : Leaks(response, proof.victim)
          /\ verdict.status = "disproved" /\ proof.expectedDeny =>
               \A response \in cross : ~Leaks(response, proof.victim)

\* What a call did is in its answer: a snapshot directory it could not remove
\* is an error, an assessment begun in the server's database is named unless
\* the output limit leaves no room for the ID, an assessment reported without
\* an error is complete, and results are left out only if the answer says so.
\* Of the assessment run_full_workflow begins in a database of its own less
\* holds: its ID is dropped with an answer that is too large, or unread from
\* its file. A workflow without an error has begun the assessment it was asked
\* for, and one that names an assessment has begun that one.
EffectsAreReported ==
  \A c \in Call :
    Answered(c) =>
      LET answer == call[c].answer
      IN  /\ c \in snapshots => answer.error
          /\ assessments[c].status # "none" /\ server.output # "tiny" => answer.id = {c}
          /\ Tool(c) = "assess_run" /\ ~answer.error => assessments[c].status = "succeeded"
          /\ Tool(c) = "run_full_workflow" =>
               /\ answer.id \subseteq call[c].id
               /\ ~answer.error /\ ~call[c].request.skipAssessment => call[c].id = {c}
          /\ answer.shown <= server.maxResults
          /\ ~answer.error => (answer.truncated <=> answer.shown < answer.total)

\* Every call is answered, however few the slots.
CallsAreAnswered == \A c \in Call : <>Answered(c)

=============================================================================
