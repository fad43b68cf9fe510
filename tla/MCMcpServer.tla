---------------------------- MODULE MCMcpServer ----------------------------
(* Instances of McpServer for TLC: pairs of tool calls that together take    *)
(* every branch of the handlers. o1 is the operator's host, o2 another one.  *)
EXTENDS McpServer

CONSTANTS o1, o2, alice, bob, carol, t1, i1, i2, i3, n1, n2, draft, api, results, run1, c1, c2

MCMentions == [n \in Name |-> IF n = n1 THEN {t1} ELSE {}]

-----------------------------------------------------------------------------
(* API definitions as scan and automate read them.                           *)
NoServer == [kind |-> "none", origin |-> o1]
ServerAt(o) == [kind |-> "absolute", origin |-> o]
Op(method, dangerous, at) ==
  [method |-> method, dangerous |-> dangerous, server |-> at, parameters |-> <<>>]
Doc(operations) ==
  [readable |-> TRUE, version |-> "openapi3", server |-> ServerAt(o1),
   paths |-> <<[valid |-> TRUE, templates |-> {}, server |-> NoServer, parameters |-> <<>>,
                operations |-> operations]>>]
Get == Op("GET", FALSE, NoServer)
Gets == Doc(<<Get, Op("GET", TRUE, NoServer)>>)
Posts == Doc(<<Op("POST", FALSE, NoServer), Op("PATCH", FALSE, NoServer), Get>>)
Elsewhere == Doc(<<Get, Op("GET", FALSE, ServerAt(o2))>>)
Unreadable == [Doc(<<>>) EXCEPT !.readable = FALSE]
Rootless == [Gets EXCEPT !.server = NoServer]
Given(kind, document) ==
  [kind |-> kind, url |-> Spelled(o1), document |-> document, fits |-> TRUE]

(* API definitions and results as assessments import them.                   *)
Item(path, names, method) ==
  [path |-> path, valid |-> TRUE, names |-> names, servers |-> {}, parameters |-> {},
   operations |-> <<[method |-> method, operationId |-> path, servers |-> {},
                     parameters |-> {}, body |-> {}]>>]
Api(items) ==
  [kind |-> "openapi",
   document |-> [bounded |-> TRUE, version |-> "3", paths |-> items, webhooks |-> <<>>,
                 servers |-> <<{[origin |-> o1, base |-> 0]}>>]]
OneRead == Api(<<Item(1, {n1}, "GET"), Item(2, {n2}, "GET"), Item(3, {n1}, "POST")>>)
NoReads == Api(<<Item(1, {n2}, "GET")>>)
TooMany == Api([i \in 1..(MaxOperations + 1) |-> Item(i, {n1}, "GET")])
ReadElsewhere == [OneRead EXCEPT !.document.servers = <<{[origin |-> o2, base |-> 0]}, {}>>]
Seen(query) ==
  LET url == {[origin |-> o1, path |-> 1, query |-> query]}
  IN  [method |-> "GET", url |-> url, baseline |-> {}]
Results == [kind |-> "results", dataset |-> <<Seen({n1}), Seen({n1})>>]
Missing == [kind |-> "missing"]

-----------------------------------------------------------------------------
(* Manifests.                                                                *)
Limit(n) == [maxRequests |-> n, requestBytes |-> 1, responseBytes |-> 1, rate |-> 1]
User(name) == [name |-> name, tenant |-> 1, described |-> TRUE, secrets |-> {"env"}]
Owned(identifier, owner, other) ==
  [name |-> identifier, type |-> t1, identifier |-> identifier, owner |-> owner, tenant |-> 1,
   described |-> TRUE, stable |-> TRUE, disposable |-> FALSE, rollback |-> {},
   expected |-> (owner :> "allow") @@ (other :> "deny")]
Input(kind, file) ==
  [name |-> file, kind |-> kind, sources |-> {"path"}, absolute |-> TRUE, path |-> file,
   run |-> run1, modules |-> {}, operations |-> {}, baseURL |-> {},
   url |-> [plain |-> TRUE, authority |-> Spelled(o1), base |-> 0]]
FromRun == [Input("sj-results", results) EXCEPT !.sources = {"runId"}]
Exact(authority) == [exact |-> TRUE, authority |-> authority]
WithPort(origin) == [origin |-> origin, port |-> TRUE]
Manifest ==
  [decodes |-> TRUE, origins |-> <<Exact(Spelled(o1))>>, inputs |-> <<Input("openapi", api)>>,
   window |-> [start |-> 1, end |-> 2],
   transport |-> [proxy |-> "none", proxyRequired |-> FALSE, insecure |-> FALSE,
                  justified |-> TRUE, redirects |-> 0, sameOrigin |-> TRUE],
   identities |-> <<User(alice), User(bob)>>,
   objects |-> <<Owned(i1, alice, bob), Owned(i2, bob, alice)>>,
   modules |-> <<[name |-> Bola, enabled |-> TRUE, class |-> "S1"]>>,
   budgets |-> [global |-> Limit(40), perOrigin |-> <<>>, perModule |-> <<>>,
                perIdentity |-> <<>>],
   evidence |-> [artifactBytes |-> 1, retention |-> 1, key |-> {}, storeBodies |-> FALSE],
   workflows |-> <<>>]
\* What another process may put in its place: a host the operator did not
\* name, or a longer chain of redirects.
Foreign == [Manifest EXCEPT !.origins = <<Exact(Spelled(o1)), Exact(Spelled(o2))>>]
Redirected == [Foreign EXCEPT !.inputs[1].baseURL =
                 {[plain |-> TRUE, authority |-> Spelled(o2), base |-> 1]}]
\* Six proofs of 10 cases of 5 requests wrap around at MaxUint64 = 255, while
\* the 100 requests of the proofs of one attacker are within the limit.
Overflowing ==
  [Manifest EXCEPT !.transport.redirects = 4, !.budgets.global = Limit(127),
                   !.identities = <<User(alice), User(bob), User(carol)>>,
                   !.objects = Append(@, Owned(i3, carol, alice))]
Costly == [Manifest EXCEPT !.transport.redirects = 1, !.budgets.global = Limit(60)]
TightOrigin == [Manifest EXCEPT !.budgets.perOrigin = (Spelled(o1) :> Limit(10))]
TightIdentity == [Manifest EXCEPT !.budgets.perIdentity = (alice :> Limit(7))]
Fitting == [Manifest EXCEPT !.budgets.perIdentity = (alice :> Limit(8)),
                            !.budgets.perOrigin = (Spelled(o1) :> Limit(20)),
                            !.budgets.global = Limit(20)]
TwoSpellings == [Manifest EXCEPT !.origins = <<Exact(Spelled(o1)), Exact(WithPort(o1))>>]
Ported == [Manifest EXCEPT !.origins = <<Exact(WithPort(o1))>>]
FromResults == [Manifest EXCEPT !.inputs = <<Input("openapi", api), Input("sj-results", results),
                                            FromRun>>]
WithWorkflow(class) ==
  [Manifest EXCEPT !.workflows =
     <<[name |-> 1, class |-> class, fixture |-> i1,
        steps |-> <<[name |-> 1, identity |-> alice, method |-> "GET", purpose |-> "readback"]>>]>>]
SecretFile == [Manifest EXCEPT !.identities[1].secrets = {"file"}]
Socks(proxy) == [Manifest EXCEPT !.transport.proxy = proxy]
Permitted == [Manifest EXCEPT !.objects[1].expected = [i \in {alice, bob} |-> "allow"]]
At3(m) == [m EXCEPT !.window = [start |-> 3, end |-> 4]]
File1(m) == [kind |-> "manifest", manifest |-> m]

-----------------------------------------------------------------------------
Host(o) == [origin |-> o, port |-> FALSE]
Options ==
  [active |-> TRUE, destructive |-> FALSE, localFiles |-> TRUE, roots |-> File,
   hosts |-> {Host(o1)}, slots |-> 2, maxResults |-> 3, maxTargets |-> 3, key |-> TRUE,
   database |-> "inside", insecure |-> FALSE, output |-> "ample", cancelable |-> FALSE,
   settings |-> [proxy |-> FALSE, socks |-> FALSE, credentials |-> FALSE, malformed |-> FALSE,
                 privateHeaders |-> FALSE, replay |-> FALSE],
   behaviour |-> "broken", now |-> 1, stored |-> (run1 :> <<Seen({n1}), Seen({n2})>>),
   drafts |-> [f \in File |-> {}], documents |-> {}, discovered |-> (run1 :> {})]
OneSlot == [Options EXCEPT !.slots = 1]
Destructive == [Options EXCEPT !.destructive = TRUE, !.maxResults = 4]
Drafts == [Options EXCEPT !.drafts =
             (draft :> {File1(Redirected), File1(Costly)})
             @@ (api :> {ReadElsewhere, Missing}) @@ (results :> {})]

Ask(tool) ==
  [tool |-> tool, source |-> Given("url", Gets), sources |-> <<>>, target |-> {},
   targets |-> <<Spelled(o1)>>, acceptRisk |-> FALSE, allowPost |-> FALSE, allowPatch |-> FALSE,
   valid |-> TRUE, output |-> TRUE, skipAssessment |-> FALSE, skipBrute |-> FALSE, findings |-> 0, found |-> 0,
   paths |-> {}, runs |-> {}, manifest |-> draft, id |-> Earlier]
Of(tool, source) == [Ask(tool) EXCEPT !.source = source]
Risky(request) ==
  [request EXCEPT !.acceptRisk = TRUE, !.allowPost = TRUE, !.allowPatch = TRUE]
AtOther(document) == [Given("url", document) EXCEPT !.url = Spelled(o2)]
Workflow(targets) == [Ask("run_full_workflow") EXCEPT !.targets = targets]
FromURLs(sources) == [Workflow(<<>>) EXCEPT !.skipBrute = TRUE, !.sources = sources]
FromRuns(runs) ==
  [Workflow(<<>>) EXCEPT !.skipBrute = TRUE, !.runs = runs, !.skipAssessment = TRUE]
Automate(sources) == [Ask("automate") EXCEPT !.sources = sources]
About(tool, id) == [Ask(tool) EXCEPT !.id = id]
AssessRun == Ask("assess_run")
AssessPlan == Ask("assess_plan")

Ended(status, origin) ==
  [status |-> status, intact |-> TRUE, leased |-> FALSE, origins |-> {Spelled(origin)},
   proofs |-> PrepareLoaded(Manifest, (api :> OneRead), <<>>, FALSE, FALSE).proofs,
   done |-> {}, fileSecrets |-> FALSE, window |-> {Manifest.window}]
Job(options, first, second, manifest, contents) ==
  [server |-> options, calls |-> (c1 :> first) @@ (c2 :> second),
   files |-> (draft :> File1(manifest)) @@ (api :> contents) @@ (results :> Results),
   earlier |-> NoAssessment]
Passive(options, first, second) == Job(options, first, second, Manifest, OneRead)
Resumed(options, first, second, earlier) ==
  [Passive(options, first, second) EXCEPT !.earlier = earlier]

DocumentJobs ==
  { Passive(OneSlot, Of("audit", Given("url", Gets)), Of("convert", Given("document", Gets))),
    Passive([OneSlot EXCEPT !.localFiles = FALSE], Of("plan", Given("file", Gets)),
            Of("plan", Given("url", Rootless))),
    Passive([OneSlot EXCEPT !.output = "small"], Of("audit", Given("document", Unreadable)),
            [Of("audit", Given("file", Gets)) EXCEPT !.findings = 4]),
    Passive([OneSlot EXCEPT !.hosts = {Host(o2)}], Of("plan", Given("url", Gets)),
            Of("scan", [Given("url", Gets) EXCEPT !.url = Spelled(o2)])),
    Passive(Options, Of("scan", Given("document", Gets)), Of("scan", Given("file", Rootless))),
    Passive(Destructive, Risky(Of("scan", Given("document", Posts))),
            [Of("scan", Given("document", Posts)) EXCEPT !.allowPost = TRUE]),
    Passive([Destructive EXCEPT !.output = "small", !.cancelable = TRUE],
            Risky(Automate(<<Given("document", Posts)>>)), Of("scan", Given("document", Elsewhere))),
    Passive(Options, Automate(<<Given("url", Gets), Given("document", Gets),
                               Given("file", Unreadable)>>),
            Automate(<<Given("document", Elsewhere), Given("none", Gets)>>)),
    Passive([OneSlot EXCEPT !.maxResults = 1],
            Automate(<<Given("document", Gets)>>),
            [Automate(<<Given("document", Rootless)>>) EXCEPT !.target = {o1}]),
    Passive([Options EXCEPT !.settings.malformed = TRUE, !.settings.proxy = TRUE],
            Automate(<<Given("url", Gets)>>), Ask("discover")),
    Passive([Options EXCEPT !.active = FALSE], Of("scan", Given("document", Gets)), AssessRun) }

ResultJobs ==
  { Passive([Options EXCEPT !.output = "small"],
            [Ask("brute") EXCEPT !.targets = <<Spelled(o1), Spelled(o1)>>, !.found = 3],
            [Ask("discover") EXCEPT !.found = 4]),
    Passive([Options EXCEPT !.documents = {Given("url", Elsewhere), Given("url", Unreadable)}],
            Ask("run_full_workflow"), Workflow(<<Spelled(o2)>>)),
    Passive([OneSlot EXCEPT !.destructive = TRUE, !.output = "small",
                            !.documents = {Given("url", Posts), AtOther(Gets)},
                            !.discovered = (run1 :> {Spelled(o2)})],
            Risky(FromURLs(<<Given("url", Posts)>>)), FromRuns({run1})),
    Passive([OneSlot EXCEPT !.documents = {Given("url", Posts), AtOther(Gets)}],
            FromURLs(<<AtOther(Gets)>>), FromURLs(<<Given("url", Posts)>>)),
    Passive(Options, [Ask("analyze") EXCEPT !.paths = {results}, !.runs = {run1}],
            [Ask("analyze") EXCEPT !.runs = {run1}]) }

PlanJobs ==
  { Job(Options, AssessPlan, AssessRun, m, OneRead) :
      m \in {TightOrigin, TightIdentity, Fitting, TwoSpellings, FromResults, SecretFile,
             WithWorkflow("S2"), WithWorkflow("S3"), At3(Manifest)} }
  \cup { Job(Options, AssessPlan, AssessPlan, Overflowing, OneRead),
         Job(Options, AssessPlan, AssessPlan, Manifest, TooMany),
         Job([Options EXCEPT !.output = "small"], AssessPlan, AssessPlan, Manifest, NoReads),
         Job([Options EXCEPT !.settings.socks = TRUE], AssessPlan, AssessRun, Socks("socks"),
             OneRead),
         Job([Options EXCEPT !.settings.socks = TRUE], AssessPlan, AssessRun,
             Socks("socks-without-port"), OneRead),
         Job([Options EXCEPT !.key = FALSE], AssessPlan, AssessRun, Manifest, OneRead),
         Job([Options EXCEPT !.database = "none"], AssessPlan, AssessRun, Manifest, OneRead),
         Job([Options EXCEPT !.hosts = {[origin |-> o1, port |-> TRUE]}], AssessRun,
             About("assess_status", c1), Ported, OneRead) }

RunJobs ==
  { Job([OneSlot EXCEPT !.behaviour = b], AssessRun, About("assess_report", c1), m, OneRead) :
      b \in Behaviour, m \in {Manifest, Permitted} }
  \cup { Job(Drafts, AssessRun, AssessPlan, Manifest, OneRead),
         Job(Options, AssessRun, About("assess_resume", c1), Manifest, OneRead),
         Job([Options EXCEPT !.output = "small"], AssessRun, AssessRun, Manifest, OneRead),
         Job([Options EXCEPT !.output = "tiny"], AssessRun, About("assess_status", c1), Manifest,
             OneRead) }
ResumeJobs ==
  { Resumed(Options, About("assess_resume", Earlier), second, Ended(status, o1)) :
      status \in {"running", "canceled"},
      second \in {About(tool, Earlier) : tool \in {"assess_resume", "assess_report"}} }
  \cup { Resumed(Options, About("assess_resume", Earlier), About("assess_status", Earlier), earlier) :
           earlier \in {Ended("failed", o1), Ended("running", o2),
                        [Ended("running", o1) EXCEPT !.fileSecrets = TRUE],
                        [Ended("running", o1) EXCEPT !.window = {[start |-> 3, end |-> 4]}],
                        [Ended("running", o1) EXCEPT !.intact = FALSE]} }
  \cup { Resumed([Options EXCEPT !.settings.proxy = TRUE], About("assess_resume", Earlier),
                 About("assess_status", Earlier), Ended("canceled", o1)) }
MCJobs == DocumentJobs \cup ResultJobs \cup PlanJobs \cup RunJobs \cup ResumeJobs

=============================================================================
