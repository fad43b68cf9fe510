--------------------------- MODULE MCFullWorkflow ---------------------------
(* Instances of FullWorkflow for TLC: a few invocations that together take   *)
(* every branch of the workflow.                                             *)
EXTENDS FullWorkflow

CONSTANTS o1, o2, u1, u2, u3, u4, t1, t2, n1, w1, w2

NoServer == [kind |-> "none", origin |-> o1]
ServerAt(o) == [kind |-> "absolute", origin |-> o]
Op(method, dangerous, server, parameters) ==
  [method |-> method, dangerous |-> dangerous, server |-> server, parameters |-> parameters]
PathOf(operations) ==
  [valid |-> TRUE, templates |-> {}, server |-> NoServer, parameters |-> <<>>,
   operations |-> operations]
Doc(operations) ==
  [readable |-> TRUE, version |-> "openapi3", server |-> NoServer,
   paths |-> <<PathOf(operations)>>]
Unreadable == [Doc(<<>>) EXCEPT !.readable = FALSE]
Query(required) ==
  [name |-> n1, in |-> "query", required |-> required, style |-> "form", explode |-> FALSE,
   schema |-> TRUE, content |-> 0, examples |-> 0, serialized |-> "safe", reserved |-> FALSE]
\* A templated path, whose parameter the operation overrides or does not.
Templated(required) ==
  [Doc(<<>>) EXCEPT !.paths = <<[PathOf(<<Op("GET", FALSE, NoServer,
       <<[Query(TRUE) EXCEPT !.in = "path", !.style = "simple", !.required = required]>>)>>)
     EXCEPT !.templates = {n1},
            !.parameters = <<[Query(TRUE) EXCEPT !.in = "path", !.style = "simple"]>>]>>]
Get == Op("GET", FALSE, NoServer, <<Query(FALSE)>>)
GetAt(o) == Op("GET", FALSE, ServerAt(o), <<>>)

SafeClient == NewClient([proxy |-> FALSE, socks |-> FALSE, credentials |-> FALSE,
                         malformed |-> FALSE, privateHeaders |-> FALSE, replay |-> FALSE], FALSE)
SocksReplay == NewClient([proxy |-> FALSE, socks |-> TRUE, credentials |-> TRUE,
                          malformed |-> FALSE, privateHeaders |-> FALSE, replay |-> TRUE], TRUE)
ProxyClient == NewClient([proxy |-> TRUE, socks |-> FALSE, credentials |-> FALSE,
                          malformed |-> FALSE, privateHeaders |-> TRUE, replay |-> FALSE], FALSE)
BrokenClient == NewClient([proxy |-> TRUE, socks |-> TRUE, credentials |-> FALSE,
                           malformed |-> FALSE, privateHeaders |-> FALSE, replay |-> FALSE], FALSE)

Config == [target |-> {}, excluded |-> {"POST", "PATCH", "DELETE"}, allowPatch |-> FALSE,
           requiredOnly |-> FALSE]
NoBrute == [targets |-> <<>>, workers |-> 1, candidates |-> [t \in Target |-> <<>>],
            priority |-> 2, maxCandidates |-> 3, references |-> [u \in Url |-> {}],
            variations |-> [u \in Url |-> {}]]
UrlFile == [mode |-> "url-file", database |-> TRUE, assessment |-> FALSE, headerFile |-> FALSE,
            explicit |-> {o1, o2}, reflects |-> {}, refused |-> {}, maxFailures |-> 0,
            cancelable |-> FALSE]
Sources(documents, sources) ==
  [sources |-> Collected(sources), maxTargets |-> 3, batch |-> TRUE, client |-> SafeClient,
   retryOnHint |-> TRUE, config |-> Config, documents |-> documents,
   originOf |-> [s \in Source |-> IF s = u3 THEN o2 ELSE o1], authorized |-> {}]

\* Three specifications on two origins; the second plans requests on both.
ThreeSources ==
  Sources([s \in Source |-> IF s = u1 THEN Doc(<<Get, Get, GetAt(o2), Get>>)
                            ELSE IF s = u2 THEN Doc(<<Get, GetAt(o2)>>)
                            ELSE Templated(TRUE)], <<u1, u2, u3, u1>>)
\* Requests that need consent, through SOCKS with a replay proxy.
Risky ==
  [Sources([s \in Source |-> Doc(<<Op("POST", FALSE, NoServer, <<>>), Op("GET", TRUE, NoServer, <<>>),
                                  Op("PATCH", FALSE, NoServer, <<>>)>>)], <<u1>>)
     EXCEPT !.config.excluded = {"DELETE"}, !.client = SocksReplay]
Unconsented == [Risky EXCEPT !.client = SafeClient]
\* One specification among unreadable ones, and a source that plans nothing.
Mixed ==
  Sources([s \in Source |-> IF s = u1 THEN Doc(<<Get>>)
                            ELSE IF s = u2 THEN Templated(FALSE) ELSE Unreadable], <<u1, u2, u3>>)
One == Sources([s \in Source |-> Doc(<<Get>>)], <<u1>>)

TwoTargets ==
  [targets |-> <<t1, t2>>, workers |-> 2,
   candidates |-> [t \in Target |-> IF t = t1 THEN <<u1, u2>> ELSE <<u1>>],
   priority |-> 1, maxCandidates |-> 2,
   references |-> [u \in Url |-> IF u = u1 THEN {u2, u3} ELSE {}],
   variations |-> [u \in Url |-> IF u = u2 THEN {u1, u3} ELSE {}]]
LostTarget == [TwoTargets EXCEPT !.candidates[t1] = <<>>, !.candidates[t2] = <<u1, u2>>,
                               !.maxCandidates = 3]
\* One target with enough candidates for every limit to stop the scan early.
OneTarget ==
  [TwoTargets EXCEPT !.targets = <<t1>>, !.candidates[t1] = <<u1, u2, u3, u4>>,
                     !.priority = 3, !.maxCandidates = 4,
                     !.references = [u \in Url |-> IF u = u1 THEN {u4} ELSE {}],
                     !.variations = [u \in Url |-> {}]]
Brute == [UrlFile EXCEPT !.mode = "brute"]
Found == [One EXCEPT !.sources = <<>>]

Invocation(workflow, brute, automate) ==
  [workflow |-> workflow, brute |-> brute, automate |-> automate]
MCWorkflowJobs ==
  { Invocation(UrlFile, NoBrute, ThreeSources),
    Invocation([UrlFile EXCEPT !.explicit = {o1}, !.headerFile = TRUE], NoBrute,
               [Mixed EXCEPT !.client = ProxyClient]),
    Invocation(UrlFile, NoBrute, Risky),
    Invocation(UrlFile, NoBrute, Unconsented),
    Invocation([UrlFile EXCEPT !.maxFailures = 2, !.assessment = TRUE], NoBrute, One),
    Invocation([UrlFile EXCEPT !.cancelable = TRUE, !.assessment = TRUE], NoBrute, One),
    Invocation([UrlFile EXCEPT !.database = FALSE], NoBrute, Mixed),
    Invocation([UrlFile EXCEPT !.mode = "brute-run", !.refused = {"fuzz"}], NoBrute,
               [Mixed EXCEPT !.batch = FALSE]),
    Invocation([UrlFile EXCEPT !.refused = {"workflow"}], NoBrute, One),
    Invocation(Brute, TwoTargets, Found),
    Invocation([Brute EXCEPT !.cancelable = TRUE, !.maxFailures = 1, !.headerFile = TRUE,
                             !.explicit = {o2}, !.reflects = {"automate"}], LostTarget, Found),
    Invocation(Brute, OneTarget, Found),
    Invocation([Brute EXCEPT !.headerFile = TRUE, !.explicit = {o2}, !.reflects = {"brute"}],
               LostTarget, [Found EXCEPT !.config.target = {o1}]),
    Invocation(Brute, TwoTargets, [Found EXCEPT !.client = BrokenClient]) }

=============================================================================
