---------------------------- MODULE AutomateScan ----------------------------
(***************************************************************************)
(* The automate command (internal/cli/automate.go, pkg/scanner): the       *)
(* specifications of a batch are fetched one after the other, the requests *)
(* planned from each are sent with guided retries and replays, and one     *)
(* circuit per origin, shared by all of them, decides what is still sent.  *)
(***************************************************************************)
EXTENDS RequestPlans

CONSTANT Source      \* the specification URLs

MaxHintRetries == 3
MaximumConsecutiveOriginTransportErrors == 3

\* batch: the sources come from --url-file; a failing one is then recorded,
\* otherwise it ends the command. authorized: the origins private headers
\* are bound to. maxTargets: more sources than this are refused.
AutomateJob ==
  [sources : Seq(Source), maxTargets : Nat, batch : BOOLEAN, client : Client, retryOnHint : BOOLEAN,
   config : PlanConfig, documents : [Source -> Document],
   originOf : [Source -> Origin], authorized : SUBSET Origin]

VARIABLES
  automateJob,
  auto,       \* where the loops are, the response at hand, the error they end with
  circuit,    \* TargetCircuit
  written,    \* the output writer: results, source failures; parsed sources
  wire        \* what was sent and answered, for the properties
automateVars == <<automateJob, auto, circuit, written, wire>>

-----------------------------------------------------------------------------
NewTargetCircuit ==
  [blocked |-> [o \in Origin |-> "no"], faults |-> [o \in Origin |-> 0],
   skipped |-> [o \in Origin |-> 0]]
Allow(c, origin) == c.blocked[origin] = "no"
\* Mutant: the count of an origin is set, not increased.
SkipOnce(c, origin) == [c EXCEPT !.skipped[origin] = 1]
Skip(c, origin) == [c EXCEPT !.skipped[origin] = @ + 1]
\* A local refusal (status 1) and a failure nobody can attribute change nothing.
Observe(c, origin, response) ==
  IF response.status = 429 \/ response.low
    THEN [c EXCEPT !.blocked[origin] = "rate-limited"]
  ELSE IF response.status = 0 /\ response.originFault
    THEN [c EXCEPT !.faults[origin] = @ + 1,
                   !.blocked[origin] =
                      IF c.faults[origin] + 1 >= MaximumConsecutiveOriginTransportErrors
                      THEN "transport-unavailable" ELSE @]
  ELSE IF response.status >= 100 /\ response.sent
    THEN [c EXCEPT !.faults[origin] = 0]
  ELSE c

\* automateURLCollector: the first of equal URLs counts.
Collected(sources) ==
  LET collected[k \in 0..Len(sources)] ==
        IF k = 0 THEN <<>>
        ELSE IF sources[k] \in Range(collected[k - 1])
             THEN collected[k - 1] ELSE Append(collected[k - 1], sources[k])
  IN  collected[Len(sources)]

AutoIdle ==
  [pc |-> "idle", source |-> 0, plan |-> 0, attempt |-> 0, replayed |-> FALSE,
   response |-> NotSent(0), error |-> {}]
NothingWritten == [results |-> {}, failures |-> {}, parsed |-> {}]
\* limited: origins whose answer asked to stop; streak: proven faults of an
\* origin in a row; late: origins sent to after either; private: origins that
\* received private headers; unsafe: risky requests that were sent.
QuietWire ==
  [limited |-> {}, streak |-> [o \in Origin |-> 0], late |-> {}, private |-> {},
   unsafe |-> {}]

CurrentSource == automateJob.sources[auto.source]
SourceOrigin == automateJob.originOf[CurrentSource]
PlansOf(s) ==
  BuildRequestPlans(automateJob.documents[s], automateJob.config, automateJob.originOf[s])
CurrentPlan == PlansOf(CurrentSource)[auto.plan]
FetchRequest(origin) == [origin |-> origin, method |-> "GET", dangerous |-> FALSE]

\* The wire sees a request. Private headers are injected at the last moment,
\* for authorized origins only (privateheaders Apply).
PrivateHeaders(job, origin) == IF origin \in job.authorized THEN {origin} ELSE {}
Departed(w, request) ==
  LET o == request.origin
  IN  [w EXCEPT
        !.late = IF o \in w.limited \/ w.streak[o] >= 3 THEN @ \cup {o} ELSE @,
        !.private = @ \cup PrivateHeaders(automateJob, o),
        !.unsafe = IF IsUnsafeMethod(request.method) \/ request.dangerous
                   THEN @ \cup {request} ELSE @]
Arrived(w, o, response) ==
  [w EXCEPT
    !.limited = IF response.status = 429 \/ response.low THEN @ \cup {o} ELSE @,
    !.streak[o] = IF response.status >= 100 THEN 0
                  ELSE IF response.originFault /\ response.status = 0 THEN Min({3, @ + 1})
                  ELSE @]
OnWire(request, response) ==
  wire' = IF response.sent THEN Arrived(Departed(wire, request), request.origin, response)
          ELSE wire

-----------------------------------------------------------------------------
(* The loops over sources (scanAutomateSources) and plans.                   *)
NextSource ==
  IF auto.source = Len(automateJob.sources)
  THEN [AutoIdle EXCEPT !.pc = "over"]
  ELSE [AutoIdle EXCEPT !.pc = "source", !.source = auto.source + 1]
NextPlan ==
  IF auto.plan = Len(PlansOf(CurrentSource)) THEN NextSource
  ELSE [AutoIdle EXCEPT !.pc = "plan", !.source = auto.source, !.plan = auto.plan + 1]
Ended(error) == [AutoIdle EXCEPT !.pc = "over", !.error = {error}]

\* A source whose origin's circuit is open is passed over without a failure.
SkipSource ==
  /\ auto.pc = "source" /\ ~canceled
  /\ ~Allow(circuit, SourceOrigin)
  /\ circuit' = Skip(circuit, SourceOrigin)
  /\ auto' = NextSource
  /\ UNCHANGED <<automateJob, written, wire>>
\* Fetch, parse, and plan a specification. Outside a batch its failure is the
\* command's.
SourceFails(response) ==
  \/ FetchFails(response) \/ response.status # 200
  \/ GenerateFails(automateJob.documents[CurrentSource], automateJob.config)
ScanSource(event) ==
  LET request  == FetchRequest(SourceOrigin)
      response == MakeRequest(automateJob.client, request, FALSE, event)
      s == CurrentSource
  IN  /\ auto.pc = "source" /\ ~canceled
      /\ Allow(circuit, SourceOrigin)
      /\ OnWire(request, response)
      /\ circuit' = Observe(circuit, SourceOrigin, response)
      /\ IF SourceFails(response)
           THEN /\ written' = [written EXCEPT !.failures = IF automateJob.batch
                                                           THEN @ \cup {s} ELSE @]
                /\ auto' = IF automateJob.batch THEN NextSource ELSE Ended("fatal")
           ELSE /\ written' = [written EXCEPT !.parsed = @ \cup {s}]
                /\ auto' = IF PlansOf(s) = <<>> THEN NextSource
                           ELSE [auto EXCEPT !.pc = "plan", !.plan = 1]
      /\ UNCHANGED automateJob

SkipPlan ==
  /\ auto.pc = "plan" /\ ~canceled
  /\ ~Allow(circuit, CurrentPlan.origin)
  /\ circuit' = Skip(circuit, CurrentPlan.origin)
  /\ auto' = NextPlan
  /\ UNCHANGED <<automateJob, written, wire>>
SendPlan(event) ==
  LET response == MakeRequest(automateJob.client, CurrentPlan, TRUE, event)
  IN  /\ auto.pc = "plan" /\ ~canceled
      /\ Allow(circuit, CurrentPlan.origin)
      /\ OnWire(CurrentPlan, response)
      /\ auto' = [auto EXCEPT !.pc = "settle", !.response = response]
      /\ UNCHANGED <<automateJob, circuit, written>>

\* Mutant: the retries are not counted.
RetryWantedForever ==
  /\ automateJob.retryOnHint /\ ~auto.response.failure
  /\ auto.response.status = 401 /\ auto.response.hint /\ ~auto.response.low
  /\ ~IsUnsafeMethod(CurrentPlan.method)
\* Mutant: a depleted answer is retried like any other.
RetryWantedWhenDepleted ==
  /\ automateJob.retryOnHint /\ ~auto.response.failure
  /\ auto.response.status = 401 /\ auto.response.hint
  /\ ~IsUnsafeMethod(CurrentPlan.method)
  /\ auto.attempt < MaxHintRetries
\* RetryWithHints: while a 401 names a missing parameter, at most three times,
\* and not once the answers repeat themselves.
RetryWanted ==
  /\ automateJob.retryOnHint /\ ~auto.response.failure
  /\ auto.response.status = 401 /\ auto.response.hint /\ ~auto.response.low
  /\ ~IsUnsafeMethod(CurrentPlan.method)
  /\ auto.attempt < MaxHintRetries
SendRetry(event, identical) ==
  LET response == MakeRequest(automateJob.client, CurrentPlan, TRUE, event)
  IN  /\ auto.pc = "settle" /\ ~canceled /\ RetryWanted
      /\ identical => event.status = 401 /\ event.hint
      /\ OnWire(CurrentPlan, response)
      /\ auto' = [auto EXCEPT !.response = response,
                              !.attempt = IF identical THEN MaxHintRetries ELSE @ + 1]
      /\ UNCHANGED <<automateJob, circuit, written>>
\* Mutant: nobody remembers that the replay was sent.
ReplayWantedAgain ==
  /\ automateJob.client.replay
  /\ ~auto.response.failure /\ auto.response.status >= 100
  /\ auto.response.status # 429 /\ ~auto.response.low
\* The replay proxy gets a copy of an answered request; nobody looks at what
\* comes back.
ReplayWanted ==
  /\ automateJob.client.replay /\ ~auto.replayed
  /\ ~auto.response.failure /\ auto.response.status >= 100
  /\ auto.response.status # 429 /\ ~auto.response.low
SendReplay ==
  /\ auto.pc = "settle" /\ ~canceled /\ ~RetryWanted /\ ReplayWanted
  /\ wire' = Departed(wire, CurrentPlan)
  /\ auto' = [auto EXCEPT !.replayed = TRUE]
  /\ UNCHANGED <<automateJob, circuit, written>>
\* The last response is recorded, then observed by the circuit.
RecordResult ==
  /\ auto.pc = "settle" /\ ~RetryWanted /\ ~ReplayWanted
  /\ written' = [written EXCEPT !.results = @ \cup {<<CurrentSource, auto.plan>>}]
  /\ circuit' = Observe(circuit, CurrentPlan.origin, auto.response)
  /\ auto' = NextPlan
  /\ UNCHANGED <<automateJob, wire>>
\* Cancellation is noticed before every source and request and after each.
AutomateCanceled ==
  /\ canceled /\ auto.pc \in {"source", "plan", "settle"}
  /\ auto' = Ended("canceled")
  /\ UNCHANGED <<automateJob, circuit, written, wire>>

AutomateNext ==
  \/ SkipSource \/ SkipPlan \/ SendReplay \/ RecordResult \/ AutomateCanceled
  \/ \E event \in Event :
       \/ ScanSource(event)
       \/ SendPlan(event)
       \/ \E identical \in BOOLEAN : SendRetry(event, identical)
AutomateOver == auto.pc = "over"
StartedAuto == [AutoIdle EXCEPT !.pc = "source", !.source = 1]

AutomateTypeOK ==
  /\ auto.pc \in {"idle", "source", "plan", "settle", "over"}
  /\ auto.attempt \in 0..MaxHintRetries
  /\ auto.response \in Response
  /\ circuit.blocked \in [Origin -> {"no", "rate-limited", "transport-unavailable"}]
  /\ circuit.faults \in [Origin -> 0..MaximumConsecutiveOriginTransportErrors]
  /\ written.failures \cup written.parsed \subseteq Source
  /\ wire.limited \cup wire.late \cup wire.private \subseteq Origin

=============================================================================
