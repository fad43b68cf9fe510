---------------------------- MODULE HttpClient ----------------------------
(***************************************************************************)
(* The HTTP client every scanning command shares (pkg/httpclient): what    *)
(* may leave it, and what its callers learn about a request.               *)
(***************************************************************************)
EXTENDS Naturals

CONSTANT Origin

VARIABLE canceled    \* the context of the command is done

Route == {"direct", "socks", "proxy"}
\* A client as NewClient leaves it. InitErr: the proxy settings or the header
\* file are unusable, every request then fails without being sent. ambiguous:
\* the transport was replaced by one that does not follow the settings.
\* acceptRisk: --accept-risk or --force.
Client == [initErr : BOOLEAN, route : Route, ambiguous : BOOLEAN,
           acceptRisk : BOOLEAN, replay : BOOLEAN]

\* The settings NewClient refuses: two proxies at once, credentials without
\* SOCKS, an unusable address, private headers together with a replay proxy.
Settings == [proxy : BOOLEAN, socks : BOOLEAN, credentials : BOOLEAN,
             malformed : BOOLEAN, privateHeaders : BOOLEAN, replay : BOOLEAN]
InitErr(s) ==
  \/ s.proxy /\ s.socks
  \/ s.credentials /\ ~s.socks
  \/ s.malformed
  \/ s.privateHeaders /\ s.replay
NewClient(s, acceptRisk) ==
  [initErr |-> InitErr(s), ambiguous |-> FALSE, acceptRisk |-> acceptRisk,
   route |-> IF s.socks THEN "socks" ELSE IF s.proxy THEN "proxy" ELSE "direct",
   replay |-> s.replay]

\* Unsafe methods are all but GET, HEAD, OPTIONS and QUERY. A path is
\* dangerous when one of its words is and is not among the safe words.
Method == {"GET", "POST", "PATCH", "DELETE"}
IsUnsafeMethod(method) == method # "GET"
Request == [origin : Origin, method : Method, dangerous : BOOLEAN]

-----------------------------------------------------------------------------
(* What becomes of a request on the wire. No answer: fault is "target" for  *)
(* an error only the target can have caused (through SOCKS, one of four     *)
(* replies), "route" for any other, "alert" for a TLS user-canceled alert.  *)
(* An answer has a status, may advertise a remaining rate of at most one    *)
(* (low), may name a missing parameter (hint), and its body may be cut      *)
(* short or too large (cut).                                                *)
Answered == {200, 401, 404, 429, 503}
Lost(fault) == [fault |-> fault, status |-> 0, low |-> FALSE, hint |-> FALSE, cut |-> FALSE]
Answer ==
  {answer \in [fault : {"none"}, status : Answered, low : BOOLEAN, hint : BOOLEAN, cut : BOOLEAN] :
     answer.hint => answer.status = 401 /\ ~answer.cut}
Event == {Lost("target"), Lost("route"), Lost("alert")} \cup Answer

\* Direct failures are the target's; an HTTP proxy's never are.
IsTargetOriginTransportError(client, fault) ==
  /\ ~client.ambiguous
  /\ client.route # "proxy"
  /\ client.route = "socks" => fault = "target"

\* status 0: no response; 1: not sent, or canceled by the user.
Response == [status : {0, 1} \cup Answered, sent : BOOLEAN, originFault : BOOLEAN,
             low : BOOLEAN, hint : BOOLEAN, failure : BOOLEAN]
NotSent(status) ==
  [status |-> status, sent |-> FALSE, originFault |-> FALSE,
   low |-> FALSE, hint |-> FALSE, failure |-> FALSE]

\* Mutant: only the method is looked at.
RefusesUnsafeMethods(client, request) ==
  ~client.acceptRisk /\ IsUnsafeMethod(request.method)
\* The safety gate of automate mode; specifications are fetched without it.
RefusesUnsafe(client, request) ==
  ~client.acceptRisk /\ (IsUnsafeMethod(request.method) \/ request.dangerous)

\* What the caller gets back once the request went out.
Received(client, event) ==
  [status |-> IF event.fault = "alert" THEN 1 ELSE event.status, sent |-> TRUE,
   originFault |-> event.fault # "none" /\ IsTargetOriginTransportError(client, event.fault),
   low |-> event.low, hint |-> event.hint /\ ~event.cut, failure |-> event.cut]

\* A request that may not be sent gets its response here, whatever the event.
Sendable(client, request, enforceSafety) ==
  ~client.initErr /\ ~(enforceSafety /\ RefusesUnsafe(client, request))
MakeRequest(client, request, enforceSafety, event) ==
  IF client.initErr THEN NotSent(0)
  ELSE IF ~Sendable(client, request, enforceSafety) THEN NotSent(1)
  ELSE Received(client, event)
\* FetchSpec fails on a missing, oversized or truncated document.
FetchFails(response) == response.status = 0 \/ response.failure

=============================================================================
