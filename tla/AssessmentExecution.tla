------------------------- MODULE AssessmentExecution -------------------------
(***************************************************************************)
(* Run and Resume of the assessment runtime (pkg/assessment/runtime):      *)
(* several invocations, in one process or in many, over the one durable    *)
(* assessment of AssessmentStore.  An invocation persists or loads the     *)
(* plan, takes the execution lease, walks the nodes in id order, finishes  *)
(* the assessment and seals it.  It may be canceled, crash, be paused past *)
(* its lease, or meet a store error at any transaction.                    *)
(***************************************************************************)
EXTENDS NodeExecution

IdleRun == [pc |-> "idle",
            seen |-> "absent",                     \* status Resume read before the lease
            todo |-> [n \in Node |-> "done"],      \* resolveScheduledNode, from the loaded state
            retry |-> [n \in Node |-> 0],          \* retrySources: the case to retry, or 0
            down |-> [o \in Origin |-> "up"],      \* unavailableOrigins
            result |-> "succeeded",                \* assessmentExecutionResult.status
            i |-> 1, c |-> 0,                      \* node and case being executed
            reply |-> NoReply,
            last |-> 0, reason |-> "",             \* markRemaining: i .. last, and why
            ctx |-> "live",                        \* cause of the execution context
            hb |-> "ok",                           \* lease.err of the heartbeat
            signed |-> {}]                         \* evidence read for the seal

Closing == [IdleRun EXCEPT !.pc = "close"]
vars == <<storeVars, run, sent, faults>>

Init ==
  /\ StoreInit
  /\ run = [w \in Worker |-> IdleRun]
  /\ sent = [id \in AttemptId |-> 0]
  /\ faults = 0

-----------------------------------------------------------------------------
(* Run: persistPreparedPlan, one row at a time, without a lease. *)

PlanComplete == \A n \in Node : node[n].status \notin {"absent", "unbudgeted"}

BeginRun(w) ==
  /\ At(w, "idle")
  /\ BeginAssessment
  /\ Become(w, [IdleRun EXCEPT !.pc = "persist", !.seen = "running"])

PersistNode(w) ==
  /\ At(w, "persist")
  /\ CtxLive(w)
  /\ AddPlanNode(Current(w))
  /\ Goto(w, "budget")

PersistBudget(w) ==
  /\ At(w, "budget")
  /\ CtxLive(w)
  /\ AddBudgetReservation(Current(w))
  /\ Become(w, IF Current(w) = NodeCount THEN [run[w] EXCEPT !.pc = "acquire", !.i = 1]
               ELSE [run[w] EXCEPT !.pc = "persist", !.i = @ + 1])

\* fail(cause) finishes the assessment on the caller's context: a dead one
\* leaves it running, with half a plan.
PersistFails(w) ==
  /\ run[w].pc \in {"persist", "budget"}
  /\ ~CtxLive(w)
  /\ UNCHANGED storeVars
  /\ Become(w, IdleRun)

-----------------------------------------------------------------------------
(* Resume, and the lease both take. *)

\* Status and Report of a terminal assessment, and Resume of a canceled one,
\* recompute the seal over the stored evidence.
VerifyAssessmentResult == seal = {Evidence}

\* The status is read, and a terminal one verified against its seal, before
\* the lease is taken.  An incomplete plan fails verifyExecutionSnapshot; a
\* succeeded or failed assessment is returned as it is.
ResumeLoads(w) ==
  /\ At(w, "idle")
  /\ PlanComplete
  /\ status \in {"running", "canceled"}
  /\ status = "canceled" => VerifyAssessmentResult
  /\ UNCHANGED storeVars
  /\ Become(w, [IdleRun EXCEPT !.pc = "acquire", !.seen = status])

\* acquireAssessmentExecutionLease is detached: it ignores a cancellation.
Acquire(w) ==
  /\ At(w, "acquire")
  /\ AcquireAssessmentExecutionLease(w)
  /\ Goto(w, IF run[w].seen = "canceled" THEN "reactivate" ELSE "load")

AcquireRefused(w) ==
  /\ At(w, "acquire")
  /\ ~LeaseFree
  /\ UNCHANGED storeVars
  /\ Become(w, IdleRun)

Reactivate(w) ==
  /\ At(w, "reactivate")
  /\ CtxLive(w)
  /\ ReactivateCanceledAssessment
  /\ Goto(w, "reload")

ReactivateRefused(w) ==
  /\ At(w, "reactivate")
  /\ CtxLive(w) => ~Reactivatable
  /\ UNCHANGED storeVars
  /\ Become(w, Closing)

Reload(w) ==
  /\ At(w, "reload")
  /\ UNCHANGED storeVars
  /\ Become(w, IF CtxLive(w) /\ status = "running" THEN [run[w] EXCEPT !.pc = "load"]
               ELSE Closing)

\* retrySourcesByNode: the only canceled, retryable attempt without a child.
RetrySource(n) ==
  LET sources == {c \in Case : /\ attempt[<<n, c, "first">>].status = "canceled"
                               /\ attempt[<<n, c, "first">>].retryable
                               /\ attempt[<<n, c, "retry">>].status = "none"}
  IN IF Cardinality(sources) = 1 THEN CHOOSE c \in sources : TRUE ELSE 0

HasAttempt(n) == \E id \in NodeAttempts(n) : attempt[id].status # "none"

Todo(n) ==
  IF node[n].status \in TerminalNode THEN "done"
  ELSE IF node[n].status = "running" /\ RetrySource(n) = 0 /\ HasAttempt(n) THEN "interrupted"
  ELSE "execute"

OriginForgotten(o) == "up"

\* unavailableOriginsFromState: what the coverage rows say of an origin.
OriginState(o) ==
  LET recorded == UNION {coverage[n] : n \in {m \in Node : OriginOf[m] = o}}
  IN IF "rate stop" \in recorded THEN "limited"
     ELSE IF "target transport" \in recorded THEN "unavailable"
     ELSE "up"

InitialResultForgotten == "succeeded"
InitialResult == IF \E n \in Node : node[n].status = "failed" THEN "failed" ELSE "succeeded"

Load(w) ==
  /\ At(w, "load")
  /\ UNCHANGED storeVars
  /\ Become(w, IF ~CtxLive(w) THEN Closing
               ELSE [run[w] EXCEPT !.pc = "top", !.i = 1, !.seen = "absent",
                                   !.todo = [n \in Node |-> Todo(n)],
                                   !.retry = [n \in Node |-> RetrySource(n)],
                                   !.down = [o \in Origin |-> OriginState(o)],
                                   !.result = InitialResult])

-----------------------------------------------------------------------------
(* The schedule: executeScheduledNodes over the nodes in order. *)

\* Mark nodes i .. last skipped, then go on, or finalize after the last node.
MarkOrFinalize(r) ==
  IF r.i <= r.last THEN [r EXCEPT !.pc = "markFinish"]
  ELSE IF r.i <= NodeCount THEN ScheduleFrom(r, r.i)
  ELSE [IdleRun EXCEPT !.pc = "finalize", !.result = r.result, !.hb = r.hb]

MarkRemaining(r, first, reason) ==
  MarkOrFinalize([r EXCEPT !.i = first, !.last = NodeCount, !.reason = reason, !.c = 0,
                           !.reply = NoReply])

Scheduled(w, todo) ==
  /\ At(w, "top")
  /\ Current(w) <= NodeCount
  /\ run[w].ctx # "lost"
  /\ run[w].todo[Current(w)] = todo
  /\ UNCHANGED storeVars

ScheduleEnds(w) ==
  /\ At(w, "top")
  /\ Current(w) > NodeCount
  /\ UNCHANGED storeVars
  /\ Become(w, MarkOrFinalize(run[w]))

ScheduleLosesLease(w) ==
  /\ At(w, "top")
  /\ Current(w) <= NodeCount
  /\ run[w].ctx = "lost"
  /\ UNCHANGED storeVars
  /\ Become(w, Closing)

PassDoneNode(w) ==
  /\ Scheduled(w, "done")
  /\ Become(w, NextNode(run[w]))

\* A node that a former invocation left running with attempts is failed and
\* never executed again.
MeetInterruptedNode(w) ==
  /\ Scheduled(w, "interrupted")
  /\ Goto(w, "interrupt")

FailInterruptedNode(w) ==
  /\ At(w, "interrupt")
  /\ CtxLive(w)
  /\ FinishPlanNodeWithLease(w, Current(w), "failed", "interrupted")
  /\ Goto(w, "interruptCoverage")

CoverInterruptedNode(w) ==
  /\ At(w, "interruptCoverage")
  /\ CtxLive(w)
  /\ AddCoverageWithLease(w, Current(w), "interrupted")
  /\ Become(w, NextNode([run[w] EXCEPT !.result = "failed"]))

CancelScheduledNodes(w) ==
  /\ Scheduled(w, "execute")
  /\ ~CtxLive(w)
  /\ Become(w, MarkRemaining([run[w] EXCEPT !.result = "canceled"], Current(w),
                             "assessment canceled"))

\* An origin that answered with a rate limit is skipped, one that could not
\* be reached is contained; any other node is executed.
DispatchNode(w) ==
  LET origin == run[w].down[OriginOf[Current(w)]]
  IN /\ Scheduled(w, "execute")
     /\ CtxLive(w)
     /\ Become(w,
          CASE origin = "up" -> [run[w] EXCEPT !.pc = "start"]
            [] origin = "limited" ->
                 [run[w] EXCEPT !.pc = "markFinish", !.last = Current(w),
                                !.reason = "origin rate limited", !.result = "failed"]
            [] origin = "unavailable" ->
                 [run[w] EXCEPT !.pc = "contain", !.reason = "origin unavailable"])

\* handleScheduledNodeError, for an error that is not itself a lost lease.
HandleNodeError(w) ==
  /\ At(w, "error")
  /\ UNCHANGED storeVars
  /\ Become(w,
       CASE run[w].ctx = "lost" -> Closing
         [] run[w].ctx = "canceled" ->
              MarkRemaining([run[w] EXCEPT !.result = "canceled"], Current(w) + 1,
                            "assessment canceled")
         [] CtxLive(w) /\ run[w].reason = "target transport" ->
              NextNode([run[w] EXCEPT !.result = "failed",
                                      !.down[OriginOf[Current(w)]] = "unavailable"])
         [] CtxLive(w) /\ run[w].reason # "target transport" ->
              MarkRemaining([run[w] EXCEPT !.result = "failed"], Current(w) + 1,
                            "execution error"))

MarkFinish(w) ==
  /\ At(w, "markFinish")
  /\ FinishPlanNodeWithLease(w, Current(w), "skipped", run[w].reason)
  /\ Goto(w, "markCoverage")

MarkCoverage(w) ==
  /\ At(w, "markCoverage")
  /\ AddCoverageWithLease(w, Current(w), run[w].reason)
  /\ Become(w, MarkOrFinalize([run[w] EXCEPT !.i = @ + 1]))

\* A node that is terminal already, or a coverage row with the same key, makes
\* markRemaining fail: the invocation returns without finishing the assessment.
MarkRefused(w) ==
  /\ Fenced(w)
  /\ \/ At(w, "markFinish") /\ node[Current(w)].status \notin LiveNode
     \/ At(w, "markCoverage") /\ run[w].reason \in coverage[Current(w)]
  /\ UNCHANGED storeVars
  /\ Become(w, Closing)

-----------------------------------------------------------------------------
(* finalizeAssessmentExecution and lease.close. *)

Finalize(w) ==
  /\ At(w, "finalize")
  /\ Ensured(w)
  /\ FinishAssessmentWithLease(w, run[w].result)
  /\ Become(w, [IdleRun EXCEPT !.pc = "sealLoad", !.hb = run[w].hb])

FinalizeRefused(w) ==
  /\ At(w, "finalize")
  /\ Ensured(w)
  /\ status # "running"
  /\ UNCHANGED storeVars
  /\ Become(w, Closing)

SealLoad(w) ==
  /\ At(w, "sealLoad")
  /\ Ensured(w)
  /\ UNCHANGED storeVars
  /\ Become(w, IF status = "running" THEN Closing
               ELSE [run[w] EXCEPT !.pc = "sealWrite", !.signed = {Evidence}])

SealWrite(w) ==
  /\ At(w, "sealWrite")
  /\ \E signed \in run[w].signed : AddSealWithLease(w, signed)
  /\ Become(w, Closing)

Close(w) ==
  /\ At(w, "close")
  /\ ReleaseAssessmentExecutionLease(w)
  /\ Become(w, IdleRun)

-----------------------------------------------------------------------------
(* Lost leases, dead contexts, and faults. *)

\* Operations preceded by lease.ensure, operations on the caller's context,
\* and all that are fenced.
EnsurePc == {"missing", "send", "record", "artifact", "stop", "fail", "contain", "compare",
             "finish", "failEvaluation", "finalize", "sealLoad"}
CtxPc == {"start", "reserve", "stop", "stopCoverage", "compare", "finding", "evaluated",
          "finish", "failEvaluation", "interrupt", "interruptCoverage"}
FencedPc == EnsurePc \cup CtxPc \cup
            {"transportCoverage", "containCoverage", "markFinish", "markCoverage", "sealWrite"}
\* Where an error leaves executeNode and reaches handleScheduledNodeError.
InNode(w) == run[w].pc \in NodePc /\ run[w].reason # "origin unavailable"

\* ErrAssessmentExecutionLeaseHeld: every caller returns without writing.
LeaseHeldByOther(w) ==
  /\ run[w].pc \in FencedPc
  /\ ~Fenced(w)
  /\ run[w].pc \in CtxPc => CtxLive(w)
  /\ run[w].pc \in EnsurePc => run[w].hb = "ok"
  /\ UNCHANGED storeVars
  /\ Become(w, Closing)

\* lease.ensure returns the heartbeat's error, which is a lost lease or not.
EnsureFails(w) ==
  /\ run[w].pc \in EnsurePc
  /\ run[w].hb # "ok"
  /\ UNCHANGED storeVars
  /\ Become(w, IF run[w].hb = "error" /\ InNode(w) THEN [run[w] EXCEPT !.pc = "error"]
               ELSE Closing)

InterruptCtxFails(w) ==
  /\ run[w].pc \in {"interrupt", "interruptCoverage"}
  /\ ~CtxLive(w)
  /\ UNCHANGED storeVars
  /\ Become(w, Closing)

HoldingPc == (NodePc \cup FencedPc \cup {"reactivate", "reload", "load", "top"}) \ {"close"}

Fault == faults < FaultLimit /\ faults' = faults + 1

\* heartbeat: a renewal that finds the lease lost costs no fault, one that
\* fails on the store does.  The first cause to reach the context stays.
HeartbeatFails(w) ==
  /\ run[w].pc \in HoldingPc
  /\ run[w].hb = "ok"
  /\ run' = [run EXCEPT ![w].hb = IF Fenced(w) THEN "error" ELSE "held",
                        ![w].ctx = IF CtxLive(w) THEN "lost" ELSE @]
  /\ IF Fenced(w) THEN Fault ELSE UNCHANGED faults
  /\ UNCHANGED <<storeVars, sent>>

Cancel(w) ==
  /\ run[w].pc \notin {"idle", "finalize", "sealLoad", "sealWrite", "close"}
  /\ CtxLive(w)
  /\ Fault
  /\ run' = [run EXCEPT ![w].ctx = "canceled"]
  /\ UNCHANGED <<storeVars, sent>>

Crash(w) ==
  /\ ~At(w, "idle")
  /\ Fault
  /\ run' = [run EXCEPT ![w] = IdleRun]
  /\ UNCHANGED <<storeVars, sent>>

\* A transaction that fails for a reason of its own and changes nothing.
AfterStoreError(w) ==
  LET r == run[w]
  IN IF At(w, "acquire") THEN IdleRun
     ELSE IF At(w, "reserve") THEN [r EXCEPT !.pc = "missing"]
     ELSE IF At(w, "send")
       THEN [r EXCEPT !.pc = "record",
                      !.reply = [NoReply EXCEPT !.error = TRUE, !.retryable = TRUE]]
     ELSE IF r.pc \in {"compare", "finding", "evaluated"} THEN [r EXCEPT !.pc = "failEvaluation"]
     ELSE IF InNode(w) THEN [r EXCEPT !.pc = "error"]
     ELSE Closing

StoreError(w) ==
  /\ run[w].pc \in FencedPc \cup {"acquire", "reactivate", "reload", "load"}
  /\ Fault
  /\ run' = [run EXCEPT ![w] = AfterStoreError(w)]
  /\ UNCHANGED <<storeVars, sent>>

\* persistPreparedPlan's fail, on a live context.
PersistError(w) ==
  /\ run[w].pc \in {"persist", "budget"}
  /\ CtxLive(w)
  /\ Fault
  /\ FinishAssessment("failed")
  /\ run' = [run EXCEPT ![w] = IdleRun]
  /\ UNCHANGED sent

\* The TTL passes: at no cost once the owner is gone, as a fault (a pause of
\* the owner longer than the TTL) while its heartbeat should renew the row.
Expire ==
  /\ LeaseExpires
  /\ IF \E w \in Worker : lease.owner = w /\ run[w].pc \in HoldingPc /\ run[w].hb = "ok"
     THEN Fault
     ELSE UNCHANGED faults
  /\ UNCHANGED <<run, sent>>

-----------------------------------------------------------------------------
\* The steps an invocation takes by itself once it was started.
WorkerStep(w) ==
  \/ PersistNode(w) \/ PersistBudget(w) \/ PersistFails(w)
  \/ Acquire(w) \/ AcquireRefused(w)
  \/ Reactivate(w) \/ ReactivateRefused(w) \/ Reload(w) \/ Load(w)
  \/ ScheduleEnds(w) \/ ScheduleLosesLease(w) \/ PassDoneNode(w)
  \/ MeetInterruptedNode(w) \/ FailInterruptedNode(w) \/ CoverInterruptedNode(w)
  \/ CancelScheduledNodes(w) \/ DispatchNode(w) \/ ExecuteNodeStep(w)
  \/ HandleNodeError(w) \/ MarkFinish(w) \/ MarkCoverage(w) \/ MarkRefused(w)
  \/ Finalize(w) \/ FinalizeRefused(w) \/ SealLoad(w) \/ SealWrite(w) \/ Close(w)
  \/ LeaseHeldByOther(w) \/ EnsureFails(w) \/ InterruptCtxFails(w)

FaultStep(w) ==
  \/ HeartbeatFails(w) \/ Cancel(w) \/ Crash(w) \/ StoreError(w) \/ PersistError(w)

Next ==
  \/ \E w \in Worker : BeginRun(w) \/ ResumeLoads(w) \/ WorkerStep(w) \/ FaultStep(w)
  \/ Expire

Spec == Init /\ [][Next]_vars

\* An invocation that was started keeps running, a crashed owner's lease runs
\* out, and somebody resumes an assessment that is not finished.
Fairness ==
  /\ \A w \in Worker : WF_vars(WorkerStep(w)) /\ WF_vars(ResumeLoads(w))
  /\ WF_vars(Expire)

FairSpec == Spec /\ Fairness

-----------------------------------------------------------------------------
Pc == NodePc \cup FencedPc \cup {"idle", "persist", "budget", "acquire", "reactivate",
                                  "reload", "load", "top", "close"}

RunRecord ==
  [pc : Pc,
   seen : {"absent", "running", "canceled"},
   todo : [Node -> {"done", "interrupted", "execute"}],
   retry : [Node -> 0 .. CaseCount],
   down : [Origin -> {"up", "limited", "unavailable"}],
   result : TerminalStatus,
   i : 1 .. NodeCount + 1, c : 0 .. CaseCount,
   reply : Reply \cup {NoReply},
   last : 0 .. NodeCount, reason : Reason \cup {"already reserved"},
   ctx : {"live", "canceled", "lost"},
   hb : {"ok", "held", "error"},
   signed : SUBSET EvidenceRecord]

\* Types of the invocations' memory and of the store.
TypeOK ==
  /\ StoreTypeOK
  /\ run \in [Worker -> RunRecord]
  /\ sent \in [AttemptId -> Nat]
  /\ faults \in 0 .. FaultLimit

-----------------------------------------------------------------------------
(* Safety of the execution. *)

\* Whatever crashes, cancellations, pauses and competing invocations happen,
\* the request of an attempt leaves at most once, and only after the attempt
\* was durably reserved and charged (Reserve before executeAttempt;
\* resolveScheduledNode never repeats a node with attempts).
AtMostOnceSend ==
  \A id \in AttemptId :
    sent[id] > 0 => sent[id] = 1 /\ attempt[id].status # "none"

\* A node that succeeded has its comparison, finding and coverage rows, and an
\* attempt that succeeded with stored evidence for every case: finish comes
\* after persistEvaluation, which comes after every executeCase.
SucceededNodeHasProof ==
  \A n \in Node : node[n].status = "succeeded" =>
    /\ n \in comparison
    /\ n \in finding
    /\ "evaluated" \in coverage[n]
    /\ \A c \in Case : /\ attempt[<<n, c, "first">>].status = "succeeded"
                       /\ <<n, c, "first">> \in artifact

\* An assessment that finished as succeeded has no failed node and no node
\* still waiting or running (initialAssessmentExecutionResult and the
\* schedule's own results, over every resumption).
SuccessHidesNoFailure ==
  status = "succeeded" => \A n \in Node : node[n].status \in TerminalNode \ {"failed"}

\* A seal that is stored signs the evidence that is stored: Status, Report and
\* the next Resume verify it (verifyAssessmentResult).
SealMatchesEvidence == seal # {} => VerifyAssessmentResult

\* Once coverage records that an origin stopped the assessment (rate limit) or
\* could not be reached, no invocation, now or resumed, reserves another
\* attempt for a node of that origin.
StoppedOrigin(n) ==
  \E m \in Node : /\ OriginOf[m] = OriginOf[n]
                 /\ coverage[m] \cap {"rate stop", "target transport"} # {}
OriginStaysStopped ==
  [][\A id \in AttemptId :
       attempt[id].status = "none" /\ StoppedOrigin(id[1]) => attempt'[id] = attempt[id]]_vars

\* Recorded outcomes are final: a completed attempt never changes, and a
\* terminal node only leaves its status when a sealed canceled assessment is
\* reactivated, and then only from canceled or skipped.
OutcomesAreFinal == [][OutcomesKept]_vars

\* Stops are isolated by origin: a node is skipped for a rate limit, or failed
\* as unreachable, only when a node of its own origin recorded the reason
\* (handleScheduledNodeResult, handleScheduledNodeError).
StopsAreIsolated ==
  \A n \in Node :
    LET recorded == UNION {coverage[m] : m \in {k \in Node : OriginOf[k] = OriginOf[n]}}
    IN /\ node[n].message = "origin rate limited" => "rate stop" \in recorded
       /\ node[n].message = "origin unavailable" => "target transport" \in recorded

\* With one invocation at a time, the execution implements AssessmentLifecycle.
Lifecycle == INSTANCE AssessmentLifecycle WITH
  Task <- Node,
  phase <- status,
  open <- {n \in Node : node[n].status \notin TerminalNode},
  proven <- {n \in Node : node[n].status = "succeeded"},
  sealed <- seal # {}
\* An assessment moves only as AssessmentLifecycle allows: nodes settle while
\* it runs, it closes once, is sealed once, and runs again only from a sealed
\* cancellation, without its proven nodes.
ImplementsLifecycle == Lifecycle!LifecycleSpec

-----------------------------------------------------------------------------
(* What the repository says of the runtime and this code does not do. *)

\* "If a process stopped after a request was durably attempted but before its
\* proof comparison completed, sj marks that node inconclusive/failed": no
\* node with an attempt and without a comparison is left under a success.
AttemptedNodeIsReported ==
  status = "succeeded" => \A n \in Node : ReservedAttempts(n) # {} => n \in comparison

\* "Stop requests to the affected origin immediately on HTTP 429": once a node
\* was stored as stopped by a rate limit, its origin gets no new attempt.
RateStopOutlivesCrash ==
  [][\A id \in AttemptId : \A m \in Node :
       attempt[id].status = "none" /\ OriginOf[m] = OriginOf[id[1]]
         /\ node[m].message = "rate stop" => attempt'[id] = attempt[id]]_vars

-----------------------------------------------------------------------------
(* Liveness, under FairSpec. *)

\* An assessment whose plan was persisted does not stay running for ever: some
\* invocation finishes it, whatever crashes and lost leases come between.
RunningEventuallyFinishes == (status = "running" /\ PlanComplete) ~> (status # "running")

=============================================================================
