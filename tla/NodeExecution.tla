---------------------------- MODULE NodeExecution ----------------------------
(***************************************************************************)
(* One invocation of Run or Resume while it executes a plan node:          *)
(* Service.executeNode and nodeExecution (pkg/assessment/runtime/          *)
(* node_execution.go, execute.go) over executor.Execute                    *)
(* (pkg/assessment/executor/executor.go).  The pc of an invocation is the  *)
(* next store transaction or network operation it performs; the code       *)
(* between two of them touches only the invocation's own memory.           *)
(*                                                                         *)
(* Every operation takes one of two contexts.  The caller's is dead once   *)
(* the invocation was canceled or its heartbeat lost the lease, and the    *)
(* operation then fails; the detached one outlives both.  lease.ensure     *)
(* precedes many operations; it and the transaction it protects are one    *)
(* step here, since both run the same fence.                               *)
(***************************************************************************)
EXTENDS AssessmentStore

CONSTANTS
  Origin,       \* target origins
  OriginOf,     \* the origin of each node (proofOrigin)
  FaultLimit    \* bound on crashes, cancellations, store errors and pauses

ASSUME ExecutionAssumption ==
  /\ OriginOf \in [Node -> Origin]
  /\ FaultLimit \in Nat

\* What executeAttempt reports of one exchange.  A response that cannot be
\* read to its end, or is too large, is an error with a response.
Reply == {r \in [error : BOOLEAN,      \* executeErr # nil
                 retryable : BOOLEAN,  \* OutcomeRetryableNoSideEffect
                 response : BOOLEAN,   \* a status code was received
                 limited : BOOLEAN,    \* 429 or an exhausted RateLimit header
                 isolated : BOOLEAN] : \* isIsolatedTargetTransportFailure
            /\ r.retryable => r.error
            /\ ~r.error => r.response
            /\ r.limited => r.response
            /\ r.isolated => r.retryable /\ ~r.response}

NoReply == [error |-> FALSE, retryable |-> FALSE, response |-> FALSE,
            limited |-> FALSE, isolated |-> FALSE]

NodePc == {"start", "reserve", "missing", "send", "inflight", "awaiting", "record",
           "artifact", "stop", "stopCoverage", "fail", "transportCoverage",
           "contain", "containCoverage", "compare", "finding", "evaluated",
           "failEvaluation", "finish", "error"}

VARIABLES
  run,     \* the invocation in each worker
  sent,    \* requests that left for each attempt (a history variable)
  faults   \* faults injected so far

At(w, pc) == run[w].pc = pc
Current(w) == run[w].i                        \* the node being executed
RetryCase(w) == run[w].retry[Current(w)]      \* 0: no retry source
IsRetry(w) == RetryCase(w) # 0
CurrentAttempt(w) ==
  <<Current(w), run[w].c, IF IsRetry(w) THEN "retry" ELSE "first">>

CtxLive(w) == run[w].ctx = "live"
\* lease.ensure: the heartbeat has not failed and the renewal commits.
Ensured(w) == run[w].hb = "ok" /\ Fenced(w)

Become(w, r) ==
  /\ run' = [run EXCEPT ![w] = r]
  /\ UNCHANGED <<sent, faults>>
Goto(w, pc) == Become(w, [run[w] EXCEPT !.pc = pc])

\* The schedule goes on with node i.
ScheduleFrom(r, i) ==
  [r EXCEPT !.pc = "top", !.i = i, !.last = 0, !.c = 0, !.reply = NoReply, !.reason = ""]
NextNode(r) == ScheduleFrom(r, r.i + 1)

\* A transaction on the caller's context fails when that context is dead.
CtxFails(w, pc, next) ==
  /\ At(w, pc)
  /\ ~CtxLive(w)
  /\ UNCHANGED storeVars
  /\ Goto(w, next)

-----------------------------------------------------------------------------
(* Reservation: StartPlanNode, then Reserve for each case. *)

StartNode(w) ==
  /\ At(w, "start")
  /\ CtxLive(w)
  /\ StartPlanNodeWithLease(w, Current(w))
  /\ Become(w, [run[w] EXCEPT !.pc = "reserve", !.c = IF IsRetry(w) THEN RetryCase(w) ELSE 1])

ReserveCase(w) ==
  /\ At(w, "reserve")
  /\ CtxLive(w)
  /\ IF IsRetry(w)
     THEN BeginAssessmentRetryAttemptWithLease(w, Current(w), run[w].c)
     ELSE BeginAssessmentAttemptWithBudgetLease(w, Current(w), run[w].c)
  /\ Goto(w, "send")

\* Why Execute came back without an attempt.  The persisted plan passed
\* preflight when it was made, so what is left is the context and Reserve.
RefusalReason(w) ==
  IF ~CtxLive(w) \/ ~IsRetry(w) \/ status # "running" THEN ""
  ELSE IF attempt[CurrentAttempt(w)].status # "none" THEN "already reserved"
  ELSE IF RetryReservable(Current(w), run[w].c) THEN "retry budget"
  ELSE ""

Reservable(w) ==
  IF IsRetry(w)
  THEN /\ attempt[CurrentAttempt(w)].status = "none"
       /\ RetryReservable(Current(w), run[w].c)
       /\ WithinBudget(Current(w))
  ELSE \/ attempt[CurrentAttempt(w)].status # "none"
       \/ node[Current(w)].status = "running" /\ WithinBudget(Current(w))

ReserveRefused(w) ==
  /\ At(w, "reserve")
  /\ CtxLive(w) => Fenced(w) /\ ~Reservable(w)
  /\ UNCHANGED storeVars
  /\ Become(w, [run[w] EXCEPT !.pc = "missing", !.reason = RefusalReason(w)])

\* handleMissingAttempt: nothing reached the network.
MissingAttempt(w) ==
  /\ At(w, "missing")
  /\ Ensured(w)
  /\ IF CtxLive(w) /\ run[w].reason # ""
     THEN /\ UNCHANGED storeVars
          /\ Goto(w, IF run[w].reason = "retry budget" THEN "contain" ELSE "close")
     ELSE /\ IF CtxLive(w)
             THEN FinishPlanNodeWithLease(w, Current(w), "failed", "execution error")
             ELSE FinishPlanNodeWithLease(w, Current(w),
                    IF IsRetry(w) THEN "canceled" ELSE "skipped", "assessment canceled")
          /\ Goto(w, "error")

-----------------------------------------------------------------------------
(* One exchange.  The pacer's beforeSend is the last check of the lease;
   what follows it, the request itself, can no longer be taken back. *)

BeforeSend(w) ==
  /\ At(w, "send")
  /\ CtxLive(w)
  /\ Ensured(w)
  /\ UNCHANGED storeVars
  /\ Goto(w, "inflight")

\* Proxy, secret or size refused the request, the target could not be
\* dialled, or the context died while the pacer waited.
NotSent(w) ==
  /\ At(w, "send")
  /\ UNCHANGED storeVars
  /\ \E reply \in {r \in Reply : r.error /\ ~r.response} :
       Become(w, [run[w] EXCEPT !.pc = "record", !.reply = reply])

Send(w) ==
  /\ At(w, "inflight")
  /\ sent' = [sent EXCEPT ![CurrentAttempt(w)] = @ + 1]
  /\ run' = [run EXCEPT ![w].pc = "awaiting"]
  /\ UNCHANGED <<storeVars, faults>>

Receive(w) ==
  /\ At(w, "awaiting")
  /\ UNCHANGED storeVars
  /\ \E reply \in {r \in Reply : ~r.isolated} :
       Become(w, [run[w] EXCEPT !.pc = "record", !.reply = reply])

AfterEvidenceIgnoringErrors(r, retry) ==
  IF r.reply.limited THEN [r EXCEPT !.pc = "stop"]
  ELSE IF retry THEN [r EXCEPT !.pc = "contain", !.reason = "retry completed"]
  ELSE IF r.c = CaseCount THEN [r EXCEPT !.pc = "compare", !.reply = NoReply]
  ELSE [r EXCEPT !.pc = "reserve", !.c = @ + 1, !.reply = NoReply]

AfterEvidencePastLastCase(r, retry) ==
  IF r.reply.limited THEN [r EXCEPT !.pc = "stop"]
  ELSE IF r.reply.error THEN [r EXCEPT !.pc = "fail"]
  ELSE IF retry THEN [r EXCEPT !.pc = "contain", !.reason = "retry completed"]
  ELSE [r EXCEPT !.pc = "reserve", !.c = @ + 1, !.reply = NoReply]

\* What executeCase does once the attempt and its evidence are stored.
AfterEvidence(r, retry) ==
  IF r.reply.limited THEN [r EXCEPT !.pc = "stop"]
  ELSE IF r.reply.error THEN [r EXCEPT !.pc = "fail"]
  ELSE IF retry THEN [r EXCEPT !.pc = "contain", !.reason = "retry completed"]
  ELSE IF r.c = CaseCount THEN [r EXCEPT !.pc = "compare", !.reply = NoReply]
  ELSE [r EXCEPT !.pc = "reserve", !.c = @ + 1, !.reply = NoReply]

\* finishAttempt, through the detached context.
RecordAttempt(w) ==
  LET reply == run[w].reply
  IN /\ At(w, "record")
     /\ Ensured(w)
     /\ FinishAssessmentAttemptWithLease(w, CurrentAttempt(w),
          [status |-> IF ~reply.error THEN "succeeded"
                      ELSE IF CtxLive(w) THEN "failed" ELSE "canceled",
           retryable |-> reply.retryable,
           response |-> reply.response])
     /\ Become(w, IF reply.response THEN [run[w] EXCEPT !.pc = "artifact"]
                  ELSE AfterEvidence(run[w], IsRetry(w)))

StoreArtifact(w) ==
  /\ At(w, "artifact")
  /\ Ensured(w)
  /\ AddArtifactMetadataWithLease(w, CurrentAttempt(w))
  /\ Become(w, AfterEvidence(run[w], IsRetry(w)))

-----------------------------------------------------------------------------
(* How a node ends without a comparison. *)

\* handleStoppedExecutor: both transactions on the caller's context.
StopNode(w) ==
  /\ At(w, "stop")
  /\ CtxLive(w)
  /\ Ensured(w)
  /\ FinishPlanNodeWithLease(w, Current(w), "failed", "rate stop")
  /\ Goto(w, "stopCoverage")

StopCoverageEverywhere(w) ==
  /\ At(w, "stopCoverage")
  /\ CtxLive(w)
  /\ AddCoverageWithLease(w, Current(w), "rate stop")
  /\ Become(w, NextNode([run[w] EXCEPT !.result = "failed",
                                      !.down = [o \in Origin |-> "limited"]]))

StopCoverage(w) ==
  /\ At(w, "stopCoverage")
  /\ CtxLive(w)
  /\ AddCoverageWithLease(w, Current(w), "rate stop")
  /\ Become(w, NextNode([run[w] EXCEPT !.result = "failed",
                                      !.down[OriginOf[Current(w)]] = "limited"]))

\* handleAttemptError.
FailNode(w) ==
  /\ At(w, "fail")
  /\ Ensured(w)
  /\ FinishPlanNodeWithLease(w, Current(w), IF CtxLive(w) THEN "failed" ELSE "canceled",
                             "execution error")
  /\ Goto(w, IF CtxLive(w) /\ run[w].reply.isolated THEN "transportCoverage" ELSE "error")

\* finishIsolatedTransportFailure: the error is contained to this node.
TransportCoverage(w) ==
  /\ At(w, "transportCoverage")
  /\ AddCoverageWithLease(w, Current(w), "target transport")
  /\ Become(w, [run[w] EXCEPT !.pc = "error", !.reason = "target transport"])

\* finishContainedNode, detached, for the reason in run[w].reason.
ContainNode(w) ==
  /\ At(w, "contain")
  /\ Ensured(w)
  /\ FinishPlanNodeWithLease(w, Current(w), "failed", run[w].reason)
  /\ Goto(w, "containCoverage")

ContainCoverage(w) ==
  /\ At(w, "containCoverage")
  /\ AddCoverageWithLease(w, Current(w), run[w].reason)
  /\ Become(w, NextNode([run[w] EXCEPT !.result = "failed"]))

-----------------------------------------------------------------------------
(* finish: persistEvaluation's three inserts, then the node's success. *)

Compare(w) ==
  /\ At(w, "compare")
  /\ CtxLive(w)
  /\ Ensured(w)
  /\ AddComparisonWithLease(w, Current(w))
  /\ Goto(w, "finding")

PublishFinding(w) ==
  /\ At(w, "finding")
  /\ CtxLive(w)
  /\ AddFindingV2WithLease(w, Current(w))
  /\ Goto(w, "evaluated")

PublishCoverage(w) ==
  /\ At(w, "evaluated")
  /\ CtxLive(w)
  /\ AddCoverageWithLease(w, Current(w), "evaluated")
  /\ Goto(w, "finish")

FinishNode(w) ==
  /\ At(w, "finish")
  /\ CtxLive(w)
  /\ Ensured(w)
  /\ FinishPlanNodeWithLease(w, Current(w), "succeeded", "")
  /\ Become(w, NextNode(run[w]))

FailEvaluation(w) ==
  /\ At(w, "failEvaluation")
  /\ CtxLive(w)
  /\ Ensured(w)
  /\ FinishPlanNodeWithLease(w, Current(w), "failed", "execution error")
  /\ Goto(w, "error")

\* A dead context: the publication fails and so does failEvaluation after it.
NodeCtxFails(w) ==
  \/ \E pc \in {"start", "stop", "stopCoverage", "finish", "failEvaluation"} :
       CtxFails(w, pc, "error")
  \/ \E pc \in {"compare", "finding", "evaluated"} : CtxFails(w, pc, "failEvaluation")

ExecuteNodeStep(w) ==
  \/ StartNode(w)
  \/ ReserveCase(w) \/ ReserveRefused(w) \/ MissingAttempt(w)
  \/ BeforeSend(w) \/ NotSent(w) \/ Send(w) \/ Receive(w)
  \/ RecordAttempt(w) \/ StoreArtifact(w)
  \/ StopNode(w) \/ StopCoverage(w)
  \/ FailNode(w) \/ TransportCoverage(w)
  \/ ContainNode(w) \/ ContainCoverage(w)
  \/ Compare(w) \/ PublishFinding(w) \/ PublishCoverage(w)
  \/ FinishNode(w) \/ FailEvaluation(w)
  \/ NodeCtxFails(w)

=============================================================================
