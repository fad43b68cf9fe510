---------------------- MODULE AssessmentExecution_proofs ----------------------
(***************************************************************************)
(* The runtime, with every interleaving, crash, cancellation, pause and    *)
(* store error, uses the store only through its transactions.  Whatever    *)
(* the store guarantees to arbitrary callers therefore holds of Spec.      *)
(***************************************************************************)
EXTENDS AssessmentExecution, AssessmentStore_proofs

\* Where an invocation works on a node, on a case of it, or for a reason that
\* is going to be stored.
NodePcs == NodePc \cup {"persist", "budget", "interrupt", "interruptCoverage",
                        "markFinish", "markCoverage"}
CasePcs == {"reserve", "missing", "send", "inflight", "awaiting", "record", "artifact"}
ReasonPcs == {"contain", "containCoverage", "markFinish", "markCoverage"}

RunOK(r) ==
  /\ r \in RunRecord
  /\ r.pc \in NodePcs => r.i \in Node
  /\ r.pc \in CasePcs => r.c \in Case
  /\ r.pc \in ReasonPcs => r.reason \in Reason

\* The inductive strengthening of TypeOK: what run[w].pc says of the rest.
RunInv ==
  /\ TypeOK
  /\ \A w \in Worker : RunOK(run[w])

-----------------------------------------------------------------------------
(* Every step of the runtime is one transaction of the store, or none. *)

\* The transactions that are not fenced: those of the plan, and reactivation.
UnleasedNext ==
  \/ BeginAssessment
  \/ \E n \in Node : AddPlanNode(n) \/ AddBudgetReservation(n)
  \/ FinishAssessment("failed")
  \/ ReactivateCanceledAssessment

\* The transactions of an invocation, as steps of LeasedNext.
LEMMA NodeTransactions ==
  ASSUME NEW w \in Worker, NEW n \in Node
  PROVE  /\ StartPlanNodeWithLease(w, n) => LeasedNext(w)
         /\ \A s \in TerminalNode, m \in Reason : FinishPlanNodeWithLease(w, n, s, m) => LeasedNext(w)
         /\ \A m \in Reason : AddCoverageWithLease(w, n, m) => LeasedNext(w)
         /\ AddComparisonWithLease(w, n) => LeasedNext(w)
         /\ AddFindingV2WithLease(w, n) => LeasedNext(w)
         /\ \A c \in Case : BeginAssessmentAttemptWithBudgetLease(w, n, c) => LeasedNext(w)
         /\ \A c \in Case : BeginAssessmentRetryAttemptWithLease(w, n, c) => LeasedNext(w)
  BY DEF LeasedNext

LEMMA AttemptTransactions ==
  ASSUME NEW w \in Worker, NEW id \in AttemptId
  PROVE  /\ AddArtifactMetadataWithLease(w, id) => LeasedNext(w)
         /\ \A row \in {r \in AttemptRow : r.status \notin {"none", "running"}} :
              FinishAssessmentAttemptWithLease(w, id, row) => LeasedNext(w)
  BY DEF LeasedNext

LEMMA AssessmentTransactions ==
  ASSUME NEW w \in Worker
  PROVE  /\ AcquireAssessmentExecutionLease(w) => LeasedNext(w)
         /\ ReleaseAssessmentExecutionLease(w) => LeasedNext(w)
         /\ \A s \in TerminalStatus : FinishAssessmentWithLease(w, s) => LeasedNext(w)
         /\ \A signed \in EvidenceRecord : AddSealWithLease(w, signed) => LeasedNext(w)
  BY DEF LeasedNext

LEMMA NodeStepIsStoreStep ==
  ASSUME NEW w \in Worker, RunOK(run[w]), ExecuteNodeStep(w)
  PROVE  LeasedNext(w) \/ UNCHANGED storeVars
<1> DEFINE r == run[w]
           n == run[w].i
<1>1. r \in RunRecord
  BY DEF RunOK
<1>2. r.pc \in NodePc => n \in Node
  BY DEF RunOK, NodePcs
<1>3. r.pc \in CasePcs => r.c \in Case /\ CurrentAttempt(w) \in AttemptId
  BY <1>2 DEF RunOK, CasePcs, NodePc, CurrentAttempt, Current, AttemptId
<1>4. CASE StartNode(w)
  BY <1>2, <1>4, NodeTransactions DEF StartNode, At, Current, NodePc
<1>5. CASE ReserveCase(w)
  BY <1>2, <1>3, <1>5, NodeTransactions DEF ReserveCase, At, Current, NodePc, CasePcs
<1>6. CASE MissingAttempt(w)
  BY <1>2, <1>6, NodeTransactions
     DEF MissingAttempt, At, Current, NodePc, TerminalNode, Reason
<1>7. CASE ReserveRefused(w) \/ BeforeSend(w) \/ NotSent(w) \/ Send(w) \/ Receive(w) \/ NodeCtxFails(w)
  BY <1>7 DEF ReserveRefused, BeforeSend, NotSent, Send, Receive, NodeCtxFails, CtxFails
<1>8. CASE RecordAttempt(w)
  <2>1. r.pc = "record" /\ CurrentAttempt(w) \in AttemptId
    BY <1>3, <1>8 DEF RecordAttempt, At, CasePcs
  <2>2. r.reply.retryable \in BOOLEAN /\ r.reply.response \in BOOLEAN
    <3>1. r.reply \in Reply \/ r.reply = NoReply
      BY <1>1 DEF RunRecord
    <3>2. CASE r.reply \in Reply
      BY <3>2 DEF Reply
    <3>3. CASE r.reply = NoReply
      BY <3>3 DEF NoReply
    <3>4. QED
      BY <3>1, <3>2, <3>3
  <2>3. PICK s \in {"succeeded", "failed", "canceled"} :
          FinishAssessmentAttemptWithLease(w, CurrentAttempt(w),
            [status |-> s, retryable |-> r.reply.retryable, response |-> r.reply.response])
    BY <1>8 DEF RecordAttempt
  <2>4. [status |-> s, retryable |-> r.reply.retryable, response |-> r.reply.response]
          \in {row \in AttemptRow : row.status \notin {"none", "running"}}
    BY <2>2 DEF AttemptRow
  <2>5. QED
    BY <2>1, <2>3, <2>4, AttemptTransactions
<1>9. CASE StoreArtifact(w)
  BY <1>3, <1>9, AttemptTransactions DEF StoreArtifact, At, CasePcs
<1>10. CASE StopNode(w) \/ StopCoverage(w)
  BY <1>2, <1>10, NodeTransactions
     DEF StopNode, StopCoverage, At, Current, NodePc, TerminalNode, Reason
<1>11. CASE FailNode(w) \/ TransportCoverage(w)
  BY <1>2, <1>11, NodeTransactions
     DEF FailNode, TransportCoverage, At, Current, NodePc, TerminalNode, Reason
<1>12. CASE ContainNode(w) \/ ContainCoverage(w)
  <2>1. r.reason \in Reason /\ n \in Node
    BY <1>2, <1>12 DEF RunOK, ReasonPcs, ContainNode, ContainCoverage, At, NodePc
  <2>2. QED
    BY <1>12, <2>1, NodeTransactions DEF ContainNode, ContainCoverage, Current, TerminalNode
<1>13. CASE Compare(w) \/ PublishFinding(w) \/ PublishCoverage(w)
  BY <1>2, <1>13, NodeTransactions
     DEF Compare, PublishFinding, PublishCoverage, At, Current, NodePc, Reason
<1>14. CASE FinishNode(w) \/ FailEvaluation(w)
  BY <1>2, <1>14, NodeTransactions
     DEF FinishNode, FailEvaluation, At, Current, NodePc, TerminalNode, Reason
<1>15. QED
  BY <1>4, <1>5, <1>6, <1>7, <1>8, <1>9, <1>10, <1>11, <1>12, <1>13, <1>14 DEF ExecuteNodeStep

LEMMA WorkerStepIsStoreStep ==
  ASSUME NEW w \in Worker, RunOK(run[w]), WorkerStep(w)
  PROVE  LeasedNext(w) \/ UnleasedNext \/ UNCHANGED storeVars
<1> DEFINE r == run[w]
           n == run[w].i
<1>1. r.pc \in NodePcs => n \in Node
  BY DEF RunOK
<1>2. CASE PersistNode(w) \/ PersistBudget(w)
  <2>1. n \in Node
    BY <1>1, <1>2 DEF PersistNode, PersistBudget, At, NodePcs
  <2>2. QED
    BY <1>2, <2>1 DEF PersistNode, PersistBudget, Current, UnleasedNext
<1>3. CASE Acquire(w) \/ Close(w)
  BY <1>3, AssessmentTransactions DEF Acquire, Close
<1>4. CASE Reactivate(w)
  BY <1>4 DEF Reactivate, UnleasedNext
<1>5. CASE \/ PersistFails(w) \/ AcquireRefused(w) \/ ReactivateRefused(w) \/ Reload(w) \/ Load(w)
           \/ ScheduleEnds(w) \/ ScheduleLosesLease(w) \/ HandleNodeError(w) \/ MarkRefused(w)
           \/ FinalizeRefused(w) \/ SealLoad(w) \/ LeaseHeldByOther(w) \/ EnsureFails(w)
           \/ InterruptCtxFails(w)
  BY <1>5, Zenon DEF PersistFails, AcquireRefused, ReactivateRefused, Reload, Load, ScheduleEnds,
       ScheduleLosesLease, HandleNodeError, MarkRefused, FinalizeRefused, SealLoad,
       LeaseHeldByOther, EnsureFails, InterruptCtxFails
<1>6. CASE \/ PassDoneNode(w) \/ MeetInterruptedNode(w) \/ CancelScheduledNodes(w)
           \/ DispatchNode(w)
  BY <1>6, Zenon DEF PassDoneNode, MeetInterruptedNode, CancelScheduledNodes, DispatchNode, Scheduled
<1>7. CASE FailInterruptedNode(w) \/ CoverInterruptedNode(w)
  <2>1. n \in Node
    BY <1>1, <1>7 DEF FailInterruptedNode, CoverInterruptedNode, At, NodePcs
  <2>2. QED
    BY <1>7, <2>1, NodeTransactions
       DEF FailInterruptedNode, CoverInterruptedNode, Current, TerminalNode, Reason
<1>8. CASE MarkFinish(w) \/ MarkCoverage(w)
  <2>1. n \in Node /\ r.reason \in Reason
    BY <1>1, <1>8 DEF RunOK, ReasonPcs, MarkFinish, MarkCoverage, At, NodePcs
  <2>2. QED
    BY <1>8, <2>1, NodeTransactions DEF MarkFinish, MarkCoverage, Current, TerminalNode
<1>9. CASE Finalize(w)
  <2>1. r.result \in TerminalStatus
    BY DEF RunOK, RunRecord
  <2>2. QED
    BY <1>9, <2>1, AssessmentTransactions DEF Finalize
<1>10. CASE SealWrite(w)
  <2>1. r.signed \in SUBSET EvidenceRecord
    BY DEF RunOK, RunRecord
  <2>2. QED
    BY <1>10, <2>1, AssessmentTransactions DEF SealWrite
<1>11. CASE ExecuteNodeStep(w)
  BY <1>11, NodeStepIsStoreStep
<1>12. QED
  BY <1>2, <1>3, <1>4, <1>5, <1>6, <1>7, <1>8, <1>9, <1>10, <1>11 DEF WorkerStep

LEMMA StepIsStoreStep ==
  ASSUME RunInv, NEW w \in Worker,
         BeginRun(w) \/ ResumeLoads(w) \/ WorkerStep(w) \/ FaultStep(w)
  PROVE  LeasedNext(w) \/ UnleasedNext \/ UNCHANGED storeVars
<1>1. CASE BeginRun(w) \/ ResumeLoads(w)
  BY <1>1 DEF BeginRun, ResumeLoads, UnleasedNext
<1>2. CASE WorkerStep(w)
  BY <1>2, WorkerStepIsStoreStep DEF RunInv
<1>3. CASE PersistError(w)
  BY <1>3 DEF PersistError, UnleasedNext
<1>4. CASE HeartbeatFails(w) \/ Cancel(w) \/ Crash(w) \/ StoreError(w)
  BY <1>4, Zenon DEF HeartbeatFails, Cancel, Crash, StoreError
<1>5. QED
  BY <1>1, <1>2, <1>3, <1>4 DEF FaultStep

LEMMA NextIsStoreStep ==
  ASSUME RunInv, [Next]_vars
  PROVE  [StoreNext]_storeVars
<1>1. ASSUME NEW w \in Worker,
             BeginRun(w) \/ ResumeLoads(w) \/ WorkerStep(w) \/ FaultStep(w)
      PROVE  StoreNext \/ UNCHANGED storeVars
  BY <1>1, StepIsStoreStep DEF StoreNext, UnleasedNext
<1>2. CASE Expire
  BY <1>2 DEF Expire, StoreNext
<1>3. CASE UNCHANGED vars
  BY <1>3 DEF vars
<1>4. QED
  BY <1>1, <1>2, <1>3 DEF Next

-----------------------------------------------------------------------------
(* Every step keeps the memory of the invocations well formed. *)

LEMMA MovedIsOK ==
  ASSUME NEW r \in RunRecord, NEW p \in Pc,
         p \in NodePcs => r.i \in Node,
         p \in CasePcs => r.c \in Case,
         p \in ReasonPcs => r.reason \in Reason
  PROVE  RunOK([r EXCEPT !.pc = p])
  BY DEF RunOK, RunRecord

LEMMA IdleIsOK == RunOK(IdleRun) /\ RunOK(Closing)
<1>1. /\ 1 \in 1 .. NodeCount + 1
      /\ 0 \in 0 .. CaseCount
      /\ 0 \in 0 .. NodeCount
  BY StoreAssumption
<1>2. /\ "idle" \in Pc
      /\ "close" \in Pc
      /\ "succeeded" \in TerminalStatus
      /\ "" \in Reason
  BY DEF Pc, TerminalStatus, Reason
<1>3. RunOK(IdleRun)
  BY <1>1, <1>2, Zenon DEF IdleRun, RunRecord, RunOK, NodePcs, CasePcs, ReasonPcs, NodePc
<1>4. "close" \notin NodePcs /\ "close" \notin CasePcs /\ "close" \notin ReasonPcs
  BY DEF NodePcs, CasePcs, ReasonPcs, NodePc
<1>5. QED
  BY <1>2, <1>3, <1>4, MovedIsOK DEF Closing, RunOK

LEMMA ScheduledIsOK ==
  ASSUME NEW r \in RunRecord, NEW i \in 1 .. NodeCount + 1
  PROVE  RunOK(ScheduleFrom(r, i))
<1>1. /\ 0 \in 0 .. CaseCount
      /\ 0 \in 0 .. NodeCount
  BY StoreAssumption
<1>2. "top" \in Pc /\ "" \in Reason
  BY DEF Pc, Reason
<1>3. ScheduleFrom(r, i) \in RunRecord /\ ScheduleFrom(r, i).pc = "top"
  BY <1>1, <1>2, Zenon DEF RunRecord, ScheduleFrom
<1>4. QED
  BY <1>3, Zenon DEF RunOK, NodePcs, CasePcs, ReasonPcs, NodePc

LEMMA FinalizingIsOK ==
  ASSUME NEW r \in RunRecord
  PROVE  RunOK([IdleRun EXCEPT !.pc = "finalize", !.result = r.result, !.hb = r.hb])
<1> DEFINE f == [IdleRun EXCEPT !.pc = "finalize", !.result = r.result, !.hb = r.hb]
<1>1. r.result \in TerminalStatus /\ r.hb \in {"ok", "held", "error"}
  BY DEF RunRecord
<1>2. "finalize" \in Pc
  BY DEF Pc, FencedPc, EnsurePc
<1>3. f \in RunRecord /\ f.pc = "finalize"
  BY <1>1, <1>2, IdleIsOK, Zenon DEF RunOK, RunRecord, IdleRun
<1>4. QED
  BY <1>3, Zenon DEF RunOK, NodePcs, CasePcs, ReasonPcs, NodePc

LEMMA MarkedIsOK ==
  ASSUME NEW r \in RunRecord, r.reason \in Reason
  PROVE  RunOK(MarkOrFinalize(r))
<1>1. /\ r.i \in 1 .. NodeCount + 1
      /\ r.last \in 0 .. NodeCount
  BY DEF RunRecord
<1>2. CASE r.i <= r.last
  <2>1. r.i \in Node /\ "markFinish" \in Pc /\ "markFinish" \notin CasePcs
    BY <1>1, <1>2, StoreAssumption DEF Node, Pc, FencedPc, CasePcs
  <2>2. QED
    BY <1>2, <2>1, MovedIsOK DEF MarkOrFinalize
<1>3. CASE ~(r.i <= r.last) /\ r.i <= NodeCount
  BY <1>1, <1>3, ScheduledIsOK DEF MarkOrFinalize
<1>4. CASE ~(r.i <= r.last) /\ ~(r.i <= NodeCount)
  BY <1>4, FinalizingIsOK, Zenon DEF MarkOrFinalize
<1>5. QED
  BY <1>2, <1>3, <1>4

LEMMA RemainingIsOK ==
  ASSUME NEW r \in RunRecord, NEW first \in 1 .. NodeCount + 1, NEW reason \in Reason
  PROVE  RunOK(MarkRemaining(r, first, reason))
<1> DEFINE q == [r EXCEPT !.i = first, !.last = NodeCount, !.reason = reason, !.c = 0,
                          !.reply = NoReply]
<1>1. NodeCount \in 0 .. NodeCount /\ 0 \in 0 .. CaseCount
  BY StoreAssumption
<1>2. q \in RunRecord /\ q.reason = reason
  BY <1>1, Zenon DEF RunRecord
<1>3. QED
  BY <1>2, MarkedIsOK DEF MarkRemaining

LEMMA NextNodeIsOK ==
  ASSUME NEW r \in RunRecord, r.i \in Node
  PROVE  RunOK(NextNode(r))
<1>1. r.i + 1 \in 1 .. NodeCount + 1
  BY StoreAssumption DEF Node
<1>2. QED
  BY <1>1, ScheduledIsOK DEF NextNode

\* A step of w leaves the other invocations alone and its own well formed.
Kept(w) ==
  /\ \E r : RunOK(r) /\ run' = [run EXCEPT ![w] = r]
  /\ sent' \in [AttemptId -> Nat]
  /\ faults' \in 0 .. FaultLimit

LEMMA BecomeIsKept ==
  ASSUME RunInv, NEW w \in Worker, NEW r, RunOK(r), Become(w, r)
  PROVE  Kept(w)
  BY DEF RunInv, TypeOK, Become, Kept

LEMMA GotoIsKept ==
  ASSUME RunInv, NEW w \in Worker, NEW p \in Pc, Goto(w, p),
         p \in NodePcs => run[w].i \in Node,
         p \in CasePcs => run[w].c \in Case,
         p \in ReasonPcs => run[w].reason \in Reason
  PROVE  Kept(w)
<1>1. run[w] \in RunRecord
  BY DEF RunInv, RunOK
<1>2. QED
  BY <1>1, MovedIsOK, BecomeIsKept DEF Goto

\* A step inside executeNode that needs neither a case nor a reason.
LEMMA GotoInNode ==
  ASSUME RunInv, NEW w \in Worker, NEW p \in NodePc \ (CasePcs \cup ReasonPcs),
         run[w].pc \in NodePcs, Goto(w, p)
  PROVE  Kept(w)
<1>1. run[w].i \in Node
  BY DEF RunInv, RunOK
<1>2. p \in Pc
  BY DEF Pc
<1>3. QED
  BY <1>1, <1>2, GotoIsKept

LEMMA AfterEvidenceIsOK ==
  ASSUME NEW r \in RunRecord, r.i \in Node, r.c \in Case, NEW retry
  PROVE  RunOK(AfterEvidence(r, retry))
<1>1. CASE r.reply.limited
  <2>1. "stop" \in Pc /\ "stop" \notin CasePcs /\ "stop" \notin ReasonPcs
    BY DEF Pc, NodePc, CasePcs, ReasonPcs
  <2>2. QED
    BY <1>1, <2>1, MovedIsOK DEF AfterEvidence
<1>2. CASE ~r.reply.limited /\ r.reply.error
  <2>1. "fail" \in Pc /\ "fail" \notin CasePcs /\ "fail" \notin ReasonPcs
    BY DEF Pc, NodePc, CasePcs, ReasonPcs
  <2>2. QED
    BY <1>2, <2>1, MovedIsOK DEF AfterEvidence
<1>3. CASE ~r.reply.limited /\ ~r.reply.error /\ retry
  <2> DEFINE q == [r EXCEPT !.pc = "contain", !.reason = "retry completed"]
  <2>1. "contain" \in Pc /\ "contain" \notin CasePcs /\ "retry completed" \in Reason
    BY DEF Pc, NodePc, CasePcs, Reason
  <2>2. q \in RunRecord /\ q.pc = "contain" /\ q.i = r.i /\ q.reason = "retry completed"
    BY <2>1, Zenon DEF RunRecord
  <2>3. QED
    BY <1>3, <2>1, <2>2, Zenon DEF AfterEvidence, RunOK
<1>4. CASE ~r.reply.limited /\ ~r.reply.error /\ ~retry /\ r.c = CaseCount
  <2> DEFINE q == [r EXCEPT !.pc = "compare", !.reply = NoReply]
  <2>1. "compare" \in Pc /\ "compare" \notin CasePcs /\ "compare" \notin ReasonPcs
    BY DEF Pc, NodePc, CasePcs, ReasonPcs
  <2>2. q \in RunRecord /\ q.pc = "compare" /\ q.i = r.i
    BY <2>1, Zenon DEF RunRecord
  <2>3. QED
    BY <1>4, <2>1, <2>2, Zenon DEF AfterEvidence, RunOK
<1>5. CASE ~r.reply.limited /\ ~r.reply.error /\ ~retry /\ r.c # CaseCount
  <2> DEFINE q == [r EXCEPT !.pc = "reserve", !.c = @ + 1, !.reply = NoReply]
  <2>1. "reserve" \in Pc /\ "reserve" \notin ReasonPcs
    BY DEF Pc, NodePc, ReasonPcs
  <2>2. r.c + 1 \in Case /\ r.c + 1 \in 0 .. CaseCount
    BY <1>5, StoreAssumption DEF Case
  <2>3. q \in RunRecord /\ q.pc = "reserve" /\ q.i = r.i /\ q.c = r.c + 1
    BY <2>1, <2>2, Zenon DEF RunRecord
  <2>4. QED
    BY <1>5, <2>1, <2>2, <2>3, Zenon DEF AfterEvidence, RunOK
<1>6. QED
  BY <1>1, <1>2, <1>3, <1>4, <1>5

LEMMA NodeStepIsKept ==
  ASSUME RunInv, NEW w \in Worker, ExecuteNodeStep(w)
  PROVE  Kept(w)
<1> DEFINE r == run[w]
<1>1. r \in RunRecord /\ RunOK(r)
  BY DEF RunInv, RunOK
<1>2. r.pc \in NodePcs => r.i \in Node
  BY <1>1 DEF RunOK
<1>3. r.pc \in CasePcs => r.c \in Case
  BY <1>1 DEF RunOK
<1>4. NodePc \subseteq NodePcs
  BY DEF NodePcs
<1>5. CASE StartNode(w)
  <2> DEFINE c == IF IsRetry(w) THEN RetryCase(w) ELSE 1
             q == [r EXCEPT !.pc = "reserve", !.c = c]
  <2>1. r.i \in Node
    BY <1>2, <1>4, <1>5 DEF StartNode, At, NodePc
  <2>2. c \in Case /\ c \in 0 .. CaseCount
    <3>1. r.retry \in [Node -> 0 .. CaseCount]
      BY <1>1 DEF RunRecord
    <3>2. r.retry[r.i] \in 0 .. CaseCount
      BY <2>1, <3>1
    <3>3. QED
      BY <3>2, StoreAssumption DEF Case, IsRetry, RetryCase, Current
  <2>3. "reserve" \in Pc /\ "reserve" \notin ReasonPcs
    BY DEF Pc, NodePc, ReasonPcs
  <2> HIDE DEF c
  <2>4. q \in RunRecord /\ q.pc = "reserve" /\ q.i = r.i /\ q.c = c
    BY <1>1, <2>2, <2>3, Zenon DEF RunRecord
  <2>5. RunOK(q)
    BY <2>1, <2>2, <2>3, <2>4, Zenon DEF RunOK
  <2>6. Become(w, q)
    BY <1>5, Zenon DEF StartNode, c
  <2>7. QED
    BY <2>5, <2>6, BecomeIsKept
<1>6. CASE ReserveCase(w) \/ BeforeSend(w)
  <2>1. PICK p \in {"send", "inflight"} : Goto(w, p)
    BY <1>6 DEF ReserveCase, BeforeSend
  <2>2. r.i \in Node /\ r.c \in Case
    BY <1>2, <1>3, <1>4, <1>6 DEF ReserveCase, BeforeSend, At, NodePc, CasePcs
  <2>3. p \in Pc /\ p \notin ReasonPcs
    BY DEF Pc, NodePc, ReasonPcs
  <2>4. QED
    BY <2>1, <2>2, <2>3, GotoIsKept
<1>7. CASE ReserveRefused(w)
  <2> DEFINE q == [r EXCEPT !.pc = "missing", !.reason = RefusalReason(w)]
  <2>1. r.i \in Node /\ r.c \in Case
    BY <1>2, <1>3, <1>4, <1>7 DEF ReserveRefused, At, NodePc, CasePcs
  <2>2. RefusalReason(w) \in Reason \cup {"already reserved"}
    BY DEF RefusalReason, Reason
  <2>3. "missing" \in Pc /\ "missing" \notin ReasonPcs
    BY DEF Pc, NodePc, ReasonPcs
  <2>4. q \in RunRecord /\ q.pc = "missing" /\ q.i = r.i /\ q.c = r.c
    BY <1>1, <2>2, <2>3, Zenon DEF RunRecord
  <2>5. RunOK(q)
    BY <2>1, <2>3, <2>4, Zenon DEF RunOK
  <2>6. QED
    BY <1>7, <2>5, BecomeIsKept, Zenon DEF ReserveRefused
<1>8. CASE MissingAttempt(w)
  <2>1. r.i \in Node
    BY <1>2, <1>4, <1>8 DEF MissingAttempt, At, NodePc
  <2>2. CASE Goto(w, "error")
    BY <1>8, <2>2, GotoInNode
       DEF MissingAttempt, At, NodePc, NodePcs, CasePcs, ReasonPcs
  <2>3. CASE Goto(w, "close")
    <3>1. "close" \in Pc /\ "close" \notin NodePcs \cup CasePcs \cup ReasonPcs
      BY DEF Pc, NodePcs, NodePc, CasePcs, ReasonPcs
    <3>2. QED
      BY <2>3, <3>1, GotoIsKept
  <2>4. CASE Goto(w, "contain") /\ r.reason = "retry budget"
    <3>1. "contain" \in Pc /\ "contain" \notin CasePcs /\ r.reason \in Reason
      BY <2>4 DEF Pc, NodePc, CasePcs, Reason
    <3>2. QED
      BY <2>1, <2>4, <3>1, GotoIsKept
  <2>5. QED
    BY <1>8, <2>2, <2>3, <2>4, Zenon DEF MissingAttempt
<1>9. CASE NotSent(w) \/ Receive(w)
  <2>1. PICK reply \in Reply : Become(w, [r EXCEPT !.pc = "record", !.reply = reply])
    BY <1>9, Zenon DEF NotSent, Receive
  <2> DEFINE q == [r EXCEPT !.pc = "record", !.reply = reply]
  <2>2. r.i \in Node /\ r.c \in Case
    BY <1>2, <1>3, <1>4, <1>9 DEF NotSent, Receive, At, NodePc, CasePcs
  <2>3. "record" \in Pc /\ "record" \notin ReasonPcs
    BY DEF Pc, NodePc, ReasonPcs
  <2>4. q \in RunRecord /\ q.pc = "record" /\ q.i = r.i /\ q.c = r.c
    BY <1>1, <2>3, Zenon DEF RunRecord
  <2>5. RunOK(q)
    BY <2>2, <2>3, <2>4, Zenon DEF RunOK
  <2>6. QED
    BY <2>1, <2>5, BecomeIsKept
<1>10. CASE Send(w)
  <2>1. r.i \in Node /\ r.c \in Case
    BY <1>2, <1>3, <1>4, <1>10 DEF Send, At, NodePc, CasePcs
  <2>2. "awaiting" \in Pc /\ "awaiting" \notin ReasonPcs
    BY DEF Pc, NodePc, ReasonPcs
  <2>3. RunOK([r EXCEPT !.pc = "awaiting"])
    BY <1>1, <2>1, <2>2, MovedIsOK
  <2>4. run' = [run EXCEPT ![w] = [r EXCEPT !.pc = "awaiting"]]
    BY <1>10, Zenon DEF Send
  <2>5. sent' \in [AttemptId -> Nat]
    <3>1. sent \in [AttemptId -> Nat] /\ CurrentAttempt(w) \in AttemptId
      BY <2>1 DEF RunInv, TypeOK, CurrentAttempt, Current, AttemptId
    <3>2. sent' = [sent EXCEPT ![CurrentAttempt(w)] = sent[CurrentAttempt(w)] + 1]
      BY <1>10, Zenon DEF Send
    <3>3. QED
      BY <3>1, <3>2
  <2>6. faults' \in 0 .. FaultLimit
    BY <1>10 DEF Send, RunInv, TypeOK
  <2>7. QED
    BY <2>3, <2>4, <2>5, <2>6, Zenon DEF Kept
<1>11. CASE RecordAttempt(w) \/ StoreArtifact(w)
  <2>1. r.i \in Node /\ r.c \in Case
    BY <1>2, <1>3, <1>4, <1>11 DEF RecordAttempt, StoreArtifact, At, NodePc, CasePcs
  <2>2. "artifact" \in Pc /\ "artifact" \notin ReasonPcs
    BY DEF Pc, NodePc, ReasonPcs
  <2>3. RunOK([r EXCEPT !.pc = "artifact"])
    BY <1>1, <2>1, <2>2, MovedIsOK
  <2>4. RunOK(AfterEvidence(r, IsRetry(w)))
    BY <1>1, <2>1, AfterEvidenceIsOK
  <2>5. \/ Become(w, [r EXCEPT !.pc = "artifact"])
        \/ Become(w, AfterEvidence(r, IsRetry(w)))
    BY <1>11, Zenon DEF RecordAttempt, StoreArtifact
  <2>6. QED
    BY <2>3, <2>4, <2>5, BecomeIsKept
<1>12. CASE \/ StopNode(w) \/ FailNode(w) \/ Compare(w) \/ PublishFinding(w) \/ PublishCoverage(w)
            \/ FailEvaluation(w) \/ NodeCtxFails(w)
  <2>1. PICK p \in {"stopCoverage", "transportCoverage", "error", "finding", "evaluated", "finish",
                    "failEvaluation"} : Goto(w, p)
    BY <1>12, Zenon DEF StopNode, FailNode, Compare, PublishFinding, PublishCoverage, FailEvaluation,
                 NodeCtxFails, CtxFails
  <2>2. r.pc \in NodePcs
    BY <1>12 DEF StopNode, FailNode, Compare, PublishFinding, PublishCoverage, FailEvaluation,
                 NodeCtxFails, CtxFails, At, NodePcs, NodePc
  <2>3. p \in NodePc \ (CasePcs \cup ReasonPcs)
    BY DEF NodePc, CasePcs, ReasonPcs
  <2>4. QED
    BY <2>1, <2>2, <2>3, GotoInNode
<1>13. CASE StopCoverage(w)
  <2> DEFINE q == [r EXCEPT !.result = "failed", !.down[OriginOf[Current(w)]] = "limited"]
  <2>1. r.i \in Node
    BY <1>2, <1>4, <1>13 DEF StopCoverage, At, NodePc
  <2>2. r.down \in [Origin -> {"up", "limited", "unavailable"}]
    BY <1>1 DEF RunRecord
  <2>3. [r.down EXCEPT ![OriginOf[Current(w)]] = "limited"]
          \in [Origin -> {"up", "limited", "unavailable"}]
    BY <2>2
  <2>4. "failed" \in TerminalStatus
    BY DEF TerminalStatus
  <2>5. q \in RunRecord /\ q.i = r.i
    BY <1>1, <2>3, <2>4, Zenon DEF RunRecord
  <2>6. Become(w, NextNode(q))
    BY <1>13, Zenon DEF StopCoverage
  <2>7. QED
    BY <2>1, <2>5, <2>6, NextNodeIsOK, BecomeIsKept
<1>14. CASE TransportCoverage(w)
  <2> DEFINE q == [r EXCEPT !.pc = "error", !.reason = "target transport"]
  <2>1. r.i \in Node
    BY <1>2, <1>4, <1>14 DEF TransportCoverage, At, NodePc
  <2>2. /\ "error" \in Pc /\ "error" \notin CasePcs /\ "error" \notin ReasonPcs
        /\ "target transport" \in Reason
    BY DEF Pc, NodePc, CasePcs, ReasonPcs, Reason
  <2>3. q \in RunRecord /\ q.pc = "error" /\ q.i = r.i
    BY <1>1, <2>2, Zenon DEF RunRecord
  <2>4. RunOK(q)
    BY <2>1, <2>2, <2>3, Zenon DEF RunOK
  <2>5. QED
    BY <1>14, <2>4, BecomeIsKept, Zenon DEF TransportCoverage
<1>15. CASE ContainNode(w)
  <2>1. r.i \in Node /\ r.reason \in Reason
    BY <1>1, <1>15 DEF RunOK, ContainNode, At, NodePc, NodePcs, ReasonPcs
  <2>2. "containCoverage" \in Pc /\ "containCoverage" \notin CasePcs
    BY DEF Pc, NodePc, CasePcs
  <2>3. QED
    BY <1>15, <2>1, <2>2, GotoIsKept DEF ContainNode
<1>16. CASE ContainCoverage(w)
  <2> DEFINE q == [r EXCEPT !.result = "failed"]
  <2>1. r.i \in Node
    BY <1>2, <1>4, <1>16 DEF ContainCoverage, At, NodePc
  <2>2. "failed" \in TerminalStatus
    BY DEF TerminalStatus
  <2>3. q \in RunRecord /\ q.i = r.i
    BY <1>1, <2>2, Zenon DEF RunRecord
  <2>4. Become(w, NextNode(q))
    BY <1>16, Zenon DEF ContainCoverage
  <2>5. QED
    BY <2>1, <2>3, <2>4, NextNodeIsOK, BecomeIsKept
<1>17. CASE FinishNode(w)
  <2>1. r.i \in Node
    BY <1>2, <1>4, <1>17 DEF FinishNode, At, NodePc
  <2>2. QED
    BY <1>1, <1>17, <2>1, NextNodeIsOK, BecomeIsKept DEF FinishNode
<1>18. QED
  BY <1>5, <1>6, <1>7, <1>8, <1>9, <1>10, <1>11, <1>12, <1>13, <1>14, <1>15, <1>16, <1>17
     DEF ExecuteNodeStep

LEMMA RetrySourceIsCase == \A n \in Node : RetrySource(n) \in 0 .. CaseCount
<1> SUFFICES ASSUME NEW n \in Node PROVE RetrySource(n) \in 0 .. CaseCount
  OBVIOUS
<1> DEFINE sources == {c \in Case : /\ attempt[<<n, c, "first">>].status = "canceled"
                                    /\ attempt[<<n, c, "first">>].retryable
                                    /\ attempt[<<n, c, "retry">>].status = "none"}
<1>1. sources \subseteq Case
  OBVIOUS
<1>2. Cardinality({}) = 0
  BY FS_EmptySet
<1>3. RetrySource(n) = IF Cardinality(sources) = 1 THEN CHOOSE c \in sources : TRUE ELSE 0
  BY Zenon DEF RetrySource
<1> HIDE DEF sources
<1>4. CASE Cardinality(sources) = 1
  <2>1. sources # {}
    BY <1>2, <1>4
  <2>2. (CHOOSE c \in sources : TRUE) \in sources
    BY <2>1
  <2>3. RetrySource(n) \in Case
    BY <1>1, <1>3, <1>4, <2>2
  <2>4. QED
    BY <2>3, StoreAssumption DEF Case
<1>5. CASE Cardinality(sources) # 1
  BY <1>3, <1>5, StoreAssumption
<1>6. QED
  BY <1>4, <1>5

LEMMA LoadIsKept ==
  ASSUME RunInv, NEW w \in Worker, Load(w)
  PROVE  Kept(w)
<1> DEFINE r == run[w]
           todo == [n \in Node |-> Todo(n)]
           retry == [n \in Node |-> RetrySource(n)]
           down == [o \in Origin |-> OriginState(o)]
           q == [r EXCEPT !.pc = "top", !.i = 1, !.seen = "absent", !.todo = todo,
                          !.retry = retry, !.down = down, !.result = InitialResult]
<1>1. r \in RunRecord
  BY DEF RunInv, RunOK
<1>2. todo \in [Node -> {"done", "interrupted", "execute"}]
  BY DEF Todo
<1>3. retry \in [Node -> 0 .. CaseCount]
  BY RetrySourceIsCase
<1>4. down \in [Origin -> {"up", "limited", "unavailable"}]
  BY DEF OriginState
<1>5. InitialResult \in TerminalStatus /\ "top" \in Pc
  BY DEF InitialResult, TerminalStatus, Pc
<1>6. 1 \in 1 .. NodeCount + 1
  BY StoreAssumption
<1>7. Become(w, IF ~CtxLive(w) THEN Closing ELSE q)
  BY Zenon DEF Load
<1> HIDE DEF todo, retry, down
<1>8. q \in RunRecord /\ q.pc = "top"
  BY <1>1, <1>2, <1>3, <1>4, <1>5, <1>6, Zenon DEF RunRecord
<1>9. RunOK(q)
  BY <1>8, Zenon DEF RunOK, NodePcs, CasePcs, ReasonPcs, NodePc
<1>10. QED
  BY <1>7, <1>9, IdleIsOK, BecomeIsKept

LEMMA DispatchIsKept ==
  ASSUME RunInv, NEW w \in Worker, DispatchNode(w)
  PROVE  Kept(w)
<1> DEFINE r == run[w]
           limited == [r EXCEPT !.pc = "markFinish", !.last = Current(w),
                                !.reason = "origin rate limited", !.result = "failed"]
           unavailable == [r EXCEPT !.pc = "contain", !.reason = "origin unavailable"]
<1>1. r \in RunRecord
  BY DEF RunInv, RunOK
<1>2. r.i \in 1 .. NodeCount + 1
  BY <1>1 DEF RunRecord
<1>3. r.i \in Node /\ r.i \in 0 .. NodeCount
  BY <1>2, StoreAssumption DEF DispatchNode, Scheduled, Current, Node
<1>4. r.down[OriginOf[Current(w)]] \in {"up", "limited", "unavailable"}
  BY <1>1, <1>3, ExecutionAssumption DEF RunRecord, Current
<1>5. /\ {"start", "markFinish", "contain"} \subseteq Pc
      /\ "start" \notin CasePcs \cup ReasonPcs
      /\ "markFinish" \notin CasePcs
      /\ "contain" \notin CasePcs
      /\ {"origin rate limited", "origin unavailable"} \subseteq Reason
      /\ "failed" \in TerminalStatus
  BY DEF Pc, NodePc, FencedPc, CasePcs, ReasonPcs, Reason, TerminalStatus
<1>6. RunOK([r EXCEPT !.pc = "start"])
  BY <1>1, <1>3, <1>5, MovedIsOK
<1>7. RunOK(limited)
  <2>1. /\ limited \in RunRecord
        /\ limited.pc = "markFinish"
        /\ limited.i = r.i
        /\ limited.reason = "origin rate limited"
    BY <1>1, <1>3, <1>5, Zenon DEF RunRecord, Current
  <2>2. QED
    BY <1>3, <1>5, <2>1, Zenon DEF RunOK
<1>8. RunOK(unavailable)
  <2>1. /\ unavailable \in RunRecord
        /\ unavailable.pc = "contain"
        /\ unavailable.i = r.i
        /\ unavailable.reason = "origin unavailable"
    BY <1>1, <1>3, <1>5, Zenon DEF RunRecord
  <2>2. QED
    BY <1>3, <1>5, <2>1, Zenon DEF RunOK
<1>9. Become(w, CASE r.down[OriginOf[Current(w)]] = "up" -> [r EXCEPT !.pc = "start"]
                  [] r.down[OriginOf[Current(w)]] = "limited" -> limited
                  [] r.down[OriginOf[Current(w)]] = "unavailable" -> unavailable)
  BY Zenon DEF DispatchNode
<1> HIDE DEF limited, unavailable
<1>10. \/ Become(w, [r EXCEPT !.pc = "start"])
       \/ Become(w, limited)
       \/ Become(w, unavailable)
  BY <1>4, <1>9, Zenon
<1>11. QED
  BY <1>6, <1>7, <1>8, <1>10, BecomeIsKept

LEMMA NodeErrorIsKept ==
  ASSUME RunInv, NEW w \in Worker, HandleNodeError(w)
  PROVE  Kept(w)
<1> DEFINE r == run[w]
           canceled == [r EXCEPT !.result = "canceled"]
           failed == [r EXCEPT !.result = "failed"]
           down == [r.down EXCEPT ![OriginOf[Current(w)]] = "unavailable"]
           contained == [r EXCEPT !.result = "failed",
                                  !.down[OriginOf[Current(w)]] = "unavailable"]
<1>1. r \in RunRecord /\ RunOK(r) /\ r.pc = "error"
  BY DEF RunInv, RunOK, HandleNodeError, At
<1>2. r.i \in Node
  BY <1>1 DEF RunOK, NodePcs, NodePc
<1>3. r.i + 1 \in 1 .. NodeCount + 1
  BY <1>2, StoreAssumption DEF Node
<1>4. /\ {"canceled", "failed"} \subseteq TerminalStatus
      /\ {"assessment canceled", "execution error"} \subseteq Reason
  BY DEF TerminalStatus, Reason
<1>5. down \in [Origin -> {"up", "limited", "unavailable"}]
  BY <1>1 DEF RunRecord
<1>6. canceled \in RunRecord /\ failed \in RunRecord
  BY <1>1, <1>4, Zenon DEF RunRecord
<1>7. contained \in RunRecord /\ contained.i = r.i
  BY <1>1, <1>4, <1>5, Zenon DEF RunRecord
<1>8. r.ctx \in {"live", "canceled", "lost"}
  BY <1>1 DEF RunRecord
<1>9. Become(w,
        CASE r.ctx = "lost" -> Closing
          [] r.ctx = "canceled" -> MarkRemaining(canceled, Current(w) + 1, "assessment canceled")
          [] CtxLive(w) /\ r.reason = "target transport" -> NextNode(contained)
          [] CtxLive(w) /\ r.reason # "target transport" ->
               MarkRemaining(failed, Current(w) + 1, "execution error"))
  BY Zenon DEF HandleNodeError
<1> HIDE DEF canceled, failed, contained
<1>10. \/ Become(w, Closing)
       \/ Become(w, MarkRemaining(canceled, r.i + 1, "assessment canceled"))
       \/ Become(w, NextNode(contained))
       \/ Become(w, MarkRemaining(failed, r.i + 1, "execution error"))
  BY <1>8, <1>9, Zenon DEF CtxLive, Current
<1>11. /\ RunOK(MarkRemaining(canceled, r.i + 1, "assessment canceled"))
       /\ RunOK(MarkRemaining(failed, r.i + 1, "execution error"))
  BY <1>3, <1>4, <1>6, RemainingIsOK
<1>12. RunOK(NextNode(contained))
  BY <1>2, <1>7, NextNodeIsOK
<1>13. QED
  BY <1>10, <1>11, <1>12, IdleIsOK, BecomeIsKept

LEMMA WorkerStepIsKept ==
  ASSUME RunInv, NEW w \in Worker, WorkerStep(w)
  PROVE  Kept(w)
<1> DEFINE r == run[w]
<1>1. r \in RunRecord /\ RunOK(r)
  BY DEF RunInv, RunOK
<1>2. r.pc \in NodePcs => r.i \in Node
  BY <1>1 DEF RunOK
<1>3. r.i \in 1 .. NodeCount + 1
  BY <1>1 DEF RunRecord
<1>4. ASSUME Become(w, IdleRun) \/ Become(w, Closing)
      PROVE  Kept(w)
  BY <1>4, IdleIsOK, BecomeIsKept
<1>5. ASSUME NEW p \in {"acquire", "reactivate", "load", "reload", "close", "sealWrite"}, Goto(w, p)
      PROVE  Kept(w)
  <2>1. p \in Pc /\ p \notin NodePcs \cup CasePcs \cup ReasonPcs
    BY DEF Pc, FencedPc, NodePcs, NodePc, CasePcs, ReasonPcs
  <2>2. QED
    BY <1>5, <2>1, GotoIsKept
<1>6. CASE PersistNode(w)
  <2>1. r.i \in Node
    BY <1>2, <1>6 DEF PersistNode, At, NodePcs
  <2>2. "budget" \in Pc /\ "budget" \notin CasePcs \cup ReasonPcs
    BY DEF Pc, CasePcs, ReasonPcs
  <2>3. QED
    BY <1>6, <2>1, <2>2, GotoIsKept DEF PersistNode
<1>7. CASE PersistBudget(w)
  <2> DEFINE q == [r EXCEPT !.pc = "acquire", !.i = 1]
             p == [r EXCEPT !.pc = "persist", !.i = @ + 1]
  <2>1. r.i \in Node
    BY <1>2, <1>7 DEF PersistBudget, At, NodePcs
  <2>2. 1 \in 1 .. NodeCount + 1 /\ r.i + 1 \in 1 .. NodeCount + 1
    BY <2>1, StoreAssumption DEF Node
  <2>3. r.i # NodeCount => r.i + 1 \in Node
    BY <2>1, StoreAssumption DEF Node
  <2>4. /\ "acquire" \in Pc /\ "acquire" \notin NodePcs \cup CasePcs \cup ReasonPcs
        /\ "persist" \in Pc /\ "persist" \notin CasePcs \cup ReasonPcs
    BY DEF Pc, NodePcs, NodePc, CasePcs, ReasonPcs
  <2>5. q \in RunRecord /\ q.pc = "acquire"
    BY <1>1, <2>2, <2>4, Zenon DEF RunRecord
  <2>6. p \in RunRecord /\ p.pc = "persist" /\ p.i = r.i + 1
    BY <1>1, <2>2, <2>4, Zenon DEF RunRecord
  <2>7. RunOK(q) /\ (r.i # NodeCount => RunOK(p))
    BY <2>3, <2>4, <2>5, <2>6, Zenon DEF RunOK
  <2>8. Become(w, IF r.i = NodeCount THEN q ELSE p)
    BY <1>7, Zenon DEF PersistBudget, Current
  <2> HIDE DEF q, p
  <2>9. QED
    BY <2>7, <2>8, BecomeIsKept
<1>8. CASE \/ PersistFails(w) \/ AcquireRefused(w) \/ ReactivateRefused(w) \/ ScheduleLosesLease(w)
           \/ MarkRefused(w) \/ FinalizeRefused(w) \/ SealWrite(w) \/ Close(w)
           \/ LeaseHeldByOther(w) \/ InterruptCtxFails(w)
  BY <1>4, <1>8, Zenon DEF PersistFails, AcquireRefused, ReactivateRefused, ScheduleLosesLease,
       MarkRefused, FinalizeRefused, SealWrite, Close, LeaseHeldByOther, InterruptCtxFails
<1>9. CASE Acquire(w) \/ Reactivate(w)
  <2>1. Goto(w, "reactivate") \/ Goto(w, "load") \/ Goto(w, "reload")
    BY <1>9, Zenon DEF Acquire, Reactivate
  <2>2. QED
    BY <1>5, <2>1
<1>10. CASE Reload(w)
  <2>1. Goto(w, "load") \/ Become(w, Closing)
    BY <1>10, Zenon DEF Reload, Goto
  <2>2. QED
    BY <1>4, <1>5, <2>1
<1>11. CASE ScheduleEnds(w)
  <2>1. MarkOrFinalize(r) = [IdleRun EXCEPT !.pc = "finalize", !.result = r.result, !.hb = r.hb]
    <3>1. r.last \in 0 .. NodeCount
      BY <1>1 DEF RunRecord
    <3>2. ~(r.i <= r.last) /\ ~(r.i <= NodeCount)
      BY <1>3, <1>11, <3>1, StoreAssumption DEF ScheduleEnds, Current
    <3>3. QED
      BY <3>2, Zenon DEF MarkOrFinalize
  <2>2. RunOK(MarkOrFinalize(r))
    BY <1>1, <2>1, FinalizingIsOK
  <2>3. QED
    BY <1>11, <2>2, BecomeIsKept DEF ScheduleEnds
<1>12. ASSUME NEW t, Scheduled(w, t)
       PROVE  r.i \in Node /\ r.pc = "top"
  BY <1>3, <1>12, StoreAssumption DEF Scheduled, At, Current, Node
<1>13. CASE PassDoneNode(w)
  BY <1>1, <1>12, <1>13, NextNodeIsOK, BecomeIsKept DEF PassDoneNode
<1>14. CASE MeetInterruptedNode(w) \/ FailInterruptedNode(w)
  <2>1. r.i \in Node
    BY <1>2, <1>12, <1>14 DEF MeetInterruptedNode, FailInterruptedNode, At, NodePcs
  <2>2. PICK p \in {"interrupt", "interruptCoverage"} : Goto(w, p)
    BY <1>14 DEF MeetInterruptedNode, FailInterruptedNode
  <2>3. p \in Pc /\ p \notin CasePcs \cup ReasonPcs
    BY DEF Pc, FencedPc, CtxPc, CasePcs, ReasonPcs
  <2>4. QED
    BY <2>1, <2>2, <2>3, GotoIsKept
<1>15. CASE CoverInterruptedNode(w)
  <2> DEFINE q == [r EXCEPT !.result = "failed"]
  <2>1. r.i \in Node
    BY <1>2, <1>15 DEF CoverInterruptedNode, At, NodePcs
  <2>2. "failed" \in TerminalStatus
    BY DEF TerminalStatus
  <2>3. q \in RunRecord /\ q.i = r.i
    BY <1>1, <2>2, Zenon DEF RunRecord
  <2>4. Become(w, NextNode(q))
    BY <1>15, Zenon DEF CoverInterruptedNode
  <2>5. QED
    BY <2>1, <2>3, <2>4, NextNodeIsOK, BecomeIsKept
<1>16. CASE CancelScheduledNodes(w)
  <2> DEFINE q == [r EXCEPT !.result = "canceled"]
  <2>1. "canceled" \in TerminalStatus /\ "assessment canceled" \in Reason
    BY DEF TerminalStatus, Reason
  <2>2. q \in RunRecord
    BY <1>1, <2>1, Zenon DEF RunRecord
  <2>3. RunOK(MarkRemaining(q, r.i, "assessment canceled"))
    BY <1>3, <2>1, <2>2, RemainingIsOK
  <2>4. Become(w, MarkRemaining(q, r.i, "assessment canceled"))
    BY <1>16, Zenon DEF CancelScheduledNodes, Current
  <2>5. QED
    BY <2>3, <2>4, BecomeIsKept
<1>17. CASE MarkFinish(w)
  <2>1. r.i \in Node /\ r.reason \in Reason
    BY <1>1, <1>17 DEF RunOK, MarkFinish, At, NodePcs, ReasonPcs
  <2>2. "markCoverage" \in Pc /\ "markCoverage" \notin CasePcs
    BY DEF Pc, FencedPc, CasePcs
  <2>3. QED
    BY <1>17, <2>1, <2>2, GotoIsKept DEF MarkFinish
<1>18. CASE MarkCoverage(w)
  <2> DEFINE q == [r EXCEPT !.i = @ + 1]
  <2>1. r.i \in Node /\ r.reason \in Reason
    BY <1>1, <1>18 DEF RunOK, MarkCoverage, At, NodePcs, ReasonPcs
  <2>2. r.i + 1 \in 1 .. NodeCount + 1
    BY <2>1, StoreAssumption DEF Node
  <2>3. q \in RunRecord /\ q.reason = r.reason
    BY <1>1, <2>2, Zenon DEF RunRecord
  <2>4. Become(w, MarkOrFinalize(q))
    BY <1>18, Zenon DEF MarkCoverage
  <2>5. QED
    BY <2>1, <2>3, <2>4, MarkedIsOK, BecomeIsKept
<1>19. CASE Finalize(w)
  <2> DEFINE q == [IdleRun EXCEPT !.pc = "sealLoad", !.hb = r.hb]
  <2>1. "sealLoad" \in Pc /\ "sealLoad" \notin NodePcs \cup CasePcs \cup ReasonPcs
    BY DEF Pc, FencedPc, EnsurePc, NodePcs, NodePc, CasePcs, ReasonPcs
  <2>2. r.hb \in {"ok", "held", "error"} /\ IdleRun \in RunRecord
    BY <1>1, IdleIsOK DEF RunOK, RunRecord
  <2>3. q \in RunRecord /\ q.pc = "sealLoad"
    BY <2>1, <2>2, Zenon DEF RunRecord, IdleRun
  <2>4. RunOK(q)
    BY <2>1, <2>3, Zenon DEF RunOK
  <2>5. QED
    BY <1>19, <2>4, BecomeIsKept, Zenon DEF Finalize
<1>20. CASE SealLoad(w)
  <2> DEFINE q == [r EXCEPT !.pc = "sealWrite", !.signed = {Evidence}]
  <2>1. "sealWrite" \in Pc /\ "sealWrite" \notin NodePcs \cup CasePcs \cup ReasonPcs
    BY DEF Pc, FencedPc, NodePcs, NodePc, CasePcs, ReasonPcs
  <2>2. Evidence \in EvidenceRecord
    BY DEF RunInv, TypeOK, StoreTypeOK, Evidence, EvidenceRecord
  <2>3. q \in RunRecord /\ q.pc = "sealWrite"
    BY <1>1, <2>1, <2>2, Zenon DEF RunRecord
  <2>4. RunOK(q)
    BY <2>1, <2>3, Zenon DEF RunOK
  <2>5. Become(w, Closing) \/ Become(w, q)
    BY <1>20, Zenon DEF SealLoad
  <2>6. QED
    BY <1>4, <2>4, <2>5, BecomeIsKept
<1>21. CASE EnsureFails(w)
  <2>1. CASE Become(w, Closing)
    BY <1>4, <2>1
  <2>2. CASE InNode(w) /\ Goto(w, "error")
    <3>1. "error" \in NodePc \ (CasePcs \cup ReasonPcs) /\ r.pc \in NodePcs
      BY <2>2 DEF NodePc, CasePcs, ReasonPcs, InNode, NodePcs
    <3>2. QED
      BY <2>2, <3>1, GotoInNode
  <2>3. QED
    BY <1>21, <2>1, <2>2, Zenon DEF EnsureFails, Goto
<1>22. QED
  BY <1>6, <1>7, <1>8, <1>9, <1>10, <1>11, <1>13, <1>14, <1>15, <1>16, <1>17, <1>18, <1>19,
     <1>20, <1>21, LoadIsKept, DispatchIsKept, NodeErrorIsKept, NodeStepIsKept DEF WorkerStep

LEMMA StoreErrorIsKept ==
  ASSUME RunInv, NEW w \in Worker, StoreError(w)
  PROVE  Kept(w)
<1> DEFINE r == run[w]
           reply == [NoReply EXCEPT !.error = TRUE, !.retryable = TRUE]
           unsent == [r EXCEPT !.pc = "record", !.reply = reply]
<1>1. r \in RunRecord /\ RunOK(r)
  BY DEF RunInv, RunOK
<1>2. r.pc \in NodePc => r.i \in Node
  BY <1>1 DEF RunOK, NodePcs
<1>3. r.pc \in CasePcs => r.c \in Case
  BY <1>1 DEF RunOK
<1>4. \/ run' = [run EXCEPT ![w] = IdleRun]
      \/ r.pc = "reserve" /\ run' = [run EXCEPT ![w] = [r EXCEPT !.pc = "missing"]]
      \/ r.pc = "send" /\ run' = [run EXCEPT ![w] = unsent]
      \/ /\ r.pc \in {"compare", "finding", "evaluated"}
         /\ run' = [run EXCEPT ![w] = [r EXCEPT !.pc = "failEvaluation"]]
      \/ r.pc \in NodePc /\ run' = [run EXCEPT ![w] = [r EXCEPT !.pc = "error"]]
      \/ run' = [run EXCEPT ![w] = Closing]
  BY Zenon DEF StoreError, AfterStoreError, At, InNode
<1>5. /\ {"missing", "record", "failEvaluation", "error"} \subseteq Pc
      /\ {"missing", "record", "failEvaluation", "error"} \cap ReasonPcs = {}
      /\ {"failEvaluation", "error"} \cap CasePcs = {}
  BY DEF Pc, NodePc, CasePcs, ReasonPcs
<1>6. \E q : RunOK(q) /\ run' = [run EXCEPT ![w] = q]
  <2>1. CASE run' = [run EXCEPT ![w] = IdleRun] \/ run' = [run EXCEPT ![w] = Closing]
    BY <2>1, IdleIsOK
  <2>2. CASE r.pc = "reserve" /\ run' = [run EXCEPT ![w] = [r EXCEPT !.pc = "missing"]]
    <3>1. r.i \in Node /\ r.c \in Case
      BY <1>2, <1>3, <2>2 DEF NodePc, CasePcs
    <3>2. RunOK([r EXCEPT !.pc = "missing"])
      BY <1>1, <1>5, <3>1, MovedIsOK
    <3>3. QED
      BY <2>2, <3>2, Zenon
  <2>3. CASE r.pc = "send" /\ run' = [run EXCEPT ![w] = unsent]
    <3>1. r.i \in Node /\ r.c \in Case
      BY <1>2, <1>3, <2>3 DEF NodePc, CasePcs
    <3>2. reply \in Reply
      BY DEF Reply, NoReply
    <3> HIDE DEF reply
    <3>3. unsent \in RunRecord /\ unsent.pc = "record" /\ unsent.i = r.i /\ unsent.c = r.c
      BY <1>1, <1>5, <3>2, Zenon DEF RunRecord
    <3>4. RunOK(unsent)
      BY <1>5, <3>1, <3>3, Zenon DEF RunOK
    <3>5. QED
      BY <2>3, <3>4, Zenon
  <2>4. CASE /\ r.pc \in {"compare", "finding", "evaluated"}
             /\ run' = [run EXCEPT ![w] = [r EXCEPT !.pc = "failEvaluation"]]
    <3>1. r.i \in Node
      BY <1>2, <2>4 DEF NodePc
    <3>2. RunOK([r EXCEPT !.pc = "failEvaluation"])
      BY <1>1, <1>5, <3>1, MovedIsOK
    <3>3. QED
      BY <2>4, <3>2, Zenon
  <2>5. CASE r.pc \in NodePc /\ run' = [run EXCEPT ![w] = [r EXCEPT !.pc = "error"]]
    <3>1. RunOK([r EXCEPT !.pc = "error"])
      BY <1>1, <1>2, <1>5, <2>5, MovedIsOK
    <3>2. QED
      BY <2>5, <3>1, Zenon
  <2>6. QED
    BY <1>4, <2>1, <2>2, <2>3, <2>4, <2>5
<1>7. sent' \in [AttemptId -> Nat]
  BY Zenon DEF StoreError, RunInv, TypeOK
<1>8. Fault
  BY Zenon DEF StoreError
<1>9. faults' \in 0 .. FaultLimit
  BY <1>8, ExecutionAssumption DEF Fault, RunInv, TypeOK
<1>10. QED
  BY <1>6, <1>7, <1>9, Zenon DEF Kept

LEMMA FaultStepIsKept ==
  ASSUME RunInv, NEW w \in Worker, FaultStep(w)
  PROVE  Kept(w)
<1> DEFINE r == run[w]
<1>1. r \in RunRecord /\ RunOK(r)
  BY DEF RunInv, RunOK
<1>2. ASSUME Fault \/ UNCHANGED faults
      PROVE  faults' \in 0 .. FaultLimit
  <2>1. faults \in 0 .. FaultLimit
    BY DEF RunInv, TypeOK
  <2>2. CASE Fault
    BY <2>1, <2>2, ExecutionAssumption DEF Fault
  <2>3. CASE UNCHANGED faults
    BY <2>1, <2>3
  <2>4. QED
    BY <1>2, <2>2, <2>3
<1>3. ASSUME UNCHANGED sent
      PROVE  sent' \in [AttemptId -> Nat]
  BY <1>3 DEF RunInv, TypeOK
<1>4. ASSUME NEW q, RunOK(q), run' = [run EXCEPT ![w] = q],
             Fault \/ UNCHANGED faults, UNCHANGED sent
      PROVE  Kept(w)
  BY <1>2, <1>3, <1>4, Zenon DEF Kept
<1>5. CASE Crash(w) \/ PersistError(w)
  <2>1. run' = [run EXCEPT ![w] = IdleRun] /\ Fault /\ UNCHANGED sent
    BY <1>5, Zenon DEF Crash, PersistError
  <2>2. QED
    BY <1>4, <2>1, IdleIsOK
<1>6. CASE Cancel(w)
  <2> DEFINE q == [r EXCEPT !.ctx = "canceled"]
  <2>1. q \in RunRecord /\ q.pc = r.pc /\ q.i = r.i /\ q.c = r.c /\ q.reason = r.reason
    BY <1>1, Zenon DEF RunRecord
  <2>2. RunOK(q)
    BY <1>1, <2>1, Zenon DEF RunOK
  <2>3. run' = [run EXCEPT ![w] = q] /\ Fault /\ UNCHANGED sent
    BY <1>6, Zenon DEF Cancel
  <2>4. QED
    BY <1>4, <2>2, <2>3
<1>7. CASE HeartbeatFails(w)
  <2> DEFINE hb == IF Fenced(w) THEN "error" ELSE "held"
             ctx == IF CtxLive(w) THEN "lost" ELSE r.ctx
             q == [r EXCEPT !.hb = hb, !.ctx = ctx]
  <2>1. r.ctx \in {"live", "canceled", "lost"}
    BY <1>1 DEF RunRecord
  <2>2. hb \in {"ok", "held", "error"} /\ ctx \in {"live", "canceled", "lost"}
    BY <2>1
  <2>3. run' = [run EXCEPT ![w].hb = hb, ![w].ctx = IF CtxLive(w) THEN "lost" ELSE @]
    BY <1>7, Zenon DEF HeartbeatFails
  <2>4. run \in [Worker -> RunRecord]
    BY DEF RunInv, TypeOK
  <2>5. run' = [run EXCEPT ![w] = q]
    BY <2>3, <2>4
  <2> HIDE DEF hb, ctx
  <2>6. q \in RunRecord /\ q.pc = r.pc /\ q.i = r.i /\ q.c = r.c /\ q.reason = r.reason
    BY <1>1, <2>2, Zenon DEF RunRecord
  <2>7. RunOK(q)
    BY <1>1, <2>6, Zenon DEF RunOK
  <2>8. (Fault \/ UNCHANGED faults) /\ UNCHANGED sent
    BY <1>7, Zenon DEF HeartbeatFails
  <2>9. QED
    BY <1>4, <2>5, <2>7, <2>8
<1>8. CASE StoreError(w)
  BY <1>8, StoreErrorIsKept
<1>9. QED
  BY <1>5, <1>6, <1>7, <1>8 DEF FaultStep

LEMMA RunInvStep == RunInv /\ [Next]_vars => RunInv'
<1> SUFFICES ASSUME RunInv, [Next]_vars
             PROVE  RunInv'
  OBVIOUS
<1>1. StoreTypeOK'
  <2>1. StoreTypeOK /\ [StoreNext]_storeVars
    BY NextIsStoreStep DEF RunInv, TypeOK
  <2>2. QED
    BY <2>1, StoreTypeStep
<1>2. ASSUME NEW w \in Worker, Kept(w)
      PROVE  RunInv'
  <2>1. PICK r : RunOK(r) /\ run' = [run EXCEPT ![w] = r]
    BY <1>2 DEF Kept
  <2>2. run \in [Worker -> RunRecord] /\ r \in RunRecord
    BY <2>1 DEF RunInv, TypeOK, RunOK
  <2>3. run' \in [Worker -> RunRecord]
    BY <2>1, <2>2
  <2>4. \A v \in Worker : run'[v] = IF v = w THEN r ELSE run[v]
    BY <2>1, <2>2
  <2>5. \A v \in Worker : RunOK(run[v])
    BY DEF RunInv
  <2>6. \A v \in Worker : RunOK(run'[v])
    BY <2>1, <2>4, <2>5
  <2>7. sent' \in [AttemptId -> Nat] /\ faults' \in 0 .. FaultLimit
    BY <1>2, Zenon DEF Kept
  <2>8. TypeOK'
    BY <1>1, <2>3, <2>7, Zenon DEF TypeOK, RunRecord, Pc, EvidenceRecord
  <2>9. QED
    BY <2>6, <2>8, Zenon DEF RunInv, RunOK
<1>3. ASSUME NEW w \in Worker, BeginRun(w) \/ ResumeLoads(w)
      PROVE  RunInv'
  <2> DEFINE b == [IdleRun EXCEPT !.pc = "persist", !.seen = "running"]
             l == [IdleRun EXCEPT !.pc = "acquire", !.seen = status]
  <2>1. IdleRun \in RunRecord /\ IdleRun.i = 1
    BY IdleIsOK DEF RunOK, IdleRun
  <2>2. 1 \in Node
    BY StoreAssumption DEF Node
  <2>3. /\ "persist" \in Pc /\ "persist" \notin CasePcs \cup ReasonPcs
        /\ "acquire" \in Pc /\ "acquire" \notin NodePcs \cup CasePcs \cup ReasonPcs
    BY DEF Pc, NodePcs, NodePc, CasePcs, ReasonPcs
  <2>4. CASE BeginRun(w)
    <3>1. b \in RunRecord /\ b.pc = "persist" /\ b.i = 1
      BY <2>1, <2>3, Zenon DEF RunRecord, IdleRun
    <3>2. RunOK(b)
      BY <2>2, <2>3, <3>1, Zenon DEF RunOK
    <3>3. Become(w, b)
      BY <2>4, Zenon DEF BeginRun
    <3>4. QED
      BY <1>2, <3>2, <3>3, BecomeIsKept
  <2>5. CASE ResumeLoads(w)
    <3>1. status \in {"absent", "running", "canceled"}
      BY <2>5 DEF ResumeLoads
    <3>2. l \in RunRecord /\ l.pc = "acquire"
      BY <2>1, <2>3, <3>1, Zenon DEF RunRecord, IdleRun
    <3>3. RunOK(l)
      BY <2>3, <3>2, Zenon DEF RunOK
    <3>4. Become(w, l)
      BY <2>5, Zenon DEF ResumeLoads
    <3>5. QED
      BY <1>2, <3>3, <3>4, BecomeIsKept
  <2>6. QED
    BY <1>3, <2>4, <2>5
<1>4. ASSUME NEW w \in Worker, WorkerStep(w) \/ FaultStep(w)
      PROVE  RunInv'
  BY <1>2, <1>4, WorkerStepIsKept, FaultStepIsKept
<1>5. ASSUME UNCHANGED <<run, sent>>, faults' \in 0 .. FaultLimit
      PROVE  RunInv'
  <2>1. TypeOK'
    BY <1>1, <1>5, Zenon DEF RunInv, TypeOK, RunRecord, Pc, EvidenceRecord
  <2>2. QED
    BY <1>5, <2>1, Zenon DEF RunInv, RunOK
<1>6. CASE Expire
  <2>1. faults \in 0 .. FaultLimit
    BY DEF RunInv, TypeOK
  <2>2. UNCHANGED <<run, sent>> /\ (Fault \/ UNCHANGED faults)
    BY <1>6 DEF Expire
  <2>3. CASE Fault
    BY <1>5, <2>1, <2>2, <2>3, ExecutionAssumption DEF Fault
  <2>4. CASE UNCHANGED faults
    BY <1>5, <2>1, <2>2, <2>4
  <2>5. QED
    BY <2>2, <2>3, <2>4
<1>7. CASE UNCHANGED vars
  <2>1. UNCHANGED <<run, sent, faults>> /\ faults \in 0 .. FaultLimit
    BY <1>7 DEF vars, RunInv, TypeOK
  <2>2. QED
    BY <1>5, <2>1
<1>8. QED
  BY <1>3, <1>4, <1>6, <1>7 DEF Next

LEMMA RunInvInit == Init => RunInv
<1> SUFFICES ASSUME Init PROVE RunInv
  OBVIOUS
<1>1. StoreTypeOK
  BY StoreInvInit DEF Init, StoreInv
<1>2. RunOK(IdleRun) /\ IdleRun \in RunRecord
  BY IdleIsOK DEF RunOK
<1>3. run \in [Worker -> RunRecord] /\ \A w \in Worker : run[w] = IdleRun
  BY <1>2 DEF Init
<1>4. sent \in [AttemptId -> Nat]
  BY DEF Init
<1>5. faults \in 0 .. FaultLimit
  BY ExecutionAssumption DEF Init
<1>6. QED
  BY <1>1, <1>2, <1>3, <1>4, <1>5 DEF RunInv, TypeOK

-----------------------------------------------------------------------------
(* The theorems. *)

THEOREM RunInvariant == Spec => []RunInv
  BY RunInvInit, RunInvStep, PTL DEF Spec

\* The memory of every invocation and every row keep their types, for any
\* number of invocations, nodes, cases and faults (Run and Resume).
THEOREM ExecutionTypeCorrect == Spec => []TypeOK
  BY RunInvariant, PTL DEF RunInv

\* The runtime is a client of the store: Run and Resume change the assessment
\* only by its transactions, each under the guard it states.
THEOREM ExecutionUsesStore == Spec => StoreSpec
<1>1. Init => StoreInit
  BY DEF Init
<1>2. RunInv /\ [Next]_vars => [StoreNext]_storeVars
  BY NextIsStoreStep
<1>3. QED
  BY <1>1, <1>2, RunInvariant, PTL DEF Spec, StoreSpec

\* Every budget is charged once per attempt and never exceeded, under every
\* interleaving, crash and resumption (Reserve).
THEOREM ExecutionBudget == Spec => []BudgetIsExact
  BY ExecutionUsesStore, StoreBudget, PTL

\* Whatever was interrupted, only an attempt with proof of no side effect is
\* ever retried (beginAssessmentRetryAttempt).
THEOREM ExecutionRetry == Spec => []RetryIsJustified
  BY ExecutionUsesStore, StoreRetry, PTL

\* A node waiting to be executed has no attempt, or the one that proves it had
\* no side effect (ReactivateCanceledAssessment, resolveScheduledNode).
THEOREM ExecutionQueue == Spec => []QueuedNodeIsSafe
  BY ExecutionUsesStore, StoreQueue, PTL

\* No interleaving of invocations rewrites a completed attempt or a terminal
\* node, except by reactivating a sealed cancellation (the guards of
\* FinishPlanNodeWithLease and FinishAssessmentAttemptWithLease).
THEOREM ExecutionOutcomes == Spec => OutcomesAreFinal
<1>1. RunInv /\ StoreInv /\ [Next]_vars => [OutcomesKept]_vars
  BY NextIsStoreStep, OutcomeStep
<1>2. QED
  BY <1>1, RunInvariant, ExecutionUsesStore, StoreInvariant, PTL DEF Spec, OutcomesAreFinal

=============================================================================
