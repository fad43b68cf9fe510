---------------------- MODULE ExecutionSequential_proofs ----------------------
(***************************************************************************)
(* What the runtime promises when its invocations come one after another,  *)
(* each free to crash, be canceled, lose its lease or meet store errors:   *)
(* the seal signs what is stored, a success hides no failure, and the      *)
(* assessment moves only as AssessmentLifecycle allows.  The hypothesis is *)
(* needed: Resume reads the status before it holds the lease, and two      *)
(* invocations that compete can break the first two promises (the runs     *)
(* stale_resume_breaks_seal and reactivation_without_fence).               *)
(***************************************************************************)
EXTENDS ExecutionSafety_proofs

\* One invocation at a time: who starts the next one is who ran the last.
OneInvocation == \A v, w \in Worker : v = w

-----------------------------------------------------------------------------
(* The seal. *)

\* Where the assessment is running.
RunningPcs == LoadedPcs \cup {"persist", "budget", "load", "finalize"}

SealOK(w) ==
  /\ run[w].pc \in RunningPcs => status = "running"
  /\ run[w].pc \in {"persist", "budget"} => run[w].seen = "running"
  /\ run[w].pc = "acquire" => run[w].seen = status /\ status \in {"running", "canceled"}
  /\ run[w].pc = "reactivate" => status = "canceled"
  /\ run[w].pc \in {"sealLoad", "sealWrite"} => seal = {} /\ status \in TerminalStatus
  /\ run[w].pc = "sealWrite" => run[w].signed = {Evidence}

SealInv ==
  /\ status \in {"absent", "running"} => seal = {}
  /\ SealMatchesEvidence
  /\ \A w \in Worker : SealOK(w)

\* A step inside the schedule stays in it, or leaves to finalize or to close.
LEMMA ScheduleTargets ==
  ASSUME RunInv, NEW w \in Worker, Schedules(w)
  PROVE  run[w].pc \in LoadedPcs /\ run'[w].pc \in LoadedPcs \cup {"finalize", "close"}
<1> USE DEF LoadedPcs, NodePc
<1>1. CASE \/ PassDoneNode(w) \/ MeetInterruptedNode(w) \/ FailInterruptedNode(w)
           \/ CoverInterruptedNode(w) \/ MarkFinish(w)
  BY <1>1, ScheduleMoves DEF Steps, Onward
<1>2. CASE CancelScheduledNodes(w)
  BY <1>2, ScheduleMoves DEF MarksFrom, CancelScheduledNodes
<1>3. CASE DispatchNode(w)
  <2>1. run[w].pc = "top"
    BY <1>3, ScheduleMoves DEF DispatchNode
  <2>2. QED
    BY <1>3, <2>1, DispatchMoves DEF Steps, MarksFrom
<1>4. CASE HandleNodeError(w)
  BY <1>4, ErrorMoves, IdleFields DEF Onward, MarksFrom
<1>5. CASE MarkCoverage(w)
  BY <1>5, MarkMoves DEF Onward, MarksFrom
<1>6. QED
  BY <1>1, <1>2, <1>3, <1>4, <1>5 DEF Schedules

LEMMA NodeStepTargets ==
  ASSUME RunInv, NEW w \in Worker, ExecuteNodeStep(w)
  PROVE  run[w].pc \in LoadedPcs /\ run'[w].pc \in LoadedPcs \cup {"close"}
<1> USE DEF LoadedPcs, NodePc
<1>1. CASE \/ StartNode(w) \/ ReserveCase(w) \/ BeforeSend(w) \/ NotSent(w) \/ Send(w) \/ Receive(w)
  BY <1>1, CaseMoves DEF Steps
<1>2. CASE ReserveRefused(w) \/ MissingAttempt(w)
  BY <1>2, EvidenceMoves DEF Steps
<1>3. CASE RecordAttempt(w) \/ StoreArtifact(w)
  BY <1>3, EvidenceMoves, AfterEvidenceFields DEF Steps
<1>4. CASE \/ StopNode(w) \/ StopCoverage(w) \/ FailNode(w) \/ TransportCoverage(w)
           \/ ContainNode(w) \/ ContainCoverage(w) \/ Compare(w) \/ PublishFinding(w)
           \/ PublishCoverage(w) \/ FinishNode(w) \/ FailEvaluation(w) \/ NodeCtxFails(w)
  BY <1>4, OutcomeMoves DEF Steps, Onward
<1>5. QED
  BY <1>1, <1>2, <1>3, <1>4 DEF ExecuteNodeStep

\* What SealInv says of the store and of w.
SealHolds(w) ==
  /\ status \in {"absent", "running"} => seal = {}
  /\ SealMatchesEvidence
  /\ SealOK(w)

\* w works on a running assessment, which has no seal.
LEMMA RunningStep ==
  ASSUME SealInv, NEW w \in Worker, status = "running", UNCHANGED <<status, seal>>,
         run'[w].pc \in LoadedPcs \cup {"load", "finalize", "close", "idle", "reload"}
  PROVE  SealHolds(w)'
<1>1. seal = {} /\ seal' = {}
  BY DEF SealInv
<1>2. SealMatchesEvidence'
  BY <1>1 DEF SealMatchesEvidence
<1>3. run'[w].pc \notin {"persist", "budget", "acquire", "reactivate", "sealLoad", "sealWrite"}
  BY DEF LoadedPcs, NodePc
<1>4. SealOK(w)'
  BY <1>3 DEF SealOK
<1>5. QED
  BY <1>1, <1>2, <1>4 DEF SealHolds

\* w only reads.
LEMMA ReadingStep ==
  ASSUME SealInv, NEW w \in Worker, UNCHANGED <<evidenceVars, seal>>, SealOK(w)'
  PROVE  SealHolds(w)'
<1>1. Evidence' = Evidence
  BY DEF Evidence, evidenceVars
<1>2. SealMatchesEvidence'
  BY <1>1 DEF SealInv, SealMatchesEvidence, VerifyAssessmentResult
<1>3. QED
  BY <1>2 DEF SealInv, SealHolds, evidenceVars

LEMMA DropsIsOK ==
  ASSUME NEW w \in Worker, run'[w] = IdleRun \/ run'[w] = Closing
  PROVE  SealOK(w)'
  BY IdleFields DEF SealOK, RunningPcs, LoadedPcs, NodePc

LEMMA EnterKeepsSeal ==
  ASSUME RunInv, SealInv, NEW w \in Worker,
         \/ BeginRun(w) \/ ResumeLoads(w)
         \/ PersistNode(w) \/ PersistBudget(w) \/ PersistFails(w)
         \/ Acquire(w) \/ AcquireRefused(w)
         \/ Reactivate(w) \/ ReactivateRefused(w) \/ Reload(w) \/ Load(w)
  PROVE  SealHolds(w)'
<1> DEFINE r == run[w]
<1>1. r \in RunRecord /\ IdleRun \in RunRecord /\ SealOK(w)
  BY IdleIsOK DEF RunInv, RunOK, SealInv
<1> USE DEF RunningPcs, LoadedPcs, NodePc
<1>2. CASE BeginRun(w)
  <2>1. run'[w] = [IdleRun EXCEPT !.pc = "persist", !.seen = "running"]
    BY <1>2, BecomeFields, Zenon DEF BeginRun
  <2>2. run'[w].pc = "persist" /\ run'[w].seen = "running"
    BY <1>1, <2>1, Zenon DEF RunRecord
  <2>3. status = "absent" /\ status' = "running" /\ seal' = seal
    BY <1>2 DEF BeginRun, BeginAssessment
  <2>4. seal' = {}
    BY <2>3 DEF SealInv
  <2>5. QED
    BY <2>2, <2>3, <2>4 DEF SealHolds, SealOK, SealMatchesEvidence
<1>3. CASE ResumeLoads(w)
  <2>1. run'[w] = [IdleRun EXCEPT !.pc = "acquire", !.seen = status]
    BY <1>3, BecomeFields, Zenon DEF ResumeLoads
  <2>2. run'[w].pc = "acquire" /\ run'[w].seen = status
    BY <1>1, <2>1, Zenon DEF RunRecord
  <2>3. UNCHANGED <<evidenceVars, seal>> /\ status \in {"running", "canceled"}
    BY <1>3 DEF ResumeLoads, storeVars, evidenceVars
  <2>4. SealOK(w)'
    BY <2>2, <2>3 DEF SealOK, evidenceVars
  <2>5. QED
    BY <2>3, <2>4, ReadingStep
<1>4. CASE PersistNode(w)
  <2>1. /\ r.pc = "persist" /\ run'[w] = [r EXCEPT !.pc = "budget"]
        /\ UNCHANGED <<status, seal>>
    BY <1>4, BecomeFields, Zenon DEF PersistNode, At, AddPlanNode, Goto
  <2>2. run'[w].pc = "budget" /\ run'[w].seen = r.seen
    BY <1>1, <2>1, Zenon DEF RunRecord
  <2>3. status = "running" /\ r.seen = "running"
    BY <1>1, <2>1 DEF SealOK
  <2>4. QED
    BY <2>1, <2>2, <2>3 DEF SealInv, SealHolds, SealOK, SealMatchesEvidence
<1>5. CASE PersistBudget(w)
  <2>1. /\ r.pc = "budget" /\ UNCHANGED <<status, seal>>
        /\ \/ run'[w] = [r EXCEPT !.pc = "acquire", !.i = 1]
           \/ run'[w] = [r EXCEPT !.pc = "persist", !.i = @ + 1]
    BY <1>5, BecomeFields, Zenon DEF PersistBudget, At, AddBudgetReservation
  <2>2. (run'[w].pc = "acquire" \/ run'[w].pc = "persist") /\ run'[w].seen = r.seen
    BY <1>1, <2>1, Zenon DEF RunRecord
  <2>3. status = "running" /\ r.seen = "running"
    BY <1>1, <2>1 DEF SealOK
  <2>4. QED
    BY <2>1, <2>2, <2>3 DEF SealInv, SealHolds, SealOK, SealMatchesEvidence
<1>6. CASE PersistFails(w) \/ AcquireRefused(w) \/ ReactivateRefused(w)
  <2>1. UNCHANGED storeVars /\ (Become(w, IdleRun) \/ Become(w, Closing))
    BY <1>6, Zenon DEF PersistFails, AcquireRefused, ReactivateRefused
  <2>2. QED
    BY <2>1, BecomeFields, DropsIsOK, ReadingStep DEF storeVars, evidenceVars
<1>7. CASE Acquire(w)
  <2>1. r.pc = "acquire" /\ UNCHANGED <<evidenceVars, seal>>
    BY <1>7 DEF Acquire, At, AcquireAssessmentExecutionLease
  <2>2. r.seen = status /\ status \in {"running", "canceled"}
    BY <1>1, <2>1 DEF SealOK
  <2>3. run'[w].pc = IF r.seen = "canceled" THEN "reactivate" ELSE "load"
    BY <1>7, GotoFields DEF Acquire, Steps
  <2>4. SealOK(w)'
    BY <2>1, <2>2, <2>3 DEF SealOK, evidenceVars
  <2>5. QED
    BY <2>1, <2>4, ReadingStep
<1>8. CASE Reactivate(w)
  <2>1. run'[w].pc = "reload"
    BY <1>8, GotoFields DEF Reactivate, Steps
  <2>2. status' = "running" /\ seal' = {}
    BY <1>8 DEF Reactivate, ReactivateCanceledAssessment
  <2>3. QED
    BY <2>1, <2>2 DEF SealHolds, SealOK, SealMatchesEvidence
<1>9. CASE Reload(w)
  <2>1. /\ UNCHANGED storeVars
        /\ run'[w] = Closing \/ (status = "running" /\ run'[w] = [r EXCEPT !.pc = "load"])
    BY <1>9, BecomeFields, Zenon DEF Reload
  <2>2. CASE run'[w] = Closing
    BY <2>1, <2>2, DropsIsOK, ReadingStep DEF storeVars, evidenceVars
  <2>3. CASE status = "running" /\ run'[w] = [r EXCEPT !.pc = "load"]
    <3>1. run'[w].pc = "load"
      BY <1>1, <2>3, Zenon DEF RunRecord
    <3>2. QED
      BY <2>1, <2>3, <3>1, RunningStep DEF storeVars
  <2>4. QED
    BY <2>1, <2>2, <2>3
<1>10. CASE Load(w)
  <2>1. UNCHANGED storeVars /\ r.pc = "load"
    BY <1>10 DEF Load, At
  <2>2. status = "running"
    BY <1>1, <2>1 DEF SealOK
  <2>3. run'[w].pc \in {"idle", "close", "top"}
    BY <1>10, LoadMoves, IdleFields DEF Drops, Loads
  <2>4. QED
    BY <2>1, <2>2, <2>3, RunningStep DEF storeVars
<1>11. QED
  BY <1>2, <1>3, <1>4, <1>5, <1>6, <1>7, <1>8, <1>9, <1>10

LEMMA LeaveKeepsSeal ==
  ASSUME RunInv, SealInv, NEW w \in Worker,
         \/ ScheduleEnds(w) \/ ScheduleLosesLease(w) \/ MarkRefused(w)
         \/ Finalize(w) \/ FinalizeRefused(w) \/ SealLoad(w) \/ SealWrite(w) \/ Close(w)
         \/ LeaseHeldByOther(w) \/ InterruptCtxFails(w)
         \/ Crash(w) \/ PersistError(w)
  PROVE  SealHolds(w)'
<1> DEFINE r == run[w]
<1>1. r \in RunRecord /\ IdleRun \in RunRecord /\ SealOK(w)
  BY IdleIsOK DEF RunInv, RunOK, SealInv
<1> USE DEF RunningPcs, LoadedPcs, NodePc
<1>2. CASE \/ ScheduleLosesLease(w) \/ MarkRefused(w) \/ FinalizeRefused(w)
           \/ LeaseHeldByOther(w) \/ InterruptCtxFails(w)
  <2>1. Become(w, Closing) /\ UNCHANGED storeVars
    BY <1>2, Zenon DEF ScheduleLosesLease, MarkRefused, FinalizeRefused, LeaseHeldByOther,
         InterruptCtxFails
  <2>2. QED
    BY <2>1, BecomeFields, DropsIsOK, ReadingStep DEF storeVars, evidenceVars
<1>3. CASE Crash(w)
  <2>1. run' = [run EXCEPT ![w] = IdleRun] /\ UNCHANGED storeVars
    BY <1>3, Zenon DEF Crash
  <2>2. run'[w] = IdleRun
    BY <2>1 DEF RunInv, TypeOK
  <2>3. QED
    BY <2>1, <2>2, DropsIsOK, ReadingStep DEF storeVars, evidenceVars
<1>4. CASE PersistError(w)
  <2>1. /\ run' = [run EXCEPT ![w] = IdleRun] /\ status = "running" /\ status' = "failed"
        /\ seal' = seal
    BY <1>4, Zenon DEF PersistError, FinishAssessment
  <2>2. run'[w] = IdleRun
    BY <2>1 DEF RunInv, TypeOK
  <2>3. seal' = {}
    BY <2>1 DEF SealInv
  <2>4. QED
    BY <2>2, <2>3, DropsIsOK DEF SealHolds, SealMatchesEvidence
<1>5. CASE Close(w)
  <2>1. Become(w, IdleRun) /\ UNCHANGED <<evidenceVars, seal>>
    BY <1>5, Zenon DEF Close, ReleaseAssessmentExecutionLease
  <2>2. QED
    BY <2>1, BecomeFields, DropsIsOK, ReadingStep
<1>6. CASE ScheduleEnds(w)
  <2>1. run'[w] = MarkOrFinalize(r) /\ UNCHANGED storeVars /\ r.pc = "top"
    BY <1>6, BecomeFields, Zenon DEF ScheduleEnds, At
  <2>2. run'[w].pc \in {"markFinish", "top", "finalize"}
    BY <1>1, <2>1, MarkedFields DEF Marks
  <2>3. status = "running"
    BY <1>1, <2>1 DEF SealOK
  <2>4. QED
    BY <2>1, <2>2, <2>3, RunningStep DEF storeVars
<1>7. CASE Finalize(w)
  <2>1. /\ run'[w] = [IdleRun EXCEPT !.pc = "sealLoad", !.hb = r.hb]
        /\ status = "running" /\ status' = r.result /\ seal' = seal
    BY <1>7, BecomeFields, Zenon DEF Finalize, FinishAssessmentWithLease, FinishAssessment
  <2>2. run'[w].pc = "sealLoad"
    BY <1>1, <2>1, Zenon DEF RunRecord
  <2>3. seal' = {} /\ status' \in TerminalStatus
    BY <1>1, <2>1 DEF SealInv, RunRecord
  <2>4. QED
    BY <2>2, <2>3 DEF SealHolds, SealMatchesEvidence, SealOK
<1>8. CASE SealLoad(w)
  <2>1. /\ r.pc = "sealLoad" /\ UNCHANGED storeVars
        /\ run'[w] = Closing \/ run'[w] = [r EXCEPT !.pc = "sealWrite", !.signed = {Evidence}]
    BY <1>8, BecomeFields, Zenon DEF SealLoad, At
  <2>2. UNCHANGED <<evidenceVars, seal>>
    BY <2>1 DEF storeVars, evidenceVars
  <2>3. CASE run'[w] = Closing
    BY <2>2, <2>3, DropsIsOK, ReadingStep
  <2>4. CASE run'[w] = [r EXCEPT !.pc = "sealWrite", !.signed = {Evidence}]
    <3>1. run'[w].pc = "sealWrite" /\ run'[w].signed = {Evidence}
      BY <1>1, <2>4, Zenon DEF RunRecord
    <3>2. Evidence' = Evidence
      BY <2>2 DEF Evidence, evidenceVars
    <3>3. SealOK(w)'
      BY <1>1, <2>1, <2>2, <3>1, <3>2 DEF SealOK, evidenceVars
    <3>4. QED
      BY <2>2, <3>3, ReadingStep
  <2>5. QED
    BY <2>1, <2>3, <2>4
<1>9. CASE SealWrite(w)
  <2>1. r.pc = "sealWrite" /\ Become(w, Closing)
    BY <1>9, Zenon DEF SealWrite, At
  <2>2. PICK signed \in r.signed : AddSealWithLease(w, signed)
    BY <1>9, Zenon DEF SealWrite
  <2>3. signed = Evidence /\ status \in TerminalStatus
    BY <1>1, <2>1, <2>2 DEF SealOK
  <2>4. seal' = {signed} /\ UNCHANGED evidenceVars
    BY <2>2 DEF AddSealWithLease
  <2>5. Evidence' = Evidence
    BY <2>4 DEF Evidence, evidenceVars
  <2>6. SealMatchesEvidence'
    BY <2>3, <2>4, <2>5 DEF SealMatchesEvidence, VerifyAssessmentResult
  <2>7. status' \notin {"absent", "running"}
    BY <2>3, <2>4 DEF evidenceVars, TerminalStatus
  <2>8. QED
    BY <2>1, <2>6, <2>7, BecomeFields, DropsIsOK DEF SealHolds
<1>10. QED
  BY <1>2, <1>3, <1>4, <1>5, <1>6, <1>7, <1>8, <1>9

LEMMA FaultKeepsSeal ==
  ASSUME SealInv, NEW w \in Worker, Drops(w) \/ Quiet(w) \/ Fails(w)
  PROVE  SealHolds(w)'
<1>1. UNCHANGED <<evidenceVars, seal>>
  BY DEF Drops, Quiet, Fails, storeVars, evidenceVars
<1>2. Evidence' = Evidence
  BY <1>1 DEF Evidence, evidenceVars
<1>3. SealOK(w)
  BY DEF SealInv
<1>4. CASE Drops(w)
  BY <1>1, <1>4, DropsIsOK, ReadingStep DEF Drops
<1>5. CASE Quiet(w)
  <2>1. SealOK(w)'
    BY <1>1, <1>2, <1>3, <1>5 DEF Quiet, Steps, SealOK, evidenceVars
  <2>2. QED
    BY <1>1, <2>1, ReadingStep
<1>6. CASE Fails(w)
  <2>1. run[w].pc \in LoadedPcs /\ run'[w].pc \in LoadedPcs
    BY <1>6 DEF Fails, Steps, LoadedPcs, NodePc
  <2>2. status = "running"
    BY <1>3, <2>1 DEF SealOK, RunningPcs
  <2>3. QED
    BY <1>1, <2>1, <2>2, RunningStep DEF evidenceVars
<1>7. QED
  BY <1>4, <1>5, <1>6

LEMMA StepKeepsSeal ==
  ASSUME RunInv, SealInv, NEW w \in Worker, StepOf(w)
  PROVE  SealHolds(w)'
<1>1. ASSUME UNCHANGED <<status, seal>>, run[w].pc \in LoadedPcs,
             run'[w].pc \in LoadedPcs \cup {"finalize", "close"}
      PROVE  SealHolds(w)'
  <2>1. status = "running"
    BY <1>1 DEF SealInv, SealOK, RunningPcs
  <2>2. QED
    BY <1>1, <2>1, RunningStep
<1>2. CASE Schedules(w)
  BY <1>1, <1>2, ScheduleWrites, ScheduleTargets
<1>3. CASE ExecuteNodeStep(w)
  BY <1>1, <1>3, NodeWrites, NodeStepTargets
<1>4. QED
  BY <1>2, <1>3, EnterKeepsSeal, LeaveKeepsSeal, FaultKeepsSeal, FaultMoves
     DEF StepOf, WorkerStep, FaultStep, Schedules

LEMMA SealInvStep ==
  ASSUME OneInvocation
  PROVE  RunInv /\ SealInv /\ [Next]_vars => SealInv'
<1> SUFFICES ASSUME RunInv, SealInv, [Next]_vars
             PROVE  SealInv'
  OBVIOUS
<1>1. ASSUME NEW w \in Worker, StepOf(w)
      PROVE  SealInv'
  <2>1. SealHolds(w)'
    BY <1>1, StepKeepsSeal
  <2>2. \A v \in Worker : v = w
    BY DEF OneInvocation
  <2>3. QED
    BY <2>1, <2>2 DEF SealHolds, SealInv
<1>2. ASSUME UNCHANGED <<run, evidenceVars, seal>>
      PROVE  SealInv'
  <2>1. Evidence' = Evidence
    BY <1>2 DEF Evidence, evidenceVars
  <2>2. \A w \in Worker : SealOK(w)'
    BY <1>2, <2>1 DEF SealInv, SealOK, evidenceVars
  <2>3. QED
    BY <1>2, <2>1, <2>2 DEF SealInv, SealMatchesEvidence, VerifyAssessmentResult, evidenceVars
<1>3. QED
  BY <1>1, <1>2 DEF Next, StepOf, Expire, LeaseExpires, vars, storeVars, evidenceVars

LEMMA SealInvInit == Init => SealInv
<1> SUFFICES ASSUME Init PROVE SealInv
  OBVIOUS
<1>1. \A w \in Worker : run[w].pc = "idle"
  BY IdleFields DEF Init
<1>2. seal = {}
  BY DEF Init, StoreInit
<1>3. QED
  BY <1>1, <1>2 DEF SealInv, SealOK, SealMatchesEvidence, RunningPcs, LoadedPcs, NodePc

\* When invocations come one at a time: an assessment has no seal while it
\* runs, an invocation that executes it finds it running, and what it signed
\* is what is stored (finalizeAssessmentExecution, reactivation).
THEOREM SealInvariant ==
  ASSUME OneInvocation
  PROVE  Spec => []SealInv
  BY SealInvInit, SealInvStep, RunInvariant, PTL DEF Spec

\* One invocation at a time, whatever it is interrupted by: a stored seal
\* always verifies, so Status, Report and the next Resume accept the result.
THEOREM SequentialSeal ==
  ASSUME OneInvocation
  PROVE  Spec => []SealMatchesEvidence
  BY SealInvariant, PTL DEF SealInv

-----------------------------------------------------------------------------
(* The result. *)

Terminal(n) == node[n].status \in TerminalNode

\* Where the node w is at may have failed without the result saying so yet.
SettledPcs == {"stopCoverage", "transportCoverage", "containCoverage", "interruptCoverage", "error"}

\* While w would report a success, every node it has passed is settled and
\* none has failed, except the one it is just leaving.
Succeeding(w) ==
  /\ run[w].pc \notin MarkPcs
  /\ \A n \in Node : n < run[w].i => Terminal(n)
  /\ \A n \in Node : node[n].status = "failed" => n = run[w].i /\ run[w].pc \in SettledPcs

ResultOK(w) ==
  /\ run[w].pc \in LoadedPcs => \A n \in Node : run[w].todo[n] = "done" => Terminal(n)
  /\ run[w].pc \in LoadedPcs /\ run[w].result = "succeeded" => Succeeding(w)
  /\ run[w].pc = "finalize" /\ run[w].result = "succeeded" =>
       \A n \in Node : node[n].status \in TerminalNode \ {"failed"}

ResultInv == SuccessHidesNoFailure /\ \A w \in Worker : ResultOK(w)

\* Nodes that are settled stay so while the assessment runs.
LEMMA TerminalStays ==
  ASSUME RunInv, StoreInv, NEW w \in Worker, StepOf(w), status # "canceled",
         NEW n \in Node, Terminal(n)
  PROVE  node'[n] = node[n] /\ Terminal(n)'
<1>1. [Next]_vars
  BY DEF Next, StepOf
<1>2. OutcomesKept
  BY <1>1, NextIsStoreStep, OutcomeStep
<1>3. node'[n] = node[n]
  BY <1>2 DEF OutcomesKept, Terminal
<1>4. QED
  BY <1>3 DEF Terminal

\* A node that fails is the one w is at, and w goes where the result learns.
LEMMA FailingNode ==
  ASSUME RunInv, NEW w \in Worker, StepOf(w), NEW n \in Node,
         node'[n].status = "failed", node[n].status # "failed"
  PROVE  /\ n = run[w].i
         /\ run[w].pc \in LoadedPcs
         /\ run'[w].pc \in SettledPcs
         /\ run'[w].i = run[w].i
<1>1. ~Opens
  BY DEF Opens, LiveNode
<1>2. EndsNode(w) /\ ~UNCHANGED node
  BY <1>1, NodeRowSteps
<1>3. PICK s, m : Ends(w, s, m) /\ FinishPlanNodeWithLease(w, run[w].i, s, m)
  BY <1>1, NodeRowSteps
<1>4. n = run[w].i /\ s = "failed"
  <2> PICK i : i = run[w].i
    OBVIOUS
  <2>1. node' = [node EXCEPT ![i] = [status |-> s, message |-> m]] /\ node \in [Node -> NodeRow]
    BY <1>3, Zenon DEF FinishPlanNodeWithLease, SetNode, RunInv, TypeOK, StoreTypeOK
  <2>2. n = i
    BY <2>1
  <2>3. node'[n] = [status |-> s, message |-> m]
    BY <2>1, <2>2
  <2>4. QED
    BY <2>2, <2>3, RowFields
<1>5. run[w].pc \in {"missing", "stop", "fail", "contain", "failEvaluation", "interrupt"}
  BY <1>3, <1>4 DEF Ends
<1>6. CASE MissingAttempt(w)
  <2>1. Goto(w, "error")
    BY <1>2, <1>6, Zenon DEF MissingAttempt, storeVars
  <2>2. QED
    BY <1>4, <1>5, <2>1, GotoFields DEF Steps, SamePlace, SettledPcs, LoadedPcs, NodePc
<1>7. CASE StopNode(w) \/ FailNode(w) \/ ContainNode(w) \/ FailEvaluation(w)
  BY <1>4, <1>7, OutcomeMoves DEF Steps, SamePlace, SettledPcs, LoadedPcs, NodePc
<1>8. CASE FailInterruptedNode(w)
  BY <1>4, <1>8, ScheduleMoves DEF Steps, SamePlace, SettledPcs, LoadedPcs, NodePc
<1>9. CASE FinishNode(w) \/ MarkFinish(w)
  BY <1>5, <1>9, OutcomeMoves, ScheduleMoves DEF Steps, Onward
<1>10. QED
  BY <1>2, <1>6, <1>7, <1>8, <1>9 DEF EndsNode

\* While the result is a success, w either stays at its node, and does not go
\* back from a failure, or leaves a node that was done or has succeeded.
Advances(w) ==
  /\ run'[w].result = run[w].result
  /\ run'[w].pc \notin MarkPcs
  /\ \/ /\ run'[w].i = run[w].i
        /\ run[w].pc \in SettledPcs => run'[w].pc \in SettledPcs
     \/ /\ run'[w].i = run[w].i + 1
        /\ run[w].pc \notin SettledPcs
        /\ PassDoneNode(w) \/ FinishNode(w)

LEMMA ResultMoves ==
  ASSUME RunInv, NEW w \in Worker, StepOf(w), ~Loads(w), run'[w].pc \in LoadedPcs
  PROVE  \/ run'[w].result # "succeeded"
         \/ run[w].pc \in MarkPcs /\ run'[w].result = run[w].result
         \/ Advances(w)
<1> DEFINE r == run[w]
           q == run'[w]
           Goal == \/ q.result # "succeeded"
                   \/ r.pc \in MarkPcs /\ q.result = r.result
                   \/ Advances(w)
<1> USE DEF MarkPcs, SettledPcs
<1>1. ASSUME q.pc \notin MarkPcs, SamePlace(q, r), r.pc \in SettledPcs => q.pc \in SettledPcs
      PROVE  Goal
  BY <1>1 DEF Advances, SamePlace
<1>2. CASE Quiet(w)
  BY <1>1, <1>2 DEF Quiet, Steps, SamePlace
<1>3. CASE Fails(w)
  BY <1>1, <1>3 DEF Fails, Steps
<1>4. CASE Schedules(w)
  <2>1. CASE PassDoneNode(w)
    BY <2>1, ScheduleMoves DEF Onward, Advances
  <2>2. CASE MeetInterruptedNode(w) \/ FailInterruptedNode(w) \/ MarkFinish(w)
    BY <1>1, <2>2, ScheduleMoves DEF Steps, SamePlace
  <2>3. CASE CoverInterruptedNode(w) \/ CancelScheduledNodes(w)
    BY <2>3, ScheduleMoves DEF Onward
  <2>4. CASE DispatchNode(w)
    <3>1. r.pc = "top"
      BY <2>4, ScheduleMoves DEF DispatchNode
    <3>2. QED
      BY <1>1, <2>4, <3>1, DispatchMoves DEF Steps
  <2>5. CASE HandleNodeError(w)
    BY <2>5, ErrorMoves, IdleFields DEF Onward, LoadedPcs, NodePc
  <2>6. CASE MarkCoverage(w)
    BY <2>6, MarkMoves DEF Onward
  <2>7. QED
    BY <1>4, <2>1, <2>2, <2>3, <2>4, <2>5, <2>6 DEF Schedules
<1>5. CASE ExecuteNodeStep(w)
  <2>1. CASE \/ StartNode(w) \/ ReserveCase(w) \/ BeforeSend(w) \/ NotSent(w) \/ Send(w)
             \/ Receive(w)
    BY <1>1, <2>1, CaseMoves DEF Steps
  <2>2. CASE ReserveRefused(w) \/ MissingAttempt(w)
    BY <1>1, <2>2, EvidenceMoves DEF Steps
  <2>3. CASE RecordAttempt(w) \/ StoreArtifact(w)
    <3>1. r.pc \in {"record", "artifact"}
      BY <2>3, EvidenceMoves
    <3>2. SamePlace(q, r) /\ q.pc \notin MarkPcs
      <4>1. CASE q = AfterEvidence(r, IsRetry(w))
        BY <4>1, AfterEvidenceFields
      <4>2. CASE Steps(w, "record", "artifact")
        BY <4>2 DEF Steps
      <4>3. QED
        BY <2>3, <4>1, <4>2, EvidenceMoves
    <3>3. QED
      BY <1>1, <3>1, <3>2
  <2>4. CASE \/ StopNode(w) \/ FailNode(w) \/ ContainNode(w) \/ Compare(w) \/ PublishFinding(w)
             \/ PublishCoverage(w) \/ FailEvaluation(w) \/ TransportCoverage(w)
    BY <1>1, <2>4, OutcomeMoves DEF Steps
  <2>5. CASE NodeCtxFails(w)
    BY <1>1, <2>5, OutcomeMoves DEF Steps
  <2>6. CASE StopCoverage(w) \/ ContainCoverage(w)
    BY <2>6, OutcomeMoves DEF Onward
  <2>7. CASE FinishNode(w)
    BY <2>7, OutcomeMoves DEF Onward, Advances
  <2>8. QED
    BY <1>5, <2>1, <2>2, <2>3, <2>4, <2>5, <2>6, <2>7 DEF ExecuteNodeStep
<1>6. QED
  BY <1>2, <1>3, <1>4, <1>5, StepCases DEF Leaves

\* How w comes to finalize.
LEMMA FinalMoves ==
  ASSUME RunInv, NEW w \in Worker, StepOf(w), run'[w].pc = "finalize"
  PROVE  \/ run'[w].result # "succeeded"
         \/ run[w].pc \in MarkPcs /\ run'[w].result = run[w].result
         \/ ScheduleEnds(w)
         \/ run[w].pc = "finalize" /\ run'[w].result = run[w].result /\ UNCHANGED storeVars
<1>1. CASE Leaves(w)
  BY <1>1 DEF Leaves
<1>2. CASE Quiet(w)
  BY <1>2 DEF Quiet, Steps, SamePlace
<1>3. CASE Fails(w) \/ Loads(w)
  BY <1>3 DEF Fails, Loads, Steps
<1>4. CASE ExecuteNodeStep(w)
  BY <1>4, NodeStepTargets DEF LoadedPcs, NodePc
<1>5. CASE Schedules(w)
  <2>1. CASE \/ PassDoneNode(w) \/ MeetInterruptedNode(w) \/ FailInterruptedNode(w)
             \/ CoverInterruptedNode(w) \/ MarkFinish(w) \/ CancelScheduledNodes(w)
    BY <2>1, ScheduleMoves DEF Steps, Onward, MarksFrom
  <2>2. CASE DispatchNode(w)
    BY <2>2, DispatchMoves DEF Steps, MarksFrom
  <2>3. CASE HandleNodeError(w)
    BY <2>3, ErrorMoves, IdleFields DEF Onward, MarksFrom
  <2>4. CASE MarkCoverage(w)
    BY <2>4, MarkMoves DEF Onward, MarksFrom, MarkPcs
  <2>5. QED
    BY <1>5, <2>1, <2>2, <2>3, <2>4 DEF Schedules
<1>6. QED
  BY <1>1, <1>2, <1>3, <1>4, <1>5, StepCases

\* A node that w passes is settled.
LEMMA PassedIsTerminal ==
  ASSUME RunInv, StoreInv, ResultInv, NEW w \in Worker, PassDoneNode(w) \/ FinishNode(w)
  PROVE  run[w].i \in Node /\ node'[run[w].i].status \in TerminalNode
<1>1. CASE PassDoneNode(w)
  <2>1. run[w].i \in Node /\ run[w].pc = "top" /\ run[w].todo[run[w].i] = "done"
    BY <1>1, ScheduleMoves DEF PassDoneNode
  <2>2. Terminal(run[w].i) /\ node' = node
    BY <1>1, <2>1 DEF ResultInv, ResultOK, LoadedPcs, PassDoneNode, Scheduled, storeVars
  <2>3. PICK i : i = run[w].i
    OBVIOUS
  <2>4. QED
    BY <2>1, <2>2, <2>3 DEF Terminal
<1>2. CASE FinishNode(w)
  <2>1. PICK i : i = run[w].i
    OBVIOUS
  <2>2. i \in Node
    BY <1>2, <2>1 DEF FinishNode, At, RunInv, RunOK, NodePcs, NodePc
  <2>3. node' = [node EXCEPT ![i] = [status |-> "succeeded", message |-> ""]] /\ node \in [Node -> NodeRow]
    BY <1>2, <2>1, Zenon DEF FinishNode, Current, FinishPlanNodeWithLease, SetNode, RunInv, TypeOK, StoreTypeOK
  <2>4. node'[i] = [status |-> "succeeded", message |-> ""]
    BY <2>2, <2>3
  <2>5. node'[i].status = "succeeded"
    BY <2>4, RowFields
  <2>6. QED
    BY <2>1, <2>2, <2>5 DEF Terminal, TerminalNode
<1>3. QED
  BY <1>1, <1>2

LEMMA LoadKeepsResult ==
  ASSUME RunInv, NEW w \in Worker, Loads(w)
  PROVE  ResultOK(w)'
<1>1. UNCHANGED node
  BY DEF Loads, storeVars
<1>2. \A n \in Node : run'[w].todo[n] = "done" => Terminal(n)'
  BY <1>1 DEF Loads, Todo, Terminal
<1>3. ASSUME run'[w].result = "succeeded"
      PROVE  Succeeding(w)'
  <2>1. \A n \in Node : node'[n].status # "failed"
    BY <1>1, <1>3 DEF Loads, InitialResult
  <2>2. \A n \in Node : ~(n < run'[w].i)
    BY DEF Loads, Node
  <2>3. QED
    BY <2>1, <2>2 DEF Succeeding, Loads, MarkPcs
<1>4. QED
  BY <1>2, <1>3 DEF ResultOK, Loads

\* While w stays in its schedule.
LEMMA WalkKeepsResult ==
  ASSUME RunInv, StoreInv, SealInv, ResultInv, NEW w \in Worker, StepOf(w), ~Loads(w),
         run'[w].pc \in LoadedPcs
  PROVE  ResultOK(w)'
<1>1. run[w].pc \in LoadedPcs /\ run'[w].todo = run[w].todo
  BY Walks
<1>2. status = "running"
  BY <1>1 DEF SealInv, SealOK, RunningPcs
<1>3. \A n \in Node : Terminal(n) => node'[n] = node[n] /\ Terminal(n)'
  BY <1>2, TerminalStays
<1>4. ResultOK(w)
  BY DEF ResultInv
<1>5. \A n \in Node : run'[w].todo[n] = "done" => Terminal(n)'
  BY <1>1, <1>3, <1>4 DEF ResultOK
<1>6. ASSUME run'[w].result = "succeeded"
      PROVE  Succeeding(w)'
  <2>1. CASE run[w].pc \in MarkPcs /\ run'[w].result = run[w].result
    BY <1>1, <1>4, <1>6, <2>1 DEF ResultOK, Succeeding
  <2>2. CASE Advances(w)
    <3>1. Succeeding(w)
      BY <1>1, <1>4, <1>6, <2>2 DEF ResultOK, Advances
    <3>2. run[w].i \in Int
      <4>1. run[w] \in RunRecord
        BY DEF RunInv, RunOK
      <4>2. run[w].i \in 1 .. NodeCount + 1
        BY <4>1 DEF RunRecord
      <4>3. QED
        BY <4>2
    <3>3. ASSUME NEW n \in Node, n < run'[w].i
          PROVE  Terminal(n)'
      <4>1. CASE n < run[w].i
        BY <1>3, <3>1, <4>1 DEF Succeeding
      <4>2. CASE n = run[w].i /\ (PassDoneNode(w) \/ FinishNode(w))
        BY <4>2, PassedIsTerminal DEF Terminal
      <4>3. QED
        BY <2>2, <3>2, <3>3, <4>1, <4>2 DEF Advances, Node
    <3>4. ASSUME NEW n \in Node, node'[n].status = "failed"
          PROVE  n = run'[w].i /\ run'[w].pc \in SettledPcs
      <4>1. CASE node[n].status = "failed"
        BY <2>2, <3>1, <4>1 DEF Succeeding, Advances
      <4>2. CASE node[n].status # "failed"
        BY <3>4, <4>2, FailingNode
      <4>3. QED
        BY <4>1, <4>2
    <3>5. QED
      BY <2>2, <3>3, <3>4 DEF Succeeding, Advances
  <2>3. QED
    BY <1>6, <2>1, <2>2, ResultMoves
<1>7. QED
  BY <1>5, <1>6 DEF ResultOK, LoadedPcs, NodePc

\* When w comes to finalize with a success, nothing is open or has failed.
LEMMA EndKeepsResult ==
  ASSUME RunInv, ResultInv, NEW w \in Worker, StepOf(w), run'[w].pc = "finalize"
  PROVE  ResultOK(w)'
<1>1. ResultOK(w)
  BY DEF ResultInv
<1>2. ASSUME run'[w].result = "succeeded"
      PROVE  \A n \in Node : node'[n].status \in TerminalNode \ {"failed"}
  <2>1. CASE run[w].pc \in MarkPcs /\ run'[w].result = run[w].result
    BY <1>1, <1>2, <2>1 DEF ResultOK, Succeeding, MarkPcs, LoadedPcs
  <2>2. CASE run[w].pc = "finalize" /\ run'[w].result = run[w].result /\ UNCHANGED storeVars
    BY <1>1, <1>2, <2>2 DEF ResultOK, storeVars
  <2>3. CASE ScheduleEnds(w)
    <3>1. /\ run[w].pc = "top" /\ run[w].i > NodeCount /\ UNCHANGED node
          /\ run'[w] = MarkOrFinalize(run[w])
      BY <2>3, BecomeFields, Zenon DEF ScheduleEnds, At, Current, storeVars
    <3>2. run[w] \in RunRecord
      BY DEF RunInv, RunOK
    <3>3. run'[w].result = run[w].result
      BY <3>1, <3>2, MarkedFields DEF Marks, SamePlace
    <3>4. Succeeding(w)
      BY <1>1, <1>2, <3>1, <3>3 DEF ResultOK, LoadedPcs
    <3>5. \A n \in Node : n < run[w].i
      <4>1. run[w].i \in 1 .. NodeCount + 1
        BY <3>2 DEF RunRecord
      <4>2. QED
        BY <3>1, <4>1, StoreAssumption DEF Node
    <3>6. QED
      BY <3>1, <3>4, <3>5 DEF Succeeding, Terminal, SettledPcs
  <2>4. QED
    BY <1>2, <2>1, <2>2, <2>3, FinalMoves
<1>3. QED
  BY <1>2 DEF ResultOK, LoadedPcs, NodePc

\* The status becomes a success only by Finalize, and no node moves under it.
LEMMA StepKeepsSuccess ==
  ASSUME RunInv, StoreInv, SealInv, ResultInv, NEW w \in Worker, StepOf(w)
  PROVE  SuccessHidesNoFailure'
<1> SUFFICES ASSUME status' = "succeeded"
             PROVE  \A n \in Node : node'[n].status \in TerminalNode \ {"failed"}
  BY DEF SuccessHidesNoFailure
<1>1. CASE status = "succeeded"
  <2>1. \A n \in Node : Terminal(n)
    BY <1>1 DEF ResultInv, SuccessHidesNoFailure, Terminal
  <2>2. \A n \in Node : node'[n] = node[n]
    BY <1>1, <2>1, TerminalStays
  <2>3. QED
    BY <1>1, <2>2 DEF ResultInv, SuccessHidesNoFailure
<1>2. CASE status # "succeeded"
  <2>1. Finalize(w)
    <3>1. CASE ExecuteNodeStep(w) \/ Schedules(w)
      BY <1>2, <3>1, NodeWrites, ScheduleWrites
    <3>2. CASE \/ BeginRun(w) \/ ResumeLoads(w)
               \/ PersistNode(w) \/ PersistBudget(w) \/ PersistFails(w)
               \/ Acquire(w) \/ AcquireRefused(w)
               \/ Reactivate(w) \/ ReactivateRefused(w) \/ Reload(w) \/ Load(w)
      BY <1>2, <3>2, Zenon DEF BeginRun, BeginAssessment, ResumeLoads, PersistNode, AddPlanNode,
           PersistBudget, AddBudgetReservation, PersistFails, Acquire,
           AcquireAssessmentExecutionLease, AcquireRefused, Reactivate,
           ReactivateCanceledAssessment, ReactivateRefused, Reload, Load, storeVars, evidenceVars
    <3>3. CASE \/ ScheduleEnds(w) \/ ScheduleLosesLease(w) \/ MarkRefused(w)
               \/ FinalizeRefused(w) \/ SealLoad(w) \/ SealWrite(w) \/ Close(w)
               \/ LeaseHeldByOther(w) \/ EnsureFails(w) \/ InterruptCtxFails(w) \/ FaultStep(w)
      BY <1>2, <3>3, Zenon DEF ScheduleEnds, ScheduleLosesLease, MarkRefused, FinalizeRefused,
           SealLoad, SealWrite, AddSealWithLease, Close, ReleaseAssessmentExecutionLease,
           LeaseHeldByOther, EnsureFails, InterruptCtxFails, FaultStep, HeartbeatFails, Cancel,
           Crash, StoreError, PersistError, FinishAssessment, storeVars, evidenceVars
    <3>4. QED
      BY <3>1, <3>2, <3>3 DEF StepOf, WorkerStep, Schedules
  <2>2. run[w].pc = "finalize" /\ status' = run[w].result /\ UNCHANGED node
    BY <2>1, Zenon DEF Finalize, At, FinishAssessmentWithLease, FinishAssessment
  <2>3. QED
    BY <2>2 DEF ResultInv, ResultOK
<1>3. QED
  BY <1>1, <1>2

LEMMA ResultInvStep ==
  ASSUME OneInvocation
  PROVE  RunInv /\ StoreInv /\ SealInv /\ ResultInv /\ [Next]_vars => ResultInv'
<1> SUFFICES ASSUME RunInv, StoreInv, SealInv, ResultInv, [Next]_vars
             PROVE  ResultInv'
  OBVIOUS
<1>1. ASSUME NEW w \in Worker, StepOf(w)
      PROVE  ResultInv'
  <2>1. ResultOK(w)'
    <3>1. CASE run'[w].pc \notin LoadedPcs \cup {"finalize"}
      BY <3>1 DEF ResultOK
    <3>2. QED
      BY <1>1, <3>1, LoadKeepsResult, WalkKeepsResult, EndKeepsResult
  <2>2. \A v \in Worker : v = w
    BY DEF OneInvocation
  <2>3. QED
    BY <1>1, <2>1, <2>2, StepKeepsSuccess DEF ResultInv
<1>2. ASSUME UNCHANGED <<run, node, status>>
      PROVE  ResultInv'
  BY <1>2 DEF ResultInv, ResultOK, Succeeding, Terminal, SuccessHidesNoFailure
<1>3. QED
  BY <1>1, <1>2 DEF Next, StepOf, Expire, LeaseExpires, vars, storeVars, evidenceVars

LEMMA ResultInvInit == Init => ResultInv
<1> SUFFICES ASSUME Init PROVE ResultInv
  OBVIOUS
<1>1. \A w \in Worker : run[w].pc = "idle"
  BY IdleFields DEF Init
<1>2. status = "absent"
  BY DEF Init, StoreInit
<1>3. QED
  BY <1>1, <1>2 DEF ResultInv, ResultOK, SuccessHidesNoFailure, LoadedPcs, NodePc

\* When invocations come one at a time: while the result an invocation carries
\* is a success, every node it has passed is settled and none has failed
\* (initialAssessmentExecutionResult, handleScheduledNodeResult, markRemaining).
THEOREM ResultInvariant ==
  ASSUME OneInvocation
  PROVE  Spec => []ResultInv
  BY ResultInvInit, ResultInvStep, RunInvariant, ExecutionStore, SealInvariant, PTL DEF Spec

\* One invocation at a time, over any number of crashes and resumptions: an
\* assessment that finished as succeeded has no failed node and none that is
\* still waiting or running (finalizeAssessmentExecution).
THEOREM SequentialSuccess ==
  ASSUME OneInvocation
  PROVE  Spec => []SuccessHidesNoFailure
  BY ResultInvariant, PTL DEF ResultInv

-----------------------------------------------------------------------------
(* The refinement of AssessmentLifecycle. *)

OpenNodes == {n \in Node : node[n].status \notin TerminalNode}
ProvenNodes == {n \in Node : node[n].status = "succeeded"}
LifecycleState == <<status, OpenNodes, ProvenNodes, seal # {}>>

\* The steps of AssessmentLifecycle, in the state of the runtime.
LEMMA LifecycleSteps ==
  /\ UNCHANGED LifecycleState => UNCHANGED Lifecycle!lifecycleVars
  /\ status = "absent" /\ status' = "running" /\ UNCHANGED <<node, seal>> =>
       Lifecycle!LifecycleNext
  /\ \A n \in Node, proof \in BOOLEAN :
       /\ status = "running"
       /\ n \in OpenNodes
       /\ OpenNodes' = OpenNodes \ {n}
       /\ ProvenNodes' = IF proof THEN ProvenNodes \cup {n} ELSE ProvenNodes
       /\ UNCHANGED <<status, seal>>
       => Lifecycle!LifecycleNext
  /\ /\ status = "running"
     /\ status' \in TerminalStatus
     /\ status' = "succeeded" => OpenNodes = {}
     /\ UNCHANGED <<node, seal>>
     => Lifecycle!LifecycleNext
  /\ /\ status \in TerminalStatus
     /\ seal = {} /\ seal' # {}
     /\ UNCHANGED <<status, node>>
     => Lifecycle!LifecycleNext
  /\ /\ status = "canceled" /\ status' = "running"
     /\ seal # {} /\ seal' = {}
     /\ OpenNodes = {}
     /\ OpenNodes' \in SUBSET (Node \ ProvenNodes)
     /\ UNCHANGED ProvenNodes
     => Lifecycle!LifecycleNext
<1> USE DEF OpenNodes, ProvenNodes
<1>1. UNCHANGED LifecycleState => UNCHANGED Lifecycle!lifecycleVars
  BY DEF LifecycleState, Lifecycle!lifecycleVars
<1>2. status = "absent" /\ status' = "running" /\ UNCHANGED <<node, seal>> =>
        Lifecycle!LifecycleNext
  BY DEF Lifecycle!LifecycleNext, Lifecycle!Begin
<1>3. \A n \in Node, proof \in BOOLEAN :
        /\ status = "running"
        /\ n \in OpenNodes
        /\ OpenNodes' = OpenNodes \ {n}
        /\ ProvenNodes' = IF proof THEN ProvenNodes \cup {n} ELSE ProvenNodes
        /\ UNCHANGED <<status, seal>>
        => Lifecycle!LifecycleNext
  BY DEF Lifecycle!LifecycleNext, Lifecycle!Settle
<1>4. /\ status = "running"
      /\ status' \in TerminalStatus
      /\ status' = "succeeded" => OpenNodes = {}
      /\ UNCHANGED <<node, seal>>
      => Lifecycle!LifecycleNext
  BY DEF Lifecycle!LifecycleNext, Lifecycle!Finish, Lifecycle!Closed, TerminalStatus
<1>5. /\ status \in TerminalStatus
      /\ seal = {} /\ seal' # {}
      /\ UNCHANGED <<status, node>>
      => Lifecycle!LifecycleNext
  BY DEF Lifecycle!LifecycleNext, Lifecycle!Seal, Lifecycle!Closed, TerminalStatus
<1>6. /\ status = "canceled" /\ status' = "running"
      /\ seal # {} /\ seal' = {}
      /\ OpenNodes = {}
      /\ OpenNodes' \in SUBSET (Node \ ProvenNodes)
      /\ UNCHANGED ProvenNodes
      => Lifecycle!LifecycleNext
  BY DEF Lifecycle!LifecycleNext, Lifecycle!Reopen
<1>7. QED
  BY <1>1, <1>2, <1>3, <1>4, <1>5, <1>6

\* A node row that moves between open statuses does not show.
LEMMA OpenMove ==
  ASSUME UNCHANGED <<status, seal>>, NEW i \in Node,
         \A n \in Node : n # i => node'[n] = node[n],
         node[i].status \notin TerminalNode, node'[i].status \notin TerminalNode
  PROVE  UNCHANGED LifecycleState
<1>1. \A n \in Node : /\ node'[n].status \in TerminalNode <=> node[n].status \in TerminalNode
                      /\ node'[n].status = "succeeded" <=> node[n].status = "succeeded"
  BY DEF TerminalNode
<1>2. QED
  BY <1>1 DEF LifecycleState, OpenNodes, ProvenNodes

LEMMA SettleStep ==
  ASSUME StoreTypeOK, status = "running", NEW n \in Node, NEW s \in TerminalNode, NEW m,
         NEW w \in Worker, FinishPlanNodeWithLease(w, n, s, m)
  PROVE  Lifecycle!LifecycleNext
<1>1. /\ node' = [node EXCEPT ![n] = [status |-> s, message |-> m]]
      /\ node \in [Node -> NodeRow]
      /\ node[n].status \in LiveNode
      /\ UNCHANGED <<status, seal>>
  BY DEF FinishPlanNodeWithLease, SetNode, StoreTypeOK
<1>2. node'[n] = [status |-> s, message |-> m] /\ \A k \in Node : k # n => node'[k] = node[k]
  BY <1>1
<1>3. node'[n].status = s
  BY <1>2, RowFields
<1>4. n \in OpenNodes /\ OpenNodes' = OpenNodes \ {n}
  BY <1>1, <1>2, <1>3 DEF OpenNodes, LiveNode, TerminalNode
<1>5. ProvenNodes' = IF s = "succeeded" THEN ProvenNodes \cup {n} ELSE ProvenNodes
  BY <1>1, <1>2, <1>3 DEF ProvenNodes, LiveNode
<1>6. (s = "succeeded") \in BOOLEAN
  OBVIOUS
<1>7. QED
  BY <1>1, <1>4, <1>5, <1>6, LifecycleSteps

LEMMA ReopenStep ==
  ASSUME StoreTypeOK, ReactivateCanceledAssessment
  PROVE  Lifecycle!LifecycleNext
<1>1. \A n \in Node : node'[n] = IF n \in RequeuedNodes
                                 THEN [status |-> "planned", message |-> ""] ELSE node[n]
  BY DEF ReactivateCanceledAssessment
<1>2. \A n \in Node : n \in RequeuedNodes => node'[n].status = "planned"
  BY <1>1, RowFields
<1>3. OpenNodes = {}
  BY DEF ReactivateCanceledAssessment, Reactivatable, OpenNodes, TerminalNode
<1>4. \A n \in Node : n \notin RequeuedNodes => node'[n].status \in {"succeeded", "failed"}
  BY <1>1 DEF ReactivateCanceledAssessment, Reactivatable, RequeuedNodes
<1>5. OpenNodes' \in SUBSET (Node \ ProvenNodes)
  BY <1>4, <1>2, <1>1 DEF OpenNodes, ProvenNodes, RequeuedNodes, TerminalNode
<1>6. UNCHANGED ProvenNodes
  BY <1>1, <1>2 DEF ProvenNodes, RequeuedNodes
<1>7. status = "canceled" /\ status' = "running" /\ seal # {} /\ seal' = {}
  BY DEF ReactivateCanceledAssessment, Reactivatable
<1>8. QED
  BY <1>3, <1>5, <1>6, <1>7, LifecycleSteps

\* Every transaction of an invocation is a step of AssessmentLifecycle.
LEMMA StepRefines ==
  ASSUME RunInv, StoreInv, SealInv, ResultInv, ResultInv', SealInv', NEW w \in Worker, StepOf(w)
  PROVE  Lifecycle!LifecycleNext \/ UNCHANGED LifecycleState
<1> DEFINE Goal == Lifecycle!LifecycleNext \/ UNCHANGED LifecycleState
<1>1. ASSUME UNCHANGED <<status, node, seal>>
      PROVE  Goal
  BY <1>1 DEF LifecycleState, OpenNodes, ProvenNodes
<1>2. StoreTypeOK /\ node \in [Node -> NodeRow]
  BY DEF RunInv, TypeOK, StoreTypeOK
<1>3. ASSUME NEW s \in TerminalStatus, FinishAssessment(s)
      PROVE  Goal
  <2>1. status = "running" /\ status' = s /\ UNCHANGED <<node, seal>>
    BY <1>3 DEF FinishAssessment
  <2>2. status' = "succeeded" => OpenNodes = {}
    BY <2>1 DEF ResultInv, SuccessHidesNoFailure, OpenNodes
  <2>3. QED
    BY <2>1, <2>2, LifecycleSteps
<1>4. ASSUME NEW n \in Node, NEW s, NEW m, s \notin TerminalNode, node[n].status \notin TerminalNode,
             SetNode(n, s, m), UNCHANGED <<status, seal>>
      PROVE  Goal
  <2>1. node' = [node EXCEPT ![n] = [status |-> s, message |-> m]]
    BY <1>4 DEF SetNode
  <2>2. node'[n] = [status |-> s, message |-> m] /\ \A k \in Node : k # n => node'[k] = node[k]
    BY <1>2, <2>1
  <2>3. QED
    BY <1>4, <2>2, RowFields, OpenMove
<1>5. ASSUME NEW signed, AddSealWithLease(w, signed)
      PROVE  Goal
  <2>1. seal = {} /\ seal' = {signed} /\ UNCHANGED <<status, node>>
    BY <1>5 DEF AddSealWithLease, evidenceVars
  <2>2. status \in TerminalStatus
    BY <1>2, <2>1 DEF SealInv, StoreTypeOK, AssessmentStatus
  <2>3. QED
    BY <2>1, <2>2, LifecycleSteps
<1>6. ASSUME NEW n \in Node, StartPlanNodeWithLease(w, n)
      PROVE  Goal
  <2>1. /\ node' = [node EXCEPT ![n].status = "running"]
        /\ node[n].status \in {"planned", "running"}
        /\ UNCHANGED <<status, seal>>
    BY <1>6 DEF StartPlanNodeWithLease
  <2>2. \A k \in Node : k # n => node'[k] = node[k]
    BY <1>2, <2>1
  <2>3. node'[n].status = "running"
    BY <1>2, <2>1 DEF NodeRow
  <2>4. QED
    BY <2>1, <2>2, <2>3, OpenMove DEF TerminalNode
<1>7. ASSUME NEW n \in Node, NEW s \in TerminalNode, NEW m \in Reason,
             FinishPlanNodeWithLease(w, n, s, m)
      PROVE  Goal
  <2>1. node'[n] = [status |-> s, message |-> m] /\ node[n].status \in LiveNode
    BY <1>2, <1>7 DEF FinishPlanNodeWithLease, SetNode
  <2>2. node'[n].status = s
    BY <2>1, RowFields
  <2>3. ~Opens
    BY <2>1, <2>2 DEF Opens, LiveNode, TerminalNode
  <2>4. PICK t, k : Ends(w, t, k)
    BY <2>3, NodeRowSteps
  <2>5. status = "running"
    BY <2>4 DEF Ends, SealInv, SealOK, RunningPcs, LoadedPcs, NodePc
  <2>6. QED
    BY <1>2, <1>7, <2>5, SettleStep
<1>8. CASE LeasedNext(w)
  <2>1. CASE \/ AcquireAssessmentExecutionLease(w) \/ ReleaseAssessmentExecutionLease(w)
    BY <1>1, <2>1 DEF AcquireAssessmentExecutionLease, ReleaseAssessmentExecutionLease, evidenceVars
  <2>2. CASE \E s \in TerminalStatus : FinishAssessmentWithLease(w, s)
    BY <1>3, <2>2 DEF FinishAssessmentWithLease
  <2>3. CASE \E signed \in EvidenceRecord : AddSealWithLease(w, signed)
    BY <1>5, <2>3
  <2>4. ASSUME NEW n \in Node,
               \/ \E m \in Reason : AddCoverageWithLease(w, n, m)
               \/ AddComparisonWithLease(w, n)
               \/ AddFindingV2WithLease(w, n)
               \/ \E c \in Case : \/ BeginAssessmentAttemptWithBudgetLease(w, n, c)
                                  \/ BeginAssessmentRetryAttemptWithLease(w, n, c)
        PROVE  Goal
    BY <1>1, <2>4, Zenon DEF AddCoverageWithLease, AddComparisonWithLease, AddFindingV2WithLease,
         BeginAssessmentAttemptWithBudgetLease, BeginAssessmentRetryAttemptWithLease,
         ChargeAndInsert, storeVars
  <2>5. ASSUME NEW id \in AttemptId,
               \/ AddArtifactMetadataWithLease(w, id)
               \/ \E row : FinishAssessmentAttemptWithLease(w, id, row)
        PROVE  Goal
    BY <1>1, <2>5, Zenon DEF AddArtifactMetadataWithLease, FinishAssessmentAttemptWithLease
  <2>6. QED
    BY <1>6, <1>7, <1>8, <2>1, <2>2, <2>3, <2>4, <2>5 DEF LeasedNext
<1>9. CASE UnleasedNext
  <2>1. CASE BeginAssessment
    BY <2>1, LifecycleSteps DEF BeginAssessment
  <2>2. CASE \E n \in Node : AddPlanNode(n) \/ AddBudgetReservation(n)
    BY <1>4, <2>2 DEF AddPlanNode, AddBudgetReservation, TerminalNode
  <2>3. CASE FinishAssessment("failed")
    BY <1>3, <2>3 DEF TerminalStatus
  <2>4. CASE ReactivateCanceledAssessment
    BY <1>2, <2>4, ReopenStep
  <2>5. QED
    BY <1>9, <2>1, <2>2, <2>3, <2>4 DEF UnleasedNext
<1>10. CASE UNCHANGED storeVars
  BY <1>1, <1>10 DEF storeVars
<1>11. QED
  BY <1>8, <1>9, <1>10, StepIsStoreStep DEF StepOf

LEMMA NextRefines ==
  ASSUME RunInv, StoreInv, SealInv, ResultInv, ResultInv', SealInv', [Next]_vars
  PROVE  [Lifecycle!LifecycleNext]_Lifecycle!lifecycleVars
<1>1. ASSUME NEW w \in Worker, StepOf(w)
      PROVE  Lifecycle!LifecycleNext \/ UNCHANGED LifecycleState
  BY <1>1, StepRefines
<1>2. ASSUME UNCHANGED <<status, node, seal>>
      PROVE  UNCHANGED LifecycleState
  BY <1>2 DEF LifecycleState, OpenNodes, ProvenNodes
<1>3. CASE Expire \/ UNCHANGED vars
  BY <1>2, <1>3, LifecycleSteps DEF Expire, LeaseExpires, vars, storeVars, evidenceVars
<1>4. QED
  BY <1>1, <1>3, LifecycleSteps DEF Next, StepOf

LEMMA InitRefines == Init => Lifecycle!LifecycleInit
<1> SUFFICES ASSUME Init PROVE Lifecycle!LifecycleInit
  OBVIOUS
<1>1. node = [n \in Node |-> [status |-> "absent", message |-> ""]] /\ seal = {} /\ status = "absent"
  BY DEF Init, StoreInit
<1>2. \A n \in Node : node[n].status = "absent"
  BY <1>1
<1>3. QED
  BY <1>1, <1>2 DEF Lifecycle!LifecycleInit, TerminalNode

\* One invocation at a time, the runtime implements AssessmentLifecycle: nodes
\* settle only while the assessment runs, a success closes it with nothing
\* open, it is sealed once, and reactivation opens it again only from a sealed
\* cancellation and never for a node that has succeeded.
THEOREM SequentialLifecycle ==
  ASSUME OneInvocation
  PROVE  Spec => ImplementsLifecycle
<1>1. Init => Lifecycle!LifecycleInit
  BY InitRefines
<1>2. /\ RunInv /\ StoreInv /\ SealInv /\ ResultInv /\ ResultInv' /\ SealInv' /\ [Next]_vars
      => [Lifecycle!LifecycleNext]_Lifecycle!lifecycleVars
  BY NextRefines
<1>3. QED
  BY <1>1, <1>2, RunInvariant, ExecutionStore, SealInvariant, ResultInvariant, PTL
     DEF Spec, ImplementsLifecycle, Lifecycle!LifecycleSpec

=============================================================================
