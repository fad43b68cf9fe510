------------------------ MODULE ExecutionSafety_proofs ------------------------
(***************************************************************************)
(* What competing invocations of the assessment runtime cannot do to each  *)
(* other, for any number of them: no request leaves twice, no node         *)
(* succeeds without its proof, a stopped origin stays stopped, and stops   *)
(* reach no other origin.                                                  *)
(*                                                                         *)
(* Two kinds of facts carry the argument.  What an invocation found stored *)
(* and can only grow (completed attempts, published rows) holds of every   *)
(* invocation, stale ones too.  What must not have changed since it loaded *)
(* the state (attempts not yet reserved, origins not yet stopped) holds    *)
(* only of the one that owns the lease, expired or not.                    *)
(***************************************************************************)
EXTENDS AssessmentExecution_proofs

\* One step of an invocation, or of a fault that meets it.
StepOf(w) == BeginRun(w) \/ ResumeLoads(w) \/ WorkerStep(w) \/ FaultStep(w)

\* Where an invocation follows the schedule it loaded.
LoadedPcs == NodePc \cup {"top", "interrupt", "interruptCoverage", "markFinish", "markCoverage"}
ProofPcs == {"compare", "finding", "evaluated", "finish"}

-----------------------------------------------------------------------------
(* The invocations' memory, field by field. *)

\* The schedule and the place in it.
SamePlace(q, r) ==
  /\ q.todo = r.todo
  /\ q.retry = r.retry
  /\ q.down = r.down
  /\ q.result = r.result
  /\ q.i = r.i
  /\ q.last = r.last

LEMMA MovedFields ==
  ASSUME NEW r \in RunRecord, NEW p
  PROVE  /\ [r EXCEPT !.pc = p].pc = p
         /\ SamePlace([r EXCEPT !.pc = p], r)
         /\ [r EXCEPT !.pc = p].c = r.c
         /\ [r EXCEPT !.pc = p].reply = r.reply
         /\ [r EXCEPT !.pc = p].reason = r.reason
  BY DEF RunRecord, SamePlace

LEMMA ScheduledFields ==
  ASSUME NEW r \in RunRecord, NEW i \in 1 .. NodeCount + 1
  PROVE  /\ ScheduleFrom(r, i).pc = "top"
         /\ ScheduleFrom(r, i).todo = r.todo
         /\ ScheduleFrom(r, i).retry = r.retry
         /\ ScheduleFrom(r, i).down = r.down
         /\ ScheduleFrom(r, i).result = r.result
         /\ ScheduleFrom(r, i).i = i
         /\ ScheduleFrom(r, i).reason = ""
  BY DEF RunRecord, ScheduleFrom

\* Fields of a record that may be marking nodes, or be past the last one.
Marks(q, r) ==
  \/ /\ r.i <= r.last
     /\ q.pc = "markFinish"
     /\ SamePlace(q, r)
     /\ q.reason = r.reason
  \/ /\ ~(r.i <= r.last)
     /\ r.i <= NodeCount
     /\ q.pc = "top"
     /\ q.todo = r.todo /\ q.retry = r.retry /\ q.down = r.down /\ q.result = r.result
     /\ q.i = r.i
     /\ q.reason = ""
  \/ /\ ~(r.i <= r.last)
     /\ ~(r.i <= NodeCount)
     /\ q.pc = "finalize"
     /\ q.result = r.result
     /\ q.reason = ""

LEMMA MarkedFields ==
  ASSUME NEW r \in RunRecord
  PROVE  Marks(MarkOrFinalize(r), r)
<1>1. CASE r.i <= r.last
  BY <1>1, MovedFields DEF MarkOrFinalize, Marks
<1>2. CASE ~(r.i <= r.last) /\ r.i <= NodeCount
  <2>1. PICK i \in 1 .. NodeCount + 1 : i = r.i
    BY DEF RunRecord
  <2> DEFINE q == ScheduleFrom(r, i)
  <2>2. MarkOrFinalize(r) = q
    BY <1>2, <2>1, Zenon DEF MarkOrFinalize
  <2>3. /\ q.pc = "top" /\ q.i = r.i /\ q.reason = ""
        /\ q.todo = r.todo /\ q.retry = r.retry /\ q.down = r.down /\ q.result = r.result
    BY <2>1, ScheduledFields
  <2> HIDE DEF q
  <2>4. QED
    BY <1>2, <2>2, <2>3 DEF Marks
<1>3. CASE ~(r.i <= r.last) /\ ~(r.i <= NodeCount)
  <2> DEFINE f == [IdleRun EXCEPT !.pc = "finalize", !.result = r.result, !.hb = r.hb]
  <2>1. IdleRun \in RunRecord
    BY IdleIsOK DEF RunOK
  <2>2. f.pc = "finalize" /\ f.result = r.result /\ f.reason = ""
    BY <2>1, Zenon DEF RunRecord, IdleRun
  <2>3. MarkOrFinalize(r) = f
    BY <1>3, Zenon DEF MarkOrFinalize
  <2>4. QED
    BY <1>3, <2>2, <2>3 DEF Marks
<1>4. QED
  BY <1>1, <1>2, <1>3

LEMMA RemainingFields ==
  ASSUME NEW r \in RunRecord, NEW first \in 1 .. NodeCount + 1, NEW reason \in Reason
  PROVE  LET q == MarkRemaining(r, first, reason)
         IN  \/ /\ first <= NodeCount
                /\ q.pc = "markFinish"
                /\ q.todo = r.todo /\ q.retry = r.retry /\ q.down = r.down
                /\ q.result = r.result
                /\ q.i = first
                /\ q.last = NodeCount
                /\ q.reason = reason
             \/ /\ first = NodeCount + 1
                /\ q.pc = "finalize" /\ q.result = r.result /\ q.reason = ""
<1> DEFINE p == [r EXCEPT !.i = first, !.last = NodeCount, !.reason = reason, !.c = 0,
                          !.reply = NoReply]
<1>1. NodeCount \in 0 .. NodeCount /\ 0 \in 0 .. CaseCount
  BY StoreAssumption
<1>2. /\ p \in RunRecord
      /\ p.todo = r.todo /\ p.retry = r.retry /\ p.down = r.down /\ p.result = r.result
      /\ p.i = first /\ p.last = NodeCount /\ p.reason = reason
  BY <1>1, Zenon DEF RunRecord
<1>3. MarkRemaining(r, first, reason) = MarkOrFinalize(p)
  BY Zenon DEF MarkRemaining
<1> HIDE DEF p
<1>4. Marks(MarkOrFinalize(p), p)
  BY <1>2, MarkedFields
<1>5. first <= NodeCount \/ first = NodeCount + 1
  BY StoreAssumption
<1>6. QED
  BY <1>2, <1>3, <1>4, <1>5, StoreAssumption DEF Marks, SamePlace

LEMMA NextNodeFields ==
  ASSUME NEW r \in RunRecord, r.i \in Node
  PROVE  /\ NextNode(r).pc = "top"
         /\ NextNode(r).todo = r.todo
         /\ NextNode(r).retry = r.retry
         /\ NextNode(r).down = r.down
         /\ NextNode(r).result = r.result
         /\ NextNode(r).i = r.i + 1
         /\ NextNode(r).reason = ""
<1>1. r.i + 1 \in 1 .. NodeCount + 1
  BY StoreAssumption DEF Node
<1>2. QED
  BY <1>1, ScheduledFields DEF NextNode

-----------------------------------------------------------------------------
(* The steps of an invocation, field by field. *)

\* A step of w from one pc to another, at the same place and for the same reason.
Steps(w, from, to) ==
  /\ run[w].pc = from
  /\ run'[w].pc = to
  /\ SamePlace(run'[w], run[w])
  /\ run'[w].reason = run[w].reason

\* w leaves its node for the next one.
Onward(w, from, result) ==
  /\ run[w].pc = from
  /\ run'[w].pc = "top"
  /\ run'[w].todo = run[w].todo
  /\ run'[w].retry = run[w].retry
  /\ run'[w].i = run[w].i + 1
  /\ run'[w].reason = ""
  /\ run'[w].result = result

LEMMA OthersRest ==
  ASSUME RunInv, NEW w \in Worker, StepOf(w)
  PROVE  /\ run' = [run EXCEPT ![w] = run'[w]]
         /\ \A v \in Worker : v # w => run'[v] = run[v]
<1>1. run \in [Worker -> RunRecord]
  BY DEF RunInv, TypeOK
<1>2. PICK q : run' = [run EXCEPT ![w] = q]
  <2>1. CASE BeginRun(w) \/ ResumeLoads(w)
    BY <2>1, Zenon DEF BeginRun, ResumeLoads, Become
  <2>2. CASE WorkerStep(w) \/ FaultStep(w)
    BY <2>2, WorkerStepIsKept, FaultStepIsKept, Zenon DEF Kept
  <2>3. QED
    BY <2>1, <2>2 DEF StepOf
<1>3. QED
  BY <1>1, <1>2

LEMMA BecomeFields ==
  ASSUME RunInv, NEW w \in Worker, NEW r, Become(w, r)
  PROVE  run'[w] = r
<1>1. run \in [Worker -> RunRecord]
  BY DEF RunInv, TypeOK
<1>2. QED
  BY <1>1 DEF Become

LEMMA GotoFields ==
  ASSUME RunInv, NEW w \in Worker, NEW p, Goto(w, p)
  PROVE  /\ Steps(w, run[w].pc, p)
         /\ run'[w].c = run[w].c
         /\ run'[w].reply = run[w].reply
<1>1. run[w] \in RunRecord
  BY DEF RunInv, RunOK
<1>2. run'[w] = [run[w] EXCEPT !.pc = p]
  BY BecomeFields, Zenon DEF Goto
<1>3. QED
  BY <1>1, <1>2, Zenon DEF RunRecord, Steps, SamePlace

LEMMA AfterEvidenceFields ==
  ASSUME RunInv, NEW w \in Worker, run'[w] = AfterEvidence(run[w], IsRetry(w))
  PROVE  /\ SamePlace(run'[w], run[w])
         /\ \/ run[w].reply.limited /\ run'[w].pc = "stop" /\ run'[w].reason = run[w].reason
            \/ run[w].reply.error /\ run'[w].pc = "fail" /\ run'[w].reason = run[w].reason
            \/ run[w].retry[run[w].i] # 0 /\ run'[w].pc = "contain" /\ run'[w].reason = "retry completed"
            \/ /\ ~run[w].reply.error /\ run[w].retry[run[w].i] = 0
               /\ run[w].c = CaseCount /\ run'[w].pc = "compare" /\ run'[w].reason = run[w].reason
            \/ /\ ~run[w].reply.error /\ run[w].retry[run[w].i] = 0
               /\ run'[w].pc = "reserve" /\ run'[w].c = run[w].c + 1 /\ run'[w].reason = run[w].reason
<1> DEFINE r == run[w]
           q == run'[w]
<1>0. r \in RunRecord /\ (IsRetry(w) <=> r.retry[r.i] # 0)
  BY DEF RunInv, RunOK, IsRetry, RetryCase, Current
<1>1. CASE r.reply.limited
  BY <1>1, <1>0, MovedFields DEF AfterEvidence
<1>2. CASE ~r.reply.limited /\ r.reply.error
  BY <1>2, <1>0, MovedFields DEF AfterEvidence
<1>3. CASE ~r.reply.limited /\ ~r.reply.error /\ IsRetry(w)
  <2> DEFINE p == [r EXCEPT !.pc = "contain", !.reason = "retry completed"]
  <2>1. SamePlace(p, r) /\ p.pc = "contain" /\ p.reason = "retry completed"
    BY <1>0, Zenon DEF RunRecord, SamePlace
  <2>2. q = p
    BY <1>3, Zenon DEF AfterEvidence
  <2>3. QED
    BY <1>0, <1>3, <2>1, <2>2
<1>4. CASE ~r.reply.limited /\ ~r.reply.error /\ ~IsRetry(w) /\ r.c = CaseCount
  <2> DEFINE p == [r EXCEPT !.pc = "compare", !.reply = NoReply]
  <2>1. SamePlace(p, r) /\ p.pc = "compare" /\ p.reason = r.reason
    BY <1>0, Zenon DEF RunRecord, SamePlace
  <2>2. q = p
    BY <1>4, Zenon DEF AfterEvidence
  <2>3. QED
    BY <1>0, <1>4, <2>1, <2>2
<1>5. CASE ~r.reply.limited /\ ~r.reply.error /\ ~IsRetry(w) /\ r.c # CaseCount
  <2> DEFINE p == [r EXCEPT !.pc = "reserve", !.c = @ + 1, !.reply = NoReply]
  <2>1. SamePlace(p, r) /\ p.pc = "reserve" /\ p.c = r.c + 1 /\ p.reason = r.reason
    BY <1>0, Zenon DEF RunRecord, SamePlace
  <2>2. q = p
    BY <1>5, Zenon DEF AfterEvidence
  <2>3. QED
    BY <1>0, <1>5, <2>1, <2>2
<1>6. QED
  BY <1>1, <1>2, <1>3, <1>4, <1>5

LEMMA CaseMoves ==
  ASSUME RunInv, NEW w \in Worker
  PROVE  /\ StartNode(w) =>
              /\ Steps(w, "start", "reserve")
              /\ run'[w].c = IF run[w].retry[run[w].i] # 0 THEN run[w].retry[run[w].i] ELSE 1
         /\ ReserveCase(w) => Steps(w, "reserve", "send") /\ run'[w].c = run[w].c
         /\ BeforeSend(w) => Steps(w, "send", "inflight") /\ run'[w].c = run[w].c
         /\ NotSent(w) => /\ Steps(w, "send", "record")
                          /\ run'[w].c = run[w].c
                          /\ run'[w].reply \in Reply
         /\ Send(w) => Steps(w, "inflight", "awaiting") /\ run'[w].c = run[w].c
         /\ Receive(w) => /\ Steps(w, "awaiting", "record")
                          /\ run'[w].c = run[w].c
                          /\ run'[w].reply \in Reply
<1> DEFINE r == run[w]
<1>1. run \in [Worker -> RunRecord] /\ r \in RunRecord
  BY DEF RunInv, TypeOK, RunOK
<1>2. ASSUME StartNode(w)
      PROVE  /\ Steps(w, "start", "reserve")
             /\ run'[w].c = IF r.retry[r.i] # 0 THEN r.retry[r.i] ELSE 1
  <2> DEFINE c == IF IsRetry(w) THEN RetryCase(w) ELSE 1
  <2>1. run'[w] = [r EXCEPT !.pc = "reserve", !.c = c] /\ r.pc = "start"
    BY <1>2, BecomeFields, Zenon DEF StartNode, At
  <2>2. c = IF r.retry[r.i] # 0 THEN r.retry[r.i] ELSE 1
    BY Zenon DEF IsRetry, RetryCase, Current
  <2> HIDE DEF c
  <2>3. Steps(w, "start", "reserve") /\ run'[w].c = c
    BY <1>1, <2>1, Zenon DEF RunRecord, Steps, SamePlace
  <2>4. QED
    BY <2>2, <2>3
<1>3. ASSUME ReserveCase(w)
      PROVE  Steps(w, "reserve", "send") /\ run'[w].c = r.c
  BY <1>3, GotoFields DEF ReserveCase, At
<1>4. ASSUME BeforeSend(w)
      PROVE  Steps(w, "send", "inflight") /\ run'[w].c = r.c
  BY <1>4, GotoFields DEF BeforeSend, At
<1>5. ASSUME NEW reply \in Reply, Become(w, [r EXCEPT !.pc = "record", !.reply = reply])
      PROVE  Steps(w, r.pc, "record") /\ run'[w].c = r.c /\ run'[w].reply \in Reply
  <2>1. run'[w] = [r EXCEPT !.pc = "record", !.reply = reply]
    BY <1>5, BecomeFields, Zenon
  <2>2. QED
    BY <1>1, <2>1, Zenon DEF RunRecord, Steps, SamePlace
<1>6. ASSUME NotSent(w)
      PROVE  Steps(w, "send", "record") /\ run'[w].c = r.c /\ run'[w].reply \in Reply
  <2>1. PICK reply \in Reply : Become(w, [r EXCEPT !.pc = "record", !.reply = reply])
    BY <1>6, Zenon DEF NotSent
  <2>2. QED
    BY <1>5, <1>6, <2>1 DEF NotSent, At
<1>7. ASSUME Receive(w)
      PROVE  Steps(w, "awaiting", "record") /\ run'[w].c = r.c /\ run'[w].reply \in Reply
  <2>1. PICK reply \in Reply : Become(w, [r EXCEPT !.pc = "record", !.reply = reply])
    BY <1>7, Zenon DEF Receive
  <2>2. QED
    BY <1>5, <1>7, <2>1 DEF Receive, At
<1>8. ASSUME Send(w)
      PROVE  Steps(w, "inflight", "awaiting") /\ run'[w].c = r.c
  <2>1. run'[w] = [r EXCEPT !.pc = "awaiting"] /\ r.pc = "inflight"
    BY <1>1, <1>8 DEF Send, At
  <2>2. QED
    BY <1>1, <2>1, Zenon DEF RunRecord, Steps, SamePlace
<1>9. QED
  BY <1>2, <1>3, <1>4, <1>6, <1>7, <1>8

LEMMA EvidenceMoves ==
  ASSUME RunInv, NEW w \in Worker
  PROVE  /\ ReserveRefused(w) =>
              /\ run[w].pc = "reserve" /\ run'[w].pc = "missing"
              /\ SamePlace(run'[w], run[w])
              /\ run'[w].c = run[w].c
              /\ run'[w].reason \in {"", "already reserved", "retry budget"}
         /\ MissingAttempt(w) =>
              \/ Steps(w, "missing", "contain") /\ run[w].reason = "retry budget"
              \/ Steps(w, "missing", "close")
              \/ Steps(w, "missing", "error")
         /\ RecordAttempt(w) =>
              /\ run[w].pc = "record"
              /\ \/ /\ run[w].reply.response
                    /\ Steps(w, "record", "artifact")
                    /\ run'[w].c = run[w].c
                    /\ run'[w].reply = run[w].reply
                 \/ /\ ~run[w].reply.response
                    /\ run'[w] = AfterEvidence(run[w], IsRetry(w))
         /\ StoreArtifact(w) =>
              run[w].pc = "artifact" /\ run'[w] = AfterEvidence(run[w], IsRetry(w))
<1> DEFINE r == run[w]
<1>1. r \in RunRecord
  BY DEF RunInv, RunOK
<1>2. ASSUME ReserveRefused(w)
      PROVE  /\ r.pc = "reserve" /\ run'[w].pc = "missing"
             /\ SamePlace(run'[w], r)
             /\ run'[w].c = r.c
             /\ run'[w].reason \in {"", "already reserved", "retry budget"}
  <2>1. run'[w] = [r EXCEPT !.pc = "missing", !.reason = RefusalReason(w)] /\ r.pc = "reserve"
    BY <1>2, BecomeFields, Zenon DEF ReserveRefused, At
  <2>2. RefusalReason(w) \in {"", "already reserved", "retry budget"}
    BY DEF RefusalReason
  <2>3. /\ run'[w].pc = "missing" /\ run'[w].reason = RefusalReason(w)
        /\ SamePlace(run'[w], r) /\ run'[w].c = r.c
    BY <1>1, <2>1, Zenon DEF RunRecord, SamePlace
  <2>4. QED
    BY <2>1, <2>2, <2>3
<1>3. ASSUME MissingAttempt(w)
      PROVE  \/ Steps(w, "missing", "contain") /\ r.reason = "retry budget"
             \/ Steps(w, "missing", "close")
             \/ Steps(w, "missing", "error")
  <2>1. \/ Goto(w, "contain") /\ r.reason = "retry budget"
        \/ Goto(w, "close")
        \/ Goto(w, "error")
    BY <1>3, Zenon DEF MissingAttempt
  <2>2. QED
    BY <1>3, <2>1, GotoFields DEF MissingAttempt, At
<1>4. ASSUME RecordAttempt(w)
      PROVE  /\ r.pc = "record"
             /\ \/ /\ r.reply.response
                   /\ Steps(w, "record", "artifact")
                   /\ run'[w].c = r.c
                   /\ run'[w].reply = r.reply
                \/ ~r.reply.response /\ run'[w] = AfterEvidence(r, IsRetry(w))
  <2>1. r.pc = "record"
    BY <1>4 DEF RecordAttempt, At
  <2>2. CASE r.reply.response
    <3>1. run'[w] = [r EXCEPT !.pc = "artifact"]
      BY <1>4, <2>2, BecomeFields, Zenon DEF RecordAttempt
    <3>2. /\ Steps(w, "record", "artifact")
          /\ run'[w].c = r.c
          /\ run'[w].reply = r.reply
      BY <1>1, <2>1, <3>1, Zenon DEF RunRecord, Steps, SamePlace
    <3>3. QED
      BY <2>1, <2>2, <3>2
  <2>3. CASE ~r.reply.response
    <3>1. run'[w] = AfterEvidence(r, IsRetry(w))
      BY <1>4, <2>3, BecomeFields, Zenon DEF RecordAttempt
    <3>2. QED
      BY <2>1, <2>3, <3>1
  <2>4. QED
    BY <2>2, <2>3
<1>5. ASSUME StoreArtifact(w)
      PROVE  r.pc = "artifact" /\ run'[w] = AfterEvidence(r, IsRetry(w))
  BY <1>5, BecomeFields, Zenon DEF StoreArtifact, At
<1>6. QED
  BY <1>2, <1>3, <1>4, <1>5

LEMMA OutcomeMoves ==
  ASSUME RunInv, NEW w \in Worker
  PROVE  /\ StopNode(w) => Steps(w, "stop", "stopCoverage")
         /\ StopCoverage(w) =>
              /\ Onward(w, "stopCoverage", "failed")
              /\ run'[w].down = [run[w].down EXCEPT ![OriginOf[run[w].i]] = "limited"]
         /\ FailNode(w) => Steps(w, "fail", "transportCoverage") \/ Steps(w, "fail", "error")
         /\ TransportCoverage(w) =>
              /\ run[w].pc = "transportCoverage" /\ run'[w].pc = "error"
              /\ SamePlace(run'[w], run[w])
              /\ run'[w].reason = "target transport"
         /\ ContainNode(w) => Steps(w, "contain", "containCoverage")
         /\ ContainCoverage(w) =>
              Onward(w, "containCoverage", "failed") /\ run'[w].down = run[w].down
         /\ Compare(w) => Steps(w, "compare", "finding")
         /\ PublishFinding(w) => Steps(w, "finding", "evaluated")
         /\ PublishCoverage(w) => Steps(w, "evaluated", "finish")
         /\ FinishNode(w) => Onward(w, "finish", run[w].result) /\ run'[w].down = run[w].down
         /\ FailEvaluation(w) => Steps(w, "failEvaluation", "error")
         /\ NodeCtxFails(w) =>
              \/ \E pc \in {"start", "stop", "stopCoverage", "finish", "failEvaluation"} :
                   Steps(w, pc, "error")
              \/ \E pc \in {"compare", "finding", "evaluated"} : Steps(w, pc, "failEvaluation")
<1> DEFINE r == run[w]
<1>1. r \in RunRecord
  BY DEF RunInv, RunOK
<1>2. r.pc \in {"stopCoverage", "containCoverage", "finish"} => r.i \in Node
  BY DEF RunInv, RunOK, NodePcs, NodePc
<1>3. /\ StopNode(w) => Steps(w, "stop", "stopCoverage")
      /\ ContainNode(w) => Steps(w, "contain", "containCoverage")
      /\ Compare(w) => Steps(w, "compare", "finding")
      /\ PublishFinding(w) => Steps(w, "finding", "evaluated")
      /\ PublishCoverage(w) => Steps(w, "evaluated", "finish")
      /\ FailEvaluation(w) => Steps(w, "failEvaluation", "error")
  BY GotoFields
     DEF StopNode, ContainNode, Compare, PublishFinding, PublishCoverage, FailEvaluation, At
<1>4. ASSUME FailNode(w)
      PROVE  Steps(w, "fail", "transportCoverage") \/ Steps(w, "fail", "error")
  <2>1. Goto(w, "transportCoverage") \/ Goto(w, "error")
    BY <1>4, Zenon DEF FailNode
  <2>2. QED
    BY <1>4, <2>1, GotoFields DEF FailNode, At
<1>5. ASSUME NodeCtxFails(w)
      PROVE  \/ \E pc \in {"start", "stop", "stopCoverage", "finish", "failEvaluation"} :
                  Steps(w, pc, "error")
             \/ \E pc \in {"compare", "finding", "evaluated"} : Steps(w, pc, "failEvaluation")
  BY <1>5, GotoFields DEF NodeCtxFails, CtxFails, At
<1>6. ASSUME TransportCoverage(w)
      PROVE  /\ r.pc = "transportCoverage" /\ run'[w].pc = "error"
             /\ SamePlace(run'[w], r)
             /\ run'[w].reason = "target transport"
  <2>1. /\ run'[w] = [r EXCEPT !.pc = "error", !.reason = "target transport"]
        /\ r.pc = "transportCoverage"
    BY <1>6, BecomeFields, Zenon DEF TransportCoverage, At
  <2>2. QED
    BY <1>1, <2>1, Zenon DEF RunRecord, SamePlace
<1>7. ASSUME StopCoverage(w)
      PROVE  /\ Onward(w, "stopCoverage", "failed")
             /\ run'[w].down = [r.down EXCEPT ![OriginOf[r.i]] = "limited"]
  <2> DEFINE down == [r.down EXCEPT ![OriginOf[Current(w)]] = "limited"]
             q == [r EXCEPT !.result = "failed", !.down[OriginOf[Current(w)]] = "limited"]
  <2>1. run'[w] = NextNode(q) /\ r.pc = "stopCoverage"
    BY <1>7, BecomeFields, Zenon DEF StopCoverage, At
  <2>2. down \in [Origin -> {"up", "limited", "unavailable"}] /\ "failed" \in TerminalStatus
    BY <1>1 DEF RunRecord, TerminalStatus
  <2>3. /\ q \in RunRecord /\ q.i = r.i /\ q.todo = r.todo /\ q.retry = r.retry
        /\ q.down = down /\ q.result = "failed"
    BY <1>1, <2>2, Zenon DEF RunRecord
  <2>4. down = [r.down EXCEPT ![OriginOf[r.i]] = "limited"]
    BY Zenon DEF Current
  <2> HIDE DEF q, down
  <2>5. QED
    BY <1>2, <2>1, <2>3, <2>4, NextNodeFields DEF Onward
<1>8. ASSUME ContainCoverage(w)
      PROVE  Onward(w, "containCoverage", "failed") /\ run'[w].down = r.down
  <2> DEFINE q == [r EXCEPT !.result = "failed"]
  <2>1. run'[w] = NextNode(q) /\ r.pc = "containCoverage"
    BY <1>8, BecomeFields, Zenon DEF ContainCoverage, At
  <2>2. "failed" \in TerminalStatus
    BY DEF TerminalStatus
  <2>3. /\ q \in RunRecord /\ q.i = r.i /\ q.todo = r.todo /\ q.retry = r.retry
        /\ q.down = r.down /\ q.result = "failed"
    BY <1>1, <2>2, Zenon DEF RunRecord
  <2> HIDE DEF q
  <2>4. QED
    BY <1>2, <2>1, <2>3, NextNodeFields DEF Onward
<1>9. ASSUME FinishNode(w)
      PROVE  Onward(w, "finish", r.result) /\ run'[w].down = r.down
  <2>1. run'[w] = NextNode(r) /\ r.pc = "finish"
    BY <1>9, BecomeFields, Zenon DEF FinishNode, At
  <2>2. QED
    BY <1>1, <1>2, <2>1, NextNodeFields DEF Onward
<1>10. QED
  BY <1>3, <1>4, <1>5, <1>6, <1>7, <1>8, <1>9

\* w marks node i as skipped, for the nodes i .. last.
MarksFrom(w, i, last, reason) ==
  /\ run'[w].pc = "markFinish"
  /\ run'[w].todo = run[w].todo
  /\ run'[w].retry = run[w].retry
  /\ run'[w].down = run[w].down
  /\ run'[w].i = i
  /\ run'[w].last = last
  /\ run'[w].reason = reason

LEMMA RemainingMoves ==
  ASSUME NEW w \in Worker, NEW q \in RunRecord,
         q.todo = run[w].todo, q.retry = run[w].retry, q.down = run[w].down,
         NEW n \in Node, NEW reason \in Reason,
         run'[w] = MarkRemaining(q, n + 1, reason)
  PROVE  \/ /\ n + 1 \in Node
            /\ MarksFrom(w, n + 1, NodeCount, reason)
            /\ run'[w].result = q.result
         \/ run'[w].pc = "finalize" /\ run'[w].result = q.result /\ run'[w].reason = ""
<1>1. PICK i \in 1 .. NodeCount + 1 : i = n + 1
  BY StoreAssumption DEF Node
<1>2. MarkRemaining(q, n + 1, reason) = MarkRemaining(q, i, reason)
  BY <1>1
<1>3. i <= NodeCount => n + 1 \in Node
  BY <1>1, StoreAssumption DEF Node
<1> DEFINE p == MarkRemaining(q, i, reason)
<1>4. \/ /\ i <= NodeCount
         /\ p.pc = "markFinish"
         /\ p.todo = q.todo /\ p.retry = q.retry /\ p.down = q.down
         /\ p.result = q.result /\ p.i = i /\ p.last = NodeCount /\ p.reason = reason
      \/ p.pc = "finalize" /\ p.result = q.result /\ p.reason = ""
  BY RemainingFields
<1>5. run'[w] = p
  BY <1>2
<1> HIDE DEF p
<1>6. QED
  BY <1>1, <1>3, <1>4, <1>5 DEF MarksFrom

LEMMA ScheduleMoves ==
  ASSUME RunInv, NEW w \in Worker
  PROVE  /\ \A t : Scheduled(w, t) => run[w].i \in Node /\ run[w].pc = "top" /\ run[w].todo[run[w].i] = t
         /\ PassDoneNode(w) => Onward(w, "top", run[w].result) /\ run'[w].down = run[w].down
         /\ MeetInterruptedNode(w) => Steps(w, "top", "interrupt")
         /\ FailInterruptedNode(w) => Steps(w, "interrupt", "interruptCoverage")
         /\ CoverInterruptedNode(w) =>
              Onward(w, "interruptCoverage", "failed") /\ run'[w].down = run[w].down
         /\ CancelScheduledNodes(w) =>
              /\ MarksFrom(w, run[w].i, NodeCount, "assessment canceled")
              /\ run'[w].result = "canceled"
         /\ MarkFinish(w) => Steps(w, "markFinish", "markCoverage")
<1> DEFINE r == run[w]
<1>1. r \in RunRecord
  BY DEF RunInv, RunOK
<1>2. ASSUME NEW t, Scheduled(w, t)
      PROVE  r.i \in Node /\ r.pc = "top" /\ r.todo[r.i] = t
  <2>1. r.i \in 1 .. NodeCount + 1
    BY <1>1 DEF RunRecord
  <2>2. QED
    BY <1>2, <2>1, StoreAssumption DEF Scheduled, At, Current, Node
<1>3. ASSUME PassDoneNode(w)
      PROVE  Onward(w, "top", r.result) /\ run'[w].down = r.down
  <2>1. run'[w] = NextNode(r)
    BY <1>3, BecomeFields, Zenon DEF PassDoneNode
  <2>2. r.i \in Node /\ r.pc = "top"
    BY <1>2, <1>3 DEF PassDoneNode
  <2>3. QED
    BY <1>1, <2>1, <2>2, NextNodeFields DEF Onward
<1>4. MeetInterruptedNode(w) => Steps(w, "top", "interrupt")
  BY GotoFields DEF MeetInterruptedNode, Scheduled, At
<1>5. /\ FailInterruptedNode(w) => Steps(w, "interrupt", "interruptCoverage")
      /\ MarkFinish(w) => Steps(w, "markFinish", "markCoverage")
  BY GotoFields DEF FailInterruptedNode, MarkFinish, At
<1>6. ASSUME CoverInterruptedNode(w)
      PROVE  Onward(w, "interruptCoverage", "failed") /\ run'[w].down = r.down
  <2> DEFINE q == [r EXCEPT !.result = "failed"]
  <2>1. run'[w] = NextNode(q) /\ r.pc = "interruptCoverage"
    BY <1>6, BecomeFields, Zenon DEF CoverInterruptedNode, At
  <2>2. "failed" \in TerminalStatus /\ r.i \in Node
    BY <2>1 DEF TerminalStatus, RunInv, RunOK, NodePcs
  <2>3. /\ q \in RunRecord /\ q.i = r.i /\ q.todo = r.todo /\ q.retry = r.retry
        /\ q.down = r.down /\ q.result = "failed"
    BY <1>1, <2>2, Zenon DEF RunRecord
  <2> HIDE DEF q
  <2>4. QED
    BY <2>1, <2>2, <2>3, NextNodeFields DEF Onward
<1>7. ASSUME CancelScheduledNodes(w)
      PROVE  /\ MarksFrom(w, r.i, NodeCount, "assessment canceled")
             /\ run'[w].result = "canceled"
  <2> DEFINE q == [r EXCEPT !.result = "canceled"]
  <2>1. run'[w] = MarkRemaining(q, r.i, "assessment canceled")
    BY <1>7, BecomeFields, Zenon DEF CancelScheduledNodes, Current
  <2>2. "canceled" \in TerminalStatus /\ "assessment canceled" \in Reason
    BY DEF TerminalStatus, Reason
  <2>3. /\ q \in RunRecord /\ q.todo = r.todo /\ q.retry = r.retry
        /\ q.down = r.down /\ q.result = "canceled"
    BY <1>1, <2>2, Zenon DEF RunRecord
  <2> HIDE DEF q
  <2>4. PICK i \in Node : i = r.i
    BY <1>2, <1>7 DEF CancelScheduledNodes
  <2>5. i \in 1 .. NodeCount + 1 /\ i # NodeCount + 1
    BY StoreAssumption DEF Node
  <2> DEFINE p == MarkRemaining(q, i, "assessment canceled")
  <2>6. /\ p.pc = "markFinish" /\ p.todo = q.todo /\ p.retry = q.retry /\ p.down = q.down
        /\ p.result = q.result /\ p.i = i /\ p.last = NodeCount
        /\ p.reason = "assessment canceled"
    BY <2>2, <2>3, <2>5, RemainingFields
  <2>7. run'[w] = p
    BY <2>1, <2>4
  <2> HIDE DEF p
  <2>8. QED
    BY <2>3, <2>4, <2>6, <2>7 DEF MarksFrom
<1>8. QED
  BY <1>2, <1>3, <1>4, <1>5, <1>6, <1>7

LEMMA DispatchMoves ==
  ASSUME RunInv, NEW w \in Worker, DispatchNode(w)
  PROVE  LET down == run[w].down[OriginOf[run[w].i]]
         IN  \/ Steps(w, "top", "start") /\ down = "up"
             \/ /\ down = "limited"
                /\ MarksFrom(w, run[w].i, run[w].i, "origin rate limited")
                /\ run'[w].result = "failed"
             \/ /\ down = "unavailable"
                /\ run'[w].pc = "contain"
                /\ SamePlace(run'[w], run[w])
                /\ run'[w].reason = "origin unavailable"
<1> DEFINE r == run[w]
           down == r.down[OriginOf[r.i]]
           limited == [r EXCEPT !.pc = "markFinish", !.last = Current(w),
                                !.reason = "origin rate limited", !.result = "failed"]
           unavailable == [r EXCEPT !.pc = "contain", !.reason = "origin unavailable"]
<1>1. r \in RunRecord
  BY DEF RunInv, RunOK
<1>2. r.i \in Node /\ r.pc = "top"
  BY ScheduleMoves DEF DispatchNode
<1>3. down \in {"up", "limited", "unavailable"}
  BY <1>1, <1>2, ExecutionAssumption DEF RunRecord
<1>4. run'[w] = CASE down = "up" -> [r EXCEPT !.pc = "start"]
                  [] down = "limited" -> limited
                  [] down = "unavailable" -> unavailable
  BY BecomeFields, Zenon DEF DispatchNode, Current
<1>5. SamePlace([r EXCEPT !.pc = "start"], r) /\ [r EXCEPT !.pc = "start"].pc = "start"
      /\ [r EXCEPT !.pc = "start"].reason = r.reason
  BY <1>1, MovedFields
<1>6. /\ limited.pc = "markFinish" /\ limited.todo = r.todo /\ limited.retry = r.retry
      /\ limited.down = r.down /\ limited.i = r.i /\ limited.last = r.i
      /\ limited.reason = "origin rate limited" /\ limited.result = "failed"
  BY <1>1, Zenon DEF RunRecord, Current
<1>7. /\ unavailable.pc = "contain" /\ SamePlace(unavailable, r)
      /\ unavailable.reason = "origin unavailable"
  BY <1>1, Zenon DEF RunRecord, SamePlace
<1> HIDE DEF limited, unavailable
<1>8. \/ down = "up" /\ run'[w] = [r EXCEPT !.pc = "start"]
      \/ down = "limited" /\ run'[w] = limited
      \/ down = "unavailable" /\ run'[w] = unavailable
  BY <1>3, <1>4, Zenon
<1>9. QED
  BY <1>2, <1>5, <1>6, <1>7, <1>8 DEF Steps, MarksFrom

LEMMA ErrorMoves ==
  ASSUME RunInv, NEW w \in Worker, HandleNodeError(w)
  PROVE  /\ run[w].pc = "error"
         /\ \/ run'[w] = Closing
            \/ run'[w].pc = "finalize" /\ run'[w].result # "succeeded" /\ run'[w].reason = ""
            \/ /\ run[w].i + 1 \in Node
               /\ \E reason \in {"assessment canceled", "execution error"} :
                    MarksFrom(w, run[w].i + 1, NodeCount, reason)
               /\ run'[w].result # "succeeded"
            \/ /\ run[w].reason = "target transport"
               /\ Onward(w, "error", "failed")
               /\ run'[w].down = [run[w].down EXCEPT ![OriginOf[run[w].i]] = "unavailable"]
<1> DEFINE r == run[w]
           canceled == [r EXCEPT !.result = "canceled"]
           failed == [r EXCEPT !.result = "failed"]
           down == [r.down EXCEPT ![OriginOf[Current(w)]] = "unavailable"]
           contained == [r EXCEPT !.result = "failed",
                                  !.down[OriginOf[Current(w)]] = "unavailable"]
<1>1. r \in RunRecord /\ RunOK(r) /\ r.pc = "error"
  BY DEF RunInv, RunOK, HandleNodeError, At
<1>2. r.i \in Node
  BY <1>1 DEF RunOK, NodePcs, NodePc
<1>3. r.i + 1 \in 1 .. NodeCount + 1 /\ (r.i + 1 # NodeCount + 1 => r.i + 1 \in Node)
  BY <1>2, StoreAssumption DEF Node
<1>4. /\ {"canceled", "failed"} \subseteq TerminalStatus
      /\ {"assessment canceled", "execution error"} \subseteq Reason
  BY DEF TerminalStatus, Reason
<1>5. down \in [Origin -> {"up", "limited", "unavailable"}]
  BY <1>1 DEF RunRecord
<1>6. /\ canceled \in RunRecord /\ canceled.todo = r.todo /\ canceled.retry = r.retry
      /\ canceled.down = r.down /\ canceled.result = "canceled"
      /\ failed \in RunRecord /\ failed.todo = r.todo /\ failed.retry = r.retry
      /\ failed.down = r.down /\ failed.result = "failed"
  BY <1>1, <1>4, Zenon DEF RunRecord
<1>7. /\ contained \in RunRecord /\ contained.i = r.i /\ contained.todo = r.todo
      /\ contained.retry = r.retry /\ contained.down = down /\ contained.result = "failed"
  BY <1>1, <1>4, <1>5, Zenon DEF RunRecord
<1>8. r.ctx \in {"live", "canceled", "lost"}
  BY <1>1 DEF RunRecord
<1>9. run'[w] =
        CASE r.ctx = "lost" -> Closing
          [] r.ctx = "canceled" -> MarkRemaining(canceled, Current(w) + 1, "assessment canceled")
          [] CtxLive(w) /\ r.reason = "target transport" -> NextNode(contained)
          [] CtxLive(w) /\ r.reason # "target transport" ->
               MarkRemaining(failed, Current(w) + 1, "execution error")
  BY BecomeFields, Zenon DEF HandleNodeError
<1>10. down = [r.down EXCEPT ![OriginOf[r.i]] = "unavailable"]
  BY Zenon DEF Current
<1> HIDE DEF canceled, failed, contained, down
<1>11. \/ run'[w] = Closing
       \/ run'[w] = MarkRemaining(canceled, r.i + 1, "assessment canceled")
       \/ run'[w] = NextNode(contained) /\ r.reason = "target transport"
       \/ run'[w] = MarkRemaining(failed, r.i + 1, "execution error")
  BY <1>8, <1>9, Zenon DEF CtxLive, Current
<1>12. /\ run'[w] = MarkRemaining(canceled, r.i + 1, "assessment canceled") =>
            \/ run'[w].pc = "finalize" /\ run'[w].result = "canceled" /\ run'[w].reason = ""
            \/ /\ r.i + 1 \in Node
               /\ MarksFrom(w, r.i + 1, NodeCount, "assessment canceled")
               /\ run'[w].result = "canceled"
       /\ run'[w] = MarkRemaining(failed, r.i + 1, "execution error") =>
            \/ run'[w].pc = "finalize" /\ run'[w].result = "failed" /\ run'[w].reason = ""
            \/ /\ r.i + 1 \in Node
               /\ MarksFrom(w, r.i + 1, NodeCount, "execution error")
               /\ run'[w].result = "failed"
  BY <1>2, <1>4, <1>6, RemainingMoves
<1>13. CASE run'[w] = NextNode(contained) /\ r.reason = "target transport"
  <2>1. /\ NextNode(contained).pc = "top"
        /\ NextNode(contained).todo = r.todo
        /\ NextNode(contained).retry = r.retry
        /\ NextNode(contained).down = down
        /\ NextNode(contained).result = "failed"
        /\ NextNode(contained).i = r.i + 1
        /\ NextNode(contained).reason = ""
    BY <1>2, <1>7, NextNodeFields
  <2>2. QED
    BY <1>1, <1>10, <1>13, <2>1 DEF Onward
<1>14. QED
  BY <1>1, <1>11, <1>12, <1>13

LEMMA MarkMoves ==
  ASSUME RunInv, NEW w \in Worker, MarkCoverage(w)
  PROVE  /\ run[w].pc = "markCoverage"
         /\ \/ run'[w].pc = "finalize" /\ run'[w].result = run[w].result /\ run'[w].reason = ""
            \/ /\ MarksFrom(w, run[w].i + 1, run[w].last, run[w].reason)
               /\ run[w].i + 1 \in Node /\ run[w].i + 1 <= run[w].last
               /\ run'[w].result = run[w].result
            \/ /\ Onward(w, "markCoverage", run[w].result)
               /\ run[w].i + 1 \in Node /\ ~(run[w].i + 1 <= run[w].last)
               /\ run'[w].down = run[w].down
<1> DEFINE r == run[w]
           q == [r EXCEPT !.i = @ + 1]
<1>1. run'[w] = MarkOrFinalize(q) /\ r.pc = "markCoverage"
  BY BecomeFields, Zenon DEF MarkCoverage, At
<1>2. r \in RunRecord /\ r.i \in Node
  BY <1>1 DEF RunInv, RunOK, NodePcs
<1>3. r.i + 1 \in 1 .. NodeCount + 1 /\ (r.i + 1 <= NodeCount => r.i + 1 \in Node)
  BY <1>2, StoreAssumption DEF Node
<1>4. /\ q \in RunRecord /\ q.todo = r.todo /\ q.retry = r.retry /\ q.down = r.down
      /\ q.result = r.result /\ q.i = r.i + 1 /\ q.last = r.last /\ q.reason = r.reason
  BY <1>2, <1>3, Zenon DEF RunRecord
<1> HIDE DEF q
<1>5. Marks(run'[w], q)
  BY <1>1, <1>4, MarkedFields
<1>6. r.last \in 0 .. NodeCount
  BY <1>2 DEF RunRecord
<1>7. r.i + 1 <= r.last => r.i + 1 <= NodeCount
  BY <1>2, <1>6, StoreAssumption DEF Node
<1>8. QED
  BY <1>1, <1>3, <1>4, <1>5, <1>7 DEF Marks, SamePlace, MarksFrom, Onward

\* The rows that only leased transactions write.
rowVars == <<attempt, coverage, comparison, finding, artifact>>

\* A step of w that leaves w outside its schedule.
Leaves(w) ==
  /\ run'[w].pc \notin LoadedPcs
  /\ UNCHANGED <<rowVars, sent>>
  /\ run'[w].reason = "target transport" =>
       run[w].reason = "target transport" /\ run[w].pc # "error"
  /\ run'[w].pc = "finalize" => ScheduleEnds(w)

\* A step of w that changes nothing but its heartbeat or its context.
Quiet(w) ==
  /\ Steps(w, run[w].pc, run[w].pc)
  /\ run'[w].c = run[w].c
  /\ run'[w].reply = run[w].reply
  /\ run'[w].seen = run[w].seen
  /\ run'[w].signed = run[w].signed
  /\ UNCHANGED <<storeVars, sent>>

\* w gives up, and has nothing left to do or only to release the lease.
Drops(w) ==
  /\ run'[w] = IdleRun \/ run'[w] = Closing
  /\ UNCHANGED <<storeVars, sent>>

\* A store error, or a failed heartbeat, that w meets inside its node.
Fails(w) ==
  /\ \/ Steps(w, "reserve", "missing") /\ run'[w].c = run[w].c
     \/ /\ Steps(w, "send", "record")
        /\ run'[w].c = run[w].c
        /\ run'[w].reply \in Reply
     \/ \E pc \in {"compare", "finding", "evaluated"} : Steps(w, pc, "failEvaluation")
     \/ \E pc \in NodePc : Steps(w, pc, "error") /\ run[w].reason # "origin unavailable"
  /\ UNCHANGED <<storeVars, sent>>

\* executeScheduledNodes between two nodes.
Schedules(w) ==
  \/ PassDoneNode(w) \/ MeetInterruptedNode(w) \/ FailInterruptedNode(w)
  \/ CoverInterruptedNode(w) \/ CancelScheduledNodes(w) \/ DispatchNode(w)
  \/ HandleNodeError(w) \/ MarkFinish(w) \/ MarkCoverage(w)

\* The state w loads into its schedule.
Loads(w) ==
  /\ run[w].pc = "load"
  /\ run'[w].pc = "top"
  /\ run'[w].i = 1
  /\ run'[w].todo = [n \in Node |-> Todo(n)]
  /\ run'[w].retry = [n \in Node |-> RetrySource(n)]
  /\ run'[w].down = [o \in Origin |-> OriginState(o)]
  /\ run'[w].result = InitialResult
  /\ run'[w].reason = run[w].reason
  /\ UNCHANGED <<storeVars, sent>>

LEMMA IdleFields == /\ IdleRun.pc = "idle" /\ Closing.pc = "close"
                    /\ IdleRun.reason = "" /\ Closing.reason = ""
<1>1. IdleRun \in RunRecord
  BY IdleIsOK DEF RunOK
<1>2. IdleRun.pc = "idle" /\ IdleRun.reason = ""
  BY Zenon DEF IdleRun
<1>3. QED
  BY <1>1, <1>2, MovedFields DEF Closing

LEMMA LoadMoves ==
  ASSUME RunInv, NEW w \in Worker, Load(w)
  PROVE  Drops(w) \/ Loads(w)
<1> DEFINE r == run[w]
           todo == [n \in Node |-> Todo(n)]
           retry == [n \in Node |-> RetrySource(n)]
           down == [o \in Origin |-> OriginState(o)]
           q == [r EXCEPT !.pc = "top", !.i = 1, !.seen = "absent", !.todo = todo,
                          !.retry = retry, !.down = down, !.result = InitialResult]
<1>1. r \in RunRecord
  BY DEF RunInv, RunOK
<1>2. run'[w] = Closing \/ run'[w] = q
  BY BecomeFields, Zenon DEF Load
<1>3. r.pc = "load" /\ UNCHANGED <<storeVars, sent>>
  BY Zenon DEF Load, At, Become
<1>4. CASE run'[w] = Closing
  BY <1>3, <1>4 DEF Drops
<1>5. CASE run'[w] = q
  <2>1. /\ q.pc = "top" /\ q.i = 1 /\ q.todo = todo /\ q.retry = retry /\ q.down = down
        /\ q.result = InitialResult /\ q.reason = r.reason
    BY <1>1, Zenon DEF RunRecord
  <2> HIDE DEF q
  <2>2. QED
    BY <1>3, <1>5, <2>1, Zenon DEF Loads
<1>6. QED
  BY <1>2, <1>4, <1>5

\* Entering and leaving the schedule.
LEMMA EnterMoves ==
  ASSUME RunInv, NEW w \in Worker,
         \/ BeginRun(w) \/ ResumeLoads(w)
         \/ PersistNode(w) \/ PersistBudget(w) \/ PersistFails(w)
         \/ Acquire(w) \/ AcquireRefused(w)
         \/ Reactivate(w) \/ ReactivateRefused(w) \/ Reload(w)
  PROVE  Leaves(w)
<1> DEFINE r == run[w]
<1>1. r \in RunRecord /\ IdleRun \in RunRecord
  BY IdleIsOK DEF RunInv, RunOK
<1>2. UNCHANGED <<rowVars, sent>>
  <2>1. UNCHANGED sent
    BY Zenon DEF BeginRun, ResumeLoads, PersistNode, PersistBudget, PersistFails, Acquire,
         AcquireRefused, Reactivate, ReactivateRefused, Reload, Become, Goto
  <2>2. \/ UNCHANGED storeVars \/ BeginAssessment \/ ReactivateCanceledAssessment
        \/ AddPlanNode(Current(w)) \/ AddBudgetReservation(Current(w))
        \/ AcquireAssessmentExecutionLease(w)
    BY Zenon DEF BeginRun, ResumeLoads, PersistNode, PersistBudget, PersistFails, Acquire,
         AcquireRefused, Reactivate, ReactivateRefused, Reload
  <2>3. UNCHANGED rowVars
    BY <2>2, Zenon DEF BeginAssessment, ReactivateCanceledAssessment, AddPlanNode,
         AddBudgetReservation, AcquireAssessmentExecutionLease, evidenceVars, storeVars, rowVars
  <2>4. QED
    BY <2>1, <2>3
<1>3. ASSUME NEW p \in {"budget", "reactivate", "load", "reload"}, Goto(w, p), r.pc # "error"
      PROVE  Leaves(w)
  BY <1>2, <1>3, GotoFields DEF Steps, Leaves, LoadedPcs, NodePc
<1>4. ASSUME Become(w, IdleRun) \/ Become(w, Closing)
      PROVE  Leaves(w)
  <2>1. run'[w] = IdleRun \/ run'[w] = Closing
    BY <1>4, BecomeFields
  <2>2. QED
    BY <1>2, <2>1, IdleFields DEF Leaves, LoadedPcs, NodePc
<1>5. CASE BeginRun(w) \/ ResumeLoads(w)
  <2>1. run'[w] = [IdleRun EXCEPT !.pc = "persist", !.seen = "running"]
        \/ run'[w] = [IdleRun EXCEPT !.pc = "acquire", !.seen = status]
    BY <1>5, BecomeFields, Zenon DEF BeginRun, ResumeLoads
  <2>2. (run'[w].pc = "persist" \/ run'[w].pc = "acquire") /\ run'[w].reason = IdleRun.reason
    <3>1. IdleRun \in RunRecord
      BY IdleIsOK DEF RunOK
    <3>2. CASE run'[w] = [IdleRun EXCEPT !.pc = "persist", !.seen = "running"]
      BY <3>1, <3>2 DEF RunRecord
    <3>3. CASE run'[w] = [IdleRun EXCEPT !.pc = "acquire", !.seen = status]
      BY <3>1, <3>3 DEF RunRecord
    <3>4. QED
      BY <2>1, <3>2, <3>3
  <2>3. QED
    BY <1>2, <2>2, IdleFields DEF Leaves, LoadedPcs, NodePc
<1>6. CASE PersistNode(w)
  BY <1>3, <1>6 DEF PersistNode, At
<1>7. CASE PersistBudget(w)
  <2>1. \/ run'[w] = [r EXCEPT !.pc = "acquire", !.i = 1]
        \/ run'[w] = [r EXCEPT !.pc = "persist", !.i = @ + 1]
    BY <1>7, BecomeFields, Zenon DEF PersistBudget
  <2>2. (run'[w].pc = "persist" \/ run'[w].pc = "acquire") /\ run'[w].reason = r.reason
    BY <1>1, <2>1, Zenon DEF RunRecord
  <2>3. r.pc = "budget"
    BY <1>7 DEF PersistBudget, At
  <2>4. QED
    BY <1>2, <2>2, <2>3 DEF Leaves, LoadedPcs, NodePc
<1>8. CASE PersistFails(w) \/ AcquireRefused(w) \/ ReactivateRefused(w)
  BY <1>4, <1>8, Zenon DEF PersistFails, AcquireRefused, ReactivateRefused
<1>9. CASE Acquire(w) \/ Reactivate(w)
  <2>1. Goto(w, "reactivate") \/ Goto(w, "load") \/ Goto(w, "reload")
    BY <1>9, Zenon DEF Acquire, Reactivate
  <2>2. r.pc # "error"
    BY <1>9 DEF Acquire, Reactivate, At
  <2>3. QED
    BY <1>3, <2>1, <2>2
<1>10. CASE Reload(w)
  <2>1. Goto(w, "load") \/ Become(w, Closing)
    BY <1>10, Zenon DEF Reload, Goto
  <2>2. r.pc # "error"
    BY <1>10 DEF Reload, At
  <2>3. QED
    BY <1>3, <1>4, <2>1, <2>2
<1>11. QED
  BY <1>5, <1>6, <1>7, <1>8, <1>9, <1>10

LEMMA LeaveMoves ==
  ASSUME RunInv, NEW w \in Worker,
         \/ ScheduleEnds(w) \/ ScheduleLosesLease(w) \/ MarkRefused(w)
         \/ Finalize(w) \/ FinalizeRefused(w) \/ SealLoad(w) \/ SealWrite(w) \/ Close(w)
         \/ LeaseHeldByOther(w) \/ InterruptCtxFails(w)
         \/ Crash(w) \/ PersistError(w)
  PROVE  Leaves(w)
<1> DEFINE r == run[w]
<1>1. r \in RunRecord /\ IdleRun \in RunRecord
  BY IdleIsOK DEF RunInv, RunOK
<1>2. UNCHANGED <<rowVars, sent>>
  <2>1. UNCHANGED sent
    BY Zenon DEF ScheduleEnds, ScheduleLosesLease, MarkRefused, Finalize, FinalizeRefused,
         SealLoad, SealWrite, Close, LeaseHeldByOther, InterruptCtxFails, Crash, PersistError, Become
  <2>2. \/ UNCHANGED storeVars \/ FinishAssessment("failed") \/ FinishAssessment(r.result)
        \/ ReleaseAssessmentExecutionLease(w) \/ \E signed \in r.signed : AddSealWithLease(w, signed)
    BY Zenon DEF ScheduleEnds, ScheduleLosesLease, MarkRefused, Finalize, FinalizeRefused,
         SealLoad, SealWrite, Close, LeaseHeldByOther, InterruptCtxFails, Crash, PersistError,
         FinishAssessmentWithLease
  <2>3. UNCHANGED rowVars
    BY <2>2, Zenon DEF FinishAssessment, ReleaseAssessmentExecutionLease, AddSealWithLease,
         evidenceVars, storeVars, rowVars
  <2>4. QED
    BY <2>1, <2>3
<1>3. ASSUME run'[w] = IdleRun \/ run'[w] = Closing
      PROVE  Leaves(w)
  BY <1>2, <1>3, IdleFields DEF Leaves, LoadedPcs, NodePc
<1>4. CASE \/ ScheduleLosesLease(w) \/ MarkRefused(w) \/ FinalizeRefused(w) \/ SealWrite(w)
           \/ Close(w) \/ LeaseHeldByOther(w) \/ InterruptCtxFails(w)
  <2>1. Become(w, IdleRun) \/ Become(w, Closing)
    BY <1>4, Zenon DEF ScheduleLosesLease, MarkRefused, FinalizeRefused, SealWrite, Close,
         LeaseHeldByOther, InterruptCtxFails
  <2>2. QED
    BY <1>3, <2>1, BecomeFields
<1>5. CASE Crash(w) \/ PersistError(w)
  <2>1. run' = [run EXCEPT ![w] = IdleRun]
    BY <1>5, Zenon DEF Crash, PersistError
  <2>2. QED
    BY <1>3, <2>1 DEF RunInv, TypeOK
<1>6. CASE ScheduleEnds(w)
  <2>1. run'[w] = MarkOrFinalize(r)
    BY <1>6, BecomeFields, Zenon DEF ScheduleEnds
  <2>2. r.i \in 1 .. NodeCount + 1 /\ r.last \in 0 .. NodeCount
    BY <1>1 DEF RunRecord
  <2>3. ~(r.i <= r.last) /\ ~(r.i <= NodeCount)
    BY <1>6, <2>2, StoreAssumption DEF ScheduleEnds, Current
  <2>4. run'[w].pc = "finalize" /\ run'[w].reason = ""
    BY <1>1, <2>1, <2>3, MarkedFields DEF Marks
  <2>5. QED
    BY <1>2, <1>6, <2>4 DEF Leaves, LoadedPcs, NodePc
<1>7. CASE Finalize(w)
  <2>1. run'[w] = [IdleRun EXCEPT !.pc = "sealLoad", !.hb = r.hb]
    BY <1>7, BecomeFields, Zenon DEF Finalize
  <2>2. run'[w].pc = "sealLoad" /\ run'[w].reason = IdleRun.reason
    BY <1>1, <2>1, Zenon DEF RunRecord
  <2>3. QED
    BY <1>2, <2>2, IdleFields DEF Leaves, LoadedPcs, NodePc
<1>8. CASE SealLoad(w)
  <2>1. run'[w] = Closing \/ run'[w] = [r EXCEPT !.pc = "sealWrite", !.signed = {Evidence}]
    BY <1>8, BecomeFields, Zenon DEF SealLoad
  <2>2. CASE run'[w] = [r EXCEPT !.pc = "sealWrite", !.signed = {Evidence}]
    <3>1. run'[w].pc = "sealWrite" /\ run'[w].reason = r.reason
      BY <1>1, <2>2, Zenon DEF RunRecord
    <3>2. r.pc = "sealLoad"
      BY <1>8 DEF SealLoad, At
    <3>3. QED
      BY <1>2, <3>1, <3>2 DEF Leaves, LoadedPcs, NodePc
  <2>3. QED
    BY <1>3, <2>1, <2>2
<1>9. QED
  BY <1>4, <1>5, <1>6, <1>7, <1>8

LEMMA FaultMoves ==
  ASSUME RunInv, NEW w \in Worker,
         EnsureFails(w) \/ HeartbeatFails(w) \/ Cancel(w) \/ StoreError(w)
  PROVE  Drops(w) \/ Quiet(w) \/ Fails(w)
<1> DEFINE r == run[w]
           reply == [NoReply EXCEPT !.error = TRUE, !.retryable = TRUE]
           unsent == [r EXCEPT !.pc = "record", !.reply = reply]
<1>1. r \in RunRecord /\ run \in [Worker -> RunRecord]
  BY DEF RunInv, RunOK, TypeOK
<1>2. UNCHANGED <<storeVars, sent>>
  BY Zenon DEF EnsureFails, HeartbeatFails, Cancel, StoreError, Become
<1>3. ASSUME run'[w] = IdleRun \/ run'[w] = Closing
      PROVE  Drops(w)
  BY <1>2, <1>3 DEF Drops
<1>4. ASSUME NEW p, run'[w] = [r EXCEPT !.pc = p]
      PROVE  Steps(w, r.pc, p) /\ run'[w].c = r.c
  BY <1>1, <1>4, MovedFields DEF Steps
<1>5. CASE EnsureFails(w)
  <2>1. run'[w] = Closing \/ (run'[w] = [r EXCEPT !.pc = "error"] /\ InNode(w))
    BY <1>5, BecomeFields, Zenon DEF EnsureFails
  <2>2. QED
    BY <1>2, <1>3, <1>4, <2>1 DEF InNode, Fails
<1>6. CASE Cancel(w)
  <2>1. run'[w] = [r EXCEPT !.ctx = "canceled"]
    BY <1>1, <1>6 DEF Cancel
  <2>2. /\ Steps(w, r.pc, r.pc) /\ run'[w].c = r.c /\ run'[w].reply = r.reply
        /\ run'[w].seen = r.seen /\ run'[w].signed = r.signed
    BY <1>1, <2>1, Zenon DEF RunRecord, Steps, SamePlace
  <2>3. QED
    BY <1>2, <2>2 DEF Quiet
<1>7. CASE HeartbeatFails(w)
  <2> DEFINE hb == IF Fenced(w) THEN "error" ELSE "held"
             ctx == IF CtxLive(w) THEN "lost" ELSE r.ctx
  <2>1. run' = [run EXCEPT ![w].hb = hb, ![w].ctx = IF CtxLive(w) THEN "lost" ELSE @]
    BY <1>7, Zenon DEF HeartbeatFails
  <2>2. run'[w] = [r EXCEPT !.hb = hb, !.ctx = ctx]
    BY <1>1, <2>1
  <2> HIDE DEF hb, ctx
  <2>3. /\ Steps(w, r.pc, r.pc) /\ run'[w].c = r.c /\ run'[w].reply = r.reply
        /\ run'[w].seen = r.seen /\ run'[w].signed = r.signed
    BY <1>1, <2>2, Zenon DEF RunRecord, Steps, SamePlace
  <2>4. QED
    BY <1>2, <2>3 DEF Quiet
<1>8. CASE StoreError(w)
  <2>1. \/ run' = [run EXCEPT ![w] = IdleRun]
        \/ r.pc = "reserve" /\ run' = [run EXCEPT ![w] = [r EXCEPT !.pc = "missing"]]
        \/ r.pc = "send" /\ run' = [run EXCEPT ![w] = unsent]
        \/ /\ r.pc \in {"compare", "finding", "evaluated"}
           /\ run' = [run EXCEPT ![w] = [r EXCEPT !.pc = "failEvaluation"]]
        \/ InNode(w) /\ run' = [run EXCEPT ![w] = [r EXCEPT !.pc = "error"]]
        \/ run' = [run EXCEPT ![w] = Closing]
    BY <1>8, Zenon DEF StoreError, AfterStoreError, At
  <2>2. \A q : run' = [run EXCEPT ![w] = q] => run'[w] = q
    BY <1>1
  <2>3. CASE run' = [run EXCEPT ![w] = IdleRun] \/ run' = [run EXCEPT ![w] = Closing]
    BY <1>3, <2>2, <2>3, Zenon
  <2>4. CASE r.pc = "send" /\ run' = [run EXCEPT ![w] = unsent]
    <3>1. reply \in Reply
      BY DEF Reply, NoReply
    <3>2. run'[w] = unsent
      BY <2>2, <2>4, Zenon
    <3> HIDE DEF reply
    <3>3. Steps(w, "send", "record") /\ run'[w].c = r.c /\ run'[w].reply = reply
      BY <1>1, <2>4, <3>2, Zenon DEF RunRecord, Steps, SamePlace
    <3>4. QED
      BY <1>2, <3>1, <3>3, Zenon DEF Fails
  <2>5. CASE r.pc = "reserve" /\ run' = [run EXCEPT ![w] = [r EXCEPT !.pc = "missing"]]
    <3>1. Steps(w, "reserve", "missing") /\ run'[w].c = r.c
      BY <1>4, <2>2, <2>5, Zenon
    <3>2. QED
      BY <1>2, <3>1, Zenon DEF Fails
  <2>6. CASE /\ r.pc \in {"compare", "finding", "evaluated"}
             /\ run' = [run EXCEPT ![w] = [r EXCEPT !.pc = "failEvaluation"]]
    <3>1. Steps(w, r.pc, "failEvaluation")
      BY <1>4, <2>2, <2>6, Zenon
    <3>2. QED
      BY <1>2, <2>6, <3>1, Zenon DEF Fails
  <2>7. CASE InNode(w) /\ run' = [run EXCEPT ![w] = [r EXCEPT !.pc = "error"]]
    <3>1. Steps(w, r.pc, "error") /\ r.pc \in NodePc /\ r.reason # "origin unavailable"
      BY <1>4, <2>2, <2>7, Zenon DEF InNode
    <3>2. QED
      BY <1>2, <3>1, Zenon DEF Fails
  <2>8. QED
    BY <2>1, <2>3, <2>4, <2>5, <2>6, <2>7
<1>9. QED
  BY <1>5, <1>6, <1>7, <1>8

\* Every step of an invocation, by what it does to its place in the schedule.
LEMMA StepCases ==
  ASSUME RunInv, NEW w \in Worker, StepOf(w)
  PROVE  \/ Leaves(w) \/ Quiet(w) \/ Fails(w) \/ Loads(w)
         \/ Schedules(w) \/ ExecuteNodeStep(w)
<1>1. Drops(w) => Leaves(w)
  BY IdleFields DEF Drops, Leaves, LoadedPcs, NodePc, storeVars, rowVars
<1>2. QED
  BY <1>1, EnterMoves, LoadMoves, LeaveMoves, FaultMoves
     DEF StepOf, WorkerStep, FaultStep, Schedules

-----------------------------------------------------------------------------
(* What the store does to the rows of others. *)

\* Attempts that were completed and rows that were published stay.
Grows ==
  /\ \A id \in AttemptId : attempt[id].status = "succeeded" => attempt'[id] = attempt[id]
  /\ artifact \subseteq artifact'
  /\ comparison \subseteq comparison'
  /\ finding \subseteq finding'
  /\ \A n \in Node : coverage[n] \subseteq coverage'[n]

LEMMA StoreGrows ==
  ASSUME StoreTypeOK, [StoreNext]_storeVars
  PROVE  Grows
<1>1. ASSUME UNCHANGED <<attempt, coverage, comparison, finding, artifact>>
      PROVE  Grows
  BY <1>1 DEF Grows
<1>2. ASSUME NEW w \in Worker, LeasedNext(w)
      PROVE  Grows
  <2>1. CASE \/ AcquireAssessmentExecutionLease(w)
             \/ ReleaseAssessmentExecutionLease(w)
             \/ \E s \in TerminalStatus : FinishAssessmentWithLease(w, s)
             \/ \E signed \in EvidenceRecord : AddSealWithLease(w, signed)
    BY <1>1, <2>1 DEF AcquireAssessmentExecutionLease, ReleaseAssessmentExecutionLease,
         FinishAssessmentWithLease, FinishAssessment, AddSealWithLease, evidenceVars
  <2>2. ASSUME NEW n \in Node,
               \/ StartPlanNodeWithLease(w, n)
               \/ \E s \in TerminalNode, m \in Reason : FinishPlanNodeWithLease(w, n, s, m)
        PROVE  Grows
    BY <1>1, <2>2 DEF StartPlanNodeWithLease, FinishPlanNodeWithLease
  <2>3. ASSUME NEW n \in Node, NEW m \in Reason, AddCoverageWithLease(w, n, m)
        PROVE  Grows
    BY <2>3 DEF AddCoverageWithLease, Grows, StoreTypeOK
  <2>4. ASSUME NEW n \in Node, AddComparisonWithLease(w, n) \/ AddFindingV2WithLease(w, n)
        PROVE  Grows
    BY <2>4 DEF AddComparisonWithLease, AddFindingV2WithLease, Grows
  <2>5. ASSUME NEW id \in AttemptId, attempt[id].status # "succeeded", ChargeAndInsert(id)
        PROVE  Grows
    BY <2>5 DEF ChargeAndInsert, Grows, StoreTypeOK
  <2>6. ASSUME NEW n \in Node, NEW c \in Case,
               \/ BeginAssessmentAttemptWithBudgetLease(w, n, c)
               \/ BeginAssessmentRetryAttemptWithLease(w, n, c)
        PROVE  Grows
    <3>1. <<n, c, "first">> \in AttemptId /\ <<n, c, "retry">> \in AttemptId
      BY DEF AttemptId
    <3>2. \/ UNCHANGED storeVars
          \/ \E id \in AttemptId : attempt[id].status = "none" /\ ChargeAndInsert(id)
      BY <2>6, <3>1, Zenon DEF BeginAssessmentAttemptWithBudgetLease, BeginAssessmentRetryAttemptWithLease
    <3>3. QED
      BY <1>1, <2>5, <3>2 DEF storeVars
  <2>7. ASSUME NEW id \in AttemptId, AddArtifactMetadataWithLease(w, id)
        PROVE  Grows
    BY <2>7 DEF AddArtifactMetadataWithLease, Grows
  <2>8. ASSUME NEW id \in AttemptId, NEW row, FinishAssessmentAttemptWithLease(w, id, row)
        PROVE  Grows
    BY <2>8 DEF FinishAssessmentAttemptWithLease, Grows, StoreTypeOK
  <2>9. QED
    BY <1>2, <2>1, <2>2, <2>3, <2>4, <2>6, <2>7, <2>8 DEF LeasedNext
<1>3. QED
  BY <1>1, <1>2 DEF StoreNext, BeginAssessment, AddPlanNode, AddBudgetReservation,
     FinishAssessment, LeaseExpires, ReactivateCanceledAssessment, evidenceVars, storeVars

\* Which rows a step of executeNode writes, and that it keeps the lease.
LEMMA NodeWrites ==
  ASSUME NEW w \in Worker, ExecuteNodeStep(w)
  PROVE  /\ UNCHANGED <<lease, status, seal>>
         /\ UNCHANGED attempt \/ ReserveCase(w) \/ RecordAttempt(w)
         /\ UNCHANGED sent \/ Send(w)
         /\ UNCHANGED artifact \/ StoreArtifact(w)
         /\ \/ UNCHANGED coverage \/ StopCoverage(w) \/ TransportCoverage(w)
            \/ ContainCoverage(w) \/ PublishCoverage(w)
<1> USE DEF storeVars, Become, Goto
<1>1. CASE ReserveCase(w)
  BY <1>1, Zenon DEF ReserveCase, BeginAssessmentRetryAttemptWithLease,
       BeginAssessmentAttemptWithBudgetLease, ChargeAndInsert
<1>2. CASE \/ StartNode(w) \/ ReserveRefused(w) \/ BeforeSend(w) \/ NotSent(w) \/ Receive(w)
           \/ NodeCtxFails(w)
  BY <1>2, Zenon DEF StartNode, StartPlanNodeWithLease, ReserveRefused, BeforeSend, NotSent,
       Receive, NodeCtxFails, CtxFails
<1>3. CASE \/ MissingAttempt(w) \/ StopNode(w) \/ FailNode(w) \/ ContainNode(w) \/ FinishNode(w)
           \/ FailEvaluation(w)
  BY <1>3, Zenon DEF MissingAttempt, StopNode, FailNode, ContainNode, FinishNode, FailEvaluation,
       FinishPlanNodeWithLease
<1>4. CASE Send(w)
  BY <1>4, Zenon DEF Send
<1>5. CASE RecordAttempt(w) \/ StoreArtifact(w)
  BY <1>5, Zenon DEF RecordAttempt, StoreArtifact, FinishAssessmentAttemptWithLease,
       AddArtifactMetadataWithLease
<1>6. CASE StopCoverage(w) \/ TransportCoverage(w) \/ ContainCoverage(w) \/ PublishCoverage(w)
  BY <1>6, Zenon DEF StopCoverage, TransportCoverage, ContainCoverage, PublishCoverage,
       AddCoverageWithLease
<1>7. CASE Compare(w) \/ PublishFinding(w)
  BY <1>7, Zenon DEF Compare, PublishFinding, AddComparisonWithLease, AddFindingV2WithLease
<1>8. QED
  BY <1>1, <1>2, <1>3, <1>4, <1>5, <1>6, <1>7 DEF ExecuteNodeStep

LEMMA ScheduleWrites ==
  ASSUME NEW w \in Worker, Schedules(w)
  PROVE  /\ UNCHANGED <<lease, status, seal, attempt, sent, artifact, comparison, finding>>
         /\ UNCHANGED coverage \/ CoverInterruptedNode(w) \/ MarkCoverage(w)
<1> USE DEF storeVars, Become, Goto
<1>1. CASE \/ PassDoneNode(w) \/ MeetInterruptedNode(w) \/ CancelScheduledNodes(w)
           \/ DispatchNode(w) \/ HandleNodeError(w)
  BY <1>1, Zenon DEF PassDoneNode, MeetInterruptedNode, CancelScheduledNodes, DispatchNode,
       Scheduled, HandleNodeError
<1>2. CASE FailInterruptedNode(w) \/ MarkFinish(w)
  BY <1>2, Zenon DEF FailInterruptedNode, MarkFinish, FinishPlanNodeWithLease
<1>3. CASE CoverInterruptedNode(w) \/ MarkCoverage(w)
  BY <1>3, Zenon DEF CoverInterruptedNode, MarkCoverage, AddCoverageWithLease
<1>4. QED
  BY <1>1, <1>2, <1>3 DEF Schedules

\* Only the owner of the lease writes rows, and only an invocation that is
\* outside its schedule acquires or releases.
LEMMA OwnerWrites ==
  ASSUME RunInv, NEW w \in Worker, StepOf(w)
  PROVE  /\ UNCHANGED lease \/ Leaves(w)
         /\ lease'.owner \in {lease.owner, w, NoWorker}
         /\ UNCHANGED rowVars \/ lease.owner = w
<1>1. UNCHANGED lease \/ Leaves(w)
  BY StepCases, NodeWrites, ScheduleWrites DEF Quiet, Fails, Loads, storeVars
<1>2. LeasedNext(w) \/ UnleasedNext \/ UNCHANGED storeVars
  BY StepIsStoreStep DEF StepOf
<1>3. CASE UnleasedNext \/ UNCHANGED storeVars
  <2>1. UNCHANGED <<lease, rowVars>>
    BY <1>3 DEF UnleasedNext, BeginAssessment, AddPlanNode, AddBudgetReservation,
       FinishAssessment, ReactivateCanceledAssessment, storeVars, rowVars
  <2>2. QED
    BY <1>1, <2>1
<1>4. CASE AcquireAssessmentExecutionLease(w) \/ ReleaseAssessmentExecutionLease(w)
  <2>1. UNCHANGED rowVars /\ lease'.owner \in {lease.owner, w, NoWorker}
    BY <1>4 DEF AcquireAssessmentExecutionLease, ReleaseAssessmentExecutionLease, evidenceVars, rowVars
  <2>2. QED
    BY <1>1, <2>1
<1>5. ASSUME LeasedNext(w),
             ~AcquireAssessmentExecutionLease(w), ~ReleaseAssessmentExecutionLease(w)
      PROVE  Fenced(w) /\ UNCHANGED lease
  BY <1>5, Zenon DEF LeasedNext, FinishAssessmentWithLease, FinishAssessment, AddSealWithLease,
       StartPlanNodeWithLease, FinishPlanNodeWithLease, AddCoverageWithLease,
       AddComparisonWithLease, AddFindingV2WithLease, BeginAssessmentAttemptWithBudgetLease,
       BeginAssessmentRetryAttemptWithLease, ChargeAndInsert, AddArtifactMetadataWithLease,
       FinishAssessmentAttemptWithLease, storeVars
<1>6. QED
  BY <1>1, <1>2, <1>3, <1>4, <1>5 DEF Fenced

-----------------------------------------------------------------------------
(* No node succeeds without its proof. *)

Proven(n, c) == /\ attempt[<<n, c, "first">>].status = "succeeded"
                /\ <<n, c, "first">> \in artifact

\* The cases an invocation has passed are proven, and the rows it has
\* published are stored.
ProofOK(w) ==
  /\ run[w].pc \in {"record", "artifact"} => run[w].reply \in Reply
  /\ run[w].pc \in CasePcs /\ run[w].retry[run[w].i] = 0 =>
       \A c \in Case : c < run[w].c => Proven(run[w].i, c)
  /\ run[w].pc = "artifact" /\ run[w].retry[run[w].i] = 0 /\ ~run[w].reply.error =>
       attempt[<<run[w].i, run[w].c, "first">>].status = "succeeded"
  /\ run[w].pc \in ProofPcs => \A c \in Case : Proven(run[w].i, c)
  /\ run[w].pc \in {"finding", "evaluated", "finish"} => run[w].i \in comparison
  /\ run[w].pc \in {"evaluated", "finish"} => run[w].i \in finding
  /\ run[w].pc = "finish" => "evaluated" \in coverage[run[w].i]

ProofInv == SucceededNodeHasProof /\ \A w \in Worker : ProofOK(w)

LEMMA ProvenStays ==
  ASSUME StoreTypeOK, Grows, NEW n \in Node, NEW c \in Case, Proven(n, c)
  PROVE  Proven(n, c)'
<1>1. <<n, c, "first">> \in AttemptId
  BY DEF AttemptId
<1>2. QED
  BY <1>1 DEF Grows, Proven

LEMMA ProofStays ==
  ASSUME RunInv, Grows, NEW w \in Worker, ProofOK(w),
         run'[w].pc = run[w].pc, run'[w].i = run[w].i, run'[w].c = run[w].c,
         run'[w].retry = run[w].retry, run'[w].reply = run[w].reply
  PROVE  ProofOK(w)'
<1>1. StoreTypeOK
  BY DEF RunInv, TypeOK
<1>2. run[w].pc \in CasePcs \cup ProofPcs => run[w].i \in Node
  BY DEF RunInv, RunOK, NodePcs, NodePc, CasePcs, ProofPcs
<1>3. run[w].pc \in CasePcs => run[w].c \in Case /\ <<run[w].i, run[w].c, "first">> \in AttemptId
  BY <1>2 DEF RunInv, RunOK, AttemptId
<1>4. run[w].i \in Node => \A c \in Case : Proven(run[w].i, c) => Proven(run[w].i, c)'
  BY <1>1, ProvenStays
<1>5. run[w].pc = "artifact" => run[w].pc \in CasePcs
  BY DEF CasePcs
<1>6. run[w].pc \in {"finding", "evaluated", "finish"} => run[w].pc \in ProofPcs
  BY DEF ProofPcs
<1>7. /\ (run[w].pc \in {"record", "artifact"} => run[w].reply \in Reply)'
      /\ (run[w].pc \in CasePcs /\ run[w].retry[run[w].i] = 0 =>
            \A c \in Case : c < run[w].c => Proven(run[w].i, c))'
      /\ (run[w].pc \in ProofPcs => \A c \in Case : Proven(run[w].i, c))'
  BY <1>2, <1>4 DEF ProofOK
<1>8. /\ (run[w].pc = "artifact" /\ run[w].retry[run[w].i] = 0 /\ ~run[w].reply.error =>
            attempt[<<run[w].i, run[w].c, "first">>].status = "succeeded")'
      /\ (run[w].pc \in {"finding", "evaluated", "finish"} => run[w].i \in comparison)'
      /\ (run[w].pc \in {"evaluated", "finish"} => run[w].i \in finding)'
      /\ (run[w].pc = "finish" => "evaluated" \in coverage[run[w].i])'
  BY <1>2, <1>3, <1>5, <1>6 DEF ProofOK, Grows
<1>9. QED
  BY <1>7, <1>8 DEF ProofOK

\* Steps that neither prove nor publish.
LEMMA OffProof ==
  ASSUME NEW w \in Worker, run'[w].pc \notin CasePcs \cup ProofPcs
  PROVE  ProofOK(w)'
  BY DEF ProofOK, CasePcs, ProofPcs

\* Steps on to another operation of the same case.
LEMMA OnCase ==
  ASSUME RunInv, Grows, NEW w \in Worker, ProofOK(w), run[w].pc \in CasePcs,
         NEW pc \in CasePcs \ {"artifact"}, run'[w].pc = pc, SamePlace(run'[w], run[w]),
         run'[w].c = run[w].c,
         pc = "record" => run'[w].reply \in Reply
  PROVE  ProofOK(w)'
<1>1. StoreTypeOK
  BY DEF RunInv, TypeOK
<1>2. run[w].i \in Node /\ run[w].i = run'[w].i /\ run[w].retry = run'[w].retry
  BY DEF RunInv, RunOK, NodePcs, NodePc, CasePcs, SamePlace
<1>3. \A c \in Case : Proven(run[w].i, c) => Proven(run[w].i, c)'
  BY <1>1, <1>2, ProvenStays
<1>4. (run[w].pc \in CasePcs /\ run[w].retry[run[w].i] = 0 =>
         \A c \in Case : c < run[w].c => Proven(run[w].i, c))'
  BY <1>2, <1>3 DEF ProofOK
<1>5. run'[w].pc \notin ProofPcs
  BY DEF CasePcs, ProofPcs
<1>6. QED
  BY <1>4, <1>5 DEF ProofOK, ProofPcs

LEMMA RecordKeepsProof ==
  ASSUME RunInv, Grows, NEW w \in Worker, ProofOK(w), RecordAttempt(w)
  PROVE  ProofOK(w)'
<1> DEFINE r == run[w]
           q == run'[w]
<1>1. StoreTypeOK
  BY DEF RunInv, TypeOK
<1>2. r.pc = "record" /\ r \in RunRecord /\ r.i \in Node /\ r.c \in Case
  BY DEF RecordAttempt, At, RunInv, RunOK, NodePcs, NodePc, CasePcs
<1>3. r.reply \in Reply
  BY <1>2 DEF ProofOK
<1>4. CASE r.reply.response
  <2>1. q.pc = "artifact" /\ SamePlace(q, r) /\ q.c = r.c /\ q.reply = r.reply
    BY <1>4, EvidenceMoves DEF Steps
  <2>2. q.i = r.i /\ q.retry = r.retry
    BY <2>1 DEF SamePlace
  <2>3. PICK n \in Node : n = r.i
    BY <1>2
  <2>4. r.retry[r.i] = 0 => \A c \in Case : c < r.c => Proven(n, c)'
    BY <1>1, <1>2, <2>3, ProvenStays DEF ProofOK, CasePcs
  <2>5. r.retry[r.i] = 0 /\ ~r.reply.error =>
          attempt'[<<r.i, r.c, "first">>].status = "succeeded"
    <3> SUFFICES ASSUME r.retry[r.i] = 0, ~r.reply.error
                 PROVE  attempt'[<<r.i, r.c, "first">>].status = "succeeded"
      OBVIOUS
    <3>1. CurrentAttempt(w) = <<r.i, r.c, "first">> /\ CurrentAttempt(w) \in AttemptId
      BY <1>2 DEF CurrentAttempt, Current, IsRetry, RetryCase, AttemptId
    <3>2. \E row : row.status = "succeeded" /\ attempt' = [attempt EXCEPT ![CurrentAttempt(w)] = row]
      BY Zenon DEF RecordAttempt, FinishAssessmentAttemptWithLease
    <3>3. QED
      BY <1>1, <3>1, <3>2 DEF StoreTypeOK
  <2>6. q.pc \notin ProofPcs /\ q.pc \in CasePcs
    BY <2>1 DEF ProofPcs, CasePcs
  <2>7. (run[w].pc \in CasePcs /\ run[w].retry[run[w].i] = 0 =>
           \A c \in Case : c < run[w].c => Proven(run[w].i, c))'
    BY <2>1, <2>2, <2>3, <2>4
  <2>8. (run[w].pc = "artifact" /\ run[w].retry[run[w].i] = 0 /\ ~run[w].reply.error =>
           attempt[<<run[w].i, run[w].c, "first">>].status = "succeeded")'
    BY <2>1, <2>2, <2>5
  <2>9. QED
    BY <1>3, <2>1, <2>6, <2>7, <2>8 DEF ProofOK, ProofPcs
<1>5. CASE ~r.reply.response
  <2>1. q = AfterEvidence(r, IsRetry(w))
    BY <1>5, EvidenceMoves
  <2>2. r.reply.error /\ ~r.reply.limited
    BY <1>3, <1>5 DEF Reply
  <2>3. q.pc = "stop" \/ q.pc = "fail" \/ q.pc = "contain"
    BY <1>2, <2>1, <2>2, AfterEvidenceFields, Zenon
  <2>4. QED
    BY <2>3, OffProof DEF CasePcs, ProofPcs
<1>6. QED
  BY <1>4, <1>5

LEMMA ArtifactKeepsProof ==
  ASSUME RunInv, Grows, NEW w \in Worker, ProofOK(w), StoreArtifact(w)
  PROVE  ProofOK(w)'
<1> DEFINE r == run[w]
           q == run'[w]
<1>1. StoreTypeOK
  BY DEF RunInv, TypeOK
<1>2. r.pc = "artifact" /\ r \in RunRecord /\ r.i \in Node /\ r.c \in Case
  BY DEF StoreArtifact, At, RunInv, RunOK, NodePcs, NodePc, CasePcs
<1>3. q = AfterEvidence(r, IsRetry(w))
  BY EvidenceMoves
<1>4. SamePlace(q, r)
  BY <1>2, <1>3, AfterEvidenceFields
<1>5. q.i = r.i /\ q.retry = r.retry
  BY <1>4 DEF SamePlace
<1>6. CASE q.pc \notin {"compare", "reserve"}
  <2>1. q.pc = "stop" \/ q.pc = "fail" \/ q.pc = "contain"
    BY <1>2, <1>3, <1>6, AfterEvidenceFields, Zenon
  <2>2. QED
    BY <2>1, OffProof DEF CasePcs, ProofPcs
<1>7. CASE q.pc \in {"compare", "reserve"}
  <2>1. /\ ~r.reply.error /\ r.retry[r.i] = 0
        /\ \/ q.pc = "compare" /\ r.c = CaseCount
           \/ q.pc = "reserve" /\ q.c = r.c + 1
    BY <1>2, <1>3, <1>7, AfterEvidenceFields, Zenon
  <2>2. r.retry[r.i] = 0
    BY <2>1
  <2> PICK n \in Node, k \in Case : n = r.i /\ k = r.c
    BY <1>2
  <2>3. \A c \in Case : c < k => Proven(n, c)'
    BY <1>1, <1>2, <2>2, ProvenStays DEF ProofOK, CasePcs
  <2>4. Proven(n, k)'
    <3>1. CurrentAttempt(w) = <<r.i, r.c, "first">> /\ CurrentAttempt(w) \in AttemptId
      BY <1>2, <2>2 DEF CurrentAttempt, Current, IsRetry, RetryCase, AttemptId
    <3>2. attempt[<<r.i, r.c, "first">>].status = "succeeded"
      BY <1>2, <2>1, <2>2 DEF ProofOK
    <3>3. attempt' = attempt /\ artifact' = artifact \cup {<<r.i, r.c, "first">>}
      BY <3>1, Zenon DEF StoreArtifact, AddArtifactMetadataWithLease
    <3>4. QED
      BY <3>2, <3>3 DEF Proven
  <2>5. \A c \in Case : c < k + 1 => Proven(n, c)'
    <3> SUFFICES ASSUME NEW c \in Case, c < k + 1 PROVE Proven(n, c)'
      OBVIOUS
    <3>1. c < k \/ c = k
      BY StoreAssumption DEF Case
    <3>2. QED
      BY <2>3, <2>4, <3>1
  <2>6. \A c \in Case : c < CaseCount + 1
    BY StoreAssumption DEF Case
  <2>7. (run[w].pc \in CasePcs /\ run[w].retry[run[w].i] = 0 =>
           \A c \in Case : c < run[w].c => Proven(run[w].i, c))'
    <3>1. CASE q.pc = "compare"
      BY <3>1 DEF CasePcs
    <3>2. CASE q.pc = "reserve" /\ q.c = r.c + 1
      BY <1>5, <2>5, <3>2
    <3>3. QED
      BY <2>1, <3>1, <3>2
  <2>8. (run[w].pc \in ProofPcs => \A c \in Case : Proven(run[w].i, c))'
    <3>1. CASE q.pc = "compare" /\ r.c = CaseCount
      BY <1>5, <2>5, <2>6, <3>1
    <3>2. CASE q.pc = "reserve"
      BY <3>2 DEF ProofPcs
    <3>3. QED
      BY <2>1, <3>1, <3>2
  <2>9. QED
    BY <1>7, <2>7, <2>8 DEF ProofOK
<1>8. QED
  BY <1>6, <1>7

\* compare, finding, evaluated and finish follow each other, each after its row.
LEMMA PublicationKeepsProof ==
  ASSUME RunInv, Grows, NEW w \in Worker, ProofOK(w),
         Compare(w) \/ PublishFinding(w) \/ PublishCoverage(w)
  PROVE  ProofOK(w)'
<1> DEFINE r == run[w]
           q == run'[w]
<1>1. StoreTypeOK
  BY DEF RunInv, TypeOK
<1>2. /\ \/ Compare(w) /\ r.pc = "compare" /\ q.pc = "finding"
         \/ PublishFinding(w) /\ r.pc = "finding" /\ q.pc = "evaluated"
         \/ PublishCoverage(w) /\ r.pc = "evaluated" /\ q.pc = "finish"
      /\ q.i = r.i
  BY OutcomeMoves DEF Steps, SamePlace
<1>3. r.i \in Node
  BY <1>2 DEF RunInv, RunOK, NodePcs, NodePc
<1>4. \A c \in Case : Proven(run[w].i, c)'
  BY <1>1, <1>2, <1>3, ProvenStays DEF ProofOK, ProofPcs
<1>5. /\ Compare(w) => r.i \in comparison'
      /\ PublishFinding(w) => r.i \in finding'
      /\ PublishCoverage(w) => "evaluated" \in coverage'[r.i]
  BY <1>1, <1>3 DEF Compare, PublishFinding, PublishCoverage, AddComparisonWithLease,
     AddFindingV2WithLease, AddCoverageWithLease, Current, StoreTypeOK
<1>6. /\ r.pc \in {"finding", "evaluated"} => r.i \in comparison'
      /\ r.pc = "evaluated" => r.i \in finding'
  BY DEF ProofOK, Grows
<1>7. QED
  BY <1>2, <1>4, <1>5, <1>6 DEF ProofOK, CasePcs, ProofPcs

LEMMA ScheduleKeepsProof ==
  ASSUME RunInv, NEW w \in Worker, Schedules(w)
  PROVE  run'[w].pc \notin CasePcs \cup ProofPcs
<1>1. run'[w].pc \in {"top", "interrupt", "interruptCoverage", "start", "markFinish",
                      "markCoverage", "contain", "close", "finalize"}
  BY ScheduleMoves, DispatchMoves, ErrorMoves, MarkMoves, IdleFields
     DEF Schedules, Steps, Onward, MarksFrom
<1>2. QED
  BY <1>1 DEF CasePcs, ProofPcs

LEMMA NodeStepKeepsProof ==
  ASSUME RunInv, Grows, NEW w \in Worker, ProofOK(w), ExecuteNodeStep(w)
  PROVE  ProofOK(w)'
<1> DEFINE r == run[w]
           q == run'[w]
<1>1. CASE StartNode(w)
  <2>1. q.pc = "reserve" /\ SamePlace(q, r) /\ (r.retry[r.i] = 0 => q.c = 1)
    BY <1>1, CaseMoves DEF Steps
  <2>2. \A c \in Case : ~(c < 1)
    BY StoreAssumption DEF Case
  <2>3. QED
    BY <2>1, <2>2 DEF ProofOK, SamePlace, ProofPcs
<1>2. CASE ReserveCase(w) \/ BeforeSend(w) \/ NotSent(w) \/ Send(w) \/ Receive(w) \/ ReserveRefused(w)
  <2>1. /\ r.pc \in CasePcs
        /\ q.pc \in CasePcs \ {"artifact"}
        /\ SamePlace(q, r) /\ q.c = r.c
        /\ q.pc = "record" => q.reply \in Reply
    BY <1>2, CaseMoves, EvidenceMoves DEF Steps, CasePcs
  <2>2. QED
    BY <2>1, OnCase
<1>3. CASE \/ MissingAttempt(w) \/ StopNode(w) \/ StopCoverage(w) \/ FailNode(w)
           \/ TransportCoverage(w) \/ ContainNode(w) \/ ContainCoverage(w) \/ FinishNode(w)
           \/ FailEvaluation(w) \/ NodeCtxFails(w)
  <2>1. q.pc \in {"contain", "close", "error", "stopCoverage", "top", "transportCoverage",
                  "containCoverage", "failEvaluation"}
    BY <1>3, EvidenceMoves, OutcomeMoves DEF Steps, Onward
  <2>2. QED
    BY <2>1, OffProof DEF CasePcs, ProofPcs
<1>4. QED
  BY <1>1, <1>2, <1>3, RecordKeepsProof, ArtifactKeepsProof, PublicationKeepsProof
     DEF ExecuteNodeStep

LEMMA StepKeepsProof ==
  ASSUME RunInv, Grows, NEW w \in Worker, ProofOK(w), StepOf(w)
  PROVE  ProofOK(w)'
<1> DEFINE r == run[w]
           q == run'[w]
<1>1. CASE Leaves(w) \/ Loads(w)
  BY <1>1, OffProof DEF Leaves, Loads, LoadedPcs, NodePc, CasePcs, ProofPcs
<1>2. CASE Quiet(w)
  BY <1>2, ProofStays DEF Quiet, Steps, SamePlace
<1>3. CASE Fails(w)
  <2>1. CASE \/ Steps(w, "reserve", "missing") /\ q.c = r.c
             \/ Steps(w, "send", "record") /\ q.c = r.c /\ q.reply \in Reply
    BY <2>1, OnCase DEF Steps, CasePcs
  <2>2. CASE q.pc \in {"failEvaluation", "error"}
    BY <2>2, OffProof DEF CasePcs, ProofPcs
  <2>3. QED
    BY <1>3, <2>1, <2>2 DEF Fails, Steps
<1>4. QED
  BY <1>1, <1>2, <1>3, StepCases, ScheduleKeepsProof, OffProof, NodeStepKeepsProof

\* How w ends its node, where it does.
Ends(w, s, m) ==
  \/ /\ run[w].pc = "missing"
     /\ s \in {"failed", "canceled", "skipped"}
     /\ m \in {"execution error", "assessment canceled"}
  \/ run[w].pc = "stop" /\ s = "failed" /\ m = "rate stop"
  \/ run[w].pc = "fail" /\ s \in {"failed", "canceled"} /\ m = "execution error"
  \/ run[w].pc = "contain" /\ s = "failed" /\ m = run[w].reason
  \/ run[w].pc = "finish" /\ s = "succeeded" /\ m = ""
  \/ run[w].pc = "failEvaluation" /\ s = "failed" /\ m = "execution error"
  \/ run[w].pc = "interrupt" /\ s = "failed" /\ m = "interrupted"
  \/ run[w].pc = "markFinish" /\ s = "skipped" /\ m = run[w].reason

\* Nodes are opened: planned, requeued or started.
Opens ==
  \A n \in Node : \/ node'[n] = node[n]
                  \/ /\ node'[n].status \in LiveNode
                     /\ node'[n].message \in {"", node[n].message}

EndsNode(w) ==
  \/ MissingAttempt(w) \/ StopNode(w) \/ FailNode(w) \/ ContainNode(w) \/ FinishNode(w)
  \/ FailEvaluation(w) \/ FailInterruptedNode(w) \/ MarkFinish(w)

LEMMA EndWrites ==
  ASSUME NEW w \in Worker, EndsNode(w)
  PROVE  \/ UNCHANGED node
         \/ \E s, m : Ends(w, s, m) /\ FinishPlanNodeWithLease(w, run[w].i, s, m)
<1>1. CASE MissingAttempt(w)
  BY <1>1, Zenon DEF MissingAttempt, Ends, At, Current, storeVars
<1>2. CASE FailNode(w)
  BY <1>2, Zenon DEF FailNode, Ends, At, Current
<1>3. CASE StopNode(w) \/ ContainNode(w) \/ FinishNode(w) \/ FailEvaluation(w)
  BY <1>3, Zenon DEF StopNode, ContainNode, FinishNode, FailEvaluation, Ends, At, Current
<1>4. CASE FailInterruptedNode(w) \/ MarkFinish(w)
  BY <1>4, Zenon DEF FailInterruptedNode, MarkFinish, Ends, At, Current
<1>5. QED
  BY <1>1, <1>2, <1>3, <1>4 DEF EndsNode

LEMMA RowFields ==
  ASSUME NEW row, NEW s, NEW m, row = [status |-> s, message |-> m]
  PROVE  row.status = s /\ row.message = m
  OBVIOUS

LEMMA OpenWrites ==
  ASSUME RunInv, NEW w \in Worker,
         PersistNode(w) \/ PersistBudget(w) \/ Reactivate(w) \/ StartNode(w)
  PROVE  Opens
<1>1. node \in [Node -> NodeRow]
  BY DEF RunInv, TypeOK, StoreTypeOK
<1>2. CASE PersistNode(w) \/ PersistBudget(w)
  <2>1. \/ node' = [node EXCEPT ![run[w].i] = [status |-> "unbudgeted", message |-> ""]]
        \/ node' = [node EXCEPT ![run[w].i] = [status |-> "planned", message |-> ""]]
    BY <1>2 DEF PersistNode, PersistBudget, AddPlanNode, AddBudgetReservation, SetNode, Current
  <2>2. \A n \in Node : \/ node'[n] = node[n]
                        \/ node'[n] = [status |-> "unbudgeted", message |-> ""]
                        \/ node'[n] = [status |-> "planned", message |-> ""]
    <3> PICK i : i = run[w].i
      OBVIOUS
    <3> QED
      BY <1>1, <2>1
  <2>3. QED
    BY <2>2, RowFields DEF Opens, LiveNode
<1>3. CASE Reactivate(w)
  BY <1>1, <1>3 DEF Reactivate, ReactivateCanceledAssessment, Opens, LiveNode
<1>4. CASE StartNode(w)
  <2>1. node' = [node EXCEPT ![run[w].i].status = "running"]
    BY <1>4, Zenon DEF StartNode, StartPlanNodeWithLease, Current
  <2>2. \A n \in Node : node'[n] = node[n] \/ node'[n] = [node[n] EXCEPT !.status = "running"]
    BY <1>1, <2>1
  <2>3. ASSUME NEW n \in Node, node'[n] = [node[n] EXCEPT !.status = "running"]
        PROVE  node'[n].status = "running" /\ node'[n].message = node[n].message
    <3>1. node[n] \in NodeRow
      BY <1>1
    <3>2. QED
      BY <2>3, <3>1 DEF NodeRow
  <2>4. QED
    BY <2>2, <2>3 DEF Opens, LiveNode
<1>5. QED
  BY <1>2, <1>3, <1>4

LEMMA NodeRowSteps ==
  ASSUME RunInv, NEW w \in Worker, StepOf(w)
  PROVE  \/ Opens
         \/ /\ EndsNode(w) /\ ~UNCHANGED node
            /\ \E s, m : Ends(w, s, m) /\ FinishPlanNodeWithLease(w, run[w].i, s, m)
<1>1. ASSUME UNCHANGED node
      PROVE  Opens
  BY <1>1 DEF Opens
<1>2. CASE ExecuteNodeStep(w)
  <2>1. CASE StartNode(w)
    BY <2>1, OpenWrites
  <2>2. CASE \/ MissingAttempt(w) \/ StopNode(w) \/ FailNode(w) \/ ContainNode(w) \/ FinishNode(w)
             \/ FailEvaluation(w)
    BY <1>1, <2>2, EndWrites DEF EndsNode
  <2>3. CASE ReserveCase(w)
    BY <1>1, <2>3, Zenon DEF ReserveCase, BeginAssessmentRetryAttemptWithLease,
         BeginAssessmentAttemptWithBudgetLease, ChargeAndInsert, storeVars
  <2>4. CASE \/ ReserveRefused(w) \/ BeforeSend(w) \/ NotSent(w) \/ Send(w) \/ Receive(w)
             \/ NodeCtxFails(w)
    BY <1>1, <2>4, Zenon DEF ReserveRefused, BeforeSend, NotSent, Send, Receive, NodeCtxFails,
         CtxFails, storeVars
  <2>5. CASE \/ RecordAttempt(w) \/ StoreArtifact(w) \/ StopCoverage(w) \/ TransportCoverage(w)
             \/ ContainCoverage(w) \/ Compare(w) \/ PublishFinding(w) \/ PublishCoverage(w)
    BY <1>1, <2>5, Zenon DEF RecordAttempt, StoreArtifact, StopCoverage, TransportCoverage,
         ContainCoverage, Compare, PublishFinding, PublishCoverage,
         FinishAssessmentAttemptWithLease, AddArtifactMetadataWithLease, AddCoverageWithLease,
         AddComparisonWithLease, AddFindingV2WithLease
  <2>6. QED
    BY <1>2, <2>1, <2>2, <2>3, <2>4, <2>5 DEF ExecuteNodeStep
<1>3. CASE FailInterruptedNode(w) \/ MarkFinish(w)
  BY <1>1, <1>3, EndWrites DEF EndsNode
<1>4. CASE PersistNode(w) \/ PersistBudget(w) \/ Reactivate(w)
  BY <1>4, OpenWrites
<1>5. CASE \/ PersistFails(w) \/ AcquireRefused(w) \/ ReactivateRefused(w) \/ Reload(w) \/ Load(w)
           \/ ScheduleEnds(w) \/ ScheduleLosesLease(w) \/ PassDoneNode(w) \/ MeetInterruptedNode(w)
           \/ CancelScheduledNodes(w) \/ DispatchNode(w) \/ HandleNodeError(w) \/ MarkRefused(w)
           \/ FinalizeRefused(w) \/ SealLoad(w) \/ LeaseHeldByOther(w) \/ EnsureFails(w)
           \/ InterruptCtxFails(w) \/ ResumeLoads(w)
  BY <1>1, <1>5, Zenon DEF PersistFails, AcquireRefused, ReactivateRefused, Reload, Load,
       ScheduleEnds, ScheduleLosesLease, PassDoneNode, MeetInterruptedNode, CancelScheduledNodes,
       DispatchNode, Scheduled, HandleNodeError, MarkRefused, FinalizeRefused, SealLoad,
       LeaseHeldByOther, EnsureFails, InterruptCtxFails, ResumeLoads, storeVars
<1>6. CASE \/ BeginRun(w) \/ Acquire(w) \/ Finalize(w) \/ SealWrite(w) \/ Close(w)
           \/ CoverInterruptedNode(w) \/ MarkCoverage(w)
  BY <1>1, <1>6, Zenon DEF BeginRun, BeginAssessment, Acquire, AcquireAssessmentExecutionLease,
       Finalize, FinishAssessmentWithLease, FinishAssessment, SealWrite, AddSealWithLease, Close,
       ReleaseAssessmentExecutionLease, CoverInterruptedNode, MarkCoverage, AddCoverageWithLease,
       evidenceVars
<1>7. CASE FaultStep(w)
  BY <1>1, <1>7, Zenon DEF FaultStep, HeartbeatFails, Cancel, Crash, StoreError, PersistError,
       FinishAssessment, storeVars
<1>8. QED
  BY <1>2, <1>3, <1>4, <1>5, <1>6, <1>7 DEF StepOf, WorkerStep

LEMMA StepKeepsProofRows ==
  ASSUME RunInv, SucceededNodeHasProof, Grows, NEW w \in Worker, ProofOK(w), StepOf(w)
  PROVE  SucceededNodeHasProof'
<1> SUFFICES ASSUME NEW n \in Node, node'[n].status = "succeeded"
             PROVE  /\ n \in comparison'
                    /\ n \in finding'
                    /\ "evaluated" \in coverage'[n]
                    /\ \A c \in Case : Proven(n, c)'
  BY DEF SucceededNodeHasProof, Proven
<1>1. StoreTypeOK
  BY DEF RunInv, TypeOK
<1>2. /\ n \in comparison
      /\ n \in finding
      /\ "evaluated" \in coverage[n]
      /\ \A c \in Case : Proven(n, c)
  <2>1. CASE node[n].status = "succeeded"
    BY <2>1 DEF SucceededNodeHasProof, Proven
  <2>2. CASE node[n].status # "succeeded"
    <3>1. ~Opens
      BY <2>2 DEF Opens, LiveNode
    <3>2. PICK s, m : Ends(w, s, m) /\ FinishPlanNodeWithLease(w, run[w].i, s, m)
      BY <3>1, NodeRowSteps
    <3>3. node' = [node EXCEPT ![run[w].i] = [status |-> s, message |-> m]]
      BY <3>2 DEF FinishPlanNodeWithLease, SetNode
    <3>4. n = run[w].i /\ s = "succeeded"
      BY <1>1, <2>2, <3>3 DEF StoreTypeOK
    <3>5. run[w].pc = "finish"
      BY <3>2, <3>4 DEF Ends
    <3>6. QED
      BY <3>4, <3>5 DEF ProofOK, ProofPcs
  <2>3. QED
    BY <2>1, <2>2
<1>3. \A c \in Case : Proven(n, c)'
  BY <1>1, <1>2, ProvenStays
<1>4. QED
  BY <1>2, <1>3 DEF Grows

LEMMA ProofInvStep == RunInv /\ ProofInv /\ [Next]_vars => ProofInv'
<1> SUFFICES ASSUME RunInv, ProofInv, [Next]_vars
             PROVE  ProofInv'
  OBVIOUS
<1>1. StoreTypeOK /\ Grows
  BY NextIsStoreStep, StoreGrows DEF RunInv, TypeOK
<1>2. ASSUME NEW w \in Worker, StepOf(w)
      PROVE  ProofInv'
  <2>1. SucceededNodeHasProof' /\ ProofOK(w)'
    BY <1>1, <1>2, StepKeepsProofRows, StepKeepsProof DEF ProofInv
  <2>2. ASSUME NEW v \in Worker, v # w
        PROVE  ProofOK(v)'
    BY <1>1, <1>2, <2>2, OthersRest, ProofStays DEF ProofInv
  <2>3. QED
    BY <2>1, <2>2 DEF ProofInv
<1>3. ASSUME UNCHANGED <<run, evidenceVars>>
      PROVE  ProofInv'
  <2>1. \A w \in Worker : ProofOK(w)'
    BY <1>1, <1>3, ProofStays DEF ProofInv
  <2>2. SucceededNodeHasProof'
    BY <1>3 DEF ProofInv, SucceededNodeHasProof, evidenceVars
  <2>3. QED
    BY <2>1, <2>2 DEF ProofInv
<1>4. QED
  BY <1>2, <1>3 DEF Next, StepOf, Expire, LeaseExpires, vars, storeVars, evidenceVars

LEMMA ProofInvInit == Init => ProofInv
<1> SUFFICES ASSUME Init PROVE ProofInv
  OBVIOUS
<1>1. \A n \in Node : node[n].status # "succeeded"
  BY DEF Init, StoreInit
<1>2. \A w \in Worker : run[w].pc = "idle"
  BY IdleFields DEF Init
<1>3. QED
  BY <1>1, <1>2 DEF ProofInv, ProofOK, SucceededNodeHasProof, CasePcs, ProofPcs

\* Of every invocation, stale or not: the cases it has passed are proven by
\* their stored attempts and evidence, and what it published is stored
\* (executeCase, persistEvaluation), since such rows are never taken back.
THEOREM ProofInvariant == Spec => []ProofInv
  BY ProofInvInit, ProofInvStep, RunInvariant, PTL DEF Spec

\* Whatever invocations compete, crash or outlive their lease, a node is
\* stored as succeeded only when every case of it has a succeeded attempt with
\* evidence, and its comparison, finding and coverage rows are there
\* (executeNode: executeCase for every case, persistEvaluation, then finish).
THEOREM ExecutionProof == Spec => []SucceededNodeHasProof
  BY ProofInvariant, PTL DEF ProofInv

-----------------------------------------------------------------------------
(* No request leaves twice. *)

\* Nodes the schedule of w has not started.
Ahead(w, n) == n > run[w].i \/ (n = run[w].i /\ run[w].pc \in {"top", "start"})

\* What w loaded as untouched and has not reached is still untouched.
Fresh(w) ==
  /\ \A n \in Node :
       run[w].todo[n] = "execute" /\ run[w].retry[n] = 0 /\ Ahead(w, n) =>
         \A id \in NodeAttempts(n) : attempt[id].status = "none"
  /\ run[w].pc \in CasePcs /\ run[w].retry[run[w].i] = 0 =>
       \A c \in Case : c > run[w].c \/ (c = run[w].c /\ run[w].pc = "reserve") =>
         attempt[<<run[w].i, c, "first">>].status = "none"
  /\ run[w].pc = "start" => run[w].todo[run[w].i] = "execute"

\* It holds of the owner of the lease only: a stale invocation's schedule may
\* have been executed by another one.
FreshInv == \A w \in Worker : run[w].pc \in LoadedPcs /\ lease.owner = w => Fresh(w)

SendingPcs == {"send", "inflight", "awaiting", "record"}
Sending(w) == run[w].pc \in SendingPcs

SendInv ==
  /\ AtMostOnceSend
  /\ \A w \in Worker : Sending(w) => attempt[CurrentAttempt(w)].status = "running"
  /\ \A w \in Worker : run[w].pc \in {"send", "inflight"} => sent[CurrentAttempt(w)] = 0
  /\ \A v, w \in Worker :
       Sending(v) /\ Sending(w) /\ v # w => CurrentAttempt(v) # CurrentAttempt(w)

\* An invocation walks its schedule forward.
LEMMA Walks ==
  ASSUME RunInv, NEW w \in Worker, StepOf(w), ~Loads(w), run'[w].pc \in LoadedPcs
  PROVE  /\ run[w].pc \in LoadedPcs
         /\ run'[w].todo = run[w].todo
         /\ run'[w].retry = run[w].retry
         /\ \/ /\ run'[w].i = run[w].i
               /\ run'[w].pc \in {"top", "start"} => run[w].pc \in {"top", "start"}
            \/ run'[w].i = run[w].i + 1
<1> DEFINE r == run[w]
           q == run'[w]
           Walk == /\ r.pc \in LoadedPcs
                   /\ q.todo = r.todo
                   /\ q.retry = r.retry
                   /\ \/ /\ q.i = r.i
                         /\ q.pc \in {"top", "start"} => r.pc \in {"top", "start"}
                      \/ q.i = r.i + 1
<1>1. ASSUME NEW from \in LoadedPcs, NEW to, Steps(w, from, to),
             to \in {"top", "start"} => from \in {"top", "start"}
      PROVE  Walk
  BY <1>1 DEF Steps, SamePlace
<1>2. ASSUME NEW from \in LoadedPcs, NEW result, Onward(w, from, result)
      PROVE  Walk
  BY <1>2 DEF Onward
<1>3. ASSUME NEW i, NEW last, NEW reason, MarksFrom(w, i, last, reason),
             r.pc \in LoadedPcs, i = r.i \/ i = r.i + 1
      PROVE  Walk
  BY <1>3 DEF MarksFrom
<1>4. CASE Quiet(w)
  BY <1>4 DEF Quiet, Steps, SamePlace
<1>5. CASE Fails(w)
  <2>1. PICK from \in NodePc, to \in {"missing", "record", "failEvaluation", "error"} :
          Steps(w, from, to)
    BY <1>5 DEF Fails, NodePc
  <2>2. QED
    BY <1>1, <2>1 DEF LoadedPcs
<1>6. CASE Schedules(w)
  <2>1. CASE \/ PassDoneNode(w) \/ MeetInterruptedNode(w) \/ FailInterruptedNode(w)
             \/ CoverInterruptedNode(w) \/ MarkFinish(w)
    BY <1>1, <1>2, <2>1, ScheduleMoves DEF LoadedPcs
  <2>2. CASE CancelScheduledNodes(w)
    BY <1>3, <2>2, ScheduleMoves DEF CancelScheduledNodes, LoadedPcs
  <2>3. CASE DispatchNode(w)
    <3>1. r.pc = "top"
      BY <2>3, ScheduleMoves DEF DispatchNode
    <3>2. QED
      BY <1>1, <1>3, <2>3, <3>1, DispatchMoves DEF LoadedPcs, SamePlace
  <2>4. CASE HandleNodeError(w)
    BY <1>2, <1>3, <2>4, ErrorMoves, IdleFields DEF LoadedPcs, NodePc
  <2>5. CASE MarkCoverage(w)
    BY <1>2, <1>3, <2>5, MarkMoves DEF LoadedPcs, NodePc
  <2>6. QED
    BY <1>6, <2>1, <2>2, <2>3, <2>4, <2>5 DEF Schedules
<1>7. CASE ExecuteNodeStep(w)
  <2>1. CASE \/ StartNode(w) \/ ReserveCase(w) \/ BeforeSend(w) \/ NotSent(w) \/ Send(w)
             \/ Receive(w)
    BY <1>1, <2>1, CaseMoves DEF LoadedPcs, NodePc
  <2>2. CASE ReserveRefused(w) \/ MissingAttempt(w)
    BY <1>1, <2>2, EvidenceMoves DEF LoadedPcs, NodePc, SamePlace
  <2>3. CASE RecordAttempt(w) \/ StoreArtifact(w)
    <3>1. r.pc \in {"record", "artifact"}
      BY <2>3, EvidenceMoves
    <3>2. SamePlace(q, r) /\ q.pc \notin {"top", "start"}
      <4>1. CASE q = AfterEvidence(r, IsRetry(w))
        BY <4>1, AfterEvidenceFields
      <4>2. CASE Steps(w, "record", "artifact")
        BY <4>2 DEF Steps
      <4>3. QED
        BY <2>3, <4>1, <4>2, EvidenceMoves
    <3>3. QED
      BY <3>1, <3>2 DEF LoadedPcs, NodePc, SamePlace
  <2>4. CASE \/ StopNode(w) \/ StopCoverage(w) \/ FailNode(w) \/ ContainNode(w)
             \/ ContainCoverage(w) \/ Compare(w) \/ PublishFinding(w) \/ PublishCoverage(w)
             \/ FinishNode(w) \/ FailEvaluation(w) \/ NodeCtxFails(w)
    BY <1>1, <1>2, <2>4, OutcomeMoves DEF LoadedPcs, NodePc
  <2>5. CASE TransportCoverage(w)
    BY <2>5, OutcomeMoves DEF LoadedPcs, NodePc, SamePlace
  <2>6. QED
    BY <1>7, <2>1, <2>2, <2>3, <2>4, <2>5 DEF ExecuteNodeStep
<1>8. QED
  BY <1>4, <1>5, <1>6, <1>7, StepCases DEF Leaves

\* And a node case by case.
LEMMA CaseWalks ==
  ASSUME RunInv, NEW w \in Worker, StepOf(w), run'[w].pc \in CasePcs
  PROVE  /\ run'[w].i = run[w].i
         /\ run'[w].retry = run[w].retry
         /\ \/ /\ StartNode(w)
               /\ run[w].pc = "start"
               /\ run[w].retry[run[w].i] = 0 => run'[w].c = 1
            \/ /\ run[w].pc \in CasePcs
               /\ run'[w].c = run[w].c
               /\ run'[w].pc = "reserve" => run[w].pc = "reserve"
               /\ run'[w].pc \in SendingPcs => run[w].pc \in SendingPcs \/ ReserveCase(w)
               /\ run'[w].pc = "inflight" => run[w].pc \in {"send", "inflight"}
               /\ run'[w].pc = "send" => run[w].pc = "send" \/ ReserveCase(w)
            \/ /\ run[w].pc \in {"record", "artifact"}
               /\ run'[w].c = run[w].c + 1
               /\ run'[w].pc = "reserve"
<1> DEFINE r == run[w]
           q == run'[w]
<1>1. CASE Leaves(w) \/ Loads(w)
  BY <1>1 DEF Leaves, Loads, LoadedPcs, CasePcs, NodePc
<1>2. CASE Quiet(w) \/ Fails(w)
  BY <1>2 DEF Quiet, Fails, Steps, SamePlace, CasePcs, SendingPcs
<1>3. CASE Schedules(w)
  BY <1>3, ScheduleKeepsProof
<1>4. CASE ExecuteNodeStep(w)
  <2>1. CASE StartNode(w)
    BY <2>1, CaseMoves DEF Steps, SamePlace
  <2>2. CASE ReserveCase(w) \/ BeforeSend(w) \/ NotSent(w) \/ Send(w) \/ Receive(w)
    BY <2>2, CaseMoves DEF Steps, SamePlace, CasePcs, SendingPcs
  <2>3. CASE ReserveRefused(w) \/ MissingAttempt(w)
    BY <2>3, EvidenceMoves DEF Steps, SamePlace, CasePcs, SendingPcs
  <2>4. CASE RecordAttempt(w) \/ StoreArtifact(w)
    <3>1. r.pc \in {"record", "artifact"}
      BY <2>4, EvidenceMoves
    <3>2. CASE q = AfterEvidence(r, IsRetry(w))
      <4>1. SamePlace(q, r) /\ q.pc = "reserve" /\ q.c = r.c + 1
        BY <3>2, AfterEvidenceFields DEF CasePcs
      <4>2. QED
        BY <3>1, <4>1 DEF SamePlace
    <3>3. CASE Steps(w, "record", "artifact") /\ q.c = r.c
      BY <3>3 DEF Steps, SamePlace, CasePcs, SendingPcs
    <3>4. QED
      BY <2>4, <3>2, <3>3, EvidenceMoves
  <2>5. CASE \/ StopNode(w) \/ StopCoverage(w) \/ FailNode(w) \/ TransportCoverage(w)
             \/ ContainNode(w) \/ ContainCoverage(w) \/ Compare(w) \/ PublishFinding(w)
             \/ PublishCoverage(w) \/ FinishNode(w) \/ FailEvaluation(w) \/ NodeCtxFails(w)
    BY <2>5, OutcomeMoves DEF Steps, Onward, CasePcs
  <2>6. QED
    BY <1>4, <2>1, <2>2, <2>3, <2>4, <2>5 DEF ExecuteNodeStep
<1>5. QED
  BY <1>1, <1>2, <1>3, <1>4, StepCases

\* A node that is loaded for execution without a retry source has no attempt.
LEMMA ExecutableIsUntouched ==
  ASSUME StoreInv, NEW n \in Node, Todo(n) = "execute", RetrySource(n) = 0
  PROVE  \A id \in NodeAttempts(n) : attempt[id].status = "none"
<1>1. node[n].status \in NodeStatus
  BY DEF StoreInv, StoreTypeOK, NodeRow
<1>2. node[n].status \notin TerminalNode /\ (node[n].status = "running" => ~HasAttempt(n))
  BY DEF Todo
<1>3. CASE node[n].status = "running"
  BY <1>2, <1>3 DEF HasAttempt
<1>4. CASE node[n].status # "running"
  <2>1. node[n].status \in {"absent", "unbudgeted", "planned"}
    BY <1>1, <1>2, <1>4 DEF NodeStatus, LiveNode, TerminalNode
  <2>2. CASE ReservedAttempts(n) = {}
    BY <2>2 DEF ReservedAttempts
  <2>3. ASSUME NEW c \in Case, ReservedAttempts(n) = {<<n, c, "first">>}, NoSideEffect(<<n, c, "first">>)
        PROVE  FALSE
    <3> DEFINE sources == {k \in Case : /\ attempt[<<n, k, "first">>].status = "canceled"
                                        /\ attempt[<<n, k, "first">>].retryable
                                        /\ attempt[<<n, k, "retry">>].status = "none"}
    <3>1. \A k \in Case : <<n, k, "first">> \in NodeAttempts(n) /\ <<n, k, "retry">> \in NodeAttempts(n)
      BY DEF NodeAttempts, AttemptId
    <3>2. \A k \in Case : /\ attempt[<<n, k, "retry">>].status = "none"
                          /\ k # c => attempt[<<n, k, "first">>].status = "none"
      BY <2>3, <3>1 DEF ReservedAttempts
    <3>3. attempt[<<n, c, "first">>].status = "canceled" /\ attempt[<<n, c, "first">>].retryable
      BY <2>3 DEF NoSideEffect
    <3>4. sources = {c}
      BY <3>2, <3>3
    <3>5. RetrySource(n) = IF Cardinality(sources) = 1 THEN CHOOSE k \in sources : TRUE ELSE 0
      BY Zenon DEF RetrySource
    <3> HIDE DEF sources
    <3>6. Cardinality(sources) = 1
      BY <3>4, FS_Singleton
    <3>7. sources # {} /\ sources \subseteq Case
      BY <3>4
    <3>8. (CHOOSE k \in sources : TRUE) \in sources
      BY <3>7
    <3>9. RetrySource(n) \in Case
      BY <3>5, <3>6, <3>7, <3>8
    <3>10. QED
      BY <3>9, StoreAssumption DEF Case
  <2>4. QED
    BY <2>1, <2>2, <2>3 DEF StoreInv, QueuedNodeIsSafe
<1>5. QED
  BY <1>3, <1>4

LEMMA LoadIsFresh ==
  ASSUME RunInv, StoreInv, NEW w \in Worker, Loads(w)
  PROVE  Fresh(w)'
<1>1. \A n \in Node : run'[w].todo[n] = Todo(n) /\ run'[w].retry[n] = RetrySource(n)
  BY DEF Loads
<1>2. attempt' = attempt
  BY DEF Loads, storeVars
<1>3. \A n \in Node : run'[w].todo[n] = "execute" /\ run'[w].retry[n] = 0 =>
        \A id \in NodeAttempts(n) : attempt'[id].status = "none"
  BY <1>1, <1>2, ExecutableIsUntouched
<1>4. QED
  BY <1>3 DEF Fresh, Loads, CasePcs

\* The only attempts that w changes are those of the case it is at.
LEMMA AttemptWrites ==
  ASSUME RunInv, NEW w \in Worker, StepOf(w)
  PROVE  \/ UNCHANGED attempt
         \/ /\ run[w].pc \in {"reserve", "record"}
            /\ CurrentAttempt(w) \in AttemptId
            /\ \A id \in AttemptId \ {CurrentAttempt(w)} : attempt'[id] = attempt[id]
<1>1. UNCHANGED attempt \/ ReserveCase(w) \/ RecordAttempt(w)
  BY StepCases, NodeWrites, ScheduleWrites DEF Leaves, Quiet, Fails, Loads, storeVars, rowVars
<1>2. attempt \in [AttemptId -> AttemptRow]
  BY DEF RunInv, TypeOK, StoreTypeOK
<1>3. run[w].pc \in {"reserve", "record"} => CurrentAttempt(w) \in AttemptId
  BY DEF RunInv, RunOK, NodePcs, NodePc, CasePcs, CurrentAttempt, Current, AttemptId
<1>4. CASE RecordAttempt(w)
  <2>1. \E row : attempt' = [attempt EXCEPT ![CurrentAttempt(w)] = row]
    BY <1>4, Zenon DEF RecordAttempt, FinishAssessmentAttemptWithLease
  <2>2. run[w].pc = "record"
    BY <1>4 DEF RecordAttempt, At
  <2>3. QED
    BY <1>2, <1>3, <2>1, <2>2
<1>5. CASE ReserveCase(w)
  <2>1. \/ UNCHANGED attempt
        \/ \E row : attempt' = [attempt EXCEPT ![CurrentAttempt(w)] = row]
    BY <1>5, Zenon DEF ReserveCase, BeginAssessmentRetryAttemptWithLease,
         BeginAssessmentAttemptWithBudgetLease, ChargeAndInsert, CurrentAttempt, storeVars
  <2>2. run[w].pc = "reserve"
    BY <1>5 DEF ReserveCase, At
  <2>3. QED
    BY <1>2, <1>3, <2>1, <2>2
<1>6. QED
  BY <1>1, <1>4, <1>5

\* Only DispatchNode starts a node.
LEMMA Starts ==
  ASSUME RunInv, NEW w \in Worker, StepOf(w), run'[w].pc = "start"
  PROVE  /\ run'[w].i = run[w].i
         /\ run'[w].down = run[w].down
         /\ run[w].pc = "start" \/ DispatchNode(w)
<1> DEFINE r == run[w]
           q == run'[w]
<1>1. CASE Leaves(w) \/ Loads(w)
  BY <1>1 DEF Leaves, Loads, LoadedPcs, NodePc
<1>2. CASE Quiet(w) \/ Fails(w)
  BY <1>2 DEF Quiet, Fails, Steps, SamePlace
<1>3. CASE Schedules(w)
  <2>1. CASE \/ PassDoneNode(w) \/ MeetInterruptedNode(w) \/ FailInterruptedNode(w)
             \/ CoverInterruptedNode(w) \/ MarkFinish(w) \/ CancelScheduledNodes(w)
             \/ HandleNodeError(w) \/ MarkCoverage(w)
    BY <2>1, ScheduleMoves, ErrorMoves, MarkMoves, IdleFields DEF Steps, Onward, MarksFrom
  <2>2. CASE DispatchNode(w)
    BY <2>2, DispatchMoves DEF Steps, SamePlace, MarksFrom
  <2>3. QED
    BY <1>3, <2>1, <2>2 DEF Schedules
<1>4. CASE ExecuteNodeStep(w)
  <2>1. CASE \/ StartNode(w) \/ ReserveCase(w) \/ BeforeSend(w) \/ NotSent(w) \/ Send(w)
             \/ Receive(w) \/ ReserveRefused(w) \/ MissingAttempt(w)
    BY <2>1, CaseMoves, EvidenceMoves DEF Steps
  <2>2. CASE RecordAttempt(w) \/ StoreArtifact(w)
    BY <2>2, EvidenceMoves, AfterEvidenceFields DEF Steps
  <2>3. CASE \/ StopNode(w) \/ StopCoverage(w) \/ FailNode(w) \/ TransportCoverage(w)
             \/ ContainNode(w) \/ ContainCoverage(w) \/ Compare(w) \/ PublishFinding(w)
             \/ PublishCoverage(w) \/ FinishNode(w) \/ FailEvaluation(w) \/ NodeCtxFails(w)
    BY <2>3, OutcomeMoves DEF Steps, Onward
  <2>4. QED
    BY <1>4, <2>1, <2>2, <2>3 DEF ExecuteNodeStep
<1>5. QED
  BY <1>1, <1>2, <1>3, <1>4, StepCases

LEMMA StepKeepsFresh ==
  ASSUME RunInv, NEW w \in Worker, StepOf(w), ~Loads(w), Fresh(w), run'[w].pc \in LoadedPcs
  PROVE  Fresh(w)'
<1> DEFINE r == run[w]
           q == run'[w]
<1>1. r \in RunRecord /\ r.i \in 1 .. NodeCount + 1 /\ q.i \in 1 .. NodeCount + 1
  <2>1. RunInv'
    BY RunInvStep DEF StepOf, Next
  <2>2. q \in RunRecord /\ r \in RunRecord
    BY <2>1 DEF RunInv, RunOK
  <2>3. QED
    BY <2>2 DEF RunRecord
<1>2. q.todo = r.todo /\ q.retry = r.retry
  BY Walks
<1>3. ASSUME NEW n \in Node, Ahead(w, n)'
      PROVE  Ahead(w, n)
  BY <1>1, <1>3, Walks, StoreAssumption DEF Ahead, Node
<1>4. ASSUME NEW n \in Node, Ahead(w, n)', NEW id \in NodeAttempts(n)
      PROVE  attempt'[id] = attempt[id]
  <2>1. id \in AttemptId /\ id[1] = n
    BY DEF NodeAttempts
  <2>2. CASE UNCHANGED attempt
    BY <2>2
  <2>3. CASE /\ r.pc \in {"reserve", "record"}
             /\ \A other \in AttemptId \ {CurrentAttempt(w)} : attempt'[other] = attempt[other]
    <3>1. n > r.i \/ (n = r.i /\ r.pc \in {"top", "start"})
      BY <1>3, <1>4 DEF Ahead
    <3>2. CurrentAttempt(w)[1] = r.i
      BY DEF CurrentAttempt, Current
    <3>3. n # r.i
      BY <1>1, <2>3, <3>1, StoreAssumption DEF Node
    <3>4. id # CurrentAttempt(w)
      BY <2>1, <3>2, <3>3
    <3>5. QED
      BY <2>1, <2>3, <3>4
  <2>4. QED
    BY <2>2, <2>3, AttemptWrites
<1>5. ASSUME NEW n \in Node, q.todo[n] = "execute", q.retry[n] = 0, Ahead(w, n)',
             NEW id \in NodeAttempts(n)
      PROVE  attempt'[id].status = "none"
  BY <1>2, <1>3, <1>4, <1>5 DEF Fresh
<1>6. ASSUME q.pc \in CasePcs, q.retry[q.i] = 0, NEW c \in Case,
             c > q.c \/ (c = q.c /\ q.pc = "reserve")
      PROVE  attempt'[<<q.i, c, "first">>].status = "none"
  <2>1. r.i = q.i /\ r.i \in Node
    BY <1>6, CaseWalks DEF RunInv, RunOK, NodePcs, NodePc, CasePcs
  <2>2. <<r.i, c, "first">> \in AttemptId /\ <<r.i, c, "first">> \in NodeAttempts(r.i)
    BY <2>1 DEF AttemptId, NodeAttempts
  <2>3. CASE r.pc = "start"
    <3>1. UNCHANGED attempt
      BY <2>3, AttemptWrites
    <3>2. Ahead(w, r.i) /\ r.todo[r.i] = "execute" /\ r.retry[r.i] = 0
      BY <1>2, <1>6, <2>1, <2>3 DEF Fresh, Ahead
    <3>3. attempt[<<r.i, c, "first">>].status = "none"
      BY <2>1, <2>2, <3>2 DEF Fresh
    <3>4. QED
      BY <2>1, <3>1, <3>3
  <2>4. CASE r.pc \in CasePcs
    <3>1. r.c \in Case
      BY <2>4 DEF RunInv, RunOK
    <3>2. /\ c > r.c \/ (c = r.c /\ q.pc = "reserve" /\ r.pc = "reserve")
      <4>1. CASE q.c = r.c /\ (q.pc = "reserve" => r.pc = "reserve")
        BY <1>6, <4>1
      <4>2. CASE q.c = r.c + 1
        BY <1>6, <3>1, <4>2, StoreAssumption DEF Case
      <4>3. QED
        BY <1>6, <2>4, <4>1, <4>2, CaseWalks DEF CasePcs
    <3>3. attempt[<<r.i, c, "first">>].status = "none"
      BY <1>2, <1>6, <2>1, <2>4, <3>2 DEF Fresh
    <3>4. attempt'[<<r.i, c, "first">>] = attempt[<<r.i, c, "first">>]
      <4>1. CASE UNCHANGED attempt
        BY <4>1
      <4>2. CASE /\ c > r.c
                 /\ \A other \in AttemptId \ {CurrentAttempt(w)} : attempt'[other] = attempt[other]
        <5>1. c # r.c
          BY <3>1, <4>2, StoreAssumption DEF Case
        <5>2. <<r.i, c, "first">> # CurrentAttempt(w)
          BY <5>1 DEF CurrentAttempt, Current
        <5>3. QED
          BY <2>2, <4>2, <5>2
      <4>3. CASE r.pc = "reserve" /\ q.pc = "reserve"
        <5>1. ~ReserveCase(w) /\ ~RecordAttempt(w)
          BY <4>3, CaseMoves, EvidenceMoves DEF Steps
        <5>2. UNCHANGED attempt
          BY <5>1, StepCases, NodeWrites, ScheduleWrites
             DEF Leaves, Quiet, Fails, Loads, storeVars, rowVars
        <5>3. QED
          BY <5>2
      <4>4. QED
        BY <3>2, <4>1, <4>2, <4>3, AttemptWrites
    <3>5. QED
      BY <2>1, <3>3, <3>4
  <2>5. QED
    BY <1>6, <2>3, <2>4, CaseWalks DEF CasePcs
<1>7. ASSUME q.pc = "start"
      PROVE  q.todo[q.i] = "execute"
  <2>1. q.i = r.i /\ (r.pc = "start" \/ DispatchNode(w))
    BY <1>7, Starts
  <2>2. r.todo[r.i] = "execute"
    BY <2>1, ScheduleMoves DEF Fresh, DispatchNode
  <2>3. QED
    BY <1>2, <2>1, <2>2
<1>8. QED
  BY <1>5, <1>6, <1>7 DEF Fresh

LEMMA FreshInvStep == RunInv /\ StoreInv /\ FreshInv /\ [Next]_vars => FreshInv'
<1> SUFFICES ASSUME RunInv, StoreInv, FreshInv, [Next]_vars,
                    NEW v \in Worker, run'[v].pc \in LoadedPcs, lease'.owner = v
             PROVE  Fresh(v)'
  BY DEF FreshInv
<1>1. ASSUME run'[v] = run[v], UNCHANGED attempt, lease.owner = v
      PROVE  Fresh(v)'
  BY <1>1 DEF FreshInv, Fresh, Ahead
<1>2. ASSUME NEW w \in Worker, StepOf(w)
      PROVE  Fresh(v)'
  <2>1. CASE v = w
    <3>1. UNCHANGED lease
      BY <1>2, <2>1, OwnerWrites DEF Leaves
    <3>2. CASE Loads(w)
      BY <2>1, <3>2, LoadIsFresh
    <3>3. CASE ~Loads(w)
      <4>1. run[w].pc \in LoadedPcs /\ Fresh(w)
        BY <1>2, <2>1, <3>1, <3>3, Walks DEF FreshInv
      <4>2. QED
        BY <1>2, <2>1, <3>3, <4>1, StepKeepsFresh
    <3>4. QED
      BY <3>2, <3>3
  <2>2. CASE v # w
    <3>1. lease.owner = v /\ UNCHANGED rowVars
      BY <1>2, <2>2, OwnerWrites, StoreAssumption
    <3>2. run'[v] = run[v] /\ UNCHANGED attempt
      BY <1>2, <2>2, <3>1, OthersRest DEF rowVars
    <3>3. QED
      BY <1>1, <3>1, <3>2
  <2>3. QED
    BY <2>1, <2>2
<1>3. CASE Expire
  <2>1. lease \in [owner : Worker \cup {NoWorker}, live : BOOLEAN]
    BY DEF StoreInv, StoreTypeOK
  <2>2. lease' = [lease EXCEPT !.live = FALSE] /\ UNCHANGED <<attempt, run>>
    BY <1>3, Zenon DEF Expire, LeaseExpires, evidenceVars
  <2>3. lease.owner = v
    BY <2>1, <2>2
  <2>4. QED
    BY <1>1, <2>2, <2>3
<1>4. CASE UNCHANGED vars
  BY <1>1, <1>4 DEF vars, storeVars
<1>5. QED
  BY <1>2, <1>3, <1>4 DEF Next, StepOf

LEMMA SendingAttempt ==
  ASSUME RunInv, NEW w \in Worker, Sending(w)
  PROVE  CurrentAttempt(w) \in AttemptId
  BY DEF RunInv, RunOK, Sending, SendingPcs, NodePcs, NodePc, CasePcs, CurrentAttempt, Current, AttemptId

\* A reservation that goes on to send is a new one.
LEMMA ReservationIsNew ==
  ASSUME RunInv, FreshInv, NEW w \in Worker, ReserveCase(w)
  PROVE  /\ CurrentAttempt(w) \in AttemptId
         /\ attempt[CurrentAttempt(w)].status = "none"
         /\ attempt'[CurrentAttempt(w)].status = "running"
         /\ \A id \in AttemptId \ {CurrentAttempt(w)} : attempt'[id] = attempt[id]
         /\ UNCHANGED sent
<1> DEFINE r == run[w]
           id == CurrentAttempt(w)
<1>1. r.pc = "reserve"
  BY DEF ReserveCase, At
<1>2. r.i \in Node /\ r.c \in Case
  BY <1>1 DEF RunInv, RunOK, NodePcs, NodePc, CasePcs
<1>3. id \in AttemptId
  BY <1>2 DEF CurrentAttempt, Current, AttemptId
<1>4. attempt \in [AttemptId -> AttemptRow]
  BY DEF RunInv, TypeOK, StoreTypeOK
<1>5. ASSUME ChargeAndInsert(id)
      PROVE  attempt'[id].status = "running" /\ \A o \in AttemptId \ {id} : attempt'[o] = attempt[o]
  <2>1. NoAttempt \in AttemptRow
    BY DEF NoAttempt, AttemptRow
  <2>2. [NoAttempt EXCEPT !.status = "running"].status = "running"
    BY <2>1 DEF AttemptRow
  <2>3. attempt' = [attempt EXCEPT ![id] = [NoAttempt EXCEPT !.status = "running"]]
    BY <1>5 DEF ChargeAndInsert
  <2> HIDE DEF id
  <2>4. QED
    BY <1>3, <1>4, <2>2, <2>3
<1>6. attempt[id].status = "none" /\ ChargeAndInsert(id)
  <2>1. CASE IsRetry(w)
    BY <2>1, Zenon DEF ReserveCase, BeginAssessmentRetryAttemptWithLease, CurrentAttempt
  <2>2. CASE ~IsRetry(w)
    <3>1. id = <<r.i, r.c, "first">> /\ r.retry[r.i] = 0
      BY <2>2 DEF CurrentAttempt, Current, IsRetry, RetryCase
    <3>2. BeginAssessmentAttemptWithBudgetLease(w, r.i, r.c)
      BY <2>2, Zenon DEF ReserveCase, Current
    <3>3. Fresh(w)
      BY <1>1, <3>2 DEF BeginAssessmentAttemptWithBudgetLease, Fenced, FreshInv, LoadedPcs, NodePc
    <3>4. attempt[<<r.i, r.c, "first">>].status = "none"
      BY <1>1, <1>2, <3>1, <3>3 DEF Fresh, CasePcs
    <3>5. ChargeAndInsert(<<r.i, r.c, "first">>)
      BY <3>2, <3>4 DEF BeginAssessmentAttemptWithBudgetLease
    <3>6. QED
      BY <3>1, <3>4, <3>5
  <2>3. QED
    BY <2>1, <2>2
<1>7. UNCHANGED sent
  BY Zenon DEF ReserveCase, Goto, Become
<1>8. QED
  BY <1>3, <1>5, <1>6, <1>7

\* A step that neither reserves, sends nor records.
LEMMA OtherStepKeepsSend ==
  ASSUME RunInv, SendInv, NEW w \in Worker, StepOf(w), UNCHANGED <<attempt, sent>>,
         Sending(w)' => Sending(w),
         run'[w].pc \in {"send", "inflight"} => run[w].pc \in {"send", "inflight"}
  PROVE  SendInv'
<1>1. Sending(w)' => CurrentAttempt(w)' = CurrentAttempt(w)
  <2> SUFFICES ASSUME Sending(w)'
               PROVE  CurrentAttempt(w)' = CurrentAttempt(w)
    OBVIOUS
  <2>1. run'[w].pc \in SendingPcs /\ run'[w].pc \in CasePcs
    BY DEF Sending, SendingPcs, CasePcs
  <2>2. /\ run'[w].i = run[w].i /\ run'[w].retry = run[w].retry /\ run'[w].c = run[w].c
    BY <2>1, CaseWalks DEF Sending, SendingPcs
  <2>3. QED
    BY <2>2 DEF CurrentAttempt, Current, IsRetry, RetryCase
<1>2. \A v \in Worker : v # w => /\ CurrentAttempt(v)' = CurrentAttempt(v)
                                 /\ Sending(v)' <=> Sending(v)
                                 /\ run'[v].pc = run[v].pc
  BY OthersRest DEF CurrentAttempt, Current, IsRetry, RetryCase, Sending
<1>3. \A v \in Worker : Sending(v)' => Sending(v) /\ CurrentAttempt(v)' = CurrentAttempt(v)
  BY <1>1, <1>2
<1>4. \A v \in Worker : run'[v].pc \in {"send", "inflight"} =>
        run[v].pc \in {"send", "inflight"} /\ Sending(v)'
  BY <1>2 DEF Sending, SendingPcs
<1>5. AtMostOnceSend'
  BY DEF SendInv, AtMostOnceSend
<1>6. \A v \in Worker : Sending(v)' => attempt'[CurrentAttempt(v)'].status = "running"
  BY <1>3 DEF SendInv
<1>7. \A v \in Worker : run'[v].pc \in {"send", "inflight"} => sent'[CurrentAttempt(v)'] = 0
  BY <1>3, <1>4 DEF SendInv
<1>8. \A u, v \in Worker : Sending(u)' /\ Sending(v)' /\ u # v =>
        CurrentAttempt(u)' # CurrentAttempt(v)'
  BY <1>3 DEF SendInv
<1>9. QED
  BY <1>5, <1>6, <1>7, <1>8 DEF SendInv

LEMMA OthersSend ==
  ASSUME RunInv, NEW w \in Worker, StepOf(w)
  PROVE  /\ Sending(w)' => CurrentAttempt(w)' = CurrentAttempt(w) /\ (Sending(w) \/ ReserveCase(w))
         /\ \A v \in Worker : v # w => /\ CurrentAttempt(v)' = CurrentAttempt(v)
                                       /\ Sending(v)' <=> Sending(v)
                                       /\ run'[v].pc = run[v].pc
<1>1. ASSUME Sending(w)'
      PROVE  CurrentAttempt(w)' = CurrentAttempt(w) /\ (Sending(w) \/ ReserveCase(w))
  <2>1. run'[w].pc \in SendingPcs /\ run'[w].pc \in CasePcs
    BY <1>1 DEF Sending, SendingPcs, CasePcs
  <2>2. ~StartNode(w)
    BY <2>1, CaseMoves DEF Steps, SendingPcs
  <2>3. /\ run'[w].i = run[w].i /\ run'[w].retry = run[w].retry /\ run'[w].c = run[w].c
        /\ run[w].pc \in SendingPcs \/ ReserveCase(w)
    BY <2>1, <2>2, CaseWalks DEF SendingPcs
  <2>4. QED
    BY <2>3 DEF CurrentAttempt, Current, IsRetry, RetryCase, Sending
<1>2. \A v \in Worker : v # w => /\ CurrentAttempt(v)' = CurrentAttempt(v)
                                 /\ Sending(v)' <=> Sending(v)
                                 /\ run'[v].pc = run[v].pc
  BY OthersRest DEF CurrentAttempt, Current, IsRetry, RetryCase, Sending
<1>3. QED
  BY <1>1, <1>2

LEMMA ReserveKeepsSend ==
  ASSUME RunInv, FreshInv, SendInv, NEW w \in Worker, StepOf(w), ReserveCase(w)
  PROVE  SendInv'
<1> PICK id : id = CurrentAttempt(w)
  OBVIOUS
<1>1. /\ id \in AttemptId /\ attempt[id].status = "none" /\ attempt'[id].status = "running"
      /\ \A o \in AttemptId \ {id} : attempt'[o] = attempt[o]
      /\ sent' = sent
  BY ReservationIsNew
<1>2. sent[id] = 0
  <2>1. sent[id] \in Nat
    BY <1>1 DEF RunInv, TypeOK
  <2>2. QED
    BY <1>1, <2>1 DEF SendInv, AtMostOnceSend
<1>3. \A v \in Worker : Sending(v) => /\ CurrentAttempt(v) \in AttemptId
                                      /\ attempt[CurrentAttempt(v)].status = "running"
                                      /\ CurrentAttempt(v) # id
  BY <1>1, SendingAttempt DEF SendInv
<1>4. \A v \in Worker : Sending(v)' => \/ v = w /\ CurrentAttempt(v)' = id
                                       \/ v # w /\ Sending(v) /\ CurrentAttempt(v)' = CurrentAttempt(v)
  BY OthersSend
<1>5. AtMostOnceSend'
  BY <1>1 DEF SendInv, AtMostOnceSend
<1>6. \A v \in Worker : Sending(v)' => attempt'[CurrentAttempt(v)'].status = "running"
  BY <1>1, <1>3, <1>4
<1>7. \A v \in Worker : run'[v].pc \in {"send", "inflight"} => sent'[CurrentAttempt(v)'] = 0
  <2>1. ASSUME NEW v \in Worker, run'[v].pc \in {"send", "inflight"}, v # w
        PROVE  run[v].pc \in {"send", "inflight"}
    BY <2>1, OthersSend
  <2>2. \A v \in Worker : run'[v].pc \in {"send", "inflight"} => Sending(v)'
    BY DEF Sending, SendingPcs
  <2>3. QED
    BY <1>1, <1>2, <1>4, <2>1, <2>2 DEF SendInv
<1>8. \A u, v \in Worker : Sending(u)' /\ Sending(v)' /\ u # v =>
        CurrentAttempt(u)' # CurrentAttempt(v)'
  BY <1>3, <1>4 DEF SendInv
<1>9. QED
  BY <1>5, <1>6, <1>7, <1>8 DEF SendInv

LEMMA SendKeepsSend ==
  ASSUME RunInv, SendInv, NEW w \in Worker, StepOf(w), Send(w)
  PROVE  SendInv'
<1> PICK id : id = CurrentAttempt(w)
  OBVIOUS
<1>1. run[w].pc = "inflight" /\ run'[w].pc = "awaiting" /\ Sending(w) /\ ~ReserveCase(w)
  BY CaseMoves DEF Steps, Sending, SendingPcs, ReserveCase, At
<1>2. id \in AttemptId /\ sent[id] = 0 /\ attempt[id].status = "running"
  BY <1>1, SendingAttempt DEF SendInv
<1>3. attempt' = attempt /\ sent' = [sent EXCEPT ![id] = @ + 1] /\ sent \in [AttemptId -> Nat]
  BY Zenon DEF Send, storeVars, RunInv, TypeOK
<1>4. sent'[id] = 1 /\ \A o \in AttemptId \ {id} : sent'[o] = sent[o]
  BY <1>2, <1>3
<1>5. \A v \in Worker : Sending(v)' => /\ Sending(v) /\ CurrentAttempt(v)' = CurrentAttempt(v)
                                       /\ CurrentAttempt(v) \in AttemptId
                                       /\ v # w => CurrentAttempt(v) # id /\ run'[v].pc = run[v].pc
  BY <1>1, OthersSend, SendingAttempt DEF SendInv
<1>6. AtMostOnceSend'
  BY <1>2, <1>3, <1>4 DEF SendInv, AtMostOnceSend
<1>7. \A v \in Worker : Sending(v)' => attempt'[CurrentAttempt(v)'].status = "running"
  BY <1>3, <1>5 DEF SendInv
<1>8. \A v \in Worker : run'[v].pc \in {"send", "inflight"} => sent'[CurrentAttempt(v)'] = 0
  <2>1. \A v \in Worker : run'[v].pc \in {"send", "inflight"} => Sending(v)' /\ v # w
    BY <1>1 DEF Sending, SendingPcs
  <2>2. QED
    BY <1>4, <1>5, <2>1 DEF SendInv
<1>9. \A u, v \in Worker : Sending(u)' /\ Sending(v)' /\ u # v =>
        CurrentAttempt(u)' # CurrentAttempt(v)'
  BY <1>5 DEF SendInv
<1>10. QED
  BY <1>6, <1>7, <1>8, <1>9 DEF SendInv

LEMMA RecordKeepsSend ==
  ASSUME RunInv, SendInv, NEW w \in Worker, StepOf(w), RecordAttempt(w)
  PROVE  SendInv'
<1> PICK id : id = CurrentAttempt(w)
  OBVIOUS
<1>1. run[w].pc = "record" /\ Sending(w) /\ ~ReserveCase(w)
  BY DEF RecordAttempt, Sending, SendingPcs, ReserveCase, At
<1>2. ~Sending(w)'
  BY EvidenceMoves, AfterEvidenceFields DEF Steps, Sending, SendingPcs
<1>3. id \in AttemptId /\ attempt[id].status = "running"
  BY <1>1, SendingAttempt DEF SendInv
<1>4. attempt'[id].status # "none" /\ sent' = sent
  <2>1. attempt \in [AttemptId -> AttemptRow]
    BY DEF RunInv, TypeOK, StoreTypeOK
  <2>2. sent' = sent
    BY Zenon DEF RecordAttempt, Become
  <2>3. \E s \in {"succeeded", "failed", "canceled"} : \E x, y :
          attempt' = [attempt EXCEPT ![id] = [status |-> s, retryable |-> x, response |-> y]]
    BY Zenon DEF RecordAttempt, FinishAssessmentAttemptWithLease
  <2>4. PICK s \in {"succeeded", "failed", "canceled"} : \E x, y :
          attempt' = [attempt EXCEPT ![id] = [status |-> s, retryable |-> x, response |-> y]]
    BY <2>3
  <2>5. PICK x, y :
          attempt' = [attempt EXCEPT ![id] = [status |-> s, retryable |-> x, response |-> y]]
    BY <2>4
  <2>6. attempt'[id] = [status |-> s, retryable |-> x, response |-> y]
    BY <1>3, <2>1, <2>5, Zenon
  <2>7. attempt'[id].status = s
    BY <2>6
  <2>8. QED
    BY <2>2, <2>7
<1>5. \A o \in AttemptId \ {id} : attempt'[o] = attempt[o]
  BY AttemptWrites
<1>6. \A v \in Worker : Sending(v)' => /\ v # w
                                       /\ Sending(v) /\ CurrentAttempt(v)' = CurrentAttempt(v)
                                       /\ CurrentAttempt(v) \in AttemptId
                                       /\ CurrentAttempt(v) # id /\ run'[v].pc = run[v].pc
  BY <1>1, <1>2, OthersSend, SendingAttempt DEF SendInv
<1>7. AtMostOnceSend'
  BY <1>3, <1>4, <1>5 DEF SendInv, AtMostOnceSend
<1>8. \A v \in Worker : Sending(v)' => attempt'[CurrentAttempt(v)'].status = "running"
  BY <1>5, <1>6 DEF SendInv
<1>9. \A v \in Worker : run'[v].pc \in {"send", "inflight"} => sent'[CurrentAttempt(v)'] = 0
  <2>1. \A v \in Worker : run'[v].pc \in {"send", "inflight"} => Sending(v)'
    BY DEF Sending, SendingPcs
  <2>2. QED
    BY <1>4, <1>6, <2>1 DEF SendInv
<1>10. \A u, v \in Worker : Sending(u)' /\ Sending(v)' /\ u # v =>
        CurrentAttempt(u)' # CurrentAttempt(v)'
  BY <1>6 DEF SendInv
<1>11. QED
  BY <1>7, <1>8, <1>9, <1>10 DEF SendInv

LEMMA SendInvStep == RunInv /\ FreshInv /\ SendInv /\ [Next]_vars => SendInv'
<1> SUFFICES ASSUME RunInv, FreshInv, SendInv, [Next]_vars
             PROVE  SendInv'
  OBVIOUS
<1>1. ASSUME NEW w \in Worker, StepOf(w)
      PROVE  SendInv'
  <2>1. CASE ReserveCase(w) \/ Send(w) \/ RecordAttempt(w)
    BY <1>1, <2>1, ReserveKeepsSend, SendKeepsSend, RecordKeepsSend
  <2>2. CASE ~(ReserveCase(w) \/ Send(w) \/ RecordAttempt(w))
    <3>1. UNCHANGED <<attempt, sent>>
      BY <1>1, <2>2, StepCases, NodeWrites, ScheduleWrites
         DEF Leaves, Quiet, Fails, Loads, storeVars, rowVars
    <3>2. Sending(w)' => Sending(w)
      BY <1>1, <2>2, OthersSend
    <3>3. run'[w].pc \in {"send", "inflight"} => run[w].pc \in {"send", "inflight"}
      BY <1>1, <2>2, CaseWalks, CaseMoves DEF CasePcs, Steps
    <3>4. QED
      BY <1>1, <3>1, <3>2, <3>3, OtherStepKeepsSend
  <2>3. QED
    BY <2>1, <2>2
<1>2. ASSUME UNCHANGED <<run, attempt, sent>>
      PROVE  SendInv'
  BY <1>2 DEF SendInv, AtMostOnceSend, Sending, CurrentAttempt, Current, IsRetry, RetryCase
<1>3. QED
  BY <1>1, <1>2 DEF Next, StepOf, Expire, LeaseExpires, vars, storeVars, evidenceVars

LEMMA SendInvInit == Init => FreshInv /\ SendInv
<1> SUFFICES ASSUME Init PROVE FreshInv /\ SendInv
  OBVIOUS
<1>1. \A w \in Worker : run[w].pc = "idle"
  BY IdleFields DEF Init
<1>2. \A id \in AttemptId : sent[id] = 0
  BY DEF Init
<1>3. AtMostOnceSend
  BY <1>2 DEF AtMostOnceSend
<1>4. QED
  BY <1>1, <1>3 DEF FreshInv, SendInv, Sending, SendingPcs, LoadedPcs, NodePc

LEMMA ExecutionStore == Spec => []StoreInv
  BY ExecutionUsesStore, StoreInvariant, PTL

\* For any number of invocations: what the owner of the lease loaded as
\* untouched is untouched until it reserves it (resolveScheduledNode), and two
\* invocations with a request on its way hold different attempts, each
\* reserved and, before the request leaves, unsent.
THEOREM SendInvariant == Spec => [](FreshInv /\ SendInv)
  BY SendInvInit, FreshInvStep, SendInvStep, RunInvariant, ExecutionStore, PTL DEF Spec

\* Whatever invocations compete, crash, lose or outlive their lease, no
\* attempt's request leaves twice, and none before the attempt is reserved
\* and charged (Reserve, then executeAttempt; a resumed node with attempts is
\* failed, not repeated).
THEOREM ExecutionAtMostOnce == Spec => []AtMostOnceSend
  BY SendInvariant, PTL DEF SendInv

-----------------------------------------------------------------------------
(* A stopped origin stays stopped, and stops no other. *)

\* A coverage row of some node of origin o.
Noted(o, m) == \E n \in Node : OriginOf[n] = o /\ m \in coverage[n]

MarkPcs == {"markFinish", "markCoverage"}
ContainPcs == {"contain", "containCoverage"}

\* An origin that w holds for stopped has the row that says so.
DownIsNoted(w) ==
  \A o \in Origin : /\ run[w].down[o] = "limited" => Noted(o, "rate stop")
                    /\ run[w].down[o] = "unavailable" => Noted(o, "target transport")

\* Why w marks nodes skipped, and which.
MarkIsDue(w) ==
  \/ /\ run[w].reason \in {"assessment canceled", "execution error"}
     /\ run[w].last = NodeCount
  \/ /\ run[w].reason = "origin rate limited"
     /\ run[w].last = run[w].i
     /\ Noted(OriginOf[run[w].i], "rate stop")

\* Why w contains a node.
ContainIsDue(w) ==
  \/ run[w].reason \in {"retry budget", "retry completed"}
  \/ run[w].reason = "origin unavailable" /\ Noted(OriginOf[run[w].i], "target transport")

\* Rows are never deleted, so all this holds of stale invocations too.
StopOK(w) ==
  /\ run[w].reason = "target transport" =>
       run[w].pc = "error" /\ Noted(OriginOf[run[w].i], "target transport")
  /\ run[w].pc \in LoadedPcs => DownIsNoted(w)
  /\ run[w].pc \in MarkPcs => MarkIsDue(w)
  /\ run[w].pc \in ContainPcs => ContainIsDue(w)
  /\ run[w].pc \in CasePcs \cup {"start"} => run[w].down[OriginOf[run[w].i]] = "up"

\* StopsAreIsolated, row by row.
Isolated(n) ==
  /\ node[n].message = "origin rate limited" => Noted(OriginOf[n], "rate stop")
  /\ node[n].message = "origin unavailable" => Noted(OriginOf[n], "target transport")

StopInv == (\A n \in Node : Isolated(n)) /\ \A w \in Worker : StopOK(w)

\* An origin that w may still send to has no row that stops it, except while w
\* is about to learn of it, or is about to end.
MaySend(w) ==
  \A o \in Origin : run[w].down[o] = "up" =>
    \/ ~Noted(o, "rate stop") /\ ~Noted(o, "target transport")
    \/ run[w].pc = "error" /\ run[w].reason = "target transport" /\ o = OriginOf[run[w].i]
    \/ run[w].pc \in MarkPcs /\ run[w].last = NodeCount

\* Another invocation may stop an origin: this holds of the lease's owner only.
MaySendInv == \A w \in Worker : run[w].pc \in LoadedPcs /\ lease.owner = w => MaySend(w)

LEMMA NotedStays ==
  ASSUME Grows
  PROVE  \A o, m : Noted(o, m) => Noted(o, m)'
  BY DEF Grows, Noted

LEMMA LoadedStops ==
  ASSUME NEW o \in Origin
  PROVE  /\ OriginState(o) = "limited" => Noted(o, "rate stop")
         /\ OriginState(o) = "unavailable" => Noted(o, "target transport")
         /\ OriginState(o) = "up" => ~Noted(o, "rate stop") /\ ~Noted(o, "target transport")
<1> DEFINE recorded == UNION {coverage[n] : n \in {m \in Node : OriginOf[m] = o}}
<1>1. \A m : m \in recorded <=> Noted(o, m)
  BY DEF Noted
<1>2. OriginState(o) = IF "rate stop" \in recorded THEN "limited"
                       ELSE IF "target transport" \in recorded THEN "unavailable"
                       ELSE "up"
  BY Zenon DEF OriginState
<1> HIDE DEF recorded
<1>3. QED
  BY <1>1, <1>2

\* Outside the schedule only the reason matters.
LEMMA OffStop ==
  ASSUME NEW w \in Worker, run'[w].pc \notin LoadedPcs, run'[w].reason # "target transport"
  PROVE  StopOK(w)'
  BY DEF StopOK, LoadedPcs, NodePc, MarkPcs, ContainPcs, CasePcs

LEMMA StopStays ==
  ASSUME Grows, NEW v \in Worker, StopOK(v), run'[v].pc = run[v].pc,
         run'[v].reason = run[v].reason, SamePlace(run'[v], run[v])
  PROVE  StopOK(v)'
<1>1. DownIsNoted(v) => DownIsNoted(v)'
  BY NotedStays DEF DownIsNoted, SamePlace
<1>2. MarkIsDue(v) => MarkIsDue(v)'
  BY NotedStays DEF MarkIsDue, SamePlace
<1>3. ContainIsDue(v) => ContainIsDue(v)'
  BY NotedStays DEF ContainIsDue, SamePlace
<1>4. QED
  BY <1>1, <1>2, <1>3, NotedStays DEF StopOK, SamePlace

\* A step at the same node.
LEMMA StopSteps ==
  ASSUME Grows, NEW w \in Worker, StopOK(w), run[w].pc \in LoadedPcs,
         SamePlace(run'[w], run[w]),
         run'[w].reason # "target transport",
         run'[w].pc \in LoadedPcs,
         run'[w].pc \in MarkPcs => run[w].pc \in MarkPcs /\ run'[w].reason = run[w].reason,
         run'[w].pc \in ContainPcs =>
           \/ run'[w].reason \in {"retry budget", "retry completed"}
           \/ run[w].pc \in ContainPcs /\ run'[w].reason = run[w].reason,
         run'[w].pc \in CasePcs \cup {"start"} => run[w].down[OriginOf[run[w].i]] = "up"
  PROVE  StopOK(w)'
<1>1. DownIsNoted(w)'
  BY NotedStays DEF StopOK, DownIsNoted, SamePlace
<1>2. run'[w].pc \in MarkPcs => MarkIsDue(w)'
  BY NotedStays DEF StopOK, MarkIsDue, SamePlace
<1>3. run'[w].pc \in ContainPcs => ContainIsDue(w)'
  BY NotedStays DEF StopOK, ContainIsDue, SamePlace
<1>4. QED
  BY <1>1, <1>2, <1>3 DEF StopOK, SamePlace

\* A step to the next node.
LEMMA StopOnward ==
  ASSUME NEW w \in Worker, NEW from, NEW result, Onward(w, from, result), DownIsNoted(w)'
  PROVE  StopOK(w)'
  BY DEF Onward, StopOK, MarkPcs, ContainPcs, CasePcs

\* A step that begins or goes on marking nodes.
LEMMA StopMarks ==
  ASSUME Grows, NEW w \in Worker, StopOK(w), run[w].pc \in LoadedPcs,
         NEW i, NEW last, NEW reason, MarksFrom(w, i, last, reason),
         \/ reason \in {"assessment canceled", "execution error"} /\ last = NodeCount
         \/ reason = "origin rate limited" /\ last = i /\ Noted(OriginOf[i], "rate stop")
  PROVE  StopOK(w)'
<1>1. DownIsNoted(w)'
  BY NotedStays DEF StopOK, DownIsNoted, MarksFrom
<1>2. MarkIsDue(w)'
  BY NotedStays DEF MarkIsDue, MarksFrom
<1>3. QED
  BY <1>1, <1>2 DEF StopOK, MarksFrom, MarkPcs, ContainPcs, CasePcs

\* The coverage row that w writes.
Covers(w, m) ==
  \/ StopCoverage(w) /\ m = "rate stop"
  \/ TransportCoverage(w) /\ m = "target transport"
  \/ run[w].pc = "containCoverage" /\ m = run[w].reason
  \/ run[w].pc = "markCoverage" /\ m = run[w].reason
  \/ run[w].pc = "evaluated" /\ m = "evaluated"
  \/ run[w].pc = "interruptCoverage" /\ m = "interrupted"

LEMMA CoverageWrites ==
  ASSUME RunInv, NEW w \in Worker, StepOf(w)
  PROVE  \/ UNCHANGED coverage
         \/ \E m : /\ Covers(w, m)
                   /\ run[w].i \in Node
                   /\ coverage' = [coverage EXCEPT ![run[w].i] = @ \cup {m}]
<1>1. \/ UNCHANGED coverage
      \/ StopCoverage(w) \/ TransportCoverage(w) \/ ContainCoverage(w) \/ PublishCoverage(w)
      \/ CoverInterruptedNode(w) \/ MarkCoverage(w)
  BY StepCases, NodeWrites, ScheduleWrites DEF Leaves, Quiet, Fails, Loads, storeVars, rowVars
<1>2. run[w].pc \in {"stopCoverage", "transportCoverage", "containCoverage", "evaluated",
                     "interruptCoverage", "markCoverage"} => run[w].i \in Node
  BY DEF RunInv, RunOK, NodePcs, NodePc
<1>3. CASE StopCoverage(w) \/ TransportCoverage(w) \/ ContainCoverage(w) \/ PublishCoverage(w)
  <2>1. \E m : Covers(w, m) /\ AddCoverageWithLease(w, run[w].i, m)
    BY <1>3, Zenon DEF StopCoverage, TransportCoverage, ContainCoverage, PublishCoverage, Covers, At, Current
  <2>2. run[w].i \in Node
    BY <1>2, <1>3 DEF StopCoverage, TransportCoverage, ContainCoverage, PublishCoverage, At
  <2>3. QED
    BY <2>1, <2>2, Zenon DEF AddCoverageWithLease
<1>4. CASE CoverInterruptedNode(w) \/ MarkCoverage(w)
  <2>1. \E m : Covers(w, m) /\ AddCoverageWithLease(w, run[w].i, m)
    BY <1>4, Zenon DEF CoverInterruptedNode, MarkCoverage, Covers, At, Current
  <2>2. run[w].i \in Node
    BY <1>2, <1>4 DEF CoverInterruptedNode, MarkCoverage, At
  <2>3. QED
    BY <2>1, <2>2, Zenon DEF AddCoverageWithLease
<1>5. QED
  BY <1>1, <1>3, <1>4

\* Only StopCoverage and TransportCoverage stop an origin: that of their node.
LEMMA StopWrites ==
  ASSUME RunInv, NEW w \in Worker, StopOK(w), StepOf(w),
         NEW o, NEW m \in {"rate stop", "target transport"}, Noted(o, m)', ~Noted(o, m)
  PROVE  /\ o = OriginOf[run[w].i]
         /\ \/ m = "rate stop" /\ StopCoverage(w)
            \/ m = "target transport" /\ TransportCoverage(w)
<1> PICK i : i = run[w].i
  OBVIOUS
<1>1. coverage \in [Node -> SUBSET Reason]
  BY DEF RunInv, TypeOK, StoreTypeOK
<1>2. ~UNCHANGED coverage
  BY DEF Noted
<1>3. PICK x : Covers(w, x) /\ i \in Node /\ coverage' = [coverage EXCEPT ![i] = @ \cup {x}]
  BY <1>2, CoverageWrites
<1>4. PICK n \in Node : OriginOf[n] = o /\ m \in coverage'[n]
  BY DEF Noted
<1>5. m \notin coverage[n]
  BY <1>4 DEF Noted
<1>6. n = i /\ m = x
  BY <1>1, <1>3, <1>4, <1>5
<1>7. run[w].pc \in {"containCoverage", "markCoverage"} =>
        run[w].reason \notin {"rate stop", "target transport"}
  BY DEF StopOK, MarkPcs, ContainPcs, MarkIsDue, ContainIsDue
<1>8. \/ m = "rate stop" /\ StopCoverage(w)
      \/ m = "target transport" /\ TransportCoverage(w)
  BY <1>3, <1>6, <1>7 DEF Covers
<1>9. QED
  BY <1>4, <1>6, <1>8

LEMMA TransportIsNoted ==
  ASSUME RunInv, NEW w \in Worker, TransportCoverage(w)
  PROVE  Noted(OriginOf[run[w].i], "target transport")'
<1> PICK i : i = run[w].i
  OBVIOUS
<1>1. coverage \in [Node -> SUBSET Reason]
  BY DEF RunInv, TypeOK, StoreTypeOK
<1>2. i \in Node
  BY DEF TransportCoverage, At, RunInv, RunOK, NodePcs, NodePc
<1>3. coverage' = [coverage EXCEPT ![i] = @ \cup {"target transport"}]
  BY Zenon DEF TransportCoverage, AddCoverageWithLease, Current
<1>4. "target transport" \in coverage'[i]
  BY <1>1, <1>2, <1>3
<1>5. run'[w].i = i
  BY OutcomeMoves DEF SamePlace
<1>6. QED
  BY <1>2, <1>4, <1>5 DEF Noted

LEMMA StopIsNoted ==
  ASSUME RunInv, Grows, NEW w \in Worker, StopOK(w), StopCoverage(w)
  PROVE  DownIsNoted(w)'
<1> PICK i : i = run[w].i
  OBVIOUS
<1>1. coverage \in [Node -> SUBSET Reason] /\ run[w].down \in [Origin -> {"up", "limited", "unavailable"}]
  BY DEF RunInv, TypeOK, StoreTypeOK, RunOK, RunRecord
<1>2. i \in Node /\ run[w].pc = "stopCoverage"
  BY DEF StopCoverage, At, RunInv, RunOK, NodePcs, NodePc
<1>3. coverage' = [coverage EXCEPT ![i] = @ \cup {"rate stop"}]
  BY Zenon DEF StopCoverage, AddCoverageWithLease, Current
<1>4. "rate stop" \in coverage'[i]
  BY <1>1, <1>2, <1>3
<1>5. \A o : o = OriginOf[i] => Noted(o, "rate stop")'
  BY <1>2, <1>4 DEF Noted
<1>6. run'[w].down = [run[w].down EXCEPT ![OriginOf[i]] = "limited"]
  BY OutcomeMoves
<1>7. \A o \in Origin : run'[w].down[o] = IF o = OriginOf[i] THEN "limited" ELSE run[w].down[o]
  BY <1>1, <1>6
<1>8. DownIsNoted(w)
  BY <1>2 DEF StopOK, LoadedPcs, NodePc
<1>9. QED
  BY <1>5, <1>7, <1>8, NotedStays DEF DownIsNoted

LEMMA ScheduleKeepsStop ==
  ASSUME RunInv, Grows, NEW w \in Worker, StopOK(w), Schedules(w)
  PROVE  StopOK(w)'
<1> DEFINE r == run[w]
           q == run'[w]
<1>1. ASSUME r.pc \in LoadedPcs, q.down = r.down
      PROVE  DownIsNoted(w)'
  BY <1>1, NotedStays DEF StopOK, DownIsNoted
<1>2. CASE PassDoneNode(w) \/ CoverInterruptedNode(w)
  BY <1>1, <1>2, StopOnward, ScheduleMoves DEF Onward, LoadedPcs
<1>3. CASE MeetInterruptedNode(w) \/ FailInterruptedNode(w) \/ MarkFinish(w)
  <2>1. \/ Steps(w, "top", "interrupt") \/ Steps(w, "interrupt", "interruptCoverage")
        \/ Steps(w, "markFinish", "markCoverage")
    BY <1>3, ScheduleMoves
  <2>2. r.reason # "target transport"
    BY <2>1 DEF Steps, StopOK
  <2>3. QED
    BY <2>1, <2>2, StopSteps DEF Steps, LoadedPcs, MarkPcs, ContainPcs, CasePcs
<1>4. CASE CancelScheduledNodes(w)
  <2>1. r.pc \in LoadedPcs
    BY <1>4 DEF CancelScheduledNodes, Scheduled, At, LoadedPcs
  <2>2. QED
    BY <1>4, <2>1, StopMarks, ScheduleMoves
<1>5. CASE DispatchNode(w)
  <2>1. r.pc = "top" /\ r.i \in Node /\ r.pc \in LoadedPcs
    BY <1>5, ScheduleMoves DEF DispatchNode, LoadedPcs
  <2>2. OriginOf[r.i] \in Origin /\ r.reason # "target transport"
    BY <2>1, ExecutionAssumption DEF StopOK
  <2>3. CASE Steps(w, "top", "start") /\ r.down[OriginOf[r.i]] = "up"
    BY <2>1, <2>2, <2>3, StopSteps DEF Steps, LoadedPcs, NodePc, MarkPcs, ContainPcs, CasePcs
  <2>4. CASE /\ r.down[OriginOf[r.i]] = "limited"
             /\ MarksFrom(w, r.i, r.i, "origin rate limited")
    <3>1. Noted(OriginOf[r.i], "rate stop")
      BY <2>1, <2>2, <2>4 DEF StopOK, DownIsNoted
    <3>2. QED
      BY <2>1, <2>4, <3>1, StopMarks
  <2>5. CASE /\ r.down[OriginOf[r.i]] = "unavailable"
             /\ q.pc = "contain"
             /\ SamePlace(q, r)
             /\ q.reason = "origin unavailable"
    <3>1. Noted(OriginOf[r.i], "target transport")
      BY <2>1, <2>2, <2>5 DEF StopOK, DownIsNoted
    <3>2. ContainIsDue(w)'
      BY <2>5, <3>1, NotedStays DEF ContainIsDue, SamePlace
    <3>3. QED
      BY <1>1, <2>1, <2>5, <3>2 DEF StopOK, SamePlace, MarkPcs, CasePcs
  <2>6. QED
    BY <1>5, <2>3, <2>4, <2>5, DispatchMoves
<1>6. CASE HandleNodeError(w)
  <2>1. r.pc = "error" /\ r.pc \in LoadedPcs /\ r.i \in Node
    BY <1>6, ErrorMoves DEF LoadedPcs, NodePc, RunInv, RunOK, NodePcs
  <2>2. CASE q = Closing
    BY <2>2, OffStop, IdleFields DEF LoadedPcs, NodePc
  <2>3. CASE q.pc = "finalize" /\ q.reason = ""
    BY <2>3, OffStop DEF LoadedPcs, NodePc
  <2>4. ASSUME NEW reason \in {"assessment canceled", "execution error"},
               MarksFrom(w, r.i + 1, NodeCount, reason)
        PROVE  StopOK(w)'
    BY <2>1, <2>4, StopMarks
  <2>5. CASE /\ r.reason = "target transport"
             /\ Onward(w, "error", "failed")
             /\ q.down = [r.down EXCEPT ![OriginOf[r.i]] = "unavailable"]
    <3>1. Noted(OriginOf[r.i], "target transport") /\ DownIsNoted(w)
      BY <2>1, <2>5 DEF StopOK
    <3>2. r.down \in [Origin -> {"up", "limited", "unavailable"}]
      BY DEF RunInv, RunOK, RunRecord
    <3>3. \A o \in Origin : q.down[o] = IF o = OriginOf[r.i] THEN "unavailable" ELSE r.down[o]
      BY <2>5, <3>2
    <3>4. DownIsNoted(w)'
      BY <3>1, <3>3, NotedStays DEF DownIsNoted
    <3>5. QED
      BY <2>5, <3>4, StopOnward
  <2>6. QED
    BY <1>6, <2>2, <2>3, <2>4, <2>5, ErrorMoves
<1>7. CASE MarkCoverage(w)
  <2>1. r.pc = "markCoverage" /\ r.pc \in LoadedPcs /\ r.i \in Node /\ MarkIsDue(w)
    BY <1>7, MarkMoves DEF LoadedPcs, MarkPcs, StopOK, RunInv, RunOK, NodePcs
  <2>2. CASE q.pc = "finalize" /\ q.reason = ""
    BY <2>2, OffStop DEF LoadedPcs, NodePc
  <2>3. CASE MarksFrom(w, r.i + 1, r.last, r.reason) /\ r.i + 1 <= r.last
    <3>1. ~(r.i + 1 <= r.i)
      BY <2>1, StoreAssumption DEF Node
    <3>2. r.last # r.i
      BY <2>3, <3>1
    <3>3. r.reason \in {"assessment canceled", "execution error"} /\ r.last = NodeCount
      BY <2>1, <3>2 DEF MarkIsDue
    <3>4. QED
      BY <2>1, <2>3, <3>3, StopMarks
  <2>4. CASE Onward(w, "markCoverage", r.result) /\ q.down = r.down
    BY <1>1, <2>1, <2>4, StopOnward
  <2>5. QED
    BY <1>7, <2>2, <2>3, <2>4, MarkMoves
<1>8. QED
  BY <1>2, <1>3, <1>4, <1>5, <1>6, <1>7 DEF Schedules

LEMMA NodeStepKeepsStop ==
  ASSUME RunInv, Grows, NEW w \in Worker, StopOK(w), ExecuteNodeStep(w)
  PROVE  StopOK(w)'
<1> DEFINE r == run[w]
           q == run'[w]
<1> USE DEF LoadedPcs, NodePc, MarkPcs, ContainPcs, CasePcs
<1>1. ASSUME r.pc \in LoadedPcs, q.down = r.down
      PROVE  DownIsNoted(w)'
  BY <1>1, NotedStays DEF StopOK, DownIsNoted
<1>2. ASSUME r.pc # "error"
      PROVE  r.reason # "target transport"
  BY <1>2 DEF StopOK
<1>3. ASSUME r.pc \in CasePcs \cup {"start"}
      PROVE  r.down[OriginOf[r.i]] = "up"
  BY <1>3 DEF StopOK
<1>4. CASE StartNode(w) \/ ReserveCase(w) \/ BeforeSend(w) \/ NotSent(w) \/ Send(w) \/ Receive(w)
  <2>1. PICK from \in {"start", "reserve", "send", "inflight", "awaiting"},
             to \in {"reserve", "send", "inflight", "awaiting", "record"} : Steps(w, from, to)
    BY <1>4, CaseMoves
  <2>2. QED
    BY <1>2, <1>3, <2>1, StopSteps DEF Steps
<1>5. CASE ReserveRefused(w)
  BY <1>3, <1>5, StopSteps, EvidenceMoves
<1>6. CASE MissingAttempt(w)
  <2>1. CASE Steps(w, "missing", "contain") /\ r.reason = "retry budget"
    BY <2>1, StopSteps DEF Steps
  <2>2. CASE Steps(w, "missing", "close")
    BY <1>2, <2>2, OffStop DEF Steps
  <2>3. CASE Steps(w, "missing", "error")
    BY <1>2, <2>3, StopSteps DEF Steps
  <2>4. QED
    BY <1>6, <2>1, <2>2, <2>3, EvidenceMoves
<1>7. CASE RecordAttempt(w) \/ StoreArtifact(w)
  <2>1. r.pc \in {"record", "artifact"}
    BY <1>7, EvidenceMoves
  <2>2. CASE q = AfterEvidence(r, IsRetry(w))
    <3>1. /\ SamePlace(q, r)
          /\ q.pc \in {"stop", "fail", "contain", "compare", "reserve"}
          /\ q.reason = r.reason \/ q.reason = "retry completed"
          /\ q.pc = "contain" => q.reason = "retry completed"
      BY <2>2, AfterEvidenceFields
    <3>2. QED
      BY <1>2, <1>3, <2>1, <3>1, StopSteps
  <2>3. CASE Steps(w, "record", "artifact")
    BY <1>2, <1>3, <2>3, StopSteps DEF Steps
  <2>4. QED
    BY <1>7, <2>2, <2>3, EvidenceMoves
<1>8. CASE StopCoverage(w)
  BY <1>8, OutcomeMoves, StopIsNoted, StopOnward
<1>9. CASE TransportCoverage(w)
  <2>1. /\ r.pc = "transportCoverage" /\ q.pc = "error" /\ SamePlace(q, r)
        /\ q.reason = "target transport"
    BY <1>9, OutcomeMoves
  <2>2. Noted(OriginOf[r.i], "target transport")' /\ DownIsNoted(w)'
    BY <1>1, <1>9, <2>1, TransportIsNoted DEF SamePlace
  <2>3. QED
    BY <2>1, <2>2 DEF StopOK, SamePlace
<1>10. CASE ContainCoverage(w) \/ FinishNode(w)
  BY <1>1, <1>10, OutcomeMoves, StopOnward DEF Onward
<1>11. CASE ContainNode(w)
  BY <1>2, <1>11, OutcomeMoves, StopSteps DEF Steps
<1>12. CASE \/ StopNode(w) \/ FailNode(w) \/ Compare(w) \/ PublishFinding(w) \/ PublishCoverage(w)
            \/ FailEvaluation(w) \/ NodeCtxFails(w)
  <2>1. PICK from \in NodePc \ {"error"},
             to \in {"stopCoverage", "transportCoverage", "error", "finding", "evaluated",
                     "finish", "failEvaluation"} : Steps(w, from, to)
    BY <1>12, OutcomeMoves
  <2>2. QED
    BY <1>2, <2>1, StopSteps DEF Steps
<1>13. QED
  BY <1>4, <1>5, <1>6, <1>7, <1>8, <1>9, <1>10, <1>11, <1>12 DEF ExecuteNodeStep

LEMMA StepKeepsStop ==
  ASSUME RunInv, Grows, NEW w \in Worker, StopOK(w), StepOf(w)
  PROVE  StopOK(w)'
<1> DEFINE r == run[w]
           q == run'[w]
<1>1. CASE Leaves(w)
  <2>1. q.reason # "target transport"
    BY <1>1 DEF Leaves, StopOK
  <2>2. QED
    BY <1>1, <2>1, OffStop DEF Leaves
<1>2. CASE Quiet(w)
  BY <1>2, StopStays DEF Quiet, Steps
<1>3. CASE Fails(w)
  <2>1. CASE r.pc = "error"
    <3>1. q.pc = "error" /\ q.reason = r.reason /\ SamePlace(q, r)
      BY <1>3, <2>1 DEF Fails, Steps
    <3>2. QED
      BY <2>1, <3>1, StopStays
  <2>2. CASE r.pc # "error"
    <3>1. PICK from \in NodePc, to \in {"missing", "record", "failEvaluation", "error"} :
            /\ Steps(w, from, to)
            /\ to \in {"missing", "record"} => from \in CasePcs
      BY <1>3 DEF Fails, NodePc, CasePcs
    <3>2. r.reason # "target transport"
      BY <2>2 DEF StopOK
    <3>3. r.pc \in CasePcs => r.down[OriginOf[r.i]] = "up"
      BY DEF StopOK
    <3>4. QED
      BY <3>1, <3>2, <3>3, StopSteps DEF Steps, LoadedPcs, NodePc, MarkPcs, ContainPcs, CasePcs
  <2>3. QED
    BY <2>1, <2>2
<1>4. CASE Loads(w)
  <2>1. q.reason # "target transport" /\ q.pc = "top"
    BY <1>4 DEF Loads, StopOK
  <2>2. \A o \in Origin : q.down[o] = OriginState(o)
    BY <1>4 DEF Loads
  <2>3. DownIsNoted(w)'
    BY <2>2, LoadedStops, NotedStays DEF DownIsNoted
  <2>4. QED
    BY <2>1, <2>3 DEF StopOK, MarkPcs, ContainPcs, CasePcs
<1>5. QED
  BY <1>1, <1>2, <1>3, <1>4, StepCases, ScheduleKeepsStop, NodeStepKeepsStop

LEMMA NodeStepFrom ==
  ASSUME RunInv, NEW w \in Worker, ExecuteNodeStep(w)
  PROVE  run[w].pc \in NodePc \ {"error"}
<1>1. CASE \/ StartNode(w) \/ ReserveCase(w) \/ BeforeSend(w) \/ NotSent(w) \/ Send(w) \/ Receive(w)
  BY <1>1, CaseMoves DEF Steps, NodePc
<1>2. CASE ReserveRefused(w) \/ MissingAttempt(w) \/ RecordAttempt(w) \/ StoreArtifact(w)
  BY <1>2, EvidenceMoves DEF Steps, NodePc
<1>3. CASE \/ StopNode(w) \/ StopCoverage(w) \/ FailNode(w) \/ TransportCoverage(w)
           \/ ContainNode(w) \/ ContainCoverage(w) \/ Compare(w) \/ PublishFinding(w)
           \/ PublishCoverage(w) \/ FinishNode(w) \/ FailEvaluation(w) \/ NodeCtxFails(w)
  BY <1>3, OutcomeMoves DEF Steps, Onward, NodePc
<1>4. QED
  BY <1>1, <1>2, <1>3 DEF ExecuteNodeStep

\* What w holds for stopped, it holds for stopped from then on.
LEMMA DownWalks ==
  ASSUME RunInv, NEW w \in Worker, StepOf(w), ~Loads(w), run'[w].pc \in LoadedPcs
  PROVE  \/ run'[w].down = run[w].down /\ ~StopCoverage(w)
         \/ /\ StopCoverage(w)
            /\ run'[w].down = [run[w].down EXCEPT ![OriginOf[run[w].i]] = "limited"]
         \/ /\ run[w].pc = "error" /\ run'[w].pc = "top"
            /\ run'[w].down = [run[w].down EXCEPT ![OriginOf[run[w].i]] = "unavailable"]
<1> DEFINE r == run[w]
           q == run'[w]
<1>1. StopCoverage(w) => /\ r.pc = "stopCoverage" /\ q.pc = "top" /\ q.i = r.i + 1
                         /\ q.down = [r.down EXCEPT ![OriginOf[r.i]] = "limited"]
  BY OutcomeMoves DEF Onward
<1>2. CASE StopCoverage(w)
  BY <1>1, <1>2
<1>3. ASSUME ~StopCoverage(w)
      PROVE  \/ q.down = r.down
             \/ /\ r.pc = "error" /\ q.pc = "top"
                /\ q.down = [r.down EXCEPT ![OriginOf[r.i]] = "unavailable"]
  <2>1. CASE Quiet(w) \/ Fails(w)
    BY <2>1 DEF Quiet, Fails, Steps, SamePlace
  <2>2. CASE Schedules(w)
    <3>1. CASE \/ PassDoneNode(w) \/ MeetInterruptedNode(w) \/ FailInterruptedNode(w)
               \/ CoverInterruptedNode(w) \/ MarkFinish(w) \/ CancelScheduledNodes(w)
      BY <3>1, ScheduleMoves DEF Steps, SamePlace, MarksFrom
    <3>2. CASE DispatchNode(w)
      BY <3>2, DispatchMoves DEF Steps, SamePlace, MarksFrom
    <3>3. CASE HandleNodeError(w)
      BY <3>3, ErrorMoves, IdleFields DEF Onward, MarksFrom, LoadedPcs, NodePc
    <3>4. CASE MarkCoverage(w)
      BY <3>4, MarkMoves DEF MarksFrom, LoadedPcs, NodePc
    <3>5. QED
      BY <2>2, <3>1, <3>2, <3>3, <3>4 DEF Schedules
  <2>3. CASE ExecuteNodeStep(w)
    <3>1. CASE \/ StartNode(w) \/ ReserveCase(w) \/ BeforeSend(w) \/ NotSent(w) \/ Send(w)
               \/ Receive(w) \/ ReserveRefused(w) \/ MissingAttempt(w)
      BY <3>1, CaseMoves, EvidenceMoves DEF Steps, SamePlace
    <3>2. CASE RecordAttempt(w) \/ StoreArtifact(w)
      BY <3>2, EvidenceMoves, AfterEvidenceFields DEF Steps, SamePlace
    <3>3. CASE \/ StopNode(w) \/ FailNode(w) \/ TransportCoverage(w)
               \/ ContainNode(w) \/ ContainCoverage(w) \/ Compare(w) \/ PublishFinding(w)
               \/ PublishCoverage(w) \/ FinishNode(w) \/ FailEvaluation(w) \/ NodeCtxFails(w)
      BY <3>3, OutcomeMoves DEF Steps, SamePlace
    <3>4. QED
      BY <1>3, <2>3, <3>1, <3>2, <3>3 DEF ExecuteNodeStep
  <2>4. QED
    BY <2>1, <2>2, <2>3, StepCases DEF Leaves
<1>4. QED
  BY <1>2, <1>3

\* Where w is about to learn of a stop, or is about to end.
LEMMA EndWalks ==
  ASSUME RunInv, NEW w \in Worker, StepOf(w), ~Loads(w), run'[w].pc \in LoadedPcs
  PROVE  /\ run[w].pc = "error" /\ run[w].reason = "target transport" =>
              \/ run'[w].pc = "error" /\ run'[w].reason = run[w].reason /\ run'[w].i = run[w].i
              \/ run'[w].pc \in MarkPcs /\ run'[w].last = NodeCount
              \/ run'[w].down = [run[w].down EXCEPT ![OriginOf[run[w].i]] = "unavailable"]
         /\ run[w].pc \in MarkPcs /\ run[w].last = NodeCount =>
              run'[w].pc \in MarkPcs /\ run'[w].last = NodeCount
<1> DEFINE r == run[w]
           q == run'[w]
<1>1. CASE Quiet(w)
  BY <1>1 DEF Quiet, Steps, SamePlace
<1>2. CASE Fails(w)
  BY <1>2 DEF Fails, Steps, SamePlace, NodePc, MarkPcs
<1>3. CASE ExecuteNodeStep(w)
  BY <1>3, NodeStepFrom DEF NodePc, MarkPcs
<1>4. CASE \/ PassDoneNode(w) \/ MeetInterruptedNode(w) \/ FailInterruptedNode(w)
           \/ CoverInterruptedNode(w) \/ CancelScheduledNodes(w) \/ DispatchNode(w)
  <2>1. r.pc \in {"top", "interrupt", "interruptCoverage"}
    BY <1>4, ScheduleMoves DEF Steps, Onward, CancelScheduledNodes, DispatchNode
  <2>2. QED
    BY <2>1 DEF MarkPcs
<1>5. CASE MarkFinish(w)
  BY <1>5, ScheduleMoves DEF Steps, SamePlace, MarkPcs
<1>6. CASE HandleNodeError(w)
  BY <1>6, ErrorMoves, IdleFields DEF MarksFrom, MarkPcs, LoadedPcs, NodePc
<1>7. CASE MarkCoverage(w)
  <2>1. r.i + 1 \in Node => r.i + 1 <= NodeCount
    BY StoreAssumption DEF Node
  <2>2. QED
    BY <1>7, <2>1, MarkMoves DEF MarksFrom, MarkPcs, LoadedPcs, NodePc
<1>8. QED
  BY <1>1, <1>2, <1>3, <1>4, <1>5, <1>6, <1>7, StepCases DEF Schedules, Leaves

LEMMA StepKeepsMaySend ==
  ASSUME RunInv, NEW w \in Worker, StopOK(w), MaySend(w), StepOf(w), ~Loads(w),
         run'[w].pc \in LoadedPcs
  PROVE  MaySend(w)'
<1> DEFINE r == run[w]
           q == run'[w]
<1> SUFFICES ASSUME NEW o \in Origin, q.down[o] = "up"
             PROVE  \/ ~Noted(o, "rate stop")' /\ ~Noted(o, "target transport")'
                    \/ q.pc = "error" /\ q.reason = "target transport" /\ o = OriginOf[q.i]
                    \/ q.pc \in MarkPcs /\ q.last = NodeCount
  BY DEF MaySend
<1>1. r.down \in [Origin -> {"up", "limited", "unavailable"}]
  BY DEF RunInv, RunOK, RunRecord
<1>2. r.down[o] = "up" /\ (StopCoverage(w) => o # OriginOf[r.i])
  BY <1>1, DownWalks
<1>3. CASE ~Noted(o, "rate stop") /\ ~Noted(o, "target transport")
  <2>1. ASSUME NEW m \in {"rate stop", "target transport"}, Noted(o, m)'
        PROVE  q.pc = "error" /\ q.reason = "target transport" /\ o = OriginOf[q.i]
    <3>1. o = OriginOf[r.i] /\ TransportCoverage(w)
      BY <1>2, <1>3, <2>1, StopWrites
    <3>2. QED
      BY <3>1, OutcomeMoves DEF SamePlace
  <2>2. QED
    BY <2>1
<1>4. CASE r.pc = "error" /\ r.reason = "target transport" /\ o = OriginOf[r.i]
  <2>1. q.down # [r.down EXCEPT ![OriginOf[r.i]] = "unavailable"]
    BY <1>1, <1>4
  <2>2. QED
    BY <1>4, <2>1, EndWalks
<1>5. CASE r.pc \in MarkPcs /\ r.last = NodeCount
  BY <1>5, EndWalks
<1>6. QED
  BY <1>2, <1>3, <1>4, <1>5 DEF MaySend

LEMMA MaySendInvStep == RunInv /\ StopInv /\ MaySendInv /\ [Next]_vars => MaySendInv'
<1> SUFFICES ASSUME RunInv, StopInv, MaySendInv, [Next]_vars,
                    NEW v \in Worker, run'[v].pc \in LoadedPcs, lease'.owner = v
             PROVE  MaySend(v)'
  BY DEF MaySendInv
<1>1. ASSUME run'[v] = run[v], UNCHANGED coverage, lease.owner = v
      PROVE  MaySend(v)'
  BY <1>1 DEF MaySendInv, MaySend, Noted
<1>2. ASSUME NEW w \in Worker, StepOf(w)
      PROVE  MaySend(v)'
  <2>1. CASE v = w
    <3>1. UNCHANGED lease
      BY <1>2, <2>1, OwnerWrites DEF Leaves
    <3>2. CASE Loads(w)
      <4>1. \A o \in Origin : run'[w].down[o] = OriginState(o)
        BY <3>2 DEF Loads
      <4>2. UNCHANGED coverage
        BY <3>2 DEF Loads, storeVars
      <4>3. \A o, m : Noted(o, m)' <=> Noted(o, m)
        BY <4>2 DEF Noted
      <4>4. QED
        BY <2>1, <4>1, <4>3, LoadedStops DEF MaySend
    <3>3. CASE ~Loads(w)
      <4>1. run[w].pc \in LoadedPcs /\ MaySend(w)
        BY <1>2, <2>1, <3>1, <3>3, Walks DEF MaySendInv
      <4>2. QED
        BY <1>2, <2>1, <3>3, <4>1, StepKeepsMaySend DEF StopInv
    <3>4. QED
      BY <3>2, <3>3
  <2>2. CASE v # w
    <3>1. lease.owner = v /\ UNCHANGED rowVars
      BY <1>2, <2>2, OwnerWrites, StoreAssumption
    <3>2. run'[v] = run[v] /\ UNCHANGED coverage
      BY <1>2, <2>2, <3>1, OthersRest DEF rowVars
    <3>3. QED
      BY <1>1, <3>1, <3>2
  <2>3. QED
    BY <2>1, <2>2
<1>3. CASE Expire
  <2>1. lease \in [owner : Worker \cup {NoWorker}, live : BOOLEAN]
    BY DEF RunInv, TypeOK, StoreTypeOK
  <2>2. lease' = [lease EXCEPT !.live = FALSE] /\ UNCHANGED <<coverage, run>>
    BY <1>3, Zenon DEF Expire, LeaseExpires, evidenceVars
  <2>3. lease.owner = v
    BY <2>1, <2>2
  <2>4. QED
    BY <1>1, <2>2, <2>3
<1>4. CASE UNCHANGED vars
  BY <1>1, <1>4 DEF vars, storeVars
<1>5. QED
  BY <1>2, <1>3, <1>4 DEF Next, StepOf

LEMMA IsolatedRows == StopsAreIsolated <=> \A n \in Node : Isolated(n)
<1> DEFINE recorded(n) == UNION {coverage[m] : m \in {k \in Node : OriginOf[k] = OriginOf[n]}}
<1>1. \A n, m : m \in recorded(n) <=> Noted(OriginOf[n], m)
  BY DEF Noted
<1>2. StopsAreIsolated <=>
        \A n \in Node : /\ node[n].message = "origin rate limited" => "rate stop" \in recorded(n)
                        /\ node[n].message = "origin unavailable" => "target transport" \in recorded(n)
  BY Zenon DEF StopsAreIsolated
<1> HIDE DEF recorded
<1>3. QED
  BY <1>1, <1>2 DEF Isolated

LEMMA StepKeepsIsolation ==
  ASSUME RunInv, Grows, NEW w \in Worker, StopOK(w), StepOf(w), NEW n \in Node, Isolated(n)
  PROVE  Isolated(n)'
<1>1. ASSUME node'[n].message \in {"", node[n].message}
      PROVE  Isolated(n)'
  BY <1>1, NotedStays DEF Isolated
<1>2. CASE Opens
  BY <1>1, <1>2 DEF Opens
<1>3. ASSUME NEW s, NEW m, Ends(w, s, m), FinishPlanNodeWithLease(w, run[w].i, s, m)
      PROVE  Isolated(n)'
  <2> PICK i : i = run[w].i
    OBVIOUS
  <2>1. node \in [Node -> NodeRow]
    BY DEF RunInv, TypeOK, StoreTypeOK
  <2>2. node' = [node EXCEPT ![i] = [status |-> s, message |-> m]]
    BY <1>3, Zenon DEF FinishPlanNodeWithLease, SetNode
  <2>3. CASE n # i
    BY <1>1, <2>1, <2>2, <2>3
  <2>4. CASE n = i
    <3>1. node'[n].message = m
      BY <2>1, <2>2, <2>4, RowFields
    <3>2. /\ m = "origin rate limited" => Noted(OriginOf[n], "rate stop")
          /\ m = "origin unavailable" => Noted(OriginOf[n], "target transport")
      BY <1>3, <2>4 DEF Ends, StopOK, MarkPcs, ContainPcs, MarkIsDue, ContainIsDue
    <3>3. QED
      BY <3>1, <3>2, NotedStays DEF Isolated
  <2>5. QED
    BY <2>3, <2>4
<1>4. QED
  BY <1>2, <1>3, NodeRowSteps

LEMMA StopInvStep == RunInv /\ StopInv /\ [Next]_vars => StopInv'
<1> SUFFICES ASSUME RunInv, StopInv, [Next]_vars
             PROVE  StopInv'
  OBVIOUS
<1>1. Grows
  BY NextIsStoreStep, StoreGrows DEF RunInv, TypeOK
<1>2. \A n \in Node : Isolated(n)
  BY DEF StopInv
<1>3. ASSUME NEW w \in Worker, StepOf(w)
      PROVE  (\A n \in Node : Isolated(n)') /\ \A v \in Worker : StopOK(v)'
  <2>1. ASSUME NEW v \in Worker, v # w
        PROVE  StopOK(v)'
    BY <1>1, <1>3, <2>1, OthersRest, StopStays DEF StopInv, SamePlace
  <2>2. QED
    BY <1>1, <1>2, <1>3, <2>1, StepKeepsStop, StepKeepsIsolation DEF StopInv
<1>4. ASSUME UNCHANGED <<run, evidenceVars>>
      PROVE  (\A n \in Node : Isolated(n)') /\ \A v \in Worker : StopOK(v)'
  BY <1>1, <1>2, <1>4, StopStays, NotedStays DEF StopInv, SamePlace, Isolated, evidenceVars
<1>5. (\A n \in Node : Isolated(n)') /\ \A v \in Worker : StopOK(v)'
  BY <1>3, <1>4 DEF Next, StepOf, Expire, LeaseExpires, vars, storeVars, evidenceVars
<1>6. QED
  BY <1>5 DEF StopInv

LEMMA StopInvInit == Init => StopInv /\ MaySendInv
<1> SUFFICES ASSUME Init PROVE StopInv /\ MaySendInv
  OBVIOUS
<1>1. \A w \in Worker : run[w].pc = "idle" /\ run[w].reason = ""
  BY IdleFields DEF Init
<1>2. \A n \in Node : node[n].message = ""
  BY DEF Init, StoreInit
<1>3. \A n \in Node : Isolated(n)
  BY <1>2 DEF Isolated
<1>4. QED
  BY <1>1, <1>3 DEF StopInv, MaySendInv, StopOK, LoadedPcs, NodePc, MarkPcs, ContainPcs, CasePcs

\* For any number of invocations: every invocation holds for stopped only
\* origins whose stop is recorded, and skips or contains nodes only for such a
\* stop (handleScheduledNodeResult, unavailableOriginsFromState); the owner of
\* the lease, who alone can reserve, knows of every recorded stop.
THEOREM StopInvariant == Spec => [](StopInv /\ MaySendInv)
  BY StopInvInit, StopInvStep, MaySendInvStep, RunInvariant, PTL DEF Spec

\* A rate limit or an unreachable target ends the nodes of its own origin and
\* of no other, in the invocation that met it and in every resumption.
THEOREM ExecutionIsolation == Spec => []StopsAreIsolated
<1>1. StopInv => StopsAreIsolated
  BY IsolatedRows DEF StopInv
<1>2. QED
  BY <1>1, StopInvariant, PTL

LEMMA StoppedStep ==
  ASSUME RunInv, StopInv, MaySendInv, NEW w \in Worker, StepOf(w),
         NEW id \in AttemptId, attempt[id].status = "none", StoppedOrigin(id[1])
  PROVE  attempt'[id] = attempt[id]
<1> SUFFICES ASSUME attempt'[id] # attempt[id]
             PROVE  FALSE
  OBVIOUS
<1>1. ReserveCase(w) \/ RecordAttempt(w)
  BY StepCases, NodeWrites, ScheduleWrites DEF Leaves, Quiet, Fails, Loads, storeVars, rowVars
<1>2. id = CurrentAttempt(w) /\ run[w].pc \in {"reserve", "record"}
  BY AttemptWrites
<1>3. ~RecordAttempt(w)
  BY <1>2 DEF RecordAttempt, FinishAssessmentAttemptWithLease
<1>4. run[w].pc = "reserve" /\ lease.owner = w
  BY <1>1, <1>3, Zenon DEF ReserveCase, At, BeginAssessmentRetryAttemptWithLease,
       BeginAssessmentAttemptWithBudgetLease, Fenced
<1>5. run[w].i \in Node /\ id[1] = run[w].i
  BY <1>2 DEF RunInv, RunOK, NodePcs, NodePc, CurrentAttempt, Current
<1>6. run[w].down[OriginOf[run[w].i]] = "up" /\ MaySend(w) /\ OriginOf[run[w].i] \in Origin
  BY <1>4, <1>5, ExecutionAssumption DEF StopInv, StopOK, MaySendInv, CasePcs, LoadedPcs, NodePc
<1>7. ~Noted(OriginOf[run[w].i], "rate stop") /\ ~Noted(OriginOf[run[w].i], "target transport")
  BY <1>4, <1>6 DEF MaySend, MarkPcs
<1>8. \E m \in Node : /\ OriginOf[m] = OriginOf[run[w].i]
                      /\ coverage[m] \cap {"rate stop", "target transport"} # {}
  BY <1>5 DEF StoppedOrigin
<1>9. QED
  BY <1>7, <1>8 DEF Noted

\* Once the coverage of an origin records a rate limit or an unreachable
\* target, no invocation, whatever it loaded before and however it was
\* delayed, reserves another attempt for that origin.
THEOREM ExecutionStops == Spec => OriginStaysStopped
<1>1. ASSUME RunInv, StopInv, MaySendInv, Next, NEW id \in AttemptId,
             attempt[id].status = "none", StoppedOrigin(id[1])
      PROVE  attempt'[id] = attempt[id]
  <2>1. ASSUME NEW w \in Worker, StepOf(w)
        PROVE  attempt'[id] = attempt[id]
    BY <1>1, <2>1, StoppedStep
  <2>2. QED
    BY <1>1, <2>1 DEF Next, StepOf, Expire, LeaseExpires, evidenceVars
<1> DEFINE Kept1 == \A id \in AttemptId :
             attempt[id].status = "none" /\ StoppedOrigin(id[1]) => attempt'[id] = attempt[id]
<1>2. RunInv /\ StopInv /\ MaySendInv /\ [Next]_vars => [Kept1]_vars
  BY <1>1
<1>3. QED
  BY <1>2, RunInvariant, StopInvariant, PTL DEF Spec, OriginStaysStopped

=============================================================================
