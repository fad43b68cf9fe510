------------------------ MODULE AssessmentStore_proofs ------------------------
(***************************************************************************)
(* What the store guarantees to every caller, for any number of workers,   *)
(* nodes, cases and any budget.  The callers are arbitrary: StoreNext lets *)
(* any transaction commit whenever its own guards hold.                    *)
(***************************************************************************)
EXTENDS AssessmentStore, FiniteSetTheorems, TLAPS

\* Every transaction keeps the types of the rows.
LEMMA StoreTypeStep ==
  StoreTypeOK /\ [StoreNext]_storeVars => StoreTypeOK'
<1> SUFFICES ASSUME StoreTypeOK, [StoreNext]_storeVars
             PROVE  StoreTypeOK'
  OBVIOUS
<1> USE StoreAssumption
<1>1. CASE UNCHANGED storeVars
  BY <1>1 DEF StoreTypeOK, storeVars
<1>2. CASE BeginAssessment
  BY <1>2 DEF StoreTypeOK, BeginAssessment, AssessmentStatus
<1>3. ASSUME NEW n \in Node, AddPlanNode(n)
      PROVE  StoreTypeOK'
  BY <1>3 DEF StoreTypeOK, AddPlanNode, SetNode, NodeRow, NodeStatus, LiveNode, Reason
<1>4. ASSUME NEW n \in Node, AddBudgetReservation(n)
      PROVE  StoreTypeOK'
  BY <1>4 DEF StoreTypeOK, AddBudgetReservation, SetNode, NodeRow, NodeStatus, LiveNode, Reason
<1>5. CASE FinishAssessment("failed")
  BY <1>5 DEF StoreTypeOK, FinishAssessment, AssessmentStatus, TerminalStatus
<1>6. CASE LeaseExpires
  BY <1>6 DEF StoreTypeOK, LeaseExpires, evidenceVars
<1>7. CASE ReactivateCanceledAssessment
  BY <1>7 DEF StoreTypeOK, ReactivateCanceledAssessment, AssessmentStatus, NodeRow, NodeStatus,
              LiveNode, Reason
<1>8. ASSUME NEW w \in Worker, LeasedNext(w)
      PROVE  StoreTypeOK'
  <2>1. CASE AcquireAssessmentExecutionLease(w) \/ ReleaseAssessmentExecutionLease(w)
    <3>1. lease' \in [owner : Worker \cup {NoWorker}, live : BOOLEAN]
      <4>1. CASE lease' = lease
        BY <4>1 DEF StoreTypeOK
      <4>2. CASE \E o \in Worker \cup {NoWorker}, b \in BOOLEAN : lease' = [owner |-> o, live |-> b]
        BY <4>2
      <4>3. QED
        BY <2>1, <4>1, <4>2 DEF AcquireAssessmentExecutionLease, ReleaseAssessmentExecutionLease
    <3>2. UNCHANGED <<evidenceVars, seal>>
      BY <2>1 DEF AcquireAssessmentExecutionLease, ReleaseAssessmentExecutionLease
    <3>3. QED
      BY <3>1, <3>2 DEF StoreTypeOK, evidenceVars
  <2>2. ASSUME NEW s \in TerminalStatus, FinishAssessmentWithLease(w, s)
        PROVE  StoreTypeOK'
    BY <2>2 DEF StoreTypeOK, FinishAssessmentWithLease, FinishAssessment, AssessmentStatus
  <2>3. ASSUME NEW signed \in EvidenceRecord, AddSealWithLease(w, signed)
        PROVE  StoreTypeOK'
    BY <2>3 DEF StoreTypeOK, AddSealWithLease, evidenceVars
  <2>4. ASSUME NEW n \in Node, StartPlanNodeWithLease(w, n)
        PROVE  StoreTypeOK'
    BY <2>4 DEF StoreTypeOK, StartPlanNodeWithLease, NodeRow, NodeStatus, LiveNode
  <2>5. ASSUME NEW n \in Node, NEW s \in TerminalNode, NEW m \in Reason,
               FinishPlanNodeWithLease(w, n, s, m)
        PROVE  StoreTypeOK'
    BY <2>5 DEF StoreTypeOK, FinishPlanNodeWithLease, SetNode, NodeRow, NodeStatus
  <2>6. ASSUME NEW n \in Node, NEW m \in Reason, AddCoverageWithLease(w, n, m)
        PROVE  StoreTypeOK'
    BY <2>6 DEF StoreTypeOK, AddCoverageWithLease
  <2>7. ASSUME NEW n \in Node, AddComparisonWithLease(w, n) \/ AddFindingV2WithLease(w, n)
        PROVE  StoreTypeOK'
    BY <2>7 DEF StoreTypeOK, AddComparisonWithLease, AddFindingV2WithLease
  <2>8. ASSUME NEW n \in Node, NEW c \in Case, NEW k \in {"first", "retry"},
               ChargeAndInsert(<<n, c, k>>)
        PROVE  StoreTypeOK'
    <3>1. <<n, c, k>> \in AttemptId /\ <<n, c, k>>[1] = n
      BY DEF AttemptId
    <3>2. [NoAttempt EXCEPT !.status = "running"] \in AttemptRow
      BY DEF NoAttempt, AttemptRow
    <3>3. QED
      BY <2>8, <3>1, <3>2 DEF StoreTypeOK, ChargeAndInsert
  <2>9. ASSUME NEW n \in Node, NEW c \in Case, BeginAssessmentAttemptWithBudgetLease(w, n, c)
        PROVE  StoreTypeOK'
    BY <2>8, <2>9, <1>1 DEF BeginAssessmentAttemptWithBudgetLease
  <2>10. ASSUME NEW n \in Node, NEW c \in Case, BeginAssessmentRetryAttemptWithLease(w, n, c)
         PROVE  StoreTypeOK'
    BY <2>8, <2>10 DEF BeginAssessmentRetryAttemptWithLease
  <2>11. ASSUME NEW id \in AttemptId, AddArtifactMetadataWithLease(w, id)
         PROVE  StoreTypeOK'
    BY <2>11 DEF StoreTypeOK, AddArtifactMetadataWithLease
  <2>12. ASSUME NEW id \in AttemptId, NEW row \in AttemptRow,
                FinishAssessmentAttemptWithLease(w, id, row)
         PROVE  StoreTypeOK'
    BY <2>12 DEF StoreTypeOK, FinishAssessmentAttemptWithLease
  <2>13. QED
    BY <1>8, <2>1, <2>2, <2>3, <2>4, <2>5, <2>6, <2>7, <2>9, <2>10, <2>11, <2>12 DEF LeasedNext
<1>9. QED
  BY <1>1, <1>2, <1>3, <1>4, <1>5, <1>6, <1>7, <1>8 DEF StoreNext

-----------------------------------------------------------------------------
(* The inductive invariant.  The three properties need each other: a retry   *)
(* is justified because a waiting node is safe, a budget is exact because a  *)
(* node without a reservation has no attempt to charge it for.               *)

FreshNodeHasNoAttempt ==
  \A n \in Node : node[n].status \in {"absent", "unbudgeted"} => ReservedAttempts(n) = {}

ReservationsAreFinite == \A n \in Node : IsFiniteSet(ReservedAttempts(n))

StoreInv ==
  /\ StoreTypeOK
  /\ FreshNodeHasNoAttempt
  /\ QueuedNodeIsSafe
  /\ RetryIsJustified
  /\ ReservationsAreFinite
  /\ BudgetIsExact

\* A transaction that leaves attempts and budgets alone keeps the invariant
\* if it makes no node fresh and queues only nodes that are safe to queue.
LEMMA NodeTransition ==
  ASSUME StoreInv, StoreTypeOK', UNCHANGED <<attempt, used>>,
         \A n \in Node : node'[n].status \in {"absent", "unbudgeted"} =>
                           node[n].status \in {"absent", "unbudgeted"},
         \A n \in Node : node'[n].status = "planned" =>
                           \/ node[n].status = "planned"
                           \/ ReservedAttempts(n) = {}
                           \/ \E c \in Case : /\ ReservedAttempts(n) = {<<n, c, "first">>}
                                              /\ NoSideEffect(<<n, c, "first">>)
  PROVE  StoreInv'
<1>1. \A n \in Node : ReservedAttempts(n)' = ReservedAttempts(n)
  BY DEF ReservedAttempts, NodeAttempts
<1>2. \A id : NoSideEffect(id)' = NoSideEffect(id)
  BY DEF NoSideEffect
<1>3. FreshNodeHasNoAttempt'
  BY <1>1 DEF StoreInv, FreshNodeHasNoAttempt
<1>4. QueuedNodeIsSafe'
  BY <1>1, <1>2 DEF StoreInv, QueuedNodeIsSafe, FreshNodeHasNoAttempt
<1>5. RetryIsJustified'
  BY <1>2 DEF StoreInv, RetryIsJustified
<1>6. ReservationsAreFinite' /\ BudgetIsExact'
  BY <1>1 DEF StoreInv, ReservationsAreFinite, BudgetIsExact
<1>7. QED
  BY <1>3, <1>4, <1>5, <1>6 DEF StoreInv

\* Inserting a running attempt adds exactly it to the reservations of its node.
LEMMA ReservedAfterInsert ==
  ASSUME StoreTypeOK, NEW n \in Node, NEW c \in Case, NEW k \in {"first", "retry"},
         ChargeAndInsert(<<n, c, k>>)
  PROVE  /\ ReservedAttempts(n)' = ReservedAttempts(n) \cup {<<n, c, k>>}
         /\ \A m \in Node \ {n} : ReservedAttempts(m)' = ReservedAttempts(m)
<1>1. <<n, c, k>> \in AttemptId /\ <<n, c, k>>[1] = n
  BY DEF AttemptId
<1>2. \A id \in AttemptId : attempt'[id].status =
        IF id = <<n, c, k>> THEN "running" ELSE attempt[id].status
  BY <1>1 DEF StoreTypeOK, ChargeAndInsert, NoAttempt
<1>3. QED
  BY <1>1, <1>2 DEF ReservedAttempts, NodeAttempts

\* Reserving a new attempt within the budget of a running node.
LEMMA Reservation ==
  ASSUME StoreInv, StoreTypeOK', NEW n \in Node, NEW c \in Case, NEW k \in {"first", "retry"},
         attempt[<<n, c, k>>].status = "none",
         node[n].status = "running",
         WithinBudget(n),
         k = "retry" => RetrySourceMatches(n, c),
         ChargeAndInsert(<<n, c, k>>)
  PROVE  StoreInv'
<1> DEFINE new == <<n, c, k>>
<1>1. new \in AttemptId /\ new[1] = n /\ new \notin ReservedAttempts(n)
  BY DEF AttemptId, ReservedAttempts
<1>2. /\ ReservedAttempts(n)' = ReservedAttempts(n) \cup {new}
      /\ \A m \in Node \ {n} : ReservedAttempts(m)' = ReservedAttempts(m)
  BY ReservedAfterInsert DEF StoreInv
<1>3. node' = node /\ \A id \in AttemptId : id # new => attempt'[id] = attempt[id]
  BY <1>1 DEF ChargeAndInsert, StoreInv, StoreTypeOK
<1>4. FreshNodeHasNoAttempt'
  BY <1>2, <1>3 DEF StoreInv, FreshNodeHasNoAttempt
<1>5. QueuedNodeIsSafe'
  <2> SUFFICES ASSUME NEW m \in Node, node[m].status \in {"absent", "unbudgeted", "planned"}
               PROVE  QueuedNodeIsSafe!(m)'
    BY <1>3 DEF QueuedNodeIsSafe
  <2>1. m # n /\ ReservedAttempts(m)' = ReservedAttempts(m)
    BY <1>2
  <2>2. \A d \in Case : /\ <<m, d, "first">> \in AttemptId
                       /\ <<m, d, "first">> # new
    BY <2>1 DEF AttemptId
  <2>3. \A d \in Case : NoSideEffect(<<m, d, "first">>)' = NoSideEffect(<<m, d, "first">>)
    BY <1>3, <2>2 DEF NoSideEffect
  <2>4. QED
    BY <1>3, <2>1, <2>3 DEF StoreInv, QueuedNodeIsSafe
<1>6. RetryIsJustified'
  <2> SUFFICES ASSUME NEW m \in Node, NEW d \in Case, attempt'[<<m, d, "retry">>].status # "none"
               PROVE  NoSideEffect(<<m, d, "first">>)'
    BY DEF RetryIsJustified
  <2>1. <<m, d, "first">> \in AttemptId /\ <<m, d, "retry">> \in AttemptId
    BY DEF AttemptId
  <2>2. NoSideEffect(<<m, d, "first">>)
    BY <1>3, <2>1 DEF StoreInv, RetryIsJustified, RetrySourceMatches, NoSideEffect
  <2>3. <<m, d, "first">> # new
    BY <2>2 DEF NoSideEffect
  <2>4. QED
    BY <1>3, <2>1, <2>2, <2>3 DEF NoSideEffect
<1>7. ReservationsAreFinite' /\ BudgetIsExact'
  <2>1. IsFiniteSet(ReservedAttempts(n)) /\ used[n] = Cardinality(ReservedAttempts(n))
    BY DEF StoreInv, ReservationsAreFinite, BudgetIsExact
  <2>2. /\ IsFiniteSet(ReservedAttempts(n)')
        /\ Cardinality(ReservedAttempts(n)') = used[n] + 1
    BY <1>1, <1>2, <2>1, FS_AddElement
  <2>3. used' = [used EXCEPT ![n] = @ + 1]
    BY <1>1 DEF ChargeAndInsert
  <2>4. used[n] + 1 <= RequestLimit /\ used \in [Node -> Nat]
    BY DEF WithinBudget, StoreInv, StoreTypeOK
  <2>5. \A m \in Node : IsFiniteSet(ReservedAttempts(m)')
    BY <1>2, <2>2 DEF StoreInv, ReservationsAreFinite
  <2>6. \A m \in Node : /\ used'[m] = Cardinality(ReservedAttempts(m)')
                       /\ used'[m] <= RequestLimit
    BY <1>2, <2>2, <2>3, <2>4 DEF StoreInv, BudgetIsExact
  <2>7. QED
    BY <2>5, <2>6 DEF ReservationsAreFinite, BudgetIsExact
<1>8. QED
  BY <1>4, <1>5, <1>6, <1>7 DEF StoreInv

\* Completing a running attempt reserves nothing and touches no evidence.
LEMMA Completion ==
  ASSUME StoreInv, StoreTypeOK', NEW w, NEW id \in AttemptId, NEW row \in AttemptRow,
         row.status # "none",
         FinishAssessmentAttemptWithLease(w, id, row)
  PROVE  StoreInv'
<1>1. /\ attempt[id].status = "running"
      /\ attempt'[id] = row
      /\ \A other \in AttemptId \ {id} : attempt'[other] = attempt[other]
      /\ UNCHANGED <<node, used>>
  BY DEF FinishAssessmentAttemptWithLease, StoreInv, StoreTypeOK
<1>2. \A n \in Node : ReservedAttempts(n)' = ReservedAttempts(n)
  BY <1>1 DEF ReservedAttempts, NodeAttempts
<1>3. \A n \in Node, c \in Case :
        NoSideEffect(<<n, c, "first">>) => NoSideEffect(<<n, c, "first">>)'
  <2> SUFFICES ASSUME NEW n \in Node, NEW c \in Case, NoSideEffect(<<n, c, "first">>)
               PROVE  NoSideEffect(<<n, c, "first">>)'
    OBVIOUS
  <2>1. <<n, c, "first">> \in AttemptId
    BY DEF AttemptId
  <2>2. QED
    BY <1>1, <2>1 DEF NoSideEffect
<1>4. FreshNodeHasNoAttempt' /\ ReservationsAreFinite' /\ BudgetIsExact'
  BY <1>1, <1>2 DEF StoreInv, FreshNodeHasNoAttempt, ReservationsAreFinite, BudgetIsExact
<1>5. QueuedNodeIsSafe'
  BY <1>1, <1>2, <1>3 DEF StoreInv, QueuedNodeIsSafe
<1>6. RetryIsJustified'
  <2> SUFFICES ASSUME NEW n \in Node, NEW c \in Case, attempt'[<<n, c, "retry">>].status # "none"
               PROVE  NoSideEffect(<<n, c, "first">>)'
    BY DEF RetryIsJustified
  <2>1. <<n, c, "retry">> \in AttemptId
    BY DEF AttemptId
  <2>2. attempt[<<n, c, "retry">>].status # "none"
    BY <1>1, <2>1
  <2>3. QED
    BY <1>3, <2>2 DEF StoreInv, RetryIsJustified
<1>7. QED
  BY <1>4, <1>5, <1>6 DEF StoreInv

\* Persisting the reservation of a node sets its use to zero, which is exact
\* because the node has no attempt yet.
LEMMA BudgetPersisted ==
  ASSUME StoreInv, StoreTypeOK', NEW n \in Node, AddBudgetReservation(n)
  PROVE  StoreInv'
<1>1. /\ node[n].status = "unbudgeted"
      /\ node' = [node EXCEPT ![n] = [status |-> "planned", message |-> ""]]
      /\ used' = [used EXCEPT ![n] = 0]
      /\ UNCHANGED attempt
  BY DEF AddBudgetReservation, SetNode
<1>2. \A m \in Node : ReservedAttempts(m)' = ReservedAttempts(m)
  BY <1>1 DEF ReservedAttempts, NodeAttempts
<1>3. \A id : NoSideEffect(id)' = NoSideEffect(id)
  BY <1>1 DEF NoSideEffect
<1>4. ReservedAttempts(n) = {}
  BY <1>1 DEF StoreInv, FreshNodeHasNoAttempt
<1>5. \A m \in Node : m # n => node'[m] = node[m] /\ used'[m] = used[m]
  BY <1>1 DEF StoreInv, StoreTypeOK
<1>6. node'[n].status = "planned" /\ used'[n] = 0
  BY <1>1 DEF StoreInv, StoreTypeOK
<1>7. FreshNodeHasNoAttempt' /\ ReservationsAreFinite'
  BY <1>2, <1>4, <1>5 DEF StoreInv, FreshNodeHasNoAttempt, ReservationsAreFinite
<1>8. QueuedNodeIsSafe'
  BY <1>2, <1>3, <1>4, <1>5 DEF StoreInv, QueuedNodeIsSafe
<1>9. RetryIsJustified'
  BY <1>1, <1>3 DEF StoreInv, RetryIsJustified
<1>10. BudgetIsExact'
  BY <1>2, <1>4, <1>5, <1>6, FS_EmptySet, StoreAssumption DEF StoreInv, BudgetIsExact
<1>11. QED
  BY <1>7, <1>8, <1>9, <1>10 DEF StoreInv

\* A canceled node that validateCanceledRecoveryNode accepts is safe to queue.
LEMMA CanceledNodeIsQueueable ==
  ASSUME NEW n \in Node, CanceledNodeIsSafe(n)
  PROVE  \E c \in Case : /\ ReservedAttempts(n) = {<<n, c, "first">>}
                        /\ NoSideEffect(<<n, c, "first">>)
<1>1. PICK c \in Case :
        /\ RetrySourceMatches(n, c)
        /\ \A id \in NodeAttempts(n) \ {<<n, c, "first">>} : attempt[id].status = "none"
  BY DEF CanceledNodeIsSafe
<1>2. <<n, c, "first">> \in NodeAttempts(n)
  BY DEF NodeAttempts, AttemptId
<1>3. NoSideEffect(<<n, c, "first">>) /\ attempt[<<n, c, "first">>].status # "none"
  BY <1>1 DEF RetrySourceMatches, NoSideEffect
<1>4. ReservedAttempts(n) = {<<n, c, "first">>}
  BY <1>1, <1>2, <1>3 DEF ReservedAttempts
<1>5. QED
  BY <1>3, <1>4

LEMMA Reactivation ==
  ASSUME StoreInv, StoreTypeOK', ReactivateCanceledAssessment
  PROVE  StoreInv'
<1>1. UNCHANGED <<attempt, used>>
  BY DEF ReactivateCanceledAssessment
<1>2. \A n \in Node : node'[n].status = IF n \in RequeuedNodes THEN "planned" ELSE node[n].status
  BY DEF ReactivateCanceledAssessment
<1>3. \A n \in RequeuedNodes :
        \/ ReservedAttempts(n) = {}
        \/ \E c \in Case : /\ ReservedAttempts(n) = {<<n, c, "first">>}
                           /\ NoSideEffect(<<n, c, "first">>)
  <2> SUFFICES ASSUME NEW n \in RequeuedNodes
               PROVE  \/ ReservedAttempts(n) = {}
                      \/ CanceledNodeIsSafe(n)
    BY CanceledNodeIsQueueable DEF RequeuedNodes
  <2>1. CanceledNodeIsSafe(n) \/ SkippedNodeIsUntouched(n)
    BY DEF ReactivateCanceledAssessment, Reactivatable, RequeuedNodes
  <2>2. QED
    BY <2>1 DEF SkippedNodeIsUntouched, ReservedAttempts
<1>4. QED
  BY <1>1, <1>2, <1>3, NodeTransition

\* Every leased transaction keeps the invariant.
LEMMA LeasedStep ==
  ASSUME StoreInv, StoreTypeOK', NEW w \in Worker, LeasedNext(w)
  PROVE  StoreInv'
<1>1. ASSUME UNCHANGED <<attempt, used, node>>
      PROVE  StoreInv'
  BY <1>1, NodeTransition
<1>2. CASE \/ AcquireAssessmentExecutionLease(w)
           \/ ReleaseAssessmentExecutionLease(w)
           \/ \E s \in TerminalStatus : FinishAssessmentWithLease(w, s)
           \/ \E signed \in EvidenceRecord : AddSealWithLease(w, signed)
           \/ \E id \in AttemptId : AddArtifactMetadataWithLease(w, id)
  BY <1>1, <1>2 DEF AcquireAssessmentExecutionLease, ReleaseAssessmentExecutionLease,
       FinishAssessmentWithLease, FinishAssessment, AddSealWithLease,
       AddArtifactMetadataWithLease, evidenceVars
<1>3. ASSUME NEW n \in Node,
             \/ \E m \in Reason : AddCoverageWithLease(w, n, m)
             \/ AddComparisonWithLease(w, n)
             \/ AddFindingV2WithLease(w, n)
      PROVE  StoreInv'
  BY <1>1, <1>3 DEF AddCoverageWithLease, AddComparisonWithLease, AddFindingV2WithLease
<1>4. ASSUME NEW n \in Node, StartPlanNodeWithLease(w, n)
      PROVE  StoreInv'
  <2>1. \A m \in Node : node'[m].status = IF m = n THEN "running" ELSE node[m].status
    BY <1>4 DEF StartPlanNodeWithLease, StoreInv, StoreTypeOK, NodeRow
  <2>2. QED
    BY <1>4, <2>1, NodeTransition DEF StartPlanNodeWithLease
<1>5. ASSUME NEW n \in Node, NEW s \in TerminalNode, NEW m \in Reason,
             FinishPlanNodeWithLease(w, n, s, m)
      PROVE  StoreInv'
  <2>1. \A k \in Node : node'[k].status = IF k = n THEN s ELSE node[k].status
    BY <1>5 DEF FinishPlanNodeWithLease, SetNode, StoreInv, StoreTypeOK
  <2>2. QED
    BY <1>5, <2>1, NodeTransition DEF FinishPlanNodeWithLease, TerminalNode
<1>6. ASSUME NEW n \in Node, NEW c \in Case, BeginAssessmentAttemptWithBudgetLease(w, n, c)
      PROVE  StoreInv'
  <2>1. CASE attempt[<<n, c, "first">>].status # "none"
    BY <1>1, <1>6, <2>1 DEF BeginAssessmentAttemptWithBudgetLease, storeVars
  <2>2. CASE attempt[<<n, c, "first">>].status = "none"
    BY <1>6, <2>2, Reservation DEF BeginAssessmentAttemptWithBudgetLease
  <2>3. QED
    BY <2>1, <2>2
<1>7. ASSUME NEW n \in Node, NEW c \in Case, BeginAssessmentRetryAttemptWithLease(w, n, c)
      PROVE  StoreInv'
  BY <1>7, Reservation DEF BeginAssessmentRetryAttemptWithLease, RetryReservable
<1>8. ASSUME NEW id \in AttemptId,
             NEW row \in {r \in AttemptRow : r.status \notin {"none", "running"}},
             FinishAssessmentAttemptWithLease(w, id, row)
      PROVE  StoreInv'
  BY <1>8, Completion
<1>9. QED
  BY <1>2, <1>3, <1>4, <1>5, <1>6, <1>7, <1>8 DEF LeasedNext

LEMMA StoreInvStep == StoreInv /\ [StoreNext]_storeVars => StoreInv'
<1> SUFFICES ASSUME StoreInv, [StoreNext]_storeVars
             PROVE  StoreInv'
  OBVIOUS
<1>1. StoreTypeOK'
  BY StoreTypeStep DEF StoreInv
<1>2. ASSUME UNCHANGED <<attempt, used, node>>
      PROVE  StoreInv'
  BY <1>1, <1>2, NodeTransition
<1>3. CASE UNCHANGED storeVars \/ BeginAssessment \/ FinishAssessment("failed") \/ LeaseExpires
  BY <1>2, <1>3 DEF storeVars, BeginAssessment, FinishAssessment, LeaseExpires, evidenceVars
<1>4. ASSUME NEW n \in Node, AddPlanNode(n)
      PROVE  StoreInv'
  <2>1. /\ node[n].status = "absent"
        /\ \A m \in Node : node'[m].status = IF m = n THEN "unbudgeted" ELSE node[m].status
    BY <1>4 DEF AddPlanNode, SetNode, StoreInv, StoreTypeOK
  <2>2. QED
    BY <1>1, <1>4, <2>1, NodeTransition DEF AddPlanNode
<1>5. ASSUME NEW n \in Node, AddBudgetReservation(n)
      PROVE  StoreInv'
  BY <1>1, <1>5, BudgetPersisted
<1>6. CASE ReactivateCanceledAssessment
  BY <1>1, <1>6, Reactivation
<1>7. ASSUME NEW w \in Worker, LeasedNext(w)
      PROVE  StoreInv'
  BY <1>1, <1>7, LeasedStep
<1>8. QED
  BY <1>3, <1>4, <1>5, <1>6, <1>7 DEF StoreNext

\* The invariant holds initially: nothing is stored.
LEMMA StoreInvInit == StoreInit => StoreInv
<1> SUFFICES ASSUME StoreInit PROVE StoreInv
  OBVIOUS
<1>1. StoreTypeOK
  <2>1. NoAttempt \in AttemptRow
    BY DEF NoAttempt, AttemptRow
  <2>2. attempt \in [AttemptId -> AttemptRow]
    BY <2>1 DEF StoreInit
  <2>3. node \in [Node -> NodeRow] /\ coverage \in [Node -> SUBSET Reason] /\ used \in [Node -> Nat]
    BY DEF StoreInit, NodeRow, NodeStatus, Reason
  <2>4. lease \in [owner : Worker \cup {NoWorker}, live : BOOLEAN]
    BY DEF StoreInit
  <2>5. QED
    BY <2>2, <2>3, <2>4 DEF StoreInit, StoreTypeOK, AssessmentStatus
<1>2. \A id \in AttemptId : attempt[id].status = "none"
  BY DEF StoreInit, NoAttempt
<1>3. \A n \in Node : ReservedAttempts(n) = {}
  BY <1>2 DEF ReservedAttempts, NodeAttempts
<1>4. RetryIsJustified
  BY <1>2 DEF RetryIsJustified, AttemptId
<1>5. FreshNodeHasNoAttempt /\ QueuedNodeIsSafe
  BY <1>3 DEF FreshNodeHasNoAttempt, QueuedNodeIsSafe
<1>6. ReservationsAreFinite
  BY <1>3, FS_EmptySet DEF ReservationsAreFinite
<1>7. BudgetIsExact
  <2>1. \A n \in Node : used[n] = 0
    BY DEF StoreInit
  <2>2. RequestLimit \in Nat
    BY StoreAssumption
  <2>3. Cardinality({}) = 0
    BY FS_EmptySet
  <2>4. QED
    BY <1>3, <2>1, <2>2, <2>3 DEF BudgetIsExact
<1>8. QED
  BY <1>1, <1>4, <1>5, <1>6, <1>7 DEF StoreInv

\* The store keeps its invariant for every caller.
THEOREM StoreInvariant == StoreSpec => []StoreInv
  BY StoreInvInit, StoreInvStep, PTL DEF StoreSpec

\* The rows of the assessment keep their types, whatever the callers do.
THEOREM StoreTypeCorrect == StoreSpec => []StoreTypeOK
  BY StoreInvariant, PTL DEF StoreInv

\* Every budget is charged once per reserved attempt and never exceeded, for
\* any limit and any number of cases (beginAssessmentAttempt,
\* beginAssessmentRetryAttempt).
THEOREM StoreBudget == StoreSpec => []BudgetIsExact
  BY StoreInvariant, PTL DEF StoreInv

\* A retry is only ever stored beside evidence that its source had no side
\* effect (retrySourceMatches).
THEOREM StoreRetry == StoreSpec => []RetryIsJustified
  BY StoreInvariant, PTL DEF StoreInv

\* A node is only ever queued with no attempt, or with the one attempt that
\* proves it had no side effect (ReactivateCanceledAssessment).
THEOREM StoreQueue == StoreSpec => []QueuedNodeIsSafe
  BY StoreInvariant, PTL DEF StoreInv

-----------------------------------------------------------------------------
(* Recorded outcomes. *)

\* No transaction but a reactivation rewrites a recorded outcome.
LEMMA OutcomeStep ==
  StoreInv /\ [StoreNext]_storeVars => OutcomesKept
<1> SUFFICES ASSUME StoreInv, [StoreNext]_storeVars
             PROVE  OutcomesKept
  OBVIOUS
<1>1. ASSUME UNCHANGED <<node, attempt>>
      PROVE  OutcomesKept
  BY <1>1 DEF OutcomesKept
<1>2. ASSUME NEW n \in Node, node[n].status \notin TerminalNode, UNCHANGED attempt,
             \A m \in Node : m # n => node'[m] = node[m]
      PROVE  OutcomesKept
  BY <1>2 DEF OutcomesKept
<1>3. ASSUME NEW id \in AttemptId, attempt[id].status \in {"none", "running"}, UNCHANGED node,
             \A other \in AttemptId : other # id => attempt'[other] = attempt[other]
      PROVE  OutcomesKept
  BY <1>3 DEF OutcomesKept
<1>4. CASE UNCHANGED storeVars \/ BeginAssessment \/ FinishAssessment("failed") \/ LeaseExpires
  BY <1>1, <1>4 DEF storeVars, BeginAssessment, FinishAssessment, LeaseExpires, evidenceVars
<1>5. ASSUME NEW n \in Node, AddPlanNode(n) \/ AddBudgetReservation(n)
      PROVE  OutcomesKept
  BY <1>2, <1>5 DEF AddPlanNode, AddBudgetReservation, SetNode, TerminalNode, StoreInv, StoreTypeOK
<1>6. CASE ReactivateCanceledAssessment
  <2>1. UNCHANGED attempt /\ status = "canceled" /\ status' = "running" /\ seal # {}
    BY <1>6 DEF ReactivateCanceledAssessment, Reactivatable
  <2>2. \A n \in Node : node'[n] # node[n] => n \in RequeuedNodes
    BY <1>6 DEF ReactivateCanceledAssessment
  <2>3. QED
    BY <2>1, <2>2 DEF OutcomesKept, RequeuedNodes
<1>7. ASSUME NEW w \in Worker, LeasedNext(w)
      PROVE  OutcomesKept
  <2>1. CASE \/ AcquireAssessmentExecutionLease(w)
             \/ ReleaseAssessmentExecutionLease(w)
             \/ \E s \in TerminalStatus : FinishAssessmentWithLease(w, s)
             \/ \E signed \in EvidenceRecord : AddSealWithLease(w, signed)
             \/ \E id \in AttemptId : AddArtifactMetadataWithLease(w, id)
    BY <1>1, <2>1 DEF AcquireAssessmentExecutionLease, ReleaseAssessmentExecutionLease,
         FinishAssessmentWithLease, FinishAssessment, AddSealWithLease,
         AddArtifactMetadataWithLease, evidenceVars
  <2>2. ASSUME NEW n \in Node,
               \/ \E m \in Reason : AddCoverageWithLease(w, n, m)
               \/ AddComparisonWithLease(w, n)
               \/ AddFindingV2WithLease(w, n)
        PROVE  OutcomesKept
    BY <1>1, <2>2 DEF AddCoverageWithLease, AddComparisonWithLease, AddFindingV2WithLease
  <2>3. ASSUME NEW n \in Node, StartPlanNodeWithLease(w, n)
        PROVE  OutcomesKept
    BY <1>2, <2>3 DEF StartPlanNodeWithLease, TerminalNode, StoreInv, StoreTypeOK
  <2>4. ASSUME NEW n \in Node, NEW s \in TerminalNode, NEW m \in Reason,
               FinishPlanNodeWithLease(w, n, s, m)
        PROVE  OutcomesKept
    BY <1>2, <2>4 DEF FinishPlanNodeWithLease, SetNode, LiveNode, TerminalNode, StoreInv, StoreTypeOK
  <2>5. ASSUME NEW n \in Node, NEW c \in Case, NEW k \in {"first", "retry"},
               attempt[<<n, c, k>>].status = "none", ChargeAndInsert(<<n, c, k>>)
        PROVE  OutcomesKept
    <3>1. <<n, c, k>> \in AttemptId
      BY DEF AttemptId
    <3>2. UNCHANGED node /\ \A other \in AttemptId : other # <<n, c, k>> => attempt'[other] = attempt[other]
      BY <2>5, <3>1 DEF ChargeAndInsert, StoreInv, StoreTypeOK
    <3>3. QED
      BY <1>3, <2>5, <3>1, <3>2
  <2>6. ASSUME NEW n \in Node, NEW c \in Case,
               \/ BeginAssessmentAttemptWithBudgetLease(w, n, c)
               \/ BeginAssessmentRetryAttemptWithLease(w, n, c)
        PROVE  OutcomesKept
    BY <1>1, <2>5, <2>6
       DEF BeginAssessmentAttemptWithBudgetLease, BeginAssessmentRetryAttemptWithLease, storeVars
  <2>7. ASSUME NEW id \in AttemptId, NEW row \in AttemptRow,
               FinishAssessmentAttemptWithLease(w, id, row)
        PROVE  OutcomesKept
    BY <1>3, <2>7 DEF FinishAssessmentAttemptWithLease, StoreInv, StoreTypeOK
  <2>8. QED
    BY <1>7, <2>1, <2>2, <2>3, <2>4, <2>6, <2>7 DEF LeasedNext
<1>8. QED
  BY <1>4, <1>5, <1>6, <1>7 DEF StoreNext

=============================================================================
