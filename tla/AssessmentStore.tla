--------------------------- MODULE AssessmentStore ---------------------------
(***************************************************************************)
(* The durable state of ONE assessment (pkg/store/assessment*.go) and the  *)
(* transactions the assessment runtime applies to it.  Each action is one  *)
(* SQLite transaction; it is enabled exactly when the transaction commits. *)
(* What the caller does with a transaction that fails is the business of   *)
(* AssessmentExecution.                                                    *)
(*                                                                         *)
(* Data is reduced to what recovery tells apart: a message is a Reason, a  *)
(* coverage row is the reason its primary key is hashed from, an HTTP      *)
(* response is the fact that one was recorded, and a budget counts         *)
(* attempts (request_used and byte_used move in one UPDATE under one       *)
(* guard, by the same cost for every attempt of a node).                   *)
(***************************************************************************)
EXTENDS Naturals, FiniteSets

CONSTANTS
  Worker,        \* invocations of Run and Resume: the lease owner ids
  NoWorker,      \* the lease row is absent
  NodeCount,     \* plan nodes, in the order of their ids
  CaseCount,     \* identity-matrix cases of a node
  RequestLimit   \* budget_reservations.request_limit of every node

ASSUME StoreAssumption ==
  /\ NoWorker \notin Worker
  /\ NodeCount \in Nat \ {0}
  /\ CaseCount \in Nat \ {0}
  /\ RequestLimit \in Nat

Node == 1 .. NodeCount
Case == 1 .. CaseCount

\* Reserve derives an attempt's id from the node and the case, and the id of
\* its only linked retry from the id of the source.
AttemptId == Node \X Case \X {"first", "retry"}
NodeAttempts(n) == {id \in AttemptId : id[1] = n}

TerminalStatus == {"succeeded", "failed", "canceled"}
AssessmentStatus == {"absent", "running"} \cup TerminalStatus
\* "unbudgeted": the node row exists, its budget reservation does not yet.
LiveNode == {"unbudgeted", "planned", "running"}
TerminalNode == {"succeeded", "failed", "skipped", "canceled"}
NodeStatus == {"absent"} \cup LiveNode \cup TerminalNode

Reason == {"", "assessment canceled", "interrupted", "rate stop",
           "target transport", "origin unavailable", "origin rate limited",
           "retry budget", "retry completed", "execution error", "evaluated"}

NodeRow == [status : NodeStatus, message : Reason]
AttemptRow == [status : {"none", "running", "succeeded", "failed", "canceled"},
               retryable : BOOLEAN,   \* error_class is retryable-no-side-effect
               response : BOOLEAN]    \* http_status or fingerprint recorded

NoAttempt == [status |-> "none", retryable |-> FALSE, response |-> FALSE]

VARIABLES
  lease,        \* assessment_execution_leases: owner, and whether it expired
  status,       \* assessments.status
  node,         \* assessment_plan_nodes
  used,         \* budget_reservations.request_used
  attempt,      \* assessment_attempts
  coverage,     \* assessment_coverage, per node
  comparison,   \* nodes with a row in assessment_comparisons
  finding,      \* nodes with a row in findings_v2
  artifact,     \* attempts with an evidence row in artifact_metadata
  seal          \* artifact_metadata rows of kind assessment-result-integrity

evidenceVars == <<status, node, used, attempt, coverage, comparison, finding, artifact>>
storeVars == <<lease, status, node, used, attempt, coverage, comparison,
               finding, artifact, seal>>

\* What canonicalResultEvidence encodes and the seal signs.
Evidence == [status |-> status, node |-> node, used |-> used, attempt |-> attempt,
             coverage |-> coverage, comparison |-> comparison,
             finding |-> finding, artifact |-> artifact]

EvidenceRecord ==
  [status : AssessmentStatus, node : [Node -> NodeRow], used : [Node -> Nat],
   attempt : [AttemptId -> AttemptRow], coverage : [Node -> SUBSET Reason],
   comparison : SUBSET Node, finding : SUBSET Node, artifact : SUBSET AttemptId]

\* The rows have the types the schema gives them.
StoreTypeOK ==
  /\ lease \in [owner : Worker \cup {NoWorker}, live : BOOLEAN]
  /\ status \in AssessmentStatus
  /\ node \in [Node -> NodeRow]
  /\ used \in [Node -> Nat]
  /\ attempt \in [AttemptId -> AttemptRow]
  /\ coverage \in [Node -> SUBSET Reason]
  /\ comparison \in SUBSET Node
  /\ finding \in SUBSET Node
  /\ artifact \in SUBSET AttemptId
  /\ seal \in SUBSET EvidenceRecord

StoreInit ==
  /\ lease = [owner |-> NoWorker, live |-> FALSE]
  /\ status = "absent"
  /\ node = [n \in Node |-> [status |-> "absent", message |-> ""]]
  /\ used = [n \in Node |-> 0]
  /\ attempt = [id \in AttemptId |-> NoAttempt]
  /\ coverage = [n \in Node |-> {}]
  /\ comparison = {}
  /\ finding = {}
  /\ artifact = {}
  /\ seal = {}

-----------------------------------------------------------------------------
(* The execution lease.  Its clock is abstracted to whether the row has
   expired: a renewal moves expires_at, which leaves an unexpired row as it
   is, and LeaseExpires is the passing of the TTL without a renewal. *)

LeaseFreeOnlyWhenReleased == lease.owner = NoWorker
LeaseFree == lease.owner = NoWorker \/ ~lease.live

AcquireAssessmentExecutionLease(w) ==
  /\ LeaseFree
  /\ lease' = [owner |-> w, live |-> TRUE]
  /\ UNCHANGED <<evidenceVars, seal>>

ReleaseAssessmentExecutionLease(w) ==
  /\ lease' = IF lease.owner = w THEN [owner |-> NoWorker, live |-> FALSE] ELSE lease
  /\ UNCHANGED <<evidenceVars, seal>>

LeaseExpires ==
  /\ lease.live
  /\ lease' = [lease EXCEPT !.live = FALSE]
  /\ UNCHANGED <<evidenceVars, seal>>

FencedByNobody(w) == TRUE

\* renewAssessmentExecutionLeaseTx: the first statement of every leased
\* transaction; it rolls the transaction back unless w still owns the row.
Fenced(w) == lease.owner = w /\ lease.live

-----------------------------------------------------------------------------
(* The plan: BeginAssessment, then a node row and its reservation per node. *)

BeginAssessment ==
  /\ status = "absent"
  /\ status' = "running"
  /\ UNCHANGED <<lease, node, used, attempt, coverage, comparison, finding, artifact, seal>>

SetNode(n, s, m) == node' = [node EXCEPT ![n] = [status |-> s, message |-> m]]

AddPlanNode(n) ==
  /\ node[n].status = "absent"
  /\ SetNode(n, "unbudgeted", "")
  /\ UNCHANGED <<lease, status, used, attempt, coverage, comparison, finding, artifact, seal>>

AddBudgetReservation(n) ==
  /\ node[n].status = "unbudgeted"
  /\ SetNode(n, "planned", "")
  /\ used' = [used EXCEPT ![n] = 0]
  /\ UNCHANGED <<lease, status, attempt, coverage, comparison, finding, artifact, seal>>

\* FinishAssessment, without a lease: only the failure of persistPreparedPlan.
FinishAssessment(s) ==
  /\ status = "running"
  /\ status' = s
  /\ UNCHANGED <<lease, node, used, attempt, coverage, comparison, finding, artifact, seal>>

-----------------------------------------------------------------------------
(* Leased transitions of the assessment, its nodes and its attempts. *)

FinishAssessmentWithLease(w, s) ==
  /\ Fenced(w)
  /\ FinishAssessment(s)

StartPlanNodeWithLease(w, n) ==
  /\ Fenced(w)
  /\ node[n].status \in {"planned", "running"}
  /\ node' = [node EXCEPT ![n].status = "running"]
  /\ UNCHANGED <<lease, status, used, attempt, coverage, comparison, finding, artifact, seal>>

FinishAnyPlanNodeWithLease(w, n, s, m) ==
  /\ Fenced(w)
  /\ SetNode(n, s, m)
  /\ UNCHANGED <<lease, status, used, attempt, coverage, comparison, finding, artifact, seal>>

FinishPlanNodeWithLease(w, n, s, m) ==
  /\ Fenced(w)
  /\ node[n].status \in LiveNode
  /\ SetNode(n, s, m)
  /\ UNCHANGED <<lease, status, used, attempt, coverage, comparison, finding, artifact, seal>>

ChargeAndInsert(id) ==
  /\ used' = [used EXCEPT ![id[1]] = @ + 1]
  /\ attempt' = [attempt EXCEPT ![id] = [NoAttempt EXCEPT !.status = "running"]]
  /\ UNCHANGED <<lease, status, node, coverage, comparison, finding, artifact, seal>>

WithinBudgetOffByOne(n) == used[n] <= RequestLimit
WithinBudget(n) == used[n] + 1 <= RequestLimit

\* An id that exists already commits nothing and is returned to the caller;
\* a new one is charged and inserted, both in this transaction.
BeginAssessmentAttemptWithBudgetLease(w, n, c) ==
  /\ Fenced(w)
  /\ IF attempt[<<n, c, "first">>].status # "none"
     THEN UNCHANGED storeVars
     ELSE /\ node[n].status = "running"
          /\ WithinBudget(n)
          /\ ChargeAndInsert(<<n, c, "first">>)

\* retrySourceMatches, and safeRecoveryMethod: every case of a node is a GET.
RetrySourceMatchesAnyFailure(n, c) ==
  attempt[<<n, c, "first">>].status \in {"failed", "canceled"}

RetrySourceMatches(n, c) ==
  attempt[<<n, c, "first">>] = [status |-> "canceled", retryable |-> TRUE, response |-> FALSE]

RetryReservable(n, c) ==
  /\ status = "running"
  /\ RetrySourceMatches(n, c)
  /\ node[n].status = "running"

BeginAssessmentRetryAttemptWithLease(w, n, c) ==
  /\ Fenced(w)
  /\ attempt[<<n, c, "retry">>].status = "none"
  /\ RetryReservable(n, c)
  /\ WithinBudget(n)
  /\ ChargeAndInsert(<<n, c, "retry">>)

FinishAssessmentAttemptWithLease(w, id, row) ==
  /\ Fenced(w)
  /\ attempt[id].status = "running"
  /\ attempt' = [attempt EXCEPT ![id] = row]
  /\ UNCHANGED <<lease, status, node, used, coverage, comparison, finding, artifact, seal>>

-----------------------------------------------------------------------------
(* Leased publications: inserts, each under the primary key of its row. *)

AddCoverageWithLease(w, n, m) ==
  /\ Fenced(w)
  /\ m \notin coverage[n]
  /\ coverage' = [coverage EXCEPT ![n] = @ \cup {m}]
  /\ UNCHANGED <<lease, status, node, used, attempt, comparison, finding, artifact, seal>>

AddComparisonWithLease(w, n) ==
  /\ Fenced(w)
  /\ n \notin comparison
  /\ comparison' = comparison \cup {n}
  /\ UNCHANGED <<lease, status, node, used, attempt, coverage, finding, artifact, seal>>

AddFindingV2WithLease(w, n) ==
  /\ Fenced(w)
  /\ n \notin finding
  /\ finding' = finding \cup {n}
  /\ UNCHANGED <<lease, status, node, used, attempt, coverage, comparison, artifact, seal>>

AddArtifactMetadataWithLease(w, id) ==
  /\ Fenced(w)
  /\ id \notin artifact
  /\ artifact' = artifact \cup {id}
  /\ UNCHANGED <<lease, status, node, used, attempt, coverage, comparison, finding, seal>>

\* The seal is the artifact <assessment>-result-integrity: one row at most.
AddSealWithLease(w, signed) ==
  /\ Fenced(w)
  /\ seal = {}
  /\ seal' = {signed}
  /\ UNCHANGED <<lease, evidenceVars>>

-----------------------------------------------------------------------------
(* ReactivateCanceledAssessment: one transaction, and no lease in it. *)

CanceledNodeMayHaveResponse(n) ==
  \E c \in Case : attempt[<<n, c, "first">>].status = "canceled"

\* validateCanceledRecoveryNode: one attempt, and it proves no side effect.
CanceledNodeIsSafe(n) ==
  \E c \in Case :
    /\ RetrySourceMatches(n, c)
    /\ \A id \in NodeAttempts(n) \ {<<n, c, "first">>} : attempt[id].status = "none"

\* The assessment message of a canceled assessment is "assessment canceled".
SkippedNodeIsUntouched(n) ==
  /\ node[n].message = "assessment canceled"
  /\ \A id \in NodeAttempts(n) : attempt[id].status = "none"

RequeuedWithSucceeded == {n \in Node : node[n].status \in {"canceled", "skipped", "succeeded"}}

RequeuedNodes == {n \in Node : node[n].status \in {"canceled", "skipped"}}

Reactivatable ==
  /\ status = "canceled"
  /\ seal # {}
  /\ \A n \in Node : \/ node[n].status \in {"succeeded", "failed"}
                     \/ node[n].status = "canceled" /\ CanceledNodeIsSafe(n)
                     \/ node[n].status = "skipped" /\ SkippedNodeIsUntouched(n)
  /\ RequeuedNodes # {}

ReactivateKeepingSeal ==
  /\ Reactivatable
  /\ status' = "running"
  /\ node' = [n \in Node |-> IF n \in RequeuedNodes
                             THEN [status |-> "planned", message |-> ""]
                             ELSE node[n]]
  /\ UNCHANGED <<lease, used, attempt, coverage, comparison, finding, artifact, seal>>

ReactivateCanceledAssessment ==
  /\ Reactivatable
  /\ status' = "running"
  /\ node' = [n \in Node |-> IF n \in RequeuedNodes
                             THEN [status |-> "planned", message |-> ""]
                             ELSE node[n]]
  /\ seal' = {}
  /\ UNCHANGED <<lease, used, attempt, coverage, comparison, finding, artifact>>

-----------------------------------------------------------------------------
(* The store offered to arbitrary callers: any transaction, in any order. *)

LeasedNext(w) ==
  \/ AcquireAssessmentExecutionLease(w)
  \/ ReleaseAssessmentExecutionLease(w)
  \/ \E s \in TerminalStatus : FinishAssessmentWithLease(w, s)
  \/ \E signed \in EvidenceRecord : AddSealWithLease(w, signed)
  \/ \E n \in Node :
       \/ StartPlanNodeWithLease(w, n)
       \/ \E s \in TerminalNode, m \in Reason : FinishPlanNodeWithLease(w, n, s, m)
       \/ \E m \in Reason : AddCoverageWithLease(w, n, m)
       \/ AddComparisonWithLease(w, n)
       \/ AddFindingV2WithLease(w, n)
       \/ \E c \in Case :
            \/ BeginAssessmentAttemptWithBudgetLease(w, n, c)
            \/ BeginAssessmentRetryAttemptWithLease(w, n, c)
  \/ \E id \in AttemptId :
       \/ AddArtifactMetadataWithLease(w, id)
       \/ \E row \in {r \in AttemptRow : r.status \notin {"none", "running"}} :
            FinishAssessmentAttemptWithLease(w, id, row)

StoreNext ==
  \/ BeginAssessment
  \/ \E n \in Node : AddPlanNode(n) \/ AddBudgetReservation(n)
  \/ FinishAssessment("failed")
  \/ LeaseExpires
  \/ ReactivateCanceledAssessment
  \/ \E w \in Worker : LeasedNext(w)

StoreSpec == StoreInit /\ [][StoreNext]_storeVars

-----------------------------------------------------------------------------
(* What the store guarantees to every caller. *)

ReservedAttempts(n) == {id \in NodeAttempts(n) : attempt[id].status # "none"}

\* The budget of a node is charged exactly once for every attempt that was
\* reserved for it, retries included, and never beyond its limit
\* (beginAssessmentAttempt and beginAssessmentRetryAttempt charge and insert
\* in one transaction).
BudgetIsExact ==
  \A n \in Node : /\ used[n] = Cardinality(ReservedAttempts(n))
                  /\ used[n] <= RequestLimit

\* Evidence that a canceled attempt had no side effect.
NoSideEffect(id) ==
  attempt[id] = [status |-> "canceled", retryable |-> TRUE, response |-> FALSE]

\* A linked retry exists only beside a source that was canceled with no
\* recorded response and an error class that proves no side effect; the
\* source keeps that evidence for ever.
RetryIsJustified ==
  \A n \in Node, c \in Case :
    attempt[<<n, c, "retry">>].status # "none" => NoSideEffect(<<n, c, "first">>)

\* A node waiting to be executed has no attempt, or exactly the one safely
\* canceled attempt a reactivation requeued it for.
QueuedNodeIsSafe ==
  \A n \in Node :
    node[n].status \in {"absent", "unbudgeted", "planned"} =>
      \/ ReservedAttempts(n) = {}
      \/ \E c \in Case : ReservedAttempts(n) = {<<n, c, "first">>} /\ NoSideEffect(<<n, c, "first">>)

\* What a transaction may do to an outcome that is recorded already.
OutcomesKept ==
  /\ \A id \in AttemptId :
       attempt[id].status \in {"succeeded", "failed", "canceled"} => attempt'[id] = attempt[id]
  /\ \A n \in Node :
       node[n].status \in TerminalNode /\ node'[n] # node[n] =>
         /\ status = "canceled" /\ status' = "running" /\ seal # {}
         /\ node[n].status \in {"canceled", "skipped"}

=============================================================================
