------------------------ MODULE AssessmentLifecycle ------------------------
(***************************************************************************)
(* What the assessment runtime promises to whoever reads the result of an  *)
(* assessment, without leases, attempts, or the order of the writes.       *)
(* A task is a plan node.  Tasks are settled while the assessment runs;    *)
(* then the assessment closes and is sealed; only a sealed canceled        *)
(* assessment runs again, and never for a task that was proven.            *)
(***************************************************************************)
CONSTANT Task

VARIABLES
  phase,    \* "absent", "running", or how the assessment closed
  open,     \* tasks that are not settled
  proven,   \* tasks settled with a complete proof
  sealed    \* the result is sealed

lifecycleVars == <<phase, open, proven, sealed>>

Closed == {"succeeded", "failed", "canceled"}

LifecycleInit ==
  /\ phase = "absent"
  /\ open = Task
  /\ proven = {}
  /\ sealed = FALSE

Begin ==
  /\ phase = "absent"
  /\ phase' = "running"
  /\ UNCHANGED <<open, proven, sealed>>

Settle(t, proof) ==
  /\ phase = "running"
  /\ t \in open
  /\ open' = open \ {t}
  /\ proven' = IF proof THEN proven \cup {t} ELSE proven
  /\ UNCHANGED <<phase, sealed>>

\* Success needs every task settled; failure and cancellation may come earlier.
Finish(result) ==
  /\ phase = "running"
  /\ result = "succeeded" => open = {}
  /\ phase' = result
  /\ UNCHANGED <<open, proven, sealed>>

Seal ==
  /\ phase \in Closed
  /\ ~sealed
  /\ sealed' = TRUE
  /\ UNCHANGED <<phase, open, proven>>

Reopen(tasks) ==
  /\ phase = "canceled"
  /\ sealed
  /\ open = {}
  /\ phase' = "running"
  /\ sealed' = FALSE
  /\ open' = tasks
  /\ UNCHANGED proven

LifecycleNext ==
  \/ Begin
  \/ \E t \in Task, proof \in BOOLEAN : Settle(t, proof)
  \/ \E result \in Closed : Finish(result)
  \/ Seal
  \/ \E tasks \in SUBSET (Task \ proven) : Reopen(tasks)

LifecycleSpec == LifecycleInit /\ [][LifecycleNext]_lifecycleVars

=============================================================================
