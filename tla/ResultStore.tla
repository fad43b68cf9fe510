---------------------------- MODULE ResultStore ----------------------------
(***************************************************************************)
(* The scan database (pkg/store) as the commands use it (internal/cli      *)
(* result_store.go): a run is begun, results are added in transactions,    *)
(* and the run is finished with the command's outcome.                     *)
(***************************************************************************)
EXTENDS Naturals, FiniteSets

\* The commands of the full workflow that keep a run of their own.
Command == {"brute", "automate", "fuzz", "collection", "report"}
RunStatus == {"none", "running", "succeeded", "failed", "canceled"}
\* observations and findings: whether the command's are stored.
Run == [status : RunStatus, observations : BOOLEAN, findings : BOOLEAN]
NoRun == [status |-> "none", observations |-> FALSE, findings |-> FALSE]

VARIABLE runs

\* Error classes a command's result may carry, as errors.As finds them.
Error == {"fatal", "canceled", "partial", "artifact", "persistence", "redacted"}

BeginRun(c) ==
  runs' = [runs EXCEPT ![c] = [NoRun EXCEPT !.status = "running"]]
\* One transaction each: all of the command's observations, or none.
AddObservations(c) == runs' = [runs EXCEPT ![c].observations = TRUE]
AddFindings(c) == runs' = [runs EXCEPT ![c].findings = TRUE]
\* resultRun.finish: the status is read off the command's error.
FinishStatus(errors) ==
  IF errors = {} THEN "succeeded"
  ELSE IF "canceled" \in errors THEN "canceled" ELSE "failed"
\* FinishRun updates the row only while it is running.
FinishRun(c, errors) ==
  runs' = [runs EXCEPT ![c].status = IF @ = "running" THEN FinishStatus(errors) ELSE @]

StoreTypeOK == runs \in [Command -> Run]

=============================================================================
