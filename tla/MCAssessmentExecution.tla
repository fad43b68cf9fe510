----------------------- MODULE MCAssessmentExecution -----------------------
(***************************************************************************)
(* Small instances of AssessmentExecution for TLC.                         *)
(***************************************************************************)
EXTENDS AssessmentExecution, TLC

CONSTANTS w1, w2, o1, o2

\* All nodes on one origin, or the first two on one and the rest on another.
OneOrigin == [n \in Node |-> o1]
FirstTwoShare == [n \in Node |-> IF n <= 2 THEN o1 ELSE o2]

WorkerSymmetry == Permutations(Worker)

=============================================================================
