--------------------------- MODULE MCFuzzRunner ---------------------------
(***************************************************************************)
(* Small instances of FuzzRunner for TLC.                                  *)
(***************************************************************************)
EXTENDS FuzzRunner

CONSTANTS a, b

\* The cases of operation op: a baseline, idor identifier mutations, the others.
Op(op, origin, cases, idor) ==
  [c \in 1..cases |->
     [op |-> op, origin |-> origin, unsafe |-> FALSE, oversized |-> FALSE,
      base |-> c = 1 /\ idor > 0, idor |-> c \in 2..(idor + 1)]]
UnsafeOp(op, origin) == << [Op(op, origin, 1, 0)[1] EXCEPT !.unsafe = TRUE] >>
OversizedOp(op, origin) == << [Op(op, origin, 1, 0)[1] EXCEPT !.oversized = TRUE] >>
Get(origin) == [origin |-> origin, unsafe |-> FALSE, capture |-> FALSE]
Capture(origin) == [Get(origin) EXCEPT !.capture = TRUE]
Post(origin) == [Get(origin) EXCEPT !.unsafe = TRUE]

MCJob(cases, workflows, isolate, guided, budget, preflight) ==
  [cases |-> cases, workflows |-> workflows, identities |-> 1, acceptRisk |-> FALSE,
   isolate |-> isolate, guided |-> guided, budget |-> budget, preflight |-> preflight]

\* Cases and guided retries: an object-identifier case, chains of two repairs.
GuidedJobs ==
  {MCJob(Op(1, a, 2, 1), <<>>, FALSE, 2, budget, preflight) :
     budget \in {3, 6}, preflight \in BOOLEAN}
\* One operation sent as two identities, whose baselines qualify separately.
IdentityJobs ==
  {[MCJob(Op(1, a, 2, 1), <<>>, TRUE, 1, 5, FALSE) EXCEPT !.identities = 2]}
\* Circuits: two origins, four requests to the first, workflows after them.
CircuitJobs ==
  {MCJob(Op(1, a, 4, 0) \o Op(2, b, 1, 0), << <<Get(b), Get(a)>> >>, TRUE, 0, 7, TRUE)}
  \cup {MCJob(Op(1, a, 1, 0), << <<Capture(a), Get(b)>>, <<Post(b)>>, <<Get(b)>> >>,
              isolate, guided, budget, FALSE) :
          isolate \in BOOLEAN, guided \in 0..1, budget \in {2, 6}}
  \cup {[MCJob(UnsafeOp(1, a), << <<Post(a), Capture(a)>> >>, TRUE, 1, 6, TRUE)
           EXCEPT !.acceptRisk = TRUE]}
\* Plans that are cut or refused.
RefusedJobs ==
  {MCJob(Op(1, a, 2, 1) \o UnsafeOp(2, a) \o OversizedOp(3, b), <<>>, TRUE, 1, budget, preflight) :
     budget \in 1..2, preflight \in BOOLEAN}

AllJobs == GuidedJobs \cup IdentityJobs \cup CircuitJobs \cup RefusedJobs
\* A workflow over two origins, the first of which is limited.
TwoOriginWorkflow ==
  {MCJob(Op(1, a, 1, 0), << <<Get(a), Get(b)>> >>, TRUE, 0, 6, TRUE)}

=============================================================================
