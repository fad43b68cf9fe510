----------------------------- MODULE BolaProof -----------------------------
(***************************************************************************)
(* The verdict on one ownership matrix: the classification and comparison  *)
(* of responses (pkg/assessment/compare), Evaluate of pkg/modules/bola and *)
(* what persistEvaluation of pkg/assessment/runtime/execute.go stores. A   *)
(* body is a function from JSON pointers to values.                        *)
(***************************************************************************)
EXTENDS Naturals, Sequences, FiniteSets, Functions

CONSTANTS Pointer,            \* JSON pointers of leaves
          IdentifierPointer,  \* the ones that name an identifier
          VolatilePointer     \* the ones that name volatile metadata

ASSUME PointerAssumption ==
  IdentifierPointer \subseteq Pointer /\ VolatilePointer \subseteq Pointer

\* envelope: the object says by itself that the request failed. markers are
\* values of the request a response may echo.
Success(response) == response.status \in 200..299
Normalize(fields) == Restrict(fields, DOMAIN fields \ VolatilePointer)
EchoesMarkers(fields, markers) == markers # {} /\ Range(fields) \subseteq markers

Class(response) ==
  LET fields == Normalize(response.fields)
  IN  CASE ~Success(response)                        -> "error"
        [] Success(response) /\ response.body = "empty" -> "empty"
        [] Success(response) /\ response.body = "text"  -> "non_json"
        [] Success(response) /\ response.body = "json" ->
             IF response.envelope THEN "error"
             ELSE IF Cardinality(DOMAIN fields) < 2 THEN "trivial"
             ELSE IF EchoesMarkers(fields, response.markers) THEN "echo" ELSE "substantive"
\* The digest of a substantive response stands for its stable fields.
Analyze(response) ==
  [class |-> Class(response),
   fields |-> IF Class(response) \in {"trivial", "echo", "substantive"}
              THEN Normalize(response.fields) ELSE <<>>]

\* Two responses of one class are equivalent, empty ones excepted; substantive
\* ones when their digests agree.
Equivalent(left, right) ==
  /\ left.class = right.class
  /\ left.class # "empty"
  /\ left.class = "substantive" => left.fields = right.fields

\* Stable: at least two responses, all substantive, all alike.
Stable(responses) ==
  /\ Len(responses) >= 2
  /\ \A i \in DOMAIN responses :
       /\ Analyze(responses[i]).class = "substantive"
       /\ Analyze(responses[i]).fields = Analyze(responses[1]).fields

ContainsObjectID(analysis, identifier) ==
  \E pointer \in DOMAIN analysis.fields \cap IdentifierPointer :
    analysis.fields[pointer] = identifier
MatchingStableFields(left, right) ==
  Cardinality({pointer \in DOMAIN left.fields \cap DOMAIN right.fields :
                 left.fields[pointer] = right.fields[pointer]})

\* A control is a stable answer that names the object it asked for.
OwnControl(responses, identifier) ==
  Stable(responses) /\ ContainsObjectID(Analyze(responses[1]), identifier)

\* Every reason Evaluate has against a confirmation.
Distinguished(proof) ==
  proof.negative # <<>> /\ ~Equivalent(Analyze(proof.cross[1]), Analyze(proof.negative[1]))
\* Mutant: the nonexistent-object control is not compared.
ConfirmedWithoutControl(proof) ==
  /\ proof.victim # proof.attacker
  /\ OwnControl(proof.victimOwn, proof.victim)
  /\ OwnControl(proof.attackerOwn, proof.attacker)
  /\ Stable(proof.cross)
  /\ ContainsObjectID(Analyze(proof.cross[1]), proof.victim)
  /\ MatchingStableFields(Analyze(proof.victimOwn[1]), Analyze(proof.cross[1])) >= 2
Confirmed(proof) ==
  /\ proof.victim # proof.attacker
  /\ OwnControl(proof.victimOwn, proof.victim)
  /\ OwnControl(proof.attackerOwn, proof.attacker)
  /\ Stable(proof.cross)
  /\ ContainsObjectID(Analyze(proof.cross[1]), proof.victim)
  /\ MatchingStableFields(Analyze(proof.victimOwn[1]), Analyze(proof.cross[1])) >= 2
  /\ ~ContainsObjectID(Analyze(proof.cross[1]), proof.attacker)
  /\ Distinguished(proof)

Denied(responses) ==
  responses # <<>> /\ \A i \in DOMAIN responses : responses[i].status \in {401, 403, 404}
HasEvidence(proof) ==
  \E responses \in {proof.victimOwn, proof.attackerOwn, proof.cross, proof.negative} :
    \E i \in DOMAIN responses : responses[i].status # 0 \/ responses[i].body # "empty"

\* Evaluate: an object the attacker may see disproves at once.
Evaluate(proof) ==
  IF ~proof.expectedDeny THEN "disproved"
  ELSE IF Confirmed(proof) THEN "confirmed"
  ELSE IF ~HasEvidence(proof) THEN "inconclusive"
  ELSE IF Denied(proof.cross) THEN "disproved" ELSE "candidate"

\* What persistEvaluation stores about a verdict: the coverage of a candidate
\* is not complete.
Coverage(status) ==
  IF status \in {"candidate", "inconclusive"} THEN "inconclusive" ELSE "complete"

=============================================================================
