------------------------- MODULE AssessmentManifest -------------------------
(***************************************************************************)
(* The assessment manifest and its validation (pkg/assessment/manifest):   *)
(* what an operator may ask for before anything is imported or planned.    *)
(* Names, durations and the shape of the YAML are flags; every reference   *)
(* from one part of the manifest to another is kept.                       *)
(***************************************************************************)
EXTENDS Integers, Sequences, FiniteSets, SequencesExt

CONSTANTS Origin,      \* canonical scheme, host and port
          Identity,    \* declared identities
          Anonymous,   \* the identity without credentials
          Type,        \* types of owned objects
          Identifier,  \* identifiers of owned objects
          Name,        \* names of parameters, query keys and body fields
          File         \* local files

\* How a manifest spells an origin: the default port may be written out.
\* Two spellings differ although they name one canonical origin.
Authority == [origin : Origin, port : BOOLEAN]
CanonicalOrigin(authority) == authority.origin
\* exactOrigin refuses paths, queries, credentials and wildcards.
ExactOrigin == [exact : BOOLEAN, authority : Authority]
\* A URL within an origin: plain without a query or a fragment; base is its
\* path, 0 for none.
ScopedURL == [plain : BOOLEAN, authority : Authority, base : 0..1]

\* A limit as the manifest gives it; zero or less is possible in the YAML.
BudgetLimit == [maxRequests : Int, requestBytes : Int, responseBytes : Int, rate : Int]
\* Secrets are references: env, or a file, whose mode must be private; a
\* literal is not a reference.
SecretRef == {"env", "file", "open-file", "literal"}

Optional(S) == {{}} \cup {{s} : s \in S}
The(s) == CHOOSE x \in s : TRUE

IsList(s) == s \in Seq(Range(s))
\* What decoding alone gives: lists in order, and integers for limits.
Decoded(m) ==
  /\ IsList(m.inputs) /\ IsList(m.objects)
  /\ m.transport.redirects \in Int
  /\ m.budgets.global \in BudgetLimit
  /\ Range(m.budgets.perOrigin) \subseteq BudgetLimit
  /\ Range(m.budgets.perModule) \subseteq BudgetLimit
  /\ Range(m.budgets.perIdentity) \subseteq BudgetLimit

-----------------------------------------------------------------------------
Distinct(s, key(_)) == \A i, j \in DOMAIN s : key(s[i]) = key(s[j]) => i = j
NameOf(r) == r.name

ValidateOrigins(m) ==
  /\ m.origins # <<>>
  /\ \A i \in DOMAIN m.origins : m.origins[i].exact
  /\ Distinct(m.origins, LAMBDA o : o.authority)
OriginSet(m) == {o.authority : o \in Range(m.origins)}

\* validateScopedURL compares the spelling, not the canonical origin.
ValidateScopedURL(url, origins) == url.plain /\ url.authority \in origins

\* An input has exactly one source; its file exists, is regular and small.
ValidateInput(input, origins, readable) ==
  /\ input.kind \in {"openapi", "sj-results"}
  /\ Cardinality(input.sources) = 1
  /\ "path" \in input.sources => input.absolute /\ input.path \in readable
  /\ "url" \in input.sources => ValidateScopedURL(input.url, origins)
  /\ "runId" \in input.sources => input.kind = "sj-results"
  /\ \A url \in input.baseURL : ValidateScopedURL(url, origins)
ValidateInputs(m, readable) ==
  /\ m.inputs # <<>>
  /\ Distinct(m.inputs, NameOf)
  /\ \A i \in DOMAIN m.inputs : ValidateInput(m.inputs[i], OriginSet(m), readable)

ValidateWindow(m) == m.window.end > m.window.start

\* A required proxy is named; redirects stay on their origin and are few.
MaxRedirects == 20
ValidateTransport(t) ==
  /\ t.proxyRequired => t.proxy # "none"
  /\ t.proxy # "malformed"
  /\ t.insecure => t.justified
  /\ t.redirects \in 0..MaxRedirects
  /\ t.redirects > 0 => t.sameOrigin

ParseSecretRef(ref) == ref \in {"env", "file"}
ValidateIdentities(m) ==
  /\ \A i \in DOMAIN m.identities :
       LET identity == m.identities[i]
       IN  /\ identity.name # Anonymous
           /\ identity.described
           /\ identity.secrets # {}
           /\ \A ref \in identity.secrets : ParseSecretRef(ref)
  /\ Distinct(m.identities, NameOf)
IdentitySet(m) == {identity.name : identity \in Range(m.identities)}
TenantOf(m, name) ==
  (CHOOSE identity \in Range(m.identities) : identity.name = name).tenant

\* An object belongs to a declared identity of its tenant, its owner may
\* access it, and every expectation is about a declared identity.
ValidateObject(m, object) ==
  /\ object.owner \in IdentitySet(m)
  /\ object.tenant = TenantOf(m, object.owner)
  /\ object.described
  /\ DOMAIN object.expected \subseteq IdentitySet(m) \cup {Anonymous}
  /\ object.owner \in DOMAIN object.expected
  /\ object.expected[object.owner] = "allow"
ValidateObjects(m) ==
  /\ \A i \in DOMAIN m.objects : ValidateObject(m, m.objects[i])
  /\ Distinct(m.objects, NameOf)

SafetyClass == {"S0", "S1", "S2", "S3", "S4"}
IsStateChanging(class) == class = "S3"
ValidateModules(m) ==
  /\ m.modules # <<>>
  /\ \A i \in DOMAIN m.modules : m.modules[i].class # "S4"
  /\ Distinct(m.modules, NameOf)
ModuleSet(m) == {module.name : module \in Range(m.modules)}
ValidateInputSelections(m) ==
  \A i \in DOMAIN m.inputs : m.inputs[i].modules \subseteq ModuleSet(m)

ValidateBudget(limit) ==
  limit.maxRequests > 0 /\ limit.requestBytes > 0 /\ limit.responseBytes > 0 /\ limit.rate > 0
ValidateNamedBudgets(limits, allowed) ==
  \A name \in DOMAIN limits : name \in allowed /\ ValidateBudget(limits[name])
ValidateBudgets(m) ==
  /\ ValidateBudget(m.budgets.global)
  /\ ValidateNamedBudgets(m.budgets.perOrigin, OriginSet(m))
  /\ ValidateNamedBudgets(m.budgets.perModule, ModuleSet(m))
  /\ ValidateNamedBudgets(m.budgets.perIdentity, IdentitySet(m))

ValidateEvidence(m) ==
  /\ m.evidence.artifactBytes \in 1..m.budgets.global.responseBytes
  /\ m.evidence.retention > 0
  /\ \A ref \in m.evidence.key : ParseSecretRef(ref)
  /\ m.evidence.storeBodies => m.evidence.key # {}

\* A state-changing workflow needs a disposable fixture and all of mutation,
\* read-back and rollback; any other has neither mutation nor rollback.
MethodsFor(purpose) ==
  [mutation |-> {"POST", "PUT", "PATCH"}, readback |-> {"GET", "HEAD"},
   rollback |-> {"POST", "PUT", "PATCH"}][purpose]
ValidateWorkflowStep(m, step) ==
  step.identity \in IdentitySet(m) /\ step.method \in MethodsFor(step.purpose)
Purposes(workflow) == {step.purpose : step \in Range(workflow.steps)}
ValidateWorkflowSafety(workflow, fixture) ==
  IF IsStateChanging(workflow.class)
  THEN fixture.disposable /\ Purposes(workflow) = {"mutation", "readback", "rollback"}
  ELSE Purposes(workflow) \subseteq {"readback"}
ValidateWorkflow(m, workflow) ==
  /\ workflow.class # "S4"
  /\ workflow.steps # <<>>
  /\ Distinct(workflow.steps, NameOf)
  /\ \A i \in DOMAIN workflow.steps : ValidateWorkflowStep(m, workflow.steps[i])
  /\ \E object \in Range(m.objects) :
       object.name = workflow.fixture /\ ValidateWorkflowSafety(workflow, object)
ValidateWorkflows(m) ==
  /\ \A i \in DOMAIN m.workflows : ValidateWorkflow(m, m.workflows[i])
  /\ Distinct(m.workflows, NameOf)
  /\ \A object \in Range(m.objects) :
       object.rollback \subseteq {workflow.name : workflow \in Range(m.workflows)}

\* Parse: one document, known fields only, then every part in turn. readable
\* are the files that pass the check of their kind and size.
Parse(m, readable) ==
  /\ m.decodes
  /\ ValidateOrigins(m)
  /\ ValidateInputs(m, readable)
  /\ ValidateWindow(m)
  /\ ValidateTransport(m.transport)
  /\ ValidateIdentities(m)
  /\ ValidateObjects(m)
  /\ ValidateModules(m)
  /\ ValidateInputSelections(m)
  /\ ValidateBudgets(m)
  /\ ValidateEvidence(m)
  /\ ValidateWorkflows(m)

=============================================================================
