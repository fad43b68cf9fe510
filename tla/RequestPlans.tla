--------------------------- MODULE RequestPlans ---------------------------
(***************************************************************************)
(* From an API definition to the requests automate sends (pkg/scanner      *)
(* BuildRequestPlans and ConfigureTarget). One bad operation refuses the   *)
(* whole definition; excluded methods leave no trace.                      *)
(***************************************************************************)
EXTENDS HttpClient, Sequences, FiniteSets, FiniteSetsExt, SequencesExt

CONSTANT Name        \* names of parameters and path templates

\* A servers entry. broken: it cannot be expanded (an unclosed variable, no
\* default) or resolved (a query, a foreign scheme, user information).
Server == [kind : {"none", "absolute", "relative", "broken"}, origin : Origin]
\* A parameter object. content counts its media types; serialized: its
\* example is given in serialized form, and fits its location or does not.
Location == {"path", "query", "querystring", "header", "cookie"}
Style == {"none", "simple", "form", "deepObject", "spaceDelimited", "cookie"}
Parameter ==
  [name : Name, in : Location, required : BOOLEAN, style : Style, explode : BOOLEAN,
   schema : BOOLEAN, content : 0..2, examples : 0..2,
   serialized : {"none", "safe", "unsafe"}, reserved : BOOLEAN]
Operation ==
  [method : Method, dangerous : BOOLEAN, server : Server, parameters : Seq(Parameter)]
PathItem ==
  [valid : BOOLEAN, templates : SUBSET Name, server : Server,
   parameters : Seq(Parameter), operations : Seq(Operation)]
\* readable: the bytes parse and pass the reference policy.
Document ==
  [readable : BOOLEAN, version : {"swagger2", "openapi3", "other"},
   server : Server, paths : Seq(PathItem)]
\* The configuration BuildRequestPlans reads; target: the explicit --target.
PlanConfig ==
  [target : SUBSET Origin, excluded : SUBSET Method, allowPatch : BOOLEAN,
   requiredOnly : BOOLEAN]

-----------------------------------------------------------------------------
\* resolveServerURL: a relative server is one of the specification's origin.
ResolveServer(server, source) ==
  IF server.kind = "relative" THEN source ELSE server.origin
\* ConfigureTarget: --target, the document's first server, or its own origin.
TargetRefused(document, config) ==
  \/ document.version = "other"
  \/ config.target = {} /\ document.server.kind = "broken"
ConfigureTarget(document, config, source) ==
  IF config.target # {} THEN CHOOSE o \in config.target : TRUE
  ELSE IF document.server.kind = "none" THEN source
  ELSE ResolveServer(document.server, source)

\* operationServer: the operation's server, else the path's, else the target.
OperationServer(item, operation) ==
  IF operation.server.kind # "none" THEN operation.server ELSE item.server
OperationOrigin(item, operation, config, target, source) ==
  LET server == OperationServer(item, operation)
  IN  IF config.target # {} \/ server.kind = "none" THEN target
      ELSE ResolveServer(server, source)

\* mergeParameters: a parameter of the operation replaces the path's of the
\* same name and location, in its place.
SameParameter(p, q) == p.in = q.in /\ p.name = q.name
MergeParameters(item, operation) ==
  FoldLeft(LAMBDA merged, p :
             LET same == {i \in DOMAIN merged : SameParameter(merged[i], p)}
             IN  IF same = {} THEN Append(merged, p)
                 ELSE [i \in DOMAIN merged |-> IF i \in same THEN p ELSE merged[i]],
           <<>>, item.parameters \o operation.parameters)

StylesOf(location) ==
  [path |-> {"none", "simple"}, query |-> {"none", "form", "deepObject", "spaceDelimited"},
   querystring |-> {"none"}, header |-> {"none", "simple"},
   cookie |-> {"none", "form", "cookie"}][location]
ValidParameter(p) ==
  /\ p.in = "path" => p.required
  /\ p.in = "querystring" => p.content = 1 /\ ~p.schema /\ p.style = "none" /\ ~p.explode
  /\ p.content # 2
  /\ ~(p.schema /\ p.content > 0)
  /\ p.examples # 2
  /\ p.style \in StylesOf(p.in)
  /\ ~(p.explode /\ p.style = "spaceDelimited")
CountIn(parameters, location) ==
  Cardinality({i \in DOMAIN parameters : parameters[i].in = location})
ValidateParameters(parameters) ==
  /\ \A i \in DOMAIN parameters : ValidParameter(parameters[i])
  /\ CountIn(parameters, "querystring") <= 1
  /\ CountIn(parameters, "querystring") > 0 => CountIn(parameters, "query") = 0

\* applyParameter: unsafe examples and path parameters without a template are
\* refused, reserved headers ignored.
Applied(parameters, config) ==
  SelectSeq(parameters, LAMBDA p : ~config.requiredOnly \/ p.required)
ApplyFails(p, item) ==
  \/ p.serialized = "unsafe" /\ ~(p.in = "header" /\ p.reserved)
  \/ p.in = "path" /\ p.name \notin item.templates
UnresolvedTemplates(parameters, item) ==
  item.templates \ {parameters[i].name : i \in {j \in DOMAIN parameters :
                                                  parameters[j].in = "path"}}

\* buildOperationPlan returns an error.
PlanFails(item, operation, config) ==
  LET merged  == MergeParameters(item, operation)
      applied == Applied(merged, config)
  IN  \/ config.target = {} /\ OperationServer(item, operation).kind = "broken"
      \/ ~ValidateParameters(merged)
      \/ \E i \in DOMAIN applied : ApplyFails(applied[i], item)
      \/ UnresolvedTemplates(applied, item) # {}

\* DELETE is never planned, PATCH only on request.
Planned(operation, config) ==
  /\ operation.method # "DELETE"
  /\ operation.method = "PATCH" => config.allowPatch
  /\ operation.method \notin config.excluded
PlannedOperations(item, config) ==
  LET kept[k \in 0..Len(item.operations)] ==
        IF k = 0 THEN <<>>
        ELSE IF Planned(item.operations[k], config)
             THEN Append(kept[k - 1], item.operations[k]) ELSE kept[k - 1]
  IN  kept[Len(item.operations)]

BuildFails(document, config) ==
  \/ document.paths = <<>>
  \/ \E i \in DOMAIN document.paths : ~document.paths[i].valid
  \/ \A i \in DOMAIN document.paths : document.paths[i].operations = <<>>
  \/ \E i \in DOMAIN document.paths :
       LET item == document.paths[i]
       IN  \E operation \in Range(PlannedOperations(item, config)) :
             PlanFails(item, operation, config)
GenerateFails(document, config) ==
  ~document.readable \/ TargetRefused(document, config) \/ BuildFails(document, config)

BuildRequestPlans(document, config, source) ==
  LET target == ConfigureTarget(document, config, source)
      plan(item, operation) ==
        [origin |-> OperationOrigin(item, operation, config, target, source),
         method |-> operation.method, dangerous |-> operation.dangerous]
      plansOf(item) ==
        LET planned == PlannedOperations(item, config)
        IN  [i \in DOMAIN planned |-> plan(item, planned[i])]
      plans[k \in 0..Len(document.paths)] ==
        IF k = 0 THEN <<>> ELSE plans[k - 1] \o plansOf(document.paths[k])
  IN  plans[Len(document.paths)]

=============================================================================
