------------------------ MODULE AssessmentInventory ------------------------
(***************************************************************************)
(* What an assessment may test: the operations imported from API           *)
(* definitions and from earlier results (pkg/assessment/inventory), the    *)
(* object references in them (pkg/assessment/reference) and the selection  *)
(* of operations by the manifest (importOperations of                      *)
(* pkg/assessment/runtime/plan.go). Names stand for themselves: which of   *)
(* them read as references, and which object types they mention, are       *)
(* constants.                                                              *)
(***************************************************************************)
EXTENDS AssessmentManifest, FiniteSetsExt

CONSTANTS ReferenceName,   \* the names Classify takes for object references
          Mentions,        \* Mentions[n]: the object types the name contains
          MaxOperations    \* operations imported from one document

\* Names are strings of at most MaxStringBytes, so there are finitely many.
ASSUME NamesAssumption ==
  IsFiniteSet(Name) /\ ReferenceName \subseteq Name /\ Mentions \in [Name -> SUBSET Type]

\* A servers entry after expansion; none for a relative or foreign URL: the
\* source of a document is a local path, which resolves nothing.
Server == Optional([origin : Origin, base : 0..1])
Parameter == [in : {"path", "query", "header"}, name : Name]
\* A body field; example: the schema has an example or a default for it.
BodyField == [name : Name, example : BOOLEAN]
\* valid: normalizeTemplate takes the path. names: its {template} segments.
PathItem == [path : Nat, valid : BOOLEAN, names : SUBSET Name, servers : Optional(Seq(Server)),
             parameters : SUBSET Parameter, operations : Seq(
  [method : {"GET", "POST"}, operationId : Nat, servers : Optional(Seq(Server)),
   parameters : SUBSET Parameter, body : SUBSET BodyField])]
\* bounded: within every limit on depth, items, strings and parameters.
Document == [bounded : BOOLEAN, version : {"2", "3", "other"}, servers : Seq(Server),
             paths : Seq(PathItem), webhooks : Seq(PathItem)]
\* A stored result: the URL requested and the one it was derived from.
Observed == [method : {"GET", "POST"},
             url : Optional([origin : Origin, path : Nat, query : SUBSET Name]),
             baseline : Optional([origin : Origin, path : Nat, query : SUBSET Name])]

\* Lists of an API definition, as decoding gives them.
DecodedDocument(document) ==
  /\ IsList(document.servers) /\ IsList(document.paths) /\ IsList(document.webhooks)
  /\ \A item \in Range(document.paths) \cup Range(document.webhooks) :
       /\ IsList(item.operations)
       /\ \A servers \in item.servers \cup UNION {operation.servers :
                                                 operation \in Range(item.operations)} :
            IsList(servers)
\* What a local file may hold.
IsContent(content) ==
  /\ content.kind \in {"missing", "manifest", "openapi", "results"}
  /\ content.kind = "manifest" => Decoded(content.manifest)
  /\ content.kind = "openapi" => DecodedDocument(content.document)
  /\ content.kind = "results" => IsList(content.dataset)

-----------------------------------------------------------------------------
\* The origin of an imported operation is spelled without its default port.
Spelled(origin) == [origin |-> origin, port |-> FALSE]
OriginOf(url) == {Spelled(u.origin) : u \in url}

\* operationServers: the operation's, else the path's, else the document's;
\* Swagger 2 has only the document's. ensureServers: never none.
OperationServers(document, item, operation) ==
  LET servers == IF document.version = "2" \/ operation.servers \cup item.servers = {}
                 THEN document.servers
                 ELSE The(IF operation.servers # {} THEN operation.servers ELSE item.servers)
  IN  IF servers = <<>> THEN <<{}>> ELSE servers

\* stableOperationID hashes the document, the server and the place in it.
Imported(document, surface, item, operation, server) ==
  [id |-> <<document, surface, item.path, operation.method, server>>,
   operationId |-> operation.operationId, surface |-> surface, method |-> operation.method,
   origin |-> OriginOf(server), base |-> IF server = {} THEN 0 ELSE The(server).base,
   path |-> item.path, names |-> item.names,
   parameters |-> item.parameters \cup operation.parameters,
   body |-> IF document.version = "2" THEN {} ELSE operation.body, query |-> {}]

ImportOperation(document, surface, item, operation) ==
  LET servers == OperationServers(document, item, operation)
  IN  [i \in DOMAIN servers |-> Imported(document, surface, item, operation, servers[i])]
ImportPath(document, surface, item) ==
  FlattenSeq([i \in DOMAIN item.operations |->
                ImportOperation(document, surface, item, item.operations[i])])
ImportSurface(document, surface, items) ==
  FlattenSeq([i \in DOMAIN items |-> ImportPath(document, surface, items[i])])

ImportOpenAPI(document) ==
  ImportSurface(document, "path", document.paths)
  \o ImportSurface(document, "webhook", document.webhooks)
\* Only the templates of paths are checked; a webhook has any name.
ImportOpenAPIFails(document) ==
  \/ ~document.bounded \/ document.version = "other"
  \/ \E item \in Range(document.paths) : ~item.valid
  \/ Len(ImportOpenAPI(document)) > MaxOperations

\* ImportDataset: the template of an observed operation is the concrete path
\* of its baseline, so only query keys can be references.
ImportDataset(dataset) ==
  [i \in DOMAIN dataset |->
    LET observed == dataset[i]
        template == IF observed.baseline # {} THEN observed.baseline ELSE observed.url
    IN  [id |-> <<dataset, "observed", i>>, operationId |-> 0, surface |-> "observed",
         method |-> observed.method,
         origin |-> OriginOf(IF observed.url # {} THEN observed.url ELSE template), base |-> 0,
         path |-> IF template = {} THEN 0 ELSE The(template).path, names |-> {},
         parameters |-> {}, body |-> {},
         query |-> IF observed.url = {} THEN {} ELSE The(observed.url).query]]

-----------------------------------------------------------------------------
\* selectOperations: the input's selection, if it has one, is by ID or by
\* operationId.
SelectOperations(operations, input) ==
  FoldLeft(LAMBDA selected, operation :
             IF \/ input.operations = {}
                \/ {operation.id, operation.operationId} \cap input.operations # {}
             THEN Append(selected, operation) ELSE selected,
           <<>>, operations)

\* applyBaseURL replaces the origin, and the base path unless it is empty.
ApplyBaseURL(operation, baseURL) ==
  IF baseURL = {} THEN operation
  ELSE LET url == The(baseURL)
       IN  [operation EXCEPT !.origin = {url.authority},
                             !.base = IF url.base = 0 THEN @ ELSE url.base]

\* semanticAssessmentOperationKey leaves out the body and the ID.
QueryNames(operation) ==
  operation.query \cup {p.name : p \in {q \in operation.parameters : q.in = "query"}}
SemanticKey(operation) ==
  <<operation.method, operation.origin, operation.base, operation.path, operation.surface,
    QueryNames(operation)>>
AppendUnique(result, candidates) ==
  FoldLeft(LAMBDA seen, operation :
             IF \E kept \in Range(seen) : SemanticKey(kept) = SemanticKey(operation) THEN seen
             ELSE Append(seen, operation),
           result, candidates)

\* contents is what the files hold when they are read for the import. A run
\* that is not stored has no results.
DatasetOf(input, contents, stored) ==
  IF "path" \in input.sources THEN contents[input.path].dataset
  ELSE IF input.run \in DOMAIN stored THEN stored[input.run] ELSE <<>>
ImportFails(input, contents, database) ==
  \/ "url" \in input.sources
  \/ input.kind = "openapi"
     /\ \/ "path" \notin input.sources
        \/ contents[input.path].kind # "openapi"
        \/ ImportOpenAPIFails(contents[input.path].document)
  \/ input.kind = "sj-results"
     /\ IF "path" \in input.sources THEN contents[input.path].kind # "results" ELSE ~database
ImportedFrom(input, contents, stored) ==
  LET imported == IF input.kind = "openapi" THEN ImportOpenAPI(contents[input.path].document)
                  ELSE ImportDataset(DatasetOf(input, contents, stored))
      selected == SelectOperations(imported, input)
  IN  [i \in DOMAIN selected |-> ApplyBaseURL(selected[i], input.baseURL)]
ImportOperations(m, contents, stored) ==
  FoldLeft(LAMBDA result, input : AppendUnique(result, ImportedFrom(input, contents, stored)),
           <<>>, m.inputs)

\* operationsWithinAuthorizedOrigins compares canonical origins.
CanonicalOrigins(m) == {CanonicalOrigin(authority) : authority \in OriginSet(m)}
WithinAuthorizedOrigins(operations, m) ==
  {operation \in Range(operations) :
     \E authority \in operation.origin : CanonicalOrigin(authority) \in CanonicalOrigins(m)}

-----------------------------------------------------------------------------
\* matchingObjects: the stable objects of a type the name contains; without
\* any, all stable objects if they have one type.
StableObjects(objects) == {object \in objects : object.stable}
MatchingObjects(name, objects) ==
  LET mentioned == {object \in StableObjects(objects) : object.type \in Mentions[name]}
  IN  IF mentioned # {} THEN mentioned
      ELSE IF Cardinality({object.type : object \in StableObjects(objects)}) = 1 THEN StableObjects(objects)
      ELSE {}

\* Classify goes by the name alone.
Classify(name) == name \in ReferenceName
\* materializeSchema: the fields of the body the seed request carries.
Materialized(operation, objects) ==
  {field.name : field \in {f \in operation.body :
     f.example \/ (Classify(f.name) /\ MatchingObjects(f.name, objects) # {})}}
\* Extract: path segments, query keys and body fields that are references. A
\* declared query parameter is sent only if some object fits it.
SentQuery(operation, objects) ==
  operation.query \cup {p.name : p \in {q \in operation.parameters :
     q.in = "query" /\ MatchingObjects(q.name, objects) # {}}}
Extract(operation, objects) ==
  {candidate \in {[in |-> "path", name |-> n] : n \in operation.names}
                 \cup {[in |-> "query", name |-> n] : n \in SentQuery(operation, objects)}
                 \cup {[in |-> "body", name |-> n] : n \in Materialized(operation, objects)} :
     Classify(candidate.name)}

=============================================================================
