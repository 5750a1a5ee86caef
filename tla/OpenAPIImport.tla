---------------------------- MODULE OpenAPIImport ----------------------------
(***************************************************************************)
(* service.ParseOpenAPI: the routes it makes of an OpenAPI document, which *)
(* the page then submits to Create. A document is the sequence of its      *)
(* operations, by path in the order of the names and then by method:       *)
(* records of path, method, name and responses, a function from statuses   *)
(* (0 is a key that is no number, as "default"). A response is the         *)
(* sequence of its contents by type, each with its example ("" without),   *)
(* the values of its named examples, and its schema, if any. How JSON is   *)
(* laid out is left aside: a value is its text.                            *)
(***************************************************************************)
EXTENDS MockRouter

CONSTANTS
    Documents,
    Schemas,        \* all schemas, those under components.schemas by their names
    StatusName      \* statuses -> the names of their variants, as "status-404"

\* No pattern for segments admits a percent sign.
ASSUME ImportConstants ==
    /\ \A document \in Documents :
          /\ IsListOf(document, {"path", "method", "name", "responses"})
          /\ \A op \in Range(document) : IsList(op.path)
    /\ DOMAIN StatusName = 100 .. 599 /\ IsInjective(StatusName)
    /\ Range(StatusName) \cap (DOMAIN Trimmed \cup {""}) = {}
    /\ DOMAIN Unescaped \subseteq Malformed /\ "7" \notin DOMAIN Unescaped

MaxDepth == 8

\* The example of each schema with so much depth left: without any it has none;
\* its own wins over the reference's, which wins over what its type gives.
exampleFromSchema[left \in 0 .. MaxDepth + 1] ==
    [name \in DOMAIN Schemas |->
        LET schema == Schemas[name]
            parts == Each(schema.parts, LAMBDA p : exampleFromSchema[left - 1][p])
            joined == FoldLeft(LAMBDA text, p : text \o p, "", parts)
        IN CASE left = 0                   -> ""
             [] left > 0 /\ schema.example # "" -> schema.example
             [] left > 0 /\ schema.example = "" /\ schema.ref \in DOMAIN Schemas ->
                   exampleFromSchema[left - 1][schema.ref]
             [] OTHER ->
                CASE schema.type \in {"object", ""}        -> "{" \o joined \o "}"
                  [] schema.type = "array"                 -> "[" \o joined \o "]"
                  [] schema.type \in {"integer", "number"} -> "0"
                  [] schema.type = "boolean"               -> "false"
                  [] OTHER -> IF schema.enum = <<>> THEN "string" ELSE schema.enum[1]]

\* JSON if it is there, else the first content; the first example there is.
openAPIResponse(response) ==
    LET json == SelectSeq(response, LAMBDA c : c.type = "application/json")
        content == IF json # <<>> THEN json[1] ELSE response[1]
        examples == SelectSeq(<<content.example>> \o First(content.examples)
                                 \o Each(content.schema, LAMBDA name : exampleFromSchema[MaxDepth + 1][name]),
                              LAMBDA text : text # "")
    IN IF response = <<>> THEN [body |-> "", contentType |-> "text/plain; charset=utf-8"]
       ELSE [body |-> IF examples = <<>> THEN "{}" ELSE examples[1], contentType |-> content.type]

Statuses(responses) ==
    LET numbers == DOMAIN responses \cap 100 .. 599 IN IF numbers = {} THEN {200} ELSE numbers

Response(op, status) ==
    openAPIResponse(IF status \in DOMAIN op.responses THEN op.responses[status] ELSE <<>>)

\* Slip: the first status is the route's own, whatever it says.
baseStatusFirst(statuses) == Min(statuses)

\* The first that is a success, or else the first.
baseStatus(statuses) ==
    LET successes == statuses \cap 200 .. 299 IN
    Min(IF successes # {} THEN successes ELSE statuses)

ImportedVariant(op, status) ==
    LET response == Response(op, status) IN
    [name |-> StatusName[status], status |-> status, headers |-> NoHeaders,
     body |-> response.body, contentType |-> response.contentType]

ImportedRoute(op) ==
    LET statuses == Statuses(op.responses)
        base == baseStatus(statuses)
        own == Response(op, base)
        others == InOrder(statuses \ {base})
    IN [name |-> op.name, method |-> op.method, path |-> op.path, status |-> base,
        body |-> own.body, contentType |-> own.contentType, headers |-> NoHeaders,
        rules |-> <<>>, variants |-> [k \in DOMAIN others |-> ImportedVariant(op, others[k])]]

Supported(op) == op.method \in Method \ {"ANY"} /\ op.responses # <<>>

\* The import ends at the cap.
Importable(document) ==
    LET supported == {i \in DOMAIN document : Supported(document[i])}
    IN {i \in supported : Rank(supported, i) =< MaxMockRoutes}

ParseOpenAPI(document) ==
    LET taken == InOrder(Importable(document))
    IN [k \in DOMAIN taken |-> ImportedRoute(document[taken[k]])]

-----------------------------------------------------------------------------
(* Property *)

\* A request's path for a pattern, and whether an operation is one for it.
Concrete(pattern) == Each(NonEmpty(pattern), LAMBDA s : IF s \in Placeholder THEN "7" ELSE s)

IsFor(op, path, method) ==
    Supported(op) /\ op.method = method /\ routePathMatches(NonEmpty(op.path), path)

\* What a mock's routes answer to a request with these headers.
AnswerTo(routes, path, method, header) ==
    LET src == Source(matchRoute(routes, path, method).route[1])
        configured == pickConfiguredVariant(src, [header |-> header, query |-> NoHeaders])
    IN IF configured = <<>> THEN DefaultServed(src) ELSE configured[1]

\* Each documented response by the name of its variant, without one a success.
Reachable(op) ==
    LET path == Concrete(op.path)
        documented == DOMAIN op.responses \cap 100 .. 599
        Answer(header) == AnswerTo(mock.routes, path, op.method, header)
    IN /\ matchRoute(mock.routes, path, op.method).route # <<>>
       /\ \A s \in documented :
             LET served == Answer(Header("x-quickmock-variant", StatusName[s])) IN
             served.status = s /\ served.body = openAPIResponse(op.responses[s]).body
       /\ documented \cap 200 .. 299 # {} =>
             Answer(NoHeaders).status \in documented \cap 200 .. 299

\* Whatever an OpenAPI document says of an operation can be had from a mock that it
\* was imported into: each documented response by its variant's name, and without
\* one a success if there is one. Only the first operations up to the cap of routes
\* are imported, and of two that one path fits the earlier answers.
ImportedIsReachable ==
    \A document \in Documents :
        /\ mock # None /\ mock \notin LegacyRows
        /\ mock.routes = Each(ParseOpenAPI(document), NormalRoute)
        => \A i \in DOMAIN document :
            /\ Supported(document[i])
            /\ Cardinality({j \in 1 .. i : Supported(document[j])}) =< MaxMockRoutes
            /\ \A j \in 1 .. i - 1 :
                  ~IsFor(document[j], Concrete(document[i].path), document[i].method)
            => Reachable(document[i])

=============================================================================
