-------------------------- MODULE ResponseSelection --------------------------
(***************************************************************************)
(* handler/variant.go: which of the responses of a mock answers a request. *)
(* A request is a record of its method, path (the segments after           *)
(* /m/<slug>, "" where two slashes meet), query, headers and body; a query *)
(* or a header that was sent more than once counts with its first value.   *)
(* A decoded JSON body is the function from its dotted paths to the text   *)
(* that stands there. An optional result is a sequence of length 0 or 1.   *)
(***************************************************************************)
EXTENDS MockInput, FiniteSetsExt, TLC

CONSTANTS
    Unescaped,      \* segments with percent escapes -> what PathUnescape makes of them
    Containing,     \* the pairs of texts of which the first contains the second
    Json            \* bodies that parse as JSON -> their values by path

Null == "null"

PathText(path) ==
    IF path = <<>> THEN "/" ELSE FoldLeft(LAMBDA text, s : text \o "/" \o s, "", path)

Lookup(F, x) == IF x \in DOMAIN F THEN <<F[x]>> ELSE <<>>

\* The member of s with the least, or the greatest, index of a set, if any.
FirstOf(s, S) == IF S = {} THEN <<>> ELSE <<s[Min(S)]>>
LastOf(s, S) == IF S = {} THEN <<>> ELSE <<s[Max(S)]>>

-----------------------------------------------------------------------------
(* Rules *)

\* A null counts as an empty text.
jsonPathValue(body, path) ==
    IF body \notin DOMAIN Json THEN <<>>
    ELSE Each(Lookup(Json[body], path), LAMBDA text : OrDefault(text, Null, ""))

conditionValue(c, req) ==
    CASE c.source = "method" -> <<req.method>>
      [] c.source = "path"   -> <<PathText(req.path)>>
      [] c.source = "query"  -> Lookup(req.query, c.key)
      [] c.source = "header" -> Lookup(req.header, c.key)
      [] c.source = "body"   -> jsonPathValue(req.body, c.key)
      [] OTHER               -> <<>>

conditionHolds(c, value) ==
    CASE c.operator = "exists"     -> value # <<>>
      [] c.operator = "equals"     -> value = <<c.value>>
      [] c.operator = "not_equals" -> value # <<c.value>>
      [] c.operator = "contains"   -> value # <<>> /\ <<value[1], c.value>> \in Containing
      [] OTHER                     -> FALSE

ruleMatches(rule, req) ==
    \A c \in Range(rule.conditions) : conditionHolds(c, conditionValue(c, req))

-----------------------------------------------------------------------------
(* Named variants *)

Served(variant, status, body, headers, contentType) ==
    [variant |-> variant, status |-> status, body |-> body, headers |-> headers,
     contentType |-> contentType]

\* The header, or else the query; a blank one is none.
requestedVariant(req) ==
    LET sent(F, key) == IF key \in DOMAIN F THEN TrimSpace(F[key]) ELSE ""
    IN OrDefault(sent(req.header, "x-quickmock-variant"), "", sent(req.query, "__quickmock_variant"))

Named(src, name) ==
    LET named == LastOf(src.variants, {i \in DOMAIN src.variants : src.variants[i].name = name})
    IN Each(named, LAMBDA v : Served(v.name, v.status, v.body, v.headers,
                                     OrDefault(v.contentType, "", src.contentType)))

Matching(rules, req) == FirstOf(rules, {i \in DOMAIN rules : ruleMatches(rules[i], req)})

\* Slip: a matching rule wins over the variant the request names.
pickConfiguredVariantRulesFirst(src, req) ==
    LET rule == Matching(src.rules, req) IN
    Named(src, IF rule # <<>> THEN rule[1].variant ELSE requestedVariant(req))

\* A request that names a variant the mock does not have gets no rule either.
pickConfiguredVariant(src, req) ==
    LET rule == Matching(src.rules, req) IN
    Named(src, IF requestedVariant(req) # "" THEN requestedVariant(req)
               ELSE IF rule # <<>> THEN rule[1].variant ELSE "")

-----------------------------------------------------------------------------
(* Routes *)

\* Trim takes the slashes off both ends; inside, an empty segment stays.
CleanPath(path) ==
    LET kept == {i \in DOMAIN path : path[i] # ""} IN
    IF kept = {} THEN <<>>
    ELSE Each(SubSeq(path, Min(kept), Max(kept)), LAMBDA s : Mapped(Unescaped, s))

routePathMatches(pattern, actual) ==
    LET p == CleanPath(pattern)
        a == CleanPath(actual)
    IN Len(p) = Len(a) /\ \A i \in DOMAIN p : p[i] \in Placeholder \/ p[i] = a[i]

methodMatches(mockMethod, requestMethod) == mockMethod \in {"ANY", requestMethod}

OnPath(routes, path) == {i \in DOMAIN routes : routePathMatches(routes[i].path, path)}

\* Slip: the first route on the path decides, whatever its method.
matchRouteFirstPath(routes, path, method) ==
    LET onPath == OnPath(routes, path)
        matching == {i \in onPath : i = Min(onPath) /\ methodMatches(routes[i].method, method)}
    IN [route |-> FirstOf(routes, matching), pathMatched |-> onPath # {}]

matchRoute(routes, path, method) ==
    LET onPath == OnPath(routes, path)
        matching == {i \in onPath : methodMatches(routes[i].method, method)}
    IN [route |-> FirstOf(routes, matching), pathMatched |-> onPath # {}]

-----------------------------------------------------------------------------
(* The responses of a mock without routes *)

Fails(m) == m.errorRate > 0 /\ m.error # <<>>

\* The roll is below the rate; the mock's own headers and content type stay.
ErrorServed(m) == Served("error", m.error[1].status, m.error[1].body, NoHeaders, "")

\* The mock's own response is the first step of the cycle.
SequenceServed(m, position) ==
    LET i == position % (Len(m.steps) + 1)
        variant == "seq-" \o ToString(i + 1)
    IN IF i = 0 THEN Served(variant, m.status, m.body, NoHeaders, "")
       ELSE Served(variant, m.steps[i].status, m.steps[i].body, m.steps[i].headers, "")

DefaultServed(src) == Served("default", src.status, src.body, src.headers, src.contentType)

\* Milliseconds: uniform up to the maximum, fixed without one.
effectiveDelay(minMS, maxMS) == IF maxMS > minMS THEN minMS .. maxMS ELSE {minMS}

=============================================================================
