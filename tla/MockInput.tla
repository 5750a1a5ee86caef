------------------------------ MODULE MockInput ------------------------------
(***************************************************************************)
(* What a mock's configuration has to pass before it is stored:            *)
(* service.validate, which also normalizes it, the spam filter and the     *)
(* payment rule, as Create and Update call them.                           *)
(*                                                                         *)
(* A text is a string of the instance, and the constants say what the      *)
(* patterns and conversions of the code make of it; all texts are in their *)
(* canonical letter case. A path is the sequence of its segments, "" where *)
(* two slashes meet. Headers are functions from names to values, an absent *)
(* error response is the empty sequence. The cut of a long name is left    *)
(* out, and so is the length of paths.                                     *)
(***************************************************************************)
EXTENDS Integers, Sequences, SequencesExt, Functions, FiniteSets

CONSTANTS
    Trimmed,        \* padded texts -> what TrimSpace makes of them
    Malformed,      \* texts that no pattern for names, slugs or segments accepts
    Placeholder,    \* the segments in braces
    LargeText,      \* bodies longer than QUICKMOCK_MAX_BODY
    RelativePath,   \* header values that SafeRedirectLocation accepts
    WithControls,   \* header values with a control character
    SpamText,       \* texts that match a spam pattern
    Allowlisted,    \* creators the spam filter lets pass
    X402Text,       \* texts that contain x402Version
    NetworksIn,     \* texts -> the networks they name as JSON
    Base64,         \* texts -> what they decode to
    Testnet,        \* the networks isX402Testnet knows
    MaxTTL, MaxDelay, MaxSequenceSteps, MaxNamedVariants, MaxResponseRules,
    MaxRuleConditions, MaxMockRoutes

\* TrimSpace leaves nothing to trim; no pattern accepts a padded text; what is
\* left of a text has no control character that the text had not.
ASSUME TextConstants ==
    /\ \A text \in DOMAIN Trimmed : Trimmed[text] \notin DOMAIN Trimmed
    /\ DOMAIN Trimmed \subseteq Malformed
    /\ \A text \in DOMAIN Trimmed \ WithControls : Trimmed[text] \notin WithControls

-----------------------------------------------------------------------------
(* The structs of model/mock.go *)

ConfigFields ==
    {"slug", "name", "method", "status", "body", "headers", "delay", "delayMax", "ttl",
     "errorRate", "error", "steps", "variants", "rules", "routes", "contentType", "pathSuffix",
     "cors", "creatorIP"}
RouteFields == {"name", "method", "path", "status", "body", "headers", "contentType",
                "variants", "rules"}
StepFields == {"status", "body", "headers"}
VariantFields == {"name", "status", "body", "headers", "contentType"}
RuleFields == {"variant", "conditions"}
ConditionFields == {"source", "key", "operator", "value"}

IsList(s) == s \in Seq(Range(s))

IsListOf(s, fields) == IsList(s) /\ \A x \in Range(s) : DOMAIN x = fields

HasResponses(src) ==
    /\ IsListOf(src.variants, VariantFields) /\ IsListOf(src.rules, RuleFields)
    /\ \A rule \in Range(src.rules) : IsListOf(rule.conditions, ConditionFields)

IsConfig(in) ==
    /\ DOMAIN in = ConfigFields /\ HasResponses(in) /\ IsList(in.pathSuffix)
    /\ IsListOf(in.error, StepFields) /\ IsListOf(in.steps, StepFields)
    /\ IsListOf(in.routes, RouteFields)
    /\ \A r \in Range(in.routes) : HasResponses(r) /\ IsList(r.path)

-----------------------------------------------------------------------------

Method == {"GET", "POST", "PUT", "PATCH", "DELETE", "ANY"}

Mapped(F, x) == IF x \in DOMAIN F THEN F[x] ELSE x

TrimSpace(text) == Mapped(Trimmed, text)

Each(s, Op(_)) == [i \in DOMAIN s |-> Op(s[i])]

\* The members of a finite set of numbers, the least first.
Rank(S, i) == Cardinality({j \in S : j =< i})
InOrder(S) == [k \in 1 .. Cardinality(S) |-> CHOOSE i \in S : Rank(S, i) = k]

\* The segments that are not empty, in their order.
NonEmpty(path) ==
    LET kept == InOrder({i \in DOMAIN path : path[i] # ""})
    IN [k \in DOMAIN kept |-> path[kept[k]]]

First(s) == IF s = <<>> THEN <<>> ELSE <<s[1]>>

NoHeaders == [name \in {} |-> ""]

-----------------------------------------------------------------------------
(* Headers *)

reservedHeaders ==
    {"content-length", "transfer-encoding", "connection", "set-cookie", "set-cookie2",
     "strict-transport-security", "public-key-pins", "public-key-pins-report-only",
     "content-security-policy", "content-security-policy-report-only", "x-frame-options",
     "x-content-type-options", "referrer-policy", "permissions-policy", "clear-site-data",
     "service-worker-allowed", "access-control-allow-origin",
     "access-control-allow-credentials", "access-control-allow-methods",
     "access-control-allow-headers", "access-control-expose-headers",
     "access-control-max-age", "cross-origin-opener-policy",
     "cross-origin-embedder-policy", "cross-origin-resource-policy"}

\* SafeRedirectLocation trims before it looks.
SafeRedirectLocation(value) == TrimSpace(value) \in RelativePath

validHeaderMap(h) ==
    \A name \in DOMAIN h :
        /\ name \notin Malformed \cup {""}
        /\ h[name] \notin WithControls
        /\ name = "location" => SafeRedirectLocation(h[name])

\* Which of two names that only differ in their padding wins is up to the map;
\* no instance has two.
cleanHeaders(h) ==
    LET kept == {name \in DOMAIN h : TrimSpace(name) \notin reservedHeaders \cup {""}} IN
    [k \in {TrimSpace(name) : name \in kept} |->
        TrimSpace(h[CHOOSE name \in kept : TrimSpace(name) = k])]

-----------------------------------------------------------------------------
(* Responses, variants and rules *)

ValidStatus(status) == status = 0 \/ status \in 100 .. 599

OrDefault(value, none, default) == IF value = none THEN default ELSE value

validStep(step) == ValidStatus(step.status) /\ step.body \notin LargeText

\* Slip: a rule may name a variant that does not exist.
validRulesUnresolved(rules, names) ==
    /\ Len(rules) =< MaxResponseRules
    /\ \A rule \in Range(rules) : Len(rule.conditions) \in 1 .. MaxRuleConditions

validRules(rules, names) ==
    /\ Len(rules) =< MaxResponseRules
    /\ \A rule \in Range(rules) :
          /\ rule.variant \in names
          /\ Len(rule.conditions) \in 1 .. MaxRuleConditions
          /\ \A c \in Range(rule.conditions) :
                /\ TrimSpace(c.source) \in {"method", "path", "query", "header", "body"}
                /\ TrimSpace(c.operator) \in {"equals", "not_equals", "contains", "exists"}
                /\ TrimSpace(c.source) \in {"query", "header", "body"} => TrimSpace(c.key) # ""

validResponseConfig(variants, rules) ==
    /\ Len(variants) =< MaxNamedVariants
    /\ \A v \in Range(variants) :
          /\ TrimSpace(v.name) \notin Malformed \cup {""}
          /\ validStep(v) /\ validHeaderMap(cleanHeaders(v.headers))
    /\ IsInjective(Each(variants, LAMBDA v : TrimSpace(v.name)))
    /\ validRules(rules, {TrimSpace(v.name) : v \in Range(variants)})

NormalVariants(variants) ==
    Each(variants, LAMBDA v : [v EXCEPT !.name = TrimSpace(@), !.status = OrDefault(@, 0, 200),
                                        !.headers = cleanHeaders(@)])

NormalRules(rules) ==
    LET condition(c) == [c EXCEPT !.source = TrimSpace(@), !.operator = TrimSpace(@),
                                  !.key = TrimSpace(@)]
    IN Each(rules, LAMBDA r : [r EXCEPT !.conditions = Each(@, condition)])

-----------------------------------------------------------------------------
(* Routes *)

normalizeRoutePath(path) == NonEmpty(path)

validRoutePath(path) == \A segment \in Range(path) : segment \notin Malformed

NormalRoute(r) ==
    [r EXCEPT !.path = normalizeRoutePath(@), !.status = OrDefault(@, 0, 200),
              !.contentType = OrDefault(@, "", "application/json"),
              !.headers = cleanHeaders(@),
              !.variants = NormalVariants(@), !.rules = NormalRules(@)]

validRoutes(routes) ==
    /\ Len(routes) =< MaxMockRoutes
    /\ \A r \in Range(routes) :
          /\ r.method \in Method /\ validRoutePath(normalizeRoutePath(r.path))
          /\ validStep(r) /\ validHeaderMap(cleanHeaders(r.headers))
          /\ validResponseConfig(r.variants, r.rules)
    /\ IsInjective(Each(routes, LAMBDA r : <<r.method, normalizeRoutePath(r.path)>>))

-----------------------------------------------------------------------------
(* The whole input *)

validErrorResponse(in) ==
    in.errorRate # 0 =>
        /\ in.error # <<>>
        /\ validStep(in.error[1]) /\ validHeaderMap(in.error[1].headers)

valid(in) ==
    /\ TrimSpace(in.slug) \notin Malformed
    /\ in.method \in Method
    /\ validStep(in) /\ validHeaderMap(in.headers)
    /\ in.delay \in 0 .. MaxDelay
    /\ in.delayMax # 0 => in.delayMax \in in.delay .. MaxDelay
    /\ MaxTTL > 0 => in.ttl =< MaxTTL
    /\ \A segment \in Range(NonEmpty(in.pathSuffix)) : segment \notin Malformed \cup Placeholder
    /\ in.errorRate \in 0 .. 100 /\ validErrorResponse(in)
    /\ Len(in.steps) =< MaxSequenceSteps
    /\ \A s \in Range(in.steps) : validStep(s) /\ validHeaderMap(cleanHeaders(s.headers))
    /\ validResponseConfig(in.variants, in.rules)
    /\ validRoutes(in.routes)

\* What validate leaves behind: a step's headers are cleaned, those of the error
\* response dropped, as it serves the mock's; a rate of 0 drops all of it.
Normal(in) ==
    [in EXCEPT
        !.slug = TrimSpace(@),
        !.status = OrDefault(@, 0, 200),
        !.contentType = OrDefault(@, "", "text/plain; charset=utf-8"),
        !.pathSuffix = IF in.routes = <<>> THEN NonEmpty(@) ELSE <<>>,
        !.error = IF in.errorRate = 0 THEN <<>>
                  ELSE Each(@, LAMBDA s : [s EXCEPT !.status = OrDefault(@, 0, 500),
                                                    !.headers = NoHeaders]),
        !.steps = Each(@, LAMBDA s : [s EXCEPT !.status = OrDefault(@, 0, 200),
                                               !.headers = cleanHeaders(@)]),
        !.variants = NormalVariants(@),
        !.rules = NormalRules(@),
        !.routes = Each(@, NormalRoute)]

-----------------------------------------------------------------------------
(* The filters, which see the normalized input *)

Values(h) == {h[name] : name \in DOMAIN h}

Responses(s) == UNION {{r.body} \cup Values(r.headers) : r \in Range(s)}

contentFields(in) ==
    {in.name, in.body} \cup Range(in.pathSuffix) \cup Values(in.headers)
    \cup Responses(in.error) \cup Responses(in.steps) \cup Responses(in.variants)
    \cup Responses(in.routes)
    \cup UNION {{r.name} \cup Range(r.path) \cup Responses(r.variants) : r \in Range(in.routes)}

SpamBlocked(in, creatorIP) ==
    creatorIP \notin Allowlisted /\ contentFields(in) \cap SpamText # {}

x402HeaderMaps(in) ==
    {in.headers} \cup {r.headers : r \in Range(in.error \o in.steps) \cup Range(in.variants)}
    \cup {r.headers : r \in Range(in.routes)}
    \cup UNION {{v.headers : v \in Range(r.variants)} : r \in Range(in.routes)}

PaymentHeader == {"payment-required", "payment-response", "x-payment-response"}

PaymentValues(in) ==
    UNION {{h[name] : name \in DOMAIN h \cap PaymentHeader} : h \in x402HeaderMaps(in)}

x402Networks(text) == IF text \in DOMAIN NetworksIn THEN NetworksIn[text] ELSE {}

Discovery(path) ==
    \E i \in 1 .. Len(path) - 1 : path[i] = ".well-known" /\ path[i + 1] = "x402"

isX402(in) ==
    \/ contentFields(in) \cap X402Text # {}
    \/ PaymentValues(in) # {}
    \/ \E path \in {in.pathSuffix} \cup {r.path : r \in Range(in.routes)} : Discovery(path)

decodeX402Base64(text) == IF text \in DOMAIN Base64 THEN Base64[text] ELSE ""

paymentRequestBlocked(in) ==
    /\ isX402(in)
    /\ ~ (UNION {x402Networks(text) : text \in contentFields(in)}
            \cup UNION {x402Networks(decodeX402Base64(v)) : v \in PaymentValues(in)})
         \subseteq Testnet

\* The filters see a name and its header values as they were submitted, the row
\* has them trimmed.
Padded(in) == ({in.name} \cup Values(in.headers)) \cap DOMAIN Trimmed # {}

-----------------------------------------------------------------------------
(* Create and Update *)

Verdict(in, creatorIP) ==
    IF ~valid(in) THEN "validation_failed"
    ELSE IF SpamBlocked(Normal(in), creatorIP) THEN "spam_blocked"
    ELSE IF paymentRequestBlocked(Normal(in)) THEN "payment_blocked"
    ELSE "stored"

Row(in) == LET m == Normal(in) IN [m EXCEPT !.name = TrimSpace(@), !.headers = cleanHeaders(@)]

=============================================================================
