----------------------------- MODULE MockRouter -----------------------------
(***************************************************************************)
(* One mock and what is served under its slug: Create and Update store a   *)
(* configuration that passes, and concurrent hits go through ServeHTTP of  *)
(* handler/mock_router.go, each with the row it read at the start. Hits    *)
(* share the sequence counter of the mock and the one behind {{seq}}. A    *)
(* row written before the present rules may be there from the start. The   *)
(* caller tracker is in Traffic, what becomes of a log entry in LogWriter; *)
(* that the counter may fail is in Traffic too.                            *)
(***************************************************************************)
EXTENDS ResponseTemplate

CONSTANTS
    Hit,            \* the hits that are under way or over
    Inputs,         \* what may be submitted, with its origin
    LegacyRows,     \* rows of earlier releases
    Requests,
    MockURL,        \* base URL and MountPath
    Long,           \* request bodies over 16 KB -> what is read of them
    None,
    MaxWrites       \* bound

ASSUME RouterConstants ==
    /\ None \notin Nat
    /\ \A in \in Inputs \cup LegacyRows : IsConfig(in)
    /\ reservedHeaders \cap DOMAIN Trimmed = {}     \* no name of these is padded

VARIABLES
    mock,       \* the row, or none
    writes,     \* the calls of Create and Update so far
    position,   \* SeqCounter for the mock's id
    tplPosition,    \* SeqCounter for <id>:tpl
    hit         \* each hit: see NewHit

vars == <<mock, writes, position, tplPosition, hit>>

NewHit ==
    [at |-> "new", req |-> None, m |-> None, src |-> None, served |-> None, route |-> None,
     step |-> None,     \* history: the position it took
     values |-> <<>>,   \* of its {{seq}} tokens, so far
     logged |-> None,   \* response_status of its log entry
     reply |-> <<>>]    \* what ServeHTTP wrote, if anything, as net/http sends it

Init ==
    /\ mock \in {None} \cup LegacyRows
    /\ writes = 0 /\ position = 0 /\ tplPosition = 0
    /\ hit = [h \in Hit |-> NewHit]

\* Create, or an authorized Update, which keeps the id and so the counters.
Save(in) ==
    /\ writes < MaxWrites
    /\ writes' = writes + 1
    /\ mock' = IF Verdict(in, in.creatorIP) = "stored" THEN Row(in) ELSE mock
    /\ UNCHANGED <<position, tplPosition, hit>>

-----------------------------------------------------------------------------
(* Replies *)

CORSHeaders ==
    [name \in {"access-control-allow-origin", "access-control-allow-methods",
               "access-control-allow-headers", "access-control-max-age"} |-> "preset"]

ProtectiveHeaders ==
    [name \in {"x-content-type-options", "content-security-policy", "x-frame-options",
               "referrer-policy", "cross-origin-resource-policy", "x-robots-tag"} |-> "server"]

\* Slip: the serve path trusts what is stored.
AllowedAsStored(headers) == headers

\* IsReservedResponseHeader and allowResponseHeader, again, for legacy rows.
Allowed(headers) ==
    [name \in {n \in DOMAIN headers :
                 /\ TrimSpace(n) \notin reservedHeaders
                 /\ n = "location" => SafeRedirectLocation(headers[n])} |-> headers[name]]

Overlay(f, g) == [x \in DOMAIN f \cup DOMAIN g |-> IF x \in DOMAIN f THEN f[x] ELSE g[x]]

Header(name, value) == [n \in {name} |-> value]

\* Without a value, without the header.
Optional(name, value) == IF value = "" THEN NoHeaders ELSE Header(name, value)

\* The server's own win over the content type, which wins over the step's or
\* the variant's, which win over the mock's.
ReplyHeaders(m, src, served, route) ==
    LET configured == Overlay(Allowed(served.headers), Allowed(src.headers))
        typed == Overlay(Optional("content-type", OrDefault(served.contentType, "", src.contentType)),
                         configured)
        shared == Overlay(IF m.cors THEN CORSHeaders ELSE NoHeaders, typed)
        named == Overlay(Optional("x-quickmock-route", route),
                         Overlay(Header("x-quickmock-variant", served.variant), shared))
    IN Overlay(ProtectiveHeaders, named)

Bare(status) == [status |-> status, headers |-> NoHeaders, body |-> <<>>]

\* net/http: an informational status but 101 is sent ahead, and the first Write
\* sends 200.
WireStatus(status) == IF status \in 100 .. 199 \ {101} THEN 200 ELSE status

\* net/http sends no body with these, whatever is written.
HasBody(status, method) == WireStatus(status) \notin {101, 204, 304} /\ method # "HEAD"

-----------------------------------------------------------------------------
(* ServeHTTP *)

Source(r) ==
    [status |-> r.status, body |-> r.body, headers |-> r.headers,
     contentType |-> r.contentType, variants |-> r.variants, rules |-> r.rules]

Finish(h, req, m, reply) ==
    hit' = [hit EXCEPT ![h] = [@ EXCEPT !.at = "over", !.req = req, !.m = m, !.reply = <<reply>>]]

Proceed(h, req, src, route) ==
    hit' = [hit EXCEPT ![h] = [@ EXCEPT !.at = "select", !.req = req, !.m = mock,
                                        !.src = src, !.route = route]]

\* Everything up to the choice of the response is the hit's own. Every error of
\* Get is answered 404: there may be no mock, or the database did not answer.
Receive(h, req0) ==
    LET req == [req0 EXCEPT !.body = Mapped(Long, @)]
        preflight == mock.cors /\ req.method = "OPTIONS"
        matched == matchRoute(mock.routes, req.path, req.method)
    IN
    /\ hit[h].at = "new"
    /\ \/ Finish(h, req, None, Bare(404))
       \/ mock # None /\ preflight /\ Finish(h, req, mock, [Bare(204) EXCEPT !.headers = CORSHeaders])
       \/ /\ mock # None /\ ~preflight /\ mock.routes = <<>>
          /\ IF methodMatches(mock.method, req.method) THEN Proceed(h, req, Source(mock), "")
             ELSE Finish(h, req, mock, [Bare(405) EXCEPT !.headers = Header("allow", mock.method)])
       \/ /\ mock # None /\ ~preflight /\ mock.routes # <<>>
          /\ IF matched.route # <<>>
             THEN Proceed(h, req, Source(matched.route[1]), PathText(matched.route[1].path))
             ELSE Finish(h, req, mock, Bare(IF matched.pathMatched THEN 405 ELSE 404))
    /\ UNCHANGED <<mock, writes, position, tplPosition>>

Choose(h, served, step) ==
    hit' = [hit EXCEPT ![h] = [@ EXCEPT !.at = "delay", !.served = served, !.step = step]]

\* A named variant, by request or by rule; or the roll, the sequence, the default.
Select(h) ==
    LET m == hit[h].m
        src == hit[h].src
        configured == pickConfiguredVariant(src, hit[h].req)
    IN
    /\ hit[h].at = "select"
    /\ \/ configured # <<>> /\ Choose(h, configured[1], None) /\ UNCHANGED position
       \/ configured = <<>> /\ m.routes # <<>> /\ Choose(h, DefaultServed(src), None) /\ UNCHANGED position
       \/ /\ configured = <<>> /\ m.routes = <<>> /\ Fails(m)
          /\ Choose(h, ErrorServed(m), None) /\ UNCHANGED position
       \/ /\ configured = <<>> /\ m.routes = <<>>
          /\ Fails(m) => m.errorRate < 100
          /\ IF m.steps = <<>> THEN Choose(h, DefaultServed(m), None) /\ UNCHANGED position
             ELSE Choose(h, SequenceServed(m, position), position) /\ position' = position + 1
    /\ UNCHANGED <<mock, writes, tplPosition>>

Logs(h, to, status) == hit' = [hit EXCEPT ![h] = [@ EXCEPT !.at = to, !.logged = status]]

Status(served) == OrDefault(served.status, 0, 200)

\* Slip: the entry carries the status that would have been sent.
HangUpLogsStatus(h) ==
    /\ hit[h].at = "delay"
    /\ effectiveDelay(hit[h].m.delay, hit[h].m.delayMax) # {0}
    /\ Logs(h, "over", Status(hit[h].served))
    /\ UNCHANGED <<mock, writes, position, tplPosition>>

\* The client is gone before the delay is over: logged, with no status.
HangUp(h) ==
    /\ hit[h].at = "delay"
    /\ effectiveDelay(hit[h].m.delay, hit[h].m.delayMax) # {0}
    /\ Logs(h, "over", 0)
    /\ UNCHANGED <<mock, writes, position, tplPosition>>

\* The entry is submitted before the response is written.
Submit(h) ==
    /\ hit[h].at = "delay"
    /\ Logs(h, "write", Status(hit[h].served))
    /\ UNCHANGED <<mock, writes, position, tplPosition>>

Takes(h, value) == hit' = [hit EXCEPT ![h].values = Append(@, value)]

Consumes(h) == Len(hit[h].values) < Cardinality(SeqTokens(Parse(hit[h].served.body)))

\* Slip: {{seq}} counts with the counter of the sequence.
TakeSeqShared(h) ==
    /\ hit[h].at = "write" /\ Consumes(h)
    /\ Takes(h, position + 1)
    /\ position' = position + 1
    /\ UNCHANGED <<mock, writes, tplPosition>>

\* Each {{seq}} of the body takes a value of its own, between those of other hits,
\* also of a body that is not sent.
TakeSeq(h) ==
    /\ hit[h].at = "write" /\ Consumes(h)
    /\ Takes(h, tplPosition + 1)
    /\ tplPosition' = tplPosition + 1
    /\ UNCHANGED <<mock, writes, position>>

Respond(h) ==
    LET served == hit[h].served
        Reply(choice) ==
            [status |-> WireStatus(Status(served)),
             headers |-> ReplyHeaders(hit[h].m, hit[h].src, served, hit[h].route),
             body |-> IF HasBody(Status(served), hit[h].req.method)
                      THEN RenderResponseBodyForRequest(served.body, hit[h].req, MockURL,
                                                        hit[h].values, choice)
                      ELSE <<>>]
    IN
    /\ hit[h].at = "write" /\ ~Consumes(h)
    /\ \E choice \in {0, 1} :
          hit' = [hit EXCEPT ![h] = [@ EXCEPT !.at = "over", !.reply = <<Reply(choice)>>]]
    /\ UNCHANGED <<mock, writes, position, tplPosition>>

Next ==
    \/ \E in \in Inputs : Save(in)
    \/ \E h \in Hit :
          \/ \E req \in Requests : Receive(h, req)
          \/ Select(h) \/ HangUp(h) \/ Submit(h) \/ TakeSeq(h) \/ Respond(h)

Spec == Init /\ [][Next]_vars

-----------------------------------------------------------------------------
(* Properties *)

AllHeaders(m) ==
    {m.headers} \cup {r.headers : r \in Range(m.steps)} \cup {v.headers : v \in Range(m.variants)}
    \cup UNION {{r.headers} \cup {v.headers : v \in Range(r.variants)} : r \in Range(m.routes)}

\* What Create and Update store can be served: every rule leads to one variant,
\* every route can be told from the others, the error response is there exactly
\* if it has a rate, and no header is reserved. And it is a fixed point: an
\* unchanged edit form passes validate and changes nothing, and the filters too,
\* unless they are shown another text than the first time.
StoredIsNormal ==
    mock # None /\ mock \notin LegacyRows =>
        /\ \A src \in {mock} \cup Range(mock.routes) :
              /\ src.status \in 100 .. 599
              /\ \A rule \in Range(src.rules) :
                    Cardinality({i \in DOMAIN src.variants : src.variants[i].name = rule.variant}) = 1
        /\ \A i, j \in DOMAIN mock.routes : i # j =>
              mock.routes[i].path # mock.routes[j].path \/ mock.routes[i].method # mock.routes[j].method
        /\ mock.error # <<>> <=> mock.errorRate > 0
        /\ \A h \in AllHeaders(mock) : DOMAIN h \cap reservedHeaders = {}
        /\ valid(mock) /\ Row(mock) = mock
        /\ \/ Verdict(mock, mock.creatorIP) = "stored"
           \/ \E in \in Inputs : Padded(in) /\ Row(in) = mock

\* Each hit that was answered, with its reply.
Answered(h) == hit[h].at = "over" /\ hit[h].reply # <<>>
ReplyTo(h) == hit[h].reply[1]

\* Of the routes, or of the mock's own response if it has none, those on the
\* request's path; and those of them that take its method.
OnPathOf(m, req) ==
    IF m.routes = <<>> THEN {m} ELSE {r \in Range(m.routes) : routePathMatches(r.path, req.path)}
AnsweringOf(m, req) == {r \in OnPathOf(m, req) : r.method \in {"ANY", req.method}}

\* The variant the request names; or else that of the first rule that matches.
Asked(src, req, name) ==
    IF requestedVariant(req) # "" THEN name = requestedVariant(req)
    ELSE \/ \E i \in DOMAIN src.rules :
               /\ ruleMatches(src.rules[i], req) /\ name = src.rules[i].variant
               /\ \A j \in DOMAIN src.rules : ruleMatches(src.rules[j], req) => i =< j
         \/ name = "" /\ \A i \in DOMAIN src.rules : ~ruleMatches(src.rules[i], req)

VariantServed(src, name, served) ==
    \E v \in Range(src.variants) :
        v.name = name /\ served.variant = name /\ served.status = v.status /\ served.body = v.body

\* The error response, the step of the position that was taken, or the default.
UnnamedServed(m, src, served, step) ==
    \/ m.routes = <<>> /\ Fails(m) /\ served = ErrorServed(m) /\ step = None
    \/ /\ m.routes = <<>> /\ (Fails(m) => m.errorRate < 100)
       /\ m.steps # <<>> /\ step # None /\ served = SequenceServed(m, step)
    \/ /\ m.routes = <<>> => m.steps = <<>> /\ (Fails(m) => m.errorRate < 100)
       /\ served = DefaultServed(src) /\ step = None

\* A hit gets what its mock, as it was read, says: 404 only if none was read, be
\* it that the lookup failed, or if no route is on the path, 405 only if no route
\* there has the method; the variant it names before any rule, the first rule that
\* matches before error rate, sequence and default; and a position of the sequence
\* is taken by its own hits only. For a name that no variant has this is the rule
\* of the code; the documentation's is UnknownVariantFallsBack.
RepliesAsConfigured ==
    \A h \in Hit : Answered(h) =>
        LET m == hit[h].m  req == hit[h].req  src == hit[h].src  served == hit[h].served IN
        IF m = None THEN ReplyTo(h).status = 404
        ELSE IF m.cors /\ req.method = "OPTIONS" THEN ReplyTo(h).status = 204
        ELSE IF AnsweringOf(m, req) = {}
        THEN ReplyTo(h).status = (IF OnPathOf(m, req) = {} THEN 404 ELSE 405)
        ELSE /\ \E r \in AnsweringOf(m, req) : src = Source(r)
             /\ \E name \in {requestedVariant(req), ""} \cup {rule.variant : rule \in Range(src.rules)} :
                   /\ Asked(src, req, name)
                   /\ IF \E v \in Range(src.variants) : v.name = name
                      THEN VariantServed(src, name, served) /\ hit[h].step = None
                      ELSE UnnamedServed(m, src, served, hit[h].step)
             /\ ReplyTo(h).status = WireStatus(Status(served))

\* What stands for a token that no braces surround, or that stands in them.
StandsFor(p, value, choice) ==
    CASE p.kind \in {"faker", "now"} -> FakerOrNow(p)
      [] p.kind = "pick" -> Text(Words(Each(p.options[(choice % Len(p.options)) + 1], FakerOrNow)))
      [] p.kind = "seq" -> Text(ToString(value))
      [] OTHER -> p

\* The inner tokens of a piece, if it has any, come first: what they stand for is
\* part of the name of the outer one.
Completed(pieces, i, values, choice) ==
    LET inside == Inside(pieces[i]) IN
    IF pieces[i].kind = "braces"
    THEN Reread([j \in DOMAIN inside |->
                    StandsFor(inside[j], values[Number(pieces, <<i, j>>)], choice)])
    ELSE StandsFor(pieces[i], values[Number(pieces, <<i, 0>>)], choice)

\* What stands for the i-th piece of a body; the words of the request are what
\* they are.
Expansion(pieces, i, req, values, choice) ==
    LET p == Completed(pieces, i, values, choice) IN
    CASE p.kind = "request" -> RequestValue(p, req)
      [] p = MockToken("url") /\ MockURL # "" -> <<Text(MockURL)>>
      [] OTHER -> <<p>>

\* A hit that is served from its configuration takes one value for each {{seq}},
\* wherever it stands, and shows or uses each, unless the reply has no body: then
\* they are lost. Each piece of the body is expanded on its own and from the inside
\* to the outside, although the four passes go over the whole: an inner token may
\* complete one of mock or request, which later passes look for, and no other; and
\* what the caller sent stays as it was sent, whatever tokens it looks like.
BodiesInsideOut ==
    \A h \in Hit : Answered(h) /\ hit[h].served # None =>
        LET pieces == Parse(hit[h].served.body) IN
        /\ Len(hit[h].values) = Cardinality(SeqTokens(pieces))
        /\ IF ReplyTo(h).status \in {101, 204, 304} \/ hit[h].req.method = "HEAD"
           THEN ReplyTo(h).body = <<>>
           ELSE \E choice \in {0, 1} :
                   ReplyTo(h).body = FlattenSeq([i \in DOMAIN pieces |->
                       Expansion(pieces, i, hit[h].req, hit[h].values, choice)])

\* No mock, of whatever release, sets a header that is the server's: the reserved
\* ones are absent or the server's own, CORS only as the mock's switch says, and
\* a redirect stays on this site.
ServerOwnsHeaders ==
    \A h \in Hit : Answered(h) =>
        LET headers == ReplyTo(h).headers IN
        /\ \A name \in DOMAIN headers \cap reservedHeaders :
              \/ name \in DOMAIN ProtectiveHeaders /\ headers[name] = "server"
              \/ name \in DOMAIN CORSHeaders /\ headers[name] = "preset" /\ hit[h].m.cors
        /\ "location" \in DOMAIN headers => SafeRedirectLocation(headers["location"])
        /\ hit[h].served # None => DOMAIN ProtectiveHeaders \subseteq DOMAIN headers

Informational(status) == status \in 100 .. 199

\* A hit that is logged is logged with the status that was written for it, and
\* with 0 exactly if none was; an informational status apart. (Whether a client
\* that left without or after the delay was still there to read it is not known.)
LoggedIsWritten ==
    \A h \in Hit : hit[h].at = "over" /\ hit[h].logged # None =>
        IF hit[h].logged = 0 THEN hit[h].reply = <<>>
        ELSE /\ hit[h].reply # <<>>
             /\ hit[h].logged = ReplyTo(h).status \/ Informational(hit[h].logged)

\* The sequence: each position goes to one hit, in the order of its choice, and
\* to no hit that an error, a variant or a route answered; the tokens {{seq}}
\* count on their own, from 1 and without a gap.
SequenceCycles ==
    LET steps == {h \in Hit : hit[h].step # None}
        values == UNION {Range(hit[h].values) : h \in Hit}
    IN /\ {hit[h].step : h \in steps} = 0 .. position - 1 /\ Cardinality(steps) = position
       /\ \A h \in steps :
             hit[h].served.variant = "seq-" \o ToString((hit[h].step % (Len(hit[h].m.steps) + 1)) + 1)
       /\ values = 1 .. tplPosition

\* "an unknown name falls back to normal matching": locales/en.json, of the
\* variants. Violated where a rule matches a hit that names an unknown variant.
UnknownVariantFallsBack ==
    \A h \in Hit : Answered(h) /\ hit[h].served # None =>
        LET src == hit[h].src
            rule == Matching(src.rules, hit[h].req)
        IN rule # <<>> /\ ~ (\E v \in Range(src.variants) : v.name = requestedVariant(hit[h].req))
              => hit[h].served.variant = rule[1].variant

\* "the status recorded has to be the status actually written": ServeHTTP.
\* Violated by a mock with an informational status, which validate accepts.
StatusRecorded ==
    \A h \in Hit : Answered(h) /\ hit[h].logged # None => hit[h].logged = ReplyTo(h).status

=============================================================================
