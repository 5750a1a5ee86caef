-------------------------- MODULE ResponseTemplate --------------------------
(***************************************************************************)
(* service/template.go: the tokens of a response body, which four passes   *)
(* replace one after the other. A body is the sequence of its pieces, a    *)
(* piece is plain text or a token; Parse gives the pieces of a text. What  *)
(* a token from the request stands for is a text as well, and may contain  *)
(* what looks like tokens. Tokens may also stand between the braces of     *)
(* another one, {{request.query.{{seq}}}}: such a piece becomes a token    *)
(* for the later passes once the earlier ones have made text of the inner. *)
(***************************************************************************)
EXTENDS ResponseSelection

CONSTANTS
    Template,       \* texts that contain tokens -> their pieces
    MountPath       \* /m/<slug>

Piece(kind, value) == [kind |-> kind, value |-> value, key |-> "", options |-> <<>>]
PieceFields == {"kind", "value", "key", "options"}
Text(value) == Piece("text", value)
Faker(name) == Piece("faker", name)
Now(name) == Piece("now", name)
SeqToken == Piece("seq", "")
MockToken(name) == Piece("mock", name)
RequestToken(part, key) == [Piece("request", part) EXCEPT !.key = key]
Pick(options) == [Piece("pick", "") EXCEPT !.options = options]

\* Braces with pieces in between. Nothing but text, faker, now, pick and seq can
\* stand there: around the address of the mock, which has slashes, around what
\* comes from the request or around other braces, no pattern of a later pass
\* matches, and the outer braces are plain text.
Braces(inside) == [Piece("braces", "") EXCEPT !.options = <<inside>>]

Parse(text) == IF text \in DOMAIN Template THEN Template[text] ELSE <<Text(text)>>

-----------------------------------------------------------------------------
(* faker.* and now.* *)

SupportedTokens ==
    {<<"faker", name>> : name \in
        {"name", "firstname", "lastname", "username", "email", "phone", "url", "ipv4",
         "uuid", "int", "bool", "word", "sentence", "color", "company", "city", "price",
         "lorem"}}
    \cup {<<"now", name>> : name \in {"iso8601", "unix", "unix_ms", "date", "time", "rfc1123"}}

\* What a token makes up is plain text, free of quotes and braces: its name
\* stands for all of it.
FakerOrNow(piece) ==
    IF <<piece.kind, piece.value>> \in SupportedTokens THEN [piece EXCEPT !.kind = "text"] ELSE piece

\* The pass does not know of picks: it goes through their options too.
Made(p) ==
    IF p.kind = "pick" THEN [p EXCEPT !.options = Each(p.options, LAMBDA o : Each(o, FakerOrNow))]
                       ELSE FakerOrNow(p)

Generated(pieces) ==
    Each(pieces, LAMBDA p :
        IF p.kind = "braces" THEN [p EXCEPT !.options = <<Each(p.options[1], Made)>>] ELSE Made(p))

\* An option list is only matched when the first pass leaves no braces in it. If it
\* leaves some, random.pick and what is around its tokens is plain text.
PickIsMatched(p) ==
    /\ p.options # <<>> /\ IsList(p.options)
    /\ \A o \in Range(p.options) : \A q \in Range(o) : FakerOrNow(q).kind = "text"

BracesAreMatched(p) ==
    /\ Len(p.options) = 1 /\ IsListOf(p.options[1], PieceFields)
    /\ \A q \in Range(p.options[1]) :
          IF q.kind = "pick" THEN PickIsMatched(q) ELSE FakerOrNow(q).kind \in {"text", "seq"}

ASSUME TemplateConstants ==
    \A text \in DOMAIN Template :
        /\ IsListOf(Template[text], PieceFields)
        /\ \A p \in Range(Template[text]) :
              /\ p.kind = "pick" => PickIsMatched(p)
              /\ p.kind = "braces" => BracesAreMatched(p)

-----------------------------------------------------------------------------
(* random.pick and seq *)

Inside(p) == IF p.kind = "braces" THEN p.options[1] ELSE <<>>

SeqIn(pieces) == {i \in DOMAIN pieces : pieces[i].kind = "seq"}

\* Where the {{seq}} are: <<i, 0>> is the i-th piece, <<i, j>> the j-th inside it.
SeqTokens(pieces) ==
    {<<i, 0>> : i \in SeqIn(pieces)}
    \cup UNION {{<<i, j>> : j \in SeqIn(Inside(pieces[i]))} : i \in DOMAIN pieces}

\* As many as there are up to a place.
Number(pieces, place) ==
    Cardinality({s \in SeqTokens(pieces) :
                   \/ s[1] < place[1]
                   \/ s[1] = place[1] /\ s[2] =< place[2]})

Words(pieces) == FoldLeft(LAMBDA text, p : text \o p.value, "", pieces)

\* The k-th {{seq}} gets the k-th of the values that were taken, and a pick any of
\* its options.
Extra(p, value, choice) ==
    CASE p.kind = "seq"  -> Text(ToString(value))
      [] p.kind = "pick" -> Text(Words(p.options[(choice % Len(p.options)) + 1]))
      [] OTHER -> p

\* What the passes to come find where only text is left between two braces.
Reread(inside) ==
    LET whole == "{{" \o Words(inside) \o "}}" IN
    IF Len(Parse(whole)) = 1 THEN Parse(whole)[1] ELSE Text(whole)

substituteExtraTokens(pieces, values, choice) ==
    [i \in DOMAIN pieces |->
        LET inside == Inside(pieces[i]) IN
        IF pieces[i].kind = "braces"
        THEN Reread([j \in DOMAIN inside |->
                        Extra(inside[j], values[Number(pieces, <<i, j>>)], choice)])
        ELSE Extra(pieces[i], values[Number(pieces, <<i, 0>>)], choice)]

-----------------------------------------------------------------------------
(* mock.url and request.* *)

substituteMockTokens(pieces, mockURL) ==
    Each(pieces, LAMBDA p : IF p = MockToken("url") /\ mockURL # "" THEN Text(mockURL) ELSE p)

\* Null keeps its JSON text here; an absent value leaves the token alone.
RequestValue(piece, req) ==
    LET value ==
        CASE piece.value = "method" -> <<req.method>>
          [] piece.value = "path"   -> <<MountPath \o (IF req.path = <<>> THEN "" ELSE PathText(req.path))>>
          [] piece.value = "host"   -> SelectSeq(<<req.host>>, LAMBDA text : text # "")
          [] piece.value = "ip"     -> <<req.ip>>
          [] piece.value = "body" /\ piece.key = "" -> <<req.body>>
          [] piece.value = "query"  -> Lookup(req.query, piece.key)
          [] piece.value = "header" -> SelectSeq(Lookup(req.header, piece.key), LAMBDA text : text # "")
          [] piece.value = "body" /\ req.body \in DOMAIN Json -> Lookup(Json[req.body], piece.key)
          [] OTHER -> <<>>
    IN IF value = <<>> THEN <<piece>> ELSE Parse(value[1])

substituteRequestTokens(pieces, req) ==
    FlattenSeq(Each(pieces, LAMBDA p : IF p.kind = "request" THEN RequestValue(p, req) ELSE <<p>>))

-----------------------------------------------------------------------------
(* All four *)

\* Slip: the request's values go in first, and what they contain is expanded.
RenderRequestFirst(body, req, mockURL, values, choice) ==
    substituteMockTokens(
        substituteExtraTokens(Generated(substituteRequestTokens(Parse(body), req)), values, choice),
        mockURL)

RenderResponseBodyForRequest(body, req, mockURL, values, choice) ==
    substituteRequestTokens(
        substituteMockTokens(
            substituteExtraTokens(Generated(Parse(body)), values, choice), mockURL), req)

=============================================================================
