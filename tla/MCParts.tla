------------------------------- MODULE MCParts -------------------------------
(***************************************************************************)
(* Three parts of the server that share no state, checked side by side     *)
(* instead of interleaved: the migrations of a deployment, the cache of    *)
(* the counters, and the mock router with what it serves.                  *)
(***************************************************************************)
EXTENDS Migrations, StatsCache, OpenAPIImport

CONSTANTS m1, m2, v1, v2

VARIABLE part       \* the one that runs

MCProcess == {m1, m2}
MCView == {v1, v2}

-----------------------------------------------------------------------------
(* The texts of the instance *)

MCTrimmed == (" missing " :> "missing") @@ (" x-pad " :> "x-pad") @@ (" " :> "")
MCMalformed == {" missing ", " x-pad ", " ", "a b", "%34%32"}
MCPlaceholder == {"{id}"}
MCLargeText == {"large"}
MCRelativePath == {"/m/next"}
MCWithControls == {"cr lf"}
MCSpamText == {"buy now"}
MCAllowlisted == {"friend"}
MCX402Text == {"x402Version: 1, network: base"}
MCNetworksIn == ("x402Version: 1, network: base" :> {"base"})
                @@ ("network: base" :> {"base"}) @@ ("network: base-sepolia" :> {"base-sepolia"})
MCBase64 == ("b64 mainnet" :> "network: base") @@ ("b64 testnet" :> "network: base-sepolia")
MCTestnet == {"base-sepolia"}
MCUnescaped == ("%34%32" :> "42")
MCContaining == {<<"{{now.unix}}", "now">>}
MCJson == ("{user: {name: null}, n: 1}" :> (("user" :> "{name: null}") @@ ("user.name" :> "null") @@ ("n" :> "1")))
MCTemplate ==
    ("{{now.unix}}" :> <<Now("unix")>>)
    @@ ("{{seq}} of {{seq}}" :> <<SeqToken, Text(" of "), SeqToken>>)
    @@ ("all tokens" :> <<Faker("name"), Faker("nobody"), Text(", "), MockToken("url"),
                          Pick(<< <<Faker("city")>>, <<Text("b")>> >>), SeqToken,
                          RequestToken("query", "id"), RequestToken("body", "user.name"),
                          RequestToken("path", ""), RequestToken("header", "x-absent"),
                          Braces(<<Text("request.query."), SeqToken>>),
                          Braces(<<Text("mock."), Pick(<< <<Text("url")>>, <<Text("x")>> >>)>>),
                          Braces(<<Text("se"), Pick(<< <<Text("q")>> >>)>>),
                          Braces(<<Text("request.query."), Faker("word")>>)>>)
    @@ ("{{request.query.2}}" :> <<RequestToken("query", "2")>>)
    @@ ("{{request.query.word}}" :> <<RequestToken("query", "word")>>)
    @@ ("{{mock.url}}" :> <<MockToken("url")>>) @@ ("{{mock.x}}" :> <<MockToken("x")>>)
    @@ ("{{seq}}" :> <<SeqToken>>)
MCLong == ("long" :> "long, cut")

-----------------------------------------------------------------------------
(* Inputs *)

Plain ==
    [slug |-> "", name |-> "", method |-> "ANY", status |-> 0, body |-> "plain",
     headers |-> NoHeaders, delay |-> 0, delayMax |-> 0, ttl |-> 0, errorRate |-> 0,
     error |-> <<>>, steps |-> <<>>, variants |-> <<>>, rules |-> <<>>, routes |-> <<>>,
     contentType |-> "", pathSuffix |-> <<>>, cors |-> FALSE, creatorIP |-> "someone"]

Reply(status, body, headers) == [status |-> status, body |-> body, headers |-> headers]

Variant(name, status, headers) ==
    [name |-> name, status |-> status, body |-> "of a variant", headers |-> headers, contentType |-> ""]

Rule(variant, source, key, operator, text) ==
    [variant |-> variant,
     conditions |-> <<[source |-> source, key |-> key, operator |-> operator, value |-> text]>>]

Route(method, path, status) ==
    [name |-> "", method |-> method, path |-> path, status |-> status, body |-> "of a route",
     headers |-> NoHeaders, contentType |-> "", variants |-> <<>>, rules |-> <<>>]

Ruled == [Plain EXCEPT
    !.variants = <<Variant(" missing ", 404, "x-pad" :> "v"), Variant("other", 0, NoHeaders)>>,
    !.rules = <<Rule("other", "query", "id", "equals", "0"),
                Rule("missing", "body", "user.name", "exists", "")>>]

Flaky == [Plain EXCEPT
    !.errorRate = 50, !.error = <<Reply(0, "broken", "x-dropped" :> "v")>>, !.delayMax = 5,
    !.steps = <<Reply(0, "{{seq}} of {{seq}}", "set-cookie" :> "c"), Reply(503, "third", NoHeaders)>>]

Workspace == [Plain EXCEPT
    !.pathSuffix = <<"label">>,
    !.routes = <<Route("GET", <<"users", "", "{id}", "">>, 0),
                 [Route("POST", <<"users", "{id}">>, 201) EXCEPT
                     !.variants = <<Variant("missing", 404, NoHeaders)>>],
                 [Route("ANY", <<"users", "42">>, 204) EXCEPT !.body = "{{seq}} of {{seq}}"]>>]

Operation(path, method, responses) ==
    [path |-> path, method |-> method, name |-> "", responses |-> responses]

Document ==
    LET body(schema) == <<[type |-> "application/json", example |-> "", examples |-> <<>>,
                           schema |-> <<schema>>]>>
    IN <<Operation(<<"users">>, "GET", (101 :> <<>>) @@ (200 :> body("list")) @@ (404 :> <<>>)),
         Operation(<<"users">>, "TRACE", 200 :> <<>>),
         Operation(<<"users", "{id}">>, "POST", (0 :> <<>>) @@ (500 :> body("flag")))>>

\* Two operations that a path fits, and one beyond the cap.
Crowded ==
    <<Operation(<<"">>, "GET", (404 :> <<>>) @@ (500 :> <<>>)),
      Operation(<<"">>, "HEAD", 200 :> <<>>),
      Operation(<<"users", "", "{id}">>, "GET", 0 :> <<>>),
      Operation(<<"users", "42">>, "GET", (204 :> <<>>) @@ (200 :> <<>>)),
      Operation(<<"widgets">>, "GET", 200 :> <<>>)>>

MCDocuments == {Document, Crowded}

MCStatusName == [s \in 100 .. 599 |-> "status-" \o ToString(s)]

\* Trees of trees, cut off at the greatest depth.
MCSchemas ==
    LET schema(type, ref, parts) ==
            [type |-> type, ref |-> ref, parts |-> parts, example |-> "", enum |-> <<>>]
    IN ("list" :> schema("array", "", <<"Tree">>)) @@ ("flag" :> schema("boolean", "", <<>>))
       @@ ("Tree" :> schema("object", "", <<"child">>)) @@ ("child" :> schema("", "Tree", <<>>))

Import(document) == [Plain EXCEPT !.routes = ParseOpenAPI(document)]

Good ==
    {Plain, Ruled, Flaky, Workspace, Import(Document), Import(Crowded),
     [Plain EXCEPT !.method = "GET", !.cors = TRUE, !.headers = ("x-a" :> "v") @@ ("set-cookie" :> "c")
                                     @@ ("content-security-policy" :> "none")],
     [Plain EXCEPT !.body = "all tokens", !.headers = "location" :> "/m/next"],
     [Plain EXCEPT !.status = 103],
     [Ruled EXCEPT !.creatorIP = "friend", !.name = "buy now"],
     [Plain EXCEPT !.headers = "payment-required" :> "b64 testnet"]}

Bad ==
    {[Ruled EXCEPT !.rules[1].variant = "absent"],
     [Workspace EXCEPT !.routes[2].method = "GET"],
     [Plain EXCEPT !.headers = "location" :> "https://elsewhere"],
     [Flaky EXCEPT !.error = <<>>],
     [Ruled EXCEPT !.name = "buy now"],
     [Ruled EXCEPT !.variants[1].headers = "payment-required" :> "b64 mainnet"]}

MCInputs == Good \cup Bad

MCLegacyRows ==
    {[Normal(Flaky) EXCEPT !.headers = ("set-cookie" :> "c") @@ ("location" :> "https://elsewhere"),
                           !.steps[1].headers = "access-control-allow-origin" :> "*"]}

Request(method, path, header, query, body) ==
    [method |-> method, path |-> path, header |-> header, query |-> query, body |-> body,
     host |-> "quickmock.dev", ip |-> "192.0.2.1"]

MCRequests ==
    {Request("GET", <<"users", "%34%32", "">>, NoHeaders,
             ("id" :> "{{now.unix}}") @@ ("2" :> "{{seq}}"), "{user: {name: null}, n: 1}"),
     Request("POST", <<"users", "42">>, "x-quickmock-variant" :> " missing ",
             ("id" :> "0") @@ ("word" :> "w"), "long"),
     Request("HEAD", <<>>, NoHeaders, NoHeaders, ""),
     Request("OPTIONS", <<"users">>, NoHeaders, ("id" :> "0") @@ ("__quickmock_variant" :> "bogus"), "")}

-----------------------------------------------------------------------------

allVars == <<part, migrationVars, statsVars, vars>>

AllInit ==
    /\ part \in {"migrations", "stats", "router"}
    /\ MigrationsInit /\ StatsInit /\ Init
    /\ part # "router" => mock = None

AllNext ==
    /\ UNCHANGED part
    /\ \/ part = "migrations" /\ MigrationsNext /\ UNCHANGED <<statsVars, vars>>
       \/ part = "stats" /\ StatsNext /\ UNCHANGED <<migrationVars, vars>>
       \/ part = "router" /\ Next /\ UNCHANGED <<migrationVars, statsVars>>

AllSpec == AllInit /\ [][AllNext]_allVars /\ MigrationsFairness

\* A deployment that is tried again gets to serve, whatever was killed before.
DeploymentServes == part = "migrations" => EventuallyServed

=============================================================================
