---------------------------- MODULE MockService ----------------------------
(***************************************************************************)
(* The life of a mock: every operation of service.MockService, the SQL     *)
(* statements of repository.MockRepo and LogRepo it is made of, the hourly *)
(* expiration sweep, and the traffic that leaves request logs behind.      *)
(*                                                                         *)
(* One HTTP request is one element of Req. It runs the handler's database  *)
(* calls one at a time, so another request, the sweep or the clock may     *)
(* come between any two of them. One SQL statement (or the transaction of  *)
(* MockRepo.Create) is one step: Postgres makes it atomic.                 *)
(***************************************************************************)
EXTENDS Naturals, FiniteSets

CONSTANTS
    Req,        \* slots for HTTP requests in flight at the same time
    Slug,       \* the slugs in play; "by-slugs" and the blocked ones are left out
    MockId,     \* the ids gen_random_uuid() can return
    Ip,         \* creator addresses
    NoSlug,     \* the request named no slug: the service generates one
    NoToken,    \* the request carried no admin token
    MaxMocks,   \* QUICKMOCK_MAX_MOCKS
    DefaultTTL, \* QUICKMOCK_DEFAULT_TTL
    MaxTTL,     \* QUICKMOCK_MAX_TTL
    MaxTime     \* bound: the clock stops there

ASSUME ConstantsOK ==
    /\ NoSlug \notin Slug
    /\ NoToken \notin MockId
    /\ MaxMocks \in Nat \ {0}
    /\ DefaultTTL \in Nat \ {0}
    /\ MaxTTL \in Nat \ {0}
    /\ DefaultTTL =< MaxTTL
    /\ MaxTime \in Nat

ASSUME ReqFinite == IsFiniteSet(Req)

VARIABLES
    now,    \* the database clock, and the server's
    mocks,  \* table mocks
    logs,   \* the mocks that have rows in table request_logs
    issued, \* the ids handed out so far, deleted mocks included
    queued, \* the mocks of the rows waiting in the LogWriter queue
    req     \* what each request in flight holds between two database calls

vars == <<now, mocks, logs, issued, queued, req>>

(***************************************************************************)
(* A row of mocks. The configuration of a mock is one Boolean, logs_public:*)
(* the column a privacy property is about stands for all those Update      *)
(* writes. The admin token is a fresh secret of each mock: the id names it.*)
(***************************************************************************)
Row == [id : MockId, slug : Slug, creator : Ip, created : Nat, expires : Nat,
        public : BOOLEAN]

\* What validate lets through; 0 is "not given". Slip: no upper bound checked.
TTLUnchecked == 0 .. MaxTTL + 1
TTL == 0 .. MaxTTL
Token == MockId \cup {NoToken}

Idle == [pc |-> "idle"]

\* What a request holds: its input, and what it will still use of the
\* *model.Mock its Get returned.
Request ==
    {Idle}
    \cup [pc : {"name"}, slug : Slug \cup {NoSlug}, ip : Ip, ttl : TTL, public : BOOLEAN]
    \cup [pc : {"insert"}, slug : Slug, ip : Ip, expires : Nat, public : BOOLEAN]
    \cup [pc : {"update"}, token : Token, slug : Slug, expires : Nat, at : Nat,
          ttl : TTL, public : BOOLEAN]
    \cup [pc : {"extend"}, token : Token, slug : Slug, created : Nat, expires : Nat,
          at : Nat, public : BOOLEAN]
    \cup [pc : {"delete"}, token : Token, slug : Slug]
    \cup [pc : {"clear"}, token : Token, id : MockId]
    \cup [pc : {"auth", "list"}, token : Token, slug : Slug, id : MockId, public : BOOLEAN]

-----------------------------------------------------------------------------
(* The queries. *)

\* expires_at > now(); a mock created by this code always has an expires_at.
Live(r) == r.expires > now

BySlug(s) == {r \in mocks : r.slug = s /\ Live(r)}

ActiveByCreatorIP(ip) == {r \in mocks : r.creator = ip /\ Live(r)}

\* SlugExists counts the expired rows too.
SlugTaken(s) == \E r \in mocks : r.slug = s

Stored(id) == \E r \in mocks : r.id = id

(***************************************************************************)
(* The statements.                                                         *)
(***************************************************************************)

\* Rows leave the table; ON DELETE CASCADE takes their request logs along.
Remain(rows) ==
    /\ mocks' = rows
    /\ logs' = {id \in logs : \E r \in rows : r.id = id}

\* Slip: the UPDATE without its expires_at > now().
UpdateAnyRow(slug, expires, public) ==
    mocks' = {IF r.slug = slug THEN [r EXCEPT !.expires = expires, !.public = public]
                               ELSE r : r \in mocks}

\* MockRepo.Update: by slug, unexpired rows only, every column at once.
UpdateRow(slug, expires, public) ==
    mocks' = {IF r \in BySlug(slug) THEN [r EXCEPT !.expires = expires, !.public = public]
                                    ELSE r : r \in mocks}

Expired == {r \in mocks : ~Live(r)}

-----------------------------------------------------------------------------
Init ==
    /\ now = 0
    /\ mocks = {}
    /\ logs = {}
    /\ issued = {}
    /\ queued = {}
    /\ req = [p \in Req |-> Idle]

Hold(p, state) == req' = [req EXCEPT ![p] = state]
Return(p) == Hold(p, Idle)

-----------------------------------------------------------------------------
(* MockService.Create *)

\* Slip: n > maxMocks where the code has n >= maxMocks.
CreateCountOneMore(p, slug, ip, ttl, public) ==
    /\ req[p] = Idle
    /\ Cardinality(ActiveByCreatorIP(ip)) =< MaxMocks
    /\ Hold(p, [pc |-> "name", slug |-> slug, ip |-> ip, ttl |-> ttl, public |-> public])
    /\ UNCHANGED <<now, mocks, logs, issued, queued>>

CreateCount(p, slug, ip, ttl, public) ==
    /\ req[p] = Idle
    /\ Cardinality(ActiveByCreatorIP(ip)) < MaxMocks
    /\ Hold(p, [pc |-> "name", slug |-> slug, ip |-> ip, ttl |-> ttl, public |-> public])
    /\ UNCHANGED <<now, mocks, logs, issued, queued>>

\* Slip: the slug that was generated is not put into the mock.
SlugForAsGiven(c) == {c.slug}

\* GenerateSlug looks for a slug no row holds; a custom slug is not looked up.
SlugFor(c) == IF c.slug = NoSlug THEN {slug \in Slug : ~SlugTaken(slug)} ELSE {c.slug}

\* The expiry is taken from the clock here, before the row exists.
CreateName(p) ==
    LET c == req[p] IN
    /\ c.pc = "name"
    /\ \E slug \in SlugFor(c) :
          Hold(p, [pc |-> "insert", slug |-> slug, ip |-> c.ip, public |-> c.public,
                   expires |-> now + (IF c.ttl = 0 THEN DefaultTTL ELSE c.ttl)])
    /\ UNCHANGED <<now, mocks, logs, issued, queued>>

\* Slip: the DELETE does not ask whether the holder has expired.
FreedAnyway(slug) == TRUE

\* The DELETE takes an expired holder of the slug; a live one stays, and the
\* unique index refuses the row: ErrSlugConflict.
Freed(slug) == BySlug(slug) = {}

\* The transaction of MockRepo.Create. After a conflict Abort is what is left of
\* the request.
CreateInsert(p) ==
    LET c == req[p] IN
    /\ c.pc = "insert"
    /\ Freed(c.slug)
    /\ \E id \in MockId \ issued :
          /\ Remain({r \in mocks : r.slug # c.slug}
                    \cup {[id |-> id, slug |-> c.slug, creator |-> c.ip, created |-> now,
                           expires |-> c.expires, public |-> c.public]})
          /\ issued' = issued \cup {id}
    /\ Return(p)
    /\ UNCHANGED <<now, queued>>

-----------------------------------------------------------------------------
(* The operations the admin token guards: Get, authorize, then one write. *)

\* Slip: the branch for mocks without a token, dropped on 2026-09-05, is still there.
AuthorizedGrandfather(slug, token) ==
    {r \in BySlug(slug) : token = NoToken \/ r.id = token}

\* Get followed by authorize, on the row it returned.
Authorized(slug, token) == {r \in BySlug(slug) : r.id = token}

UpdateRead(p, slug, token, ttl, public) ==
    /\ req[p] = Idle
    /\ \E m \in Authorized(slug, token) :
          Hold(p, [pc |-> "update", token |-> token, slug |-> slug, expires |-> m.expires,
                   at |-> now, ttl |-> ttl, public |-> public])
    /\ UNCHANGED <<now, mocks, logs, issued, queued>>

\* time.Now() is read at some moment t between the Get and the UPDATE.
UpdateWrite(p) ==
    LET c == req[p] IN
    /\ c.pc = "update"
    /\ \E t \in c.at .. now :
          UpdateRow(c.slug, IF c.ttl > 0 THEN t + c.ttl ELSE c.expires, c.public)
    /\ Return(p)
    /\ UNCHANGED <<now, logs, issued, queued>>

ExtendRead(p, slug, token) ==
    /\ req[p] = Idle
    /\ \E m \in Authorized(slug, token) :
          Hold(p, [pc |-> "extend", token |-> token, slug |-> slug, created |-> m.created,
                   expires |-> m.expires, at |-> now, public |-> m.public])
    /\ UNCHANGED <<now, mocks, logs, issued, queued>>

\* Slip: the ceiling is counted from now, not from created_at.
NewExpiryFromNow(created, t) ==
    IF DefaultTTL > MaxTTL THEN t + MaxTTL ELSE t + DefaultTTL

\* One more DefaultTTL from the moment t, up to the ceiling of the row that was read.
NewExpiry(created, t) ==
    IF t + DefaultTTL > created + MaxTTL THEN created + MaxTTL ELSE t + DefaultTTL

\* Every other column is written back as it was read. At the cap nothing is
\* written (ErrTTLCapReached): Abort.
ExtendWrite(p) ==
    LET c == req[p] IN
    /\ c.pc = "extend"
    /\ \E t \in c.at .. now :
          /\ NewExpiry(c.created, t) > c.expires
          /\ UpdateRow(c.slug, NewExpiry(c.created, t), c.public)
    /\ Return(p)
    /\ UNCHANGED <<now, logs, issued, queued>>

DeleteRead(p, slug, token) ==
    /\ req[p] = Idle
    /\ Authorized(slug, token) # {}
    /\ Hold(p, [pc |-> "delete", token |-> token, slug |-> slug])
    /\ UNCHANGED <<now, mocks, logs, issued, queued>>

\* DeleteBySlug asks neither for the id nor whether the row has expired.
DeleteWrite(p) ==
    LET c == req[p] IN
    /\ c.pc = "delete"
    /\ Remain({r \in mocks : r.slug # c.slug})
    /\ Return(p)
    /\ UNCHANGED <<now, issued, queued>>

\* Slip: ClearLogs without authorize.
ClearReadAnyone(p, slug, token) ==
    /\ req[p] = Idle
    /\ \E m \in BySlug(slug) :
          Hold(p, [pc |-> "clear", token |-> token, id |-> m.id])
    /\ UNCHANGED <<now, mocks, logs, issued, queued>>

ClearRead(p, slug, token) ==
    /\ req[p] = Idle
    /\ \E m \in Authorized(slug, token) :
          Hold(p, [pc |-> "clear", token |-> token, id |-> m.id])
    /\ UNCHANGED <<now, mocks, logs, issued, queued>>

\* LogRepo.Clear goes by the id of the mock that was authorized.
ClearWrite(p) ==
    LET c == req[p] IN
    /\ c.pc = "clear"
    /\ logs' = logs \ {c.id}
    /\ Return(p)
    /\ UNCHANGED <<now, mocks, issued, queued>>

-----------------------------------------------------------------------------
(* Reading the request logs. *)

\* A public mock needs no token; a private one goes on to AuthorizeSlug.
LogsGet(p, slug, token) ==
    /\ req[p] = Idle
    /\ \E m \in BySlug(slug) :
          Hold(p, [pc |-> IF m.public THEN "list" ELSE "auth", token |-> token,
                   slug |-> slug, id |-> m.id, public |-> m.public])
    /\ UNCHANGED <<now, mocks, logs, issued, queued>>

\* inspectorAuthorized looks the slug up a second time, but the page goes on
\* to list the logs of the mock of the first lookup.
LogsAuthUI(p) ==
    LET c == req[p] IN
    /\ c.pc = "auth"
    /\ Authorized(c.slug, c.token) # {}
    /\ Hold(p, [c EXCEPT !.pc = "list"])
    /\ UNCHANGED <<now, mocks, logs, issued, queued>>

\* The JSON API and the export list the logs of the mock that was authorized.
LogsAuthAPI(p) ==
    LET c == req[p] IN
    /\ c.pc = "auth"
    /\ \E m \in Authorized(c.slug, c.token) :
          Hold(p, [c EXCEPT !.pc = "list", !.id = m.id, !.public = m.public])
    /\ UNCHANGED <<now, mocks, logs, issued, queued>>

\* What ListByMockID shows in a request that has got that far.
Listed(p) == logs \cap {req[p].id}

LogsList(p) ==
    /\ req[p].pc = "list"
    /\ Return(p)
    /\ UNCHANGED <<now, mocks, logs, issued, queued>>

\* A handler may stop at any database call: an error, a refusal, a client gone,
\* the process killed. What it has written stays.
Abort(p) ==
    /\ req[p] # Idle
    /\ Return(p)
    /\ UNCHANGED <<now, mocks, logs, issued, queued>>

-----------------------------------------------------------------------------
(* Traffic and the background. *)

\* The mock router answers for a live mock and submits a log entry.
Serve(slug) ==
    /\ \E m \in BySlug(slug) : queued' = queued \cup {m.id}
    /\ UNCHANGED <<now, mocks, logs, issued, req>>

\* The LogWriter's INSERT: the foreign key refuses a mock that is gone. More
\* entries of the same mock may be waiting behind this one.
WriteLog(id) ==
    /\ id \in queued
    /\ queued' \in {queued, queued \ {id}}
    /\ logs' = IF Stored(id) THEN logs \cup {id} ELSE logs
    /\ UNCHANGED <<now, mocks, issued, req>>

\* An entry is dropped: a failed INSERT, or the process stopped.
LoseLog(id) ==
    /\ id \in queued
    /\ queued' = queued \ {id}
    /\ UNCHANGED <<now, mocks, logs, issued, req>>

\* One sweep of expireWorker. A failed sweep changes nothing.
DeleteExpired ==
    /\ Expired # {}
    /\ Remain(mocks \ Expired)
    /\ UNCHANGED <<now, issued, queued, req>>

Tick ==
    /\ now < MaxTime
    /\ now' = now + 1
    /\ UNCHANGED <<mocks, logs, issued, queued, req>>

-----------------------------------------------------------------------------
Step(p) ==
    \/ \E slug \in Slug \cup {NoSlug}, ip \in Ip, ttl \in TTL, public \in BOOLEAN :
          CreateCount(p, slug, ip, ttl, public)
    \/ CreateName(p)
    \/ CreateInsert(p)
    \/ \E slug \in Slug, token \in MockId, ttl \in TTL, public \in BOOLEAN :
          UpdateRead(p, slug, token, ttl, public)
    \/ UpdateWrite(p)
    \/ \E slug \in Slug, token \in MockId : ExtendRead(p, slug, token)
    \/ ExtendWrite(p)
    \/ \E slug \in Slug, token \in MockId : DeleteRead(p, slug, token) \/ ClearRead(p, slug, token)
    \/ DeleteWrite(p)
    \/ ClearWrite(p)
    \/ \E slug \in Slug, token \in issued \cup {NoToken} : LogsGet(p, slug, token)
    \/ LogsAuthUI(p)
    \/ LogsAuthAPI(p)
    \/ LogsList(p)
    \/ Abort(p)

Background ==
    \/ \E slug \in Slug : Serve(slug)
    \/ \E id \in MockId : WriteLog(id) \/ LoseLog(id)
    \/ DeleteExpired
    \/ Tick

Next == (\E p \in Req : Step(p)) \/ Background

Spec == Init /\ [][Next]_vars

\* expireWorker runs as long as the process does, and goes on after an error.
FairSpec == Spec /\ WF_vars(DeleteExpired)

-----------------------------------------------------------------------------
(* Invariants *)

\* Type correctness: every row and every half-done request is what its Go type
\* and its point in the handler say; ids in the tables were issued.
TypeOK ==
    /\ now \in Nat
    /\ mocks \subseteq Row
    /\ logs \subseteq MockId
    /\ issued \subseteq MockId
    /\ queued \subseteq MockId
    /\ req \in [Req -> Request]

\* Request logs only reach a reader who may see them: when a reading request
\* lists logs, the mock was public when it was fetched, or the token the request
\* carries is that mock's own. The slug may have been deleted, expired and
\* re-created by somebody else between the two lookups of handler/ui.go.
NoForeignLogs ==
    \A p \in Req :
        req[p].pc = "list" /\ Listed(p) # {} => req[p].public \/ req[p].token = req[p].id

\* The request logs of a mock go away with it, by deletion, expiry or the reuse
\* of its slug, and an entry that was waiting in the queue does not bring them back.
LogsHaveMock == \A id \in logs : Stored(id)

\* The per-address cap of MockService.Create is checked before the insert, so
\* concurrent creations may pass it together, but never by more than the number
\* of requests that can be in flight besides the one that got the last place.
CapOvershootBounded ==
    \A ip \in Ip : Cardinality(ActiveByCreatorIP(ip)) =< MaxMocks + Cardinality(Req) - 1

\* No sequence of creations, updates and extensions, stale ones included, gives
\* a mock an expiry further than MaxTTL from the present.
HorizonBounded == \A r \in mocks : r.expires =< now + MaxTTL

-----------------------------------------------------------------------------
(* Action properties *)

\* An expired mock never comes back: Update and Extend that were authorized
\* while it was live find no row once it has expired.
NoResurrection ==
    [][\A r \in Expired, q \in mocks' : q.id = r.id => q = r]_vars

\* Extend never takes a mock past created_at + MaxTTL, whichever row its UPDATE
\* by slug meets after whatever happened since its Get.
ExtendWithinLifetime ==
    [][\A p \in Req : ExtendWrite(p) =>
          \A q \in mocks' \ mocks : q.expires =< q.created + MaxTTL]_vars

\* The request logs of a stored mock only go away by a ClearLogs that carried
\* this very mock's token, or with the mock itself.
ClearNeedsToken ==
    [][\A id \in logs \ logs' :
          \/ \A q \in mocks' : q.id # id
          \/ \E p \in Req : req[p].pc = "clear" /\ req[p].token = id]_vars

\* The sweep removes every mock that expires, whatever was in flight.
ExpiredEventuallyDeleted ==
    \A id \in MockId : (\E r \in Expired : r.id = id) ~> ~Stored(id)

-----------------------------------------------------------------------------
(* The users' view *)

\* What a lookup by slug finds.
Answers == [slug \in Slug |-> {[id |-> r.id, public |-> r.public] : r \in BySlug(slug)}]

Ended == {r.id : r \in Expired}

Registry == INSTANCE MockRegistry WITH answers <- Answers, ended <- Ended, taken <- issued

\* Through concurrent creations under one slug, stale writes and slow requests, a
\* URL answers for one mock at a time, and a mock that has expired or was deleted
\* is over for good, with its request logs.
ImplementsRegistry == Registry!Spec

-----------------------------------------------------------------------------
(* What the documentation says and the code does not do. *)

\* "it can never live longer than 30 days from the moment it was created": the
\* documentation page. Violated by an Update that carries a ttl.
LifetimeCapped == \A r \in mocks : r.expires =< r.created + MaxTTL

\* "Editing, deleting [...] requires it": README.md of the admin token. A live
\* mock only changes, or goes, by a request that carries its own token. Violated
\* when the slug changes hands between the authorization and the write.
TokenGuardsMock ==
    [][\A r \in mocks : Live(r) /\ r \notin mocks' =>
          \E p \in Req : /\ req[p].pc \in {"update", "extend", "delete"}
                         /\ req[p].token = r.id
                         /\ req'[p] = Idle]_vars

\* "Extend pushes a mock's expiry one more defaultTTL into the future": the
\* comment of Extend. Violated when an Update comes between its Get and its
\* write: the expiry goes back (and the configuration with it).
ExtendPushesExpiry ==
    [][\A p \in Req : ExtendWrite(p) =>
          \A r \in mocks, q \in mocks' : r.id = q.id => q.expires >= r.expires]_vars

=============================================================================
