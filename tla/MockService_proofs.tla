------------------------- MODULE MockService_proofs -------------------------
(***************************************************************************)
(* Theorems about MockService, for any number of requests, slugs, ids and  *)
(* any lifetimes. Each strengthens the property of interest to what a      *)
(* half-done request may still rely on when the row it has read is gone:   *)
(* TablesOK for the tables, ReadersOK, AgesOK and ClearsOK for requests.   *)
(***************************************************************************)
EXTENDS MockService, FiniteSetTheorems, TLAPS

-----------------------------------------------------------------------------
(* Type correctness *)

\* What a request holds is a record of the shape its pc names.
LEMMA Shapes ==
    ASSUME NEW c \in Request
    PROVE  /\ c.pc = "name" => /\ c.slug \in Slug \cup {NoSlug} /\ c.ip \in Ip
                               /\ c.ttl \in TTL /\ c.public \in BOOLEAN
           /\ c.pc = "insert" => /\ c.slug \in Slug /\ c.ip \in Ip
                                 /\ c.expires \in Nat /\ c.public \in BOOLEAN
           /\ c.pc = "update" => /\ c.token \in Token /\ c.slug \in Slug /\ c.expires \in Nat
                                 /\ c.at \in Nat /\ c.ttl \in TTL /\ c.public \in BOOLEAN
           /\ c.pc = "extend" => /\ c.token \in Token /\ c.slug \in Slug /\ c.created \in Nat
                                 /\ c.expires \in Nat /\ c.at \in Nat /\ c.public \in BOOLEAN
           /\ c.pc = "delete" => c.token \in Token /\ c.slug \in Slug
           /\ c.pc = "clear" => c.token \in Token /\ c.id \in MockId
           /\ c.pc \in {"auth", "list"} => /\ c.token \in Token /\ c.slug \in Slug
                                           /\ c.id \in MockId /\ c.public \in BOOLEAN
BY DEF Request, Idle

\* Lifetimes are numbers.
LEMMA TTLIsNat == TTL \subseteq Nat /\ DefaultTTL \in Nat /\ MaxTTL \in Nat
BY ConstantsOK DEF TTL

\* Hold and Return keep the requests well formed.
LEMMA HoldType ==
    ASSUME TypeOK, NEW p \in Req, NEW x \in Request, Hold(p, x)
    PROVE  req' \in [Req -> Request]
BY DEF TypeOK, Hold

\* A request that ends is Idle.
LEMMA ReturnType ==
    ASSUME TypeOK, NEW p \in Req, Return(p)
    PROVE  req' \in [Req -> Request]
BY HoldType DEF Return, Request

\* UpdateRow writes rows.
LEMMA UpdateRowType ==
    ASSUME TypeOK, NEW slug, NEW expires \in Nat, NEW public \in BOOLEAN,
           UpdateRow(slug, expires, public)
    PROVE  mocks' \subseteq Row
BY DEF TypeOK, UpdateRow, Row

\* The expiry Extend computes respects both of its ceilings.
LEMMA NewExpiryType ==
    ASSUME NEW created \in Nat, NEW t \in Nat
    PROVE  NewExpiry(created, t) \in Nat /\ NewExpiry(created, t) =< created + MaxTTL
                                         /\ NewExpiry(created, t) =< t + MaxTTL
BY ConstantsOK DEF NewExpiry

\* Every step of Next keeps the types: one case for each action.
LEMMA TypeStep == TypeOK /\ [Next]_vars => TypeOK'
<1> SUFFICES ASSUME TypeOK, [Next]_vars PROVE TypeOK'
    OBVIOUS
<1>1. ASSUME NEW p \in Req, NEW slug \in Slug \cup {NoSlug}, NEW ip \in Ip, NEW ttl \in TTL,
             NEW public \in BOOLEAN, CreateCount(p, slug, ip, ttl, public)
      PROVE  TypeOK'
    <2>1. [pc |-> "name", slug |-> slug, ip |-> ip, ttl |-> ttl, public |-> public] \in Request
        BY DEF Request
    <2> QED
        BY <1>1, <2>1, HoldType DEF CreateCount, TypeOK
<1>2. ASSUME NEW p \in Req, CreateName(p) PROVE TypeOK'
    <2> DEFINE c == req[p]
    <2>1. c \in Request /\ c.pc = "name"
        BY <1>2 DEF CreateName, TypeOK
    <2>2. PICK slug \in Slug :
              Hold(p, [pc |-> "insert", slug |-> slug, ip |-> c.ip, public |-> c.public,
                       expires |-> now + (IF c.ttl = 0 THEN DefaultTTL ELSE c.ttl)])
        BY <1>2, <2>1, Shapes DEF CreateName, SlugFor
    <2>3. c.ip \in Ip /\ c.public \in BOOLEAN /\ c.ttl \in Nat /\ now \in Nat /\ DefaultTTL \in Nat
        BY <2>1, Shapes, TTLIsNat DEF TypeOK
    <2>4. now + (IF c.ttl = 0 THEN DefaultTTL ELSE c.ttl) \in Nat
        BY <2>3
    <2>5. [pc |-> "insert", slug |-> slug, ip |-> c.ip, public |-> c.public,
           expires |-> now + (IF c.ttl = 0 THEN DefaultTTL ELSE c.ttl)] \in Request
        BY <2>3, <2>4 DEF Request
    <2> QED
        BY <1>2, <2>2, <2>5, HoldType DEF CreateName, TypeOK
<1>3. ASSUME NEW p \in Req, CreateInsert(p) PROVE TypeOK'
    <2> DEFINE c == req[p]
    <2>1. c \in Request /\ c.pc = "insert"
        BY <1>3 DEF CreateInsert, TypeOK
    <2>2. c.slug \in Slug /\ c.ip \in Ip /\ c.expires \in Nat /\ c.public \in BOOLEAN
        BY <2>1, Shapes
    <2>3. PICK id \in MockId \ issued :
              /\ Remain({r \in mocks : r.slug # c.slug}
                        \cup {[id |-> id, slug |-> c.slug, creator |-> c.ip, created |-> now,
                               expires |-> c.expires, public |-> c.public]})
              /\ issued' = issued \cup {id}
        BY <1>3 DEF CreateInsert
    <2>4. mocks' \subseteq Row /\ logs' \subseteq MockId /\ issued' \subseteq MockId
        BY <2>2, <2>3 DEF Remain, Row, TypeOK
    <2> QED
        BY <1>3, <2>4, ReturnType DEF CreateInsert, TypeOK
<1>4. ASSUME NEW p \in Req, NEW slug \in Slug, NEW token \in MockId, NEW ttl \in TTL,
             NEW public \in BOOLEAN, UpdateRead(p, slug, token, ttl, public)
      PROVE  TypeOK'
    <2>1. PICK m \in Authorized(slug, token) :
              Hold(p, [pc |-> "update", token |-> token, slug |-> slug, expires |-> m.expires,
                       at |-> now, ttl |-> ttl, public |-> public])
        BY <1>4 DEF UpdateRead
    <2>2. m \in Row
        BY DEF Authorized, BySlug, TypeOK
    <2>3. [pc |-> "update", token |-> token, slug |-> slug, expires |-> m.expires,
           at |-> now, ttl |-> ttl, public |-> public] \in Request
        BY <2>2 DEF Request, Row, Token, TypeOK
    <2> QED
        BY <1>4, <2>1, <2>3, HoldType DEF UpdateRead, TypeOK
<1>5. ASSUME NEW p \in Req, UpdateWrite(p) PROVE TypeOK'
    <2> DEFINE c == req[p]
    <2>1. c \in Request /\ c.pc = "update"
        BY <1>5 DEF UpdateWrite, TypeOK
    <2>2. /\ c.at \in Nat /\ c.ttl \in Nat /\ c.expires \in Nat /\ c.public \in BOOLEAN
          /\ now \in Nat
        BY <2>1, Shapes, TTLIsNat DEF TypeOK
    <2>3. PICK t \in c.at .. now :
              UpdateRow(c.slug, IF c.ttl > 0 THEN t + c.ttl ELSE c.expires, c.public)
        BY <1>5 DEF UpdateWrite
    <2>4. (IF c.ttl > 0 THEN t + c.ttl ELSE c.expires) \in Nat
        BY <2>2
    <2>5. mocks' \subseteq Row
        BY <2>2, <2>3, <2>4, UpdateRowType
    <2> QED
        BY <1>5, <2>5, ReturnType DEF UpdateWrite, TypeOK
<1>6. ASSUME NEW p \in Req, NEW slug \in Slug, NEW token \in MockId, ExtendRead(p, slug, token)
      PROVE  TypeOK'
    <2>1. PICK m \in Authorized(slug, token) :
              Hold(p, [pc |-> "extend", token |-> token, slug |-> slug, created |-> m.created,
                       expires |-> m.expires, at |-> now, public |-> m.public])
        BY <1>6 DEF ExtendRead
    <2>2. m \in Row
        BY DEF Authorized, BySlug, TypeOK
    <2>3. [pc |-> "extend", token |-> token, slug |-> slug, created |-> m.created,
           expires |-> m.expires, at |-> now, public |-> m.public] \in Request
        BY <2>2 DEF Request, Row, Token, TypeOK
    <2> QED
        BY <1>6, <2>1, <2>3, HoldType DEF ExtendRead, TypeOK
<1>7. ASSUME NEW p \in Req, ExtendWrite(p) PROVE TypeOK'
    <2> DEFINE c == req[p]
    <2>1. c \in Request /\ c.pc = "extend"
        BY <1>7 DEF ExtendWrite, TypeOK
    <2>2. c.at \in Nat /\ c.created \in Nat /\ c.public \in BOOLEAN /\ now \in Nat
        BY <2>1, Shapes DEF TypeOK
    <2>3. PICK t \in c.at .. now : UpdateRow(c.slug, NewExpiry(c.created, t), c.public)
        BY <1>7 DEF ExtendWrite
    <2>4. mocks' \subseteq Row
        BY <2>2, <2>3, NewExpiryType, UpdateRowType
    <2> QED
        BY <1>7, <2>4, ReturnType DEF ExtendWrite, TypeOK
<1>8. ASSUME NEW p \in Req, NEW slug \in Slug, NEW token \in MockId,
             DeleteRead(p, slug, token) \/ ClearRead(p, slug, token)
      PROVE  TypeOK'
    <2>1. CASE DeleteRead(p, slug, token)
        <3>1. [pc |-> "delete", token |-> token, slug |-> slug] \in Request
            BY DEF Request, Token
        <3> QED
            BY <2>1, <3>1, HoldType DEF DeleteRead, TypeOK
    <2>2. CASE ClearRead(p, slug, token)
        <3>1. PICK m \in Authorized(slug, token) :
                  Hold(p, [pc |-> "clear", token |-> token, id |-> m.id])
            BY <2>2 DEF ClearRead
        <3>2. [pc |-> "clear", token |-> token, id |-> m.id] \in Request
            BY DEF Request, Token, Authorized, BySlug, TypeOK, Row
        <3> QED
            BY <2>2, <3>1, <3>2, HoldType DEF ClearRead, TypeOK
    <2> QED
        BY <1>8, <2>1, <2>2
<1>9. ASSUME NEW p \in Req, DeleteWrite(p) PROVE TypeOK'
    BY <1>9, ReturnType DEF DeleteWrite, Remain, TypeOK
<1>10. ASSUME NEW p \in Req, ClearWrite(p) PROVE TypeOK'
    BY <1>10, ReturnType DEF ClearWrite, TypeOK
<1>11. ASSUME NEW p \in Req, NEW slug \in Slug, NEW token \in issued \cup {NoToken},
              LogsGet(p, slug, token)
       PROVE  TypeOK'
    <2>1. PICK m \in BySlug(slug) :
              Hold(p, [pc |-> IF m.public THEN "list" ELSE "auth", token |-> token,
                       slug |-> slug, id |-> m.id, public |-> m.public])
        BY <1>11 DEF LogsGet
    <2>2. m \in Row
        BY DEF BySlug, TypeOK
    <2>3. [pc |-> IF m.public THEN "list" ELSE "auth", token |-> token,
           slug |-> slug, id |-> m.id, public |-> m.public] \in Request
        BY <2>2 DEF Request, Row, Token, TypeOK
    <2> QED
        BY <1>11, <2>1, <2>3, HoldType DEF LogsGet, TypeOK
<1>12. ASSUME NEW p \in Req, LogsAuthUI(p) \/ LogsAuthAPI(p) PROVE TypeOK'
    <2> DEFINE c == req[p]
    <2>0. c \in Request /\ c.pc = "auth"
        BY <1>12 DEF LogsAuthUI, LogsAuthAPI, TypeOK
    <2>1. c \in [pc : {"auth", "list"}, token : Token, slug : Slug, id : MockId,
                 public : BOOLEAN]
        BY <2>0 DEF Request, Idle
    <2>2. CASE LogsAuthUI(p)
        <3>1. [c EXCEPT !.pc = "list"] \in Request
            BY <2>1 DEF Request
        <3> QED
            BY <2>2, <3>1, HoldType DEF LogsAuthUI, TypeOK
    <2>3. CASE LogsAuthAPI(p)
        <3>1. PICK m \in Authorized(c.slug, c.token) :
                  Hold(p, [c EXCEPT !.pc = "list", !.id = m.id, !.public = m.public])
            BY <2>3 DEF LogsAuthAPI
        <3>2. m.id \in MockId /\ m.public \in BOOLEAN
            BY DEF Authorized, BySlug, TypeOK, Row
        <3>3. [c EXCEPT !.pc = "list", !.id = m.id, !.public = m.public] \in Request
            BY <2>1, <3>2 DEF Request
        <3> QED
            BY <2>3, <3>1, <3>3, HoldType DEF LogsAuthAPI, TypeOK
    <2> QED
        BY <1>12, <2>2, <2>3
<1>13. ASSUME NEW p \in Req, LogsList(p) \/ Abort(p) PROVE TypeOK'
    BY <1>13, ReturnType DEF LogsList, Abort, TypeOK
<1>14. ASSUME NEW slug \in Slug, Serve(slug) PROVE TypeOK'
    BY <1>14 DEF Serve, BySlug, TypeOK, Row
<1>15. ASSUME NEW id \in MockId, WriteLog(id) \/ LoseLog(id) PROVE TypeOK'
    BY <1>15 DEF WriteLog, LoseLog, TypeOK
<1>16. CASE DeleteExpired
    BY <1>16 DEF DeleteExpired, Remain, TypeOK
<1>17. CASE Tick
    BY <1>17 DEF Tick, TypeOK
<1>18. CASE UNCHANGED vars
    BY <1>18 DEF vars, TypeOK
<1> QED
    BY <1>1, <1>2, <1>3, <1>4, <1>5, <1>6, <1>7, <1>8, <1>9, <1>10, <1>11, <1>12, <1>13,
       <1>14, <1>15, <1>16, <1>17, <1>18
    DEF Next, Step, Background

\* Spec => []TypeOK: type correctness of the tables and of every half-done
\* request, for every value of the constants.
THEOREM TypeCorrect == Spec => []TypeOK
<1>1. Init => TypeOK
    BY DEF Init, TypeOK, Request
<1> QED
    BY <1>1, TypeStep, PTL DEF Spec

-----------------------------------------------------------------------------
(* How one step changes the tables and the requests *)

\* A row after a step is a row from before, its expiry and configuration
\* perhaps rewritten, or a new one under an id nobody has seen.
Descends(q) ==
    \/ \E r \in mocks : r.id = q.id /\ r.slug = q.slug /\ r.created = q.created
    \/ q.id \notin issued /\ q.created = now

\* The update by slug keeps id, slug and creation time of every row.
LEMMA UpdateRowDescends ==
    ASSUME TypeOK, NEW slug, NEW expires \in Nat, NEW public \in BOOLEAN,
           UpdateRow(slug, expires, public), NEW q \in mocks'
    PROVE  \E r \in mocks : /\ r.id = q.id /\ r.slug = q.slug /\ r.created = q.created
                            /\ q = IF r \in BySlug(slug)
                                   THEN [r EXCEPT !.expires = expires, !.public = public]
                                   ELSE r
<1>1. PICK r \in mocks : q = IF r \in BySlug(slug)
                             THEN [r EXCEPT !.expires = expires, !.public = public]
                             ELSE r
    BY DEF UpdateRow
<1>2. r \in Row
    BY DEF TypeOK
<1> QED
    BY <1>1, <1>2 DEF Row

\* What UpdateWrite and ExtendWrite hand to UpdateRow.
LEMMA UpdateWriteRow ==
    ASSUME TypeOK, NEW p \in Req, UpdateWrite(p)
    PROVE  \E t \in Nat, expires \in Nat :
              /\ t =< now
              /\ expires = IF req[p].ttl > 0 THEN t + req[p].ttl ELSE req[p].expires
              /\ UpdateRow(req[p].slug, expires, req[p].public)
              /\ req[p].public \in BOOLEAN
<1> DEFINE c == req[p]
<1>1. c \in Request /\ c.pc = "update"
    BY DEF UpdateWrite, TypeOK
<1>2. /\ c.at \in Nat /\ c.ttl \in Nat /\ c.expires \in Nat /\ c.public \in BOOLEAN
      /\ now \in Nat
    BY <1>1, Shapes, TTLIsNat DEF TypeOK
<1>3. PICK t \in c.at .. now :
          UpdateRow(c.slug, IF c.ttl > 0 THEN t + c.ttl ELSE c.expires, c.public)
    BY DEF UpdateWrite
<1>4. t \in Nat /\ t =< now /\ (IF c.ttl > 0 THEN t + c.ttl ELSE c.expires) \in Nat
    BY <1>2
<1> QED
    BY <1>2, <1>3, <1>4

\* The same for ExtendWrite, with the bounds of NewExpiry.
LEMMA ExtendWriteRow ==
    ASSUME TypeOK, NEW p \in Req, ExtendWrite(p)
    PROVE  \E t \in Nat : /\ t =< now
                          /\ NewExpiry(req[p].created, t) \in Nat
                          /\ NewExpiry(req[p].created, t) =< req[p].created + MaxTTL
                          /\ NewExpiry(req[p].created, t) =< now + MaxTTL
                          /\ UpdateRow(req[p].slug, NewExpiry(req[p].created, t), req[p].public)
                          /\ req[p].public \in BOOLEAN
                          /\ req[p].created \in Nat
<1> DEFINE c == req[p]
<1>1. c \in Request /\ c.pc = "extend"
    BY DEF ExtendWrite, TypeOK
<1>2. c.at \in Nat /\ c.created \in Nat /\ c.public \in BOOLEAN /\ now \in Nat
    BY <1>1, Shapes DEF TypeOK
<1>3. PICK t \in c.at .. now : UpdateRow(c.slug, NewExpiry(c.created, t), c.public)
    BY DEF ExtendWrite
<1>4. t \in Nat /\ t =< now
    BY <1>2
<1>5. /\ NewExpiry(c.created, t) \in Nat
      /\ NewExpiry(c.created, t) =< c.created + MaxTTL
      /\ NewExpiry(c.created, t) =< t + MaxTTL
    BY <1>2, <1>4, NewExpiryType
<1>6. NewExpiry(c.created, t) =< now + MaxTTL
    BY <1>2, <1>4, <1>5, TTLIsNat
<1> QED
    BY <1>2, <1>3, <1>4, <1>5, <1>6

\* Both write the row of one slug and nothing else.
LEMMA WriteSteps ==
    ASSUME TypeOK, NEW p \in Req, UpdateWrite(p) \/ ExtendWrite(p)
    PROVE  /\ issued' = issued /\ logs' = logs
           /\ \E expires \in Nat, public \in BOOLEAN : UpdateRow(req[p].slug, expires, public)
<1>1. CASE UpdateWrite(p)
    BY <1>1, UpdateWriteRow DEF UpdateWrite
<1>2. CASE ExtendWrite(p)
    BY <1>2, ExtendWriteRow DEF ExtendWrite
<1> QED
    BY <1>1, <1>2

\* The rows after such a write, seen from the rows before.
LEMMA UpdateRowForward ==
    ASSUME TypeOK, NEW slug, NEW expires \in Nat, NEW public \in BOOLEAN,
           UpdateRow(slug, expires, public), NEW r \in mocks
    PROVE  \E q \in mocks' : q.id = r.id
<1> DEFINE q == IF r \in BySlug(slug) THEN [r EXCEPT !.expires = expires, !.public = public]
                                      ELSE r
<1>1. q \in mocks'
    BY DEF UpdateRow
<1>2. q.id = r.id
    BY DEF TypeOK, Row
<1> QED
    BY <1>1, <1>2

\* The row CreateInsert adds.
LEMMA CreateInsertRow ==
    ASSUME TypeOK, NEW p \in Req, CreateInsert(p)
    PROVE  \E q \in Row :
              /\ q.id \notin issued /\ q.created = now /\ q.expires = req[p].expires
              /\ q.slug = req[p].slug
              /\ Remain({r \in mocks : r.slug # q.slug} \cup {q})
              /\ issued' = issued \cup {q.id}
<1> DEFINE c == req[p]
<1>1. c \in Request /\ c.pc = "insert"
    BY DEF CreateInsert, TypeOK
<1>2. c.slug \in Slug /\ c.ip \in Ip /\ c.expires \in Nat /\ c.public \in BOOLEAN
    BY <1>1, Shapes
<1>3. PICK id \in MockId \ issued :
          /\ Remain({r \in mocks : r.slug # c.slug}
                    \cup {[id |-> id, slug |-> c.slug, creator |-> c.ip, created |-> now,
                           expires |-> c.expires, public |-> c.public]})
          /\ issued' = issued \cup {id}
    BY DEF CreateInsert
<1> DEFINE q == [id |-> id, slug |-> c.slug, creator |-> c.ip, created |-> now,
                 expires |-> c.expires, public |-> c.public]
<1>4. q \in Row
    BY <1>2, <1>3 DEF Row, TypeOK
<1> QED
    BY <1>3, <1>4

\* The steps that leave the rows alone, and those that do not.
LEMMA RowSteps ==
    ASSUME [Next]_vars
    PROVE  \/ mocks' = mocks /\ issued' = issued
           \/ \E p \in Req : CreateInsert(p)
           \/ \E p \in Req : UpdateWrite(p)
           \/ \E p \in Req : ExtendWrite(p)
           \/ \E p \in Req : DeleteWrite(p)
           \/ DeleteExpired
BY ZenonT(60) DEF Next, Step, Background, vars, CreateCount, CreateName, UpdateRead, ExtendRead,
       DeleteRead, ClearRead, ClearWrite, LogsGet, LogsAuthUI, LogsAuthAPI, LogsList, Abort,
       Serve, WriteLog, LoseLog, Tick

\* No id is taken back, and every row after a step descends.
LEMMA RowsDescend ==
    ASSUME TypeOK, [Next]_vars
    PROVE  issued \subseteq issued' /\ \A q \in mocks' : Descends(q)
<1>1. CASE mocks' = mocks /\ issued' = issued
    BY <1>1 DEF Descends
<1>2. ASSUME NEW p \in Req, CreateInsert(p)
      PROVE  issued \subseteq issued' /\ \A q \in mocks' : Descends(q)
    BY <1>2, CreateInsertRow DEF Remain, Descends
<1>3. ASSUME NEW p \in Req, UpdateWrite(p)
      PROVE  issued \subseteq issued' /\ \A q \in mocks' : Descends(q)
    <2>1. issued' = issued
        BY <1>3 DEF UpdateWrite
    <2>2. PICK expires \in Nat, public \in BOOLEAN : UpdateRow(req[p].slug, expires, public)
        BY <1>3, UpdateWriteRow
    <2>3. \A q \in mocks' : Descends(q)
        BY <2>2, UpdateRowDescends DEF Descends
    <2> QED
        BY <2>1, <2>3
<1>4. ASSUME NEW p \in Req, ExtendWrite(p)
      PROVE  issued \subseteq issued' /\ \A q \in mocks' : Descends(q)
    <2>1. issued' = issued
        BY <1>4 DEF ExtendWrite
    <2>2. PICK expires \in Nat, public \in BOOLEAN : UpdateRow(req[p].slug, expires, public)
        BY <1>4, ExtendWriteRow
    <2>3. \A q \in mocks' : Descends(q)
        BY <2>2, UpdateRowDescends DEF Descends
    <2> QED
        BY <2>1, <2>3
<1>5. ASSUME NEW p \in Req, DeleteWrite(p)
      PROVE  issued \subseteq issued' /\ \A q \in mocks' : Descends(q)
    BY <1>5 DEF DeleteWrite, Remain, Descends
<1>6. CASE DeleteExpired
    BY <1>6 DEF DeleteExpired, Remain, Descends
<1> QED
    BY <1>1, <1>2, <1>3, <1>4, <1>5, <1>6, RowSteps

\* What a request may hold after a step: what it held, nothing, or what one of
\* the reading steps of its handler gave it.
LEMMA RequestSteps ==
    ASSUME TypeOK, [Next]_vars, NEW p \in Req
    PROVE  \/ req'[p] \in {req[p], Idle}
           \/ req'[p].pc = "name"
           \/ CreateName(p)
           \/ \E slug \in Slug, token \in MockId, ttl \in TTL, public \in BOOLEAN :
                 UpdateRead(p, slug, token, ttl, public)
           \/ \E slug \in Slug, token \in MockId : ExtendRead(p, slug, token)
           \/ req'[p].pc = "delete"
           \/ \E slug \in Slug, token \in MockId : ClearRead(p, slug, token)
           \/ \E slug \in Slug, token \in issued \cup {NoToken} : LogsGet(p, slug, token)
           \/ LogsAuthUI(p)
           \/ LogsAuthAPI(p)
<1> DEFINE Goal == \/ req'[p] \in {req[p], Idle}
                   \/ req'[p].pc = "name"
                   \/ CreateName(p)
                   \/ \E slug \in Slug, token \in MockId, ttl \in TTL, public \in BOOLEAN :
                         UpdateRead(p, slug, token, ttl, public)
                   \/ \E slug \in Slug, token \in MockId : ExtendRead(p, slug, token)
                   \/ req'[p].pc = "delete"
                   \/ \E slug \in Slug, token \in MockId : ClearRead(p, slug, token)
                   \/ \E slug \in Slug, token \in issued \cup {NoToken} : LogsGet(p, slug, token)
                   \/ LogsAuthUI(p)
                   \/ LogsAuthAPI(p)
<1>1. ASSUME NEW o \in Req, Step(o), o # p PROVE req'[p] = req[p]
    BY <1>1 DEF Step, TypeOK, Hold, Return, CreateCount, CreateName, CreateInsert, UpdateRead,
        UpdateWrite, ExtendRead, ExtendWrite, DeleteRead, DeleteWrite, ClearRead, ClearWrite,
        LogsGet, LogsAuthUI, LogsAuthAPI, LogsList, Abort
<1>2. ASSUME Step(p) PROVE Goal
    <2>1. ASSUME NEW slug \in Slug \cup {NoSlug}, NEW ip \in Ip, NEW ttl \in TTL,
                 NEW public \in BOOLEAN, CreateCount(p, slug, ip, ttl, public)
          PROVE  req'[p].pc = "name"
        BY <2>1 DEF CreateCount, Hold, TypeOK
    <2>2. ASSUME NEW slug \in Slug, NEW token \in MockId, DeleteRead(p, slug, token)
          PROVE  req'[p].pc = "delete"
        BY <2>2 DEF DeleteRead, Hold, TypeOK
    <2>3. ASSUME \/ CreateInsert(p) \/ UpdateWrite(p) \/ ExtendWrite(p) \/ DeleteWrite(p)
                 \/ ClearWrite(p) \/ LogsList(p) \/ Abort(p)
          PROVE  req'[p] = Idle
        BY <2>3 DEF CreateInsert, UpdateWrite, ExtendWrite, DeleteWrite, ClearWrite, LogsList,
            Abort, Return, Hold, TypeOK
    <2> QED
        BY <1>2, <2>1, <2>2, <2>3 DEF Step
<1>3. ASSUME Background PROVE req' = req
    BY <1>3 DEF Background, Serve, WriteLog, LoseLog, DeleteExpired, Tick
<1> HIDE DEF Goal
<1>4. Goal
    <2>1. CASE \E o \in Req : Step(o)
        <3>1. PICK o \in Req : Step(o)
            BY <2>1
        <3>2. CASE o = p
            BY <1>2, <3>1, <3>2
        <3>3. CASE o # p
            BY <1>1, <3>1, <3>3 DEF Goal
        <3> QED
            BY <3>2, <3>3
    <2>2. CASE Background
        BY <1>3, <2>2 DEF Goal
    <2>3. CASE UNCHANGED vars
        BY <2>3 DEF vars, Goal
    <2> QED
        BY <2>1, <2>2, <2>3 DEF Next
<1> QED
    BY <1>4 DEF Goal

-----------------------------------------------------------------------------
(* The tables *)

\* Ids and slugs are keys of mocks, every id was issued, and request_logs only
\* refers to mocks that are stored.
TablesOK ==
    /\ \A r \in mocks : r.id \in issued
    /\ \A r, q \in mocks : r.id = q.id \/ r.slug = q.slug => r = q
    /\ LogsHaveMock

\* A step keeps the keys, the issued ids and the foreign key.
LEMMA TablesStep == TypeOK /\ TablesOK /\ [Next]_vars => TablesOK'
<1> SUFFICES ASSUME TypeOK, TablesOK, [Next]_vars PROVE TablesOK'
    OBVIOUS
<1>1. \A q \in mocks' : q.id \in issued'
    <2>1. CASE \E p \in Req : CreateInsert(p)
        BY <2>1, CreateInsertRow DEF Remain, TablesOK
    <2>2. CASE \/ mocks' = mocks /\ issued' = issued
               \/ \E p \in Req : DeleteWrite(p)
               \/ DeleteExpired
        BY <2>2 DEF DeleteWrite, DeleteExpired, Remain, TablesOK
    <2>3. CASE (\E p \in Req : UpdateWrite(p)) \/ (\E p \in Req : ExtendWrite(p))
        <3>1. PICK p \in Req : UpdateWrite(p) \/ ExtendWrite(p)
            BY <2>3
        <3>2. issued' = issued
            BY <3>1, WriteSteps
        <3>3. PICK expires \in Nat, public \in BOOLEAN : UpdateRow(req[p].slug, expires, public)
            BY <3>1, WriteSteps
        <3>4. \A q \in mocks' : \E r \in mocks : r.id = q.id
            BY <3>3 DEF UpdateRow, TypeOK, Row
        <3> QED
            BY <3>2, <3>4 DEF TablesOK
    <2> QED
        BY <2>1, <2>2, <2>3, RowSteps
<1>2. \A r, q \in mocks' : r.id = q.id \/ r.slug = q.slug => r = q
    <2>1. ASSUME NEW p \in Req, CreateInsert(p)
          PROVE  \A r, q \in mocks' : r.id = q.id \/ r.slug = q.slug => r = q
        <3>1. PICK n \in Row : /\ n.id \notin issued
                               /\ mocks' = {r \in mocks : r.slug # n.slug} \cup {n}
            BY <2>1, CreateInsertRow DEF Remain
        <3> QED
            BY <3>1 DEF TablesOK
    <2>2. CASE \/ mocks' = mocks
               \/ \E p \in Req : DeleteWrite(p)
               \/ DeleteExpired
        BY <2>2 DEF DeleteWrite, DeleteExpired, Remain, TablesOK
    <2>3. CASE (\E p \in Req : UpdateWrite(p)) \/ (\E p \in Req : ExtendWrite(p))
        <3>1. PICK p \in Req : UpdateWrite(p) \/ ExtendWrite(p)
            BY <2>3
        <3>2. PICK expires \in Nat, public \in BOOLEAN : UpdateRow(req[p].slug, expires, public)
            BY <3>1, WriteSteps
        <3> DEFINE New(r) == IF r \in BySlug(req[p].slug)
                             THEN [r EXCEPT !.expires = expires, !.public = public]
                             ELSE r
        <3>3. \A q \in mocks' : \E r \in mocks : r.id = q.id /\ r.slug = q.slug /\ q = New(r)
            BY <3>2 DEF UpdateRow, TypeOK, Row
        <3> HIDE DEF New
        <3> QED
            BY <3>3 DEF TablesOK
    <2> QED
        BY <2>1, <2>2, <2>3, RowSteps
<1>3. LogsHaveMock'
    <2>1. CASE \/ \E p \in Req : CreateInsert(p)
               \/ \E p \in Req : DeleteWrite(p)
               \/ DeleteExpired
        BY <2>1 DEF CreateInsert, DeleteWrite, DeleteExpired, Remain, LogsHaveMock, Stored
    <2>2. CASE (\E p \in Req : UpdateWrite(p)) \/ (\E p \in Req : ExtendWrite(p))
        <3>1. PICK p \in Req : UpdateWrite(p) \/ ExtendWrite(p)
            BY <2>2
        <3>2. logs' = logs
            BY <3>1, WriteSteps
        <3>3. \A r \in mocks : \E q \in mocks' : q.id = r.id
            BY <3>1, WriteSteps, UpdateRowForward
        <3> QED
            BY <3>2, <3>3 DEF TablesOK, LogsHaveMock, Stored
    <2>3. CASE mocks' = mocks
        <3>1. \A id \in logs' : id \in logs \/ Stored(id)
            BY <2>3, ZenonT(60) DEF Next, Step, Background, vars, CreateCount, CreateName, CreateInsert,
                UpdateRead, UpdateWrite, ExtendRead, ExtendWrite, DeleteRead, DeleteWrite,
                ClearRead, ClearWrite, LogsGet, LogsAuthUI, LogsAuthAPI, LogsList, Abort,
                Serve, WriteLog, LoseLog, DeleteExpired, Tick, Remain
        <3> QED
            BY <2>3, <3>1 DEF TablesOK, LogsHaveMock, Stored
    <2> QED
        BY <2>1, <2>2, <2>3, RowSteps
<1> QED
    BY <1>1, <1>2, <1>3 DEF TablesOK

\* The tables are consistent in every state the program reaches.
LEMMA TablesInvariant == Spec => [](TypeOK /\ TablesOK)
<1>1. Init => TablesOK
    BY DEF Init, TablesOK, LogsHaveMock
<1> QED
    BY <1>1, TypeCorrect, TablesStep, PTL DEF Spec

\* Request logs never outlive their mock, whatever the log writer still had in
\* its queue: the foreign key and its cascade, under every interleaving.
THEOREM LogsFollowMock == Spec => []LogsHaveMock
BY TablesInvariant, PTL DEF TablesOK

-----------------------------------------------------------------------------
(* Who reads request logs *)

\* What a reading request knows about the mock it fetched first: its id is no
\* secret of the future, it never changes its slug, and once the request may
\* list, the mock was public, or is the token's, or is gone.
ReaderOK(p) ==
    req[p].pc \in {"auth", "list"} =>
        /\ req[p].id \in issued
        /\ \A r \in mocks : r.id = req[p].id => r.slug = req[p].slug
        /\ req[p].pc = "list" =>
              req[p].public \/ req[p].token = req[p].id \/ ~Stored(req[p].id)

ReadersOK == \A p \in Req : ReaderOK(p)

\* What a step leaves of a request that it does not move.
LEMMA ReaderKept ==
    ASSUME TypeOK, [Next]_vars, NEW p \in Req, ReaderOK(p), req'[p] = req[p]
    PROVE  ReaderOK(p)'
<1> SUFFICES ASSUME req[p].pc \in {"auth", "list"}
             PROVE  /\ req[p].id \in issued'
                    /\ \A q \in mocks' : q.id = req[p].id => q.slug = req[p].slug
                    /\ req[p].pc = "list" =>
                          req[p].public \/ req[p].token = req[p].id \/ ~Stored(req[p].id)'
    BY DEF ReaderOK, Stored
<1>1. req[p].id \in issued'
    BY RowsDescend DEF ReaderOK
<1>2. \A q \in mocks' : q.id = req[p].id =>
          \E r \in mocks : r.id = req[p].id /\ r.slug = q.slug
    BY RowsDescend DEF ReaderOK, Descends
<1> QED
    BY <1>1, <1>2 DEF ReaderOK, Stored

\* A step keeps what readers may rely on; a reading step establishes it.
LEMMA ReadersStep == TypeOK /\ TablesOK /\ ReadersOK /\ [Next]_vars => ReadersOK'
<1> SUFFICES ASSUME TypeOK, TablesOK, ReadersOK, [Next]_vars, NEW p \in Req
             PROVE  ReaderOK(p)'
    BY DEF ReadersOK
<1> DEFINE c == req[p]
<1>1. CASE req'[p] = c
    BY <1>1, ReaderKept DEF ReadersOK
<1>2. CASE req'[p].pc \notin {"auth", "list"}
    BY <1>2 DEF ReaderOK
<1>3. ASSUME NEW slug \in Slug, NEW token \in issued \cup {NoToken}, LogsGet(p, slug, token)
      PROVE  ReaderOK(p)'
    <2>1. PICK m \in BySlug(slug) :
              Hold(p, [pc |-> IF m.public THEN "list" ELSE "auth", token |-> token,
                       slug |-> slug, id |-> m.id, public |-> m.public])
        BY <1>3 DEF LogsGet
    <2>2. /\ req'[p] = [pc |-> IF m.public THEN "list" ELSE "auth", token |-> token,
                        slug |-> slug, id |-> m.id, public |-> m.public]
          /\ mocks' = mocks /\ issued' = issued
        BY <1>3, <2>1 DEF Hold, TypeOK, LogsGet
    <2>3. m \in mocks /\ m.slug = slug
        BY DEF BySlug
    <2> QED
        BY <2>2, <2>3 DEF ReaderOK, TablesOK, Stored
<1>4. CASE LogsAuthUI(p)
    <2>1. c.pc = "auth" /\ c \in Request /\ mocks' = mocks /\ issued' = issued
        BY <1>4 DEF LogsAuthUI, TypeOK
    <2>2. req'[p] = [c EXCEPT !.pc = "list"]
        BY <1>4 DEF LogsAuthUI, Hold, TypeOK
    <2>3. /\ req'[p].id = c.id /\ req'[p].slug = c.slug /\ req'[p].token = c.token
          /\ req'[p].pc = "list"
        BY <2>1, <2>2 DEF Request
    <2>4. PICK m \in mocks : m.slug = c.slug /\ m.id = c.token
        BY <1>4 DEF LogsAuthUI, Authorized, BySlug
    <2>5. \A r \in mocks : r.id = c.id => r = m
        BY <2>1, <2>4 DEF ReadersOK, ReaderOK, TablesOK
    <2> QED
        BY <2>1, <2>3, <2>4, <2>5 DEF ReadersOK, ReaderOK, Stored
<1>5. CASE LogsAuthAPI(p)
    <2>1. c.pc = "auth" /\ c \in Request /\ mocks' = mocks /\ issued' = issued
        BY <1>5 DEF LogsAuthAPI, TypeOK
    <2>2. PICK m \in Authorized(c.slug, c.token) :
              req'[p] = [c EXCEPT !.pc = "list", !.id = m.id, !.public = m.public]
        BY <1>5 DEF LogsAuthAPI, Hold, TypeOK
    <2>3. m \in mocks /\ m.slug = c.slug /\ m.id = c.token
        BY DEF Authorized, BySlug
    <2>4. /\ req'[p].id = m.id /\ req'[p].slug = c.slug /\ req'[p].token = c.token
          /\ req'[p].pc = "list"
        BY <2>1, <2>2 DEF Request
    <2> QED
        BY <2>1, <2>3, <2>4 DEF ReaderOK, TablesOK
<1>6. ASSUME \/ CreateName(p)
             \/ \E slug \in Slug, token \in MockId, ttl \in TTL, public \in BOOLEAN :
                   UpdateRead(p, slug, token, ttl, public)
             \/ \E slug \in Slug, token \in MockId : ExtendRead(p, slug, token)
             \/ \E slug \in Slug, token \in MockId : ClearRead(p, slug, token)
      PROVE  req'[p].pc \notin {"auth", "list"}
    BY <1>6 DEF CreateName, UpdateRead, ExtendRead, ClearRead, Hold, TypeOK
<1>7. CASE req'[p] = Idle
    BY <1>7, <1>2 DEF Idle
<1>8. CASE req'[p].pc \in {"name", "delete"}
    BY <1>8, <1>2
<1> QED
    BY <1>1, <1>2, <1>3, <1>4, <1>5, <1>6, <1>7, <1>8, RequestSteps

\* Nobody reads request logs that are not theirs to see: the privacy of the
\* inspector, through deletion, expiry and reuse of the slug between two lookups.
THEOREM LogsStayPrivate == Spec => []NoForeignLogs
<1>1. Init => ReadersOK
    BY DEF Init, ReadersOK, ReaderOK, Idle
<1>2. TypeOK /\ TablesOK /\ ReadersOK => NoForeignLogs
    BY DEF TablesOK, ReadersOK, ReaderOK, NoForeignLogs, LogsHaveMock, Listed, Stored
<1>3. Spec => []ReadersOK
    BY <1>1, ReadersStep, TablesInvariant, PTL DEF Spec
<1> QED
    BY <1>2, <1>3, TablesInvariant, PTL

-----------------------------------------------------------------------------
(* Expiry times *)

\* The clock does not go back.
LEMMA NowGrows == TypeOK /\ [Next]_vars => now' \in Nat /\ now =< now'
<1> SUFFICES ASSUME TypeOK, [Next]_vars PROVE now' \in Nat /\ now =< now'
    OBVIOUS
<1>1. now' = now \/ Tick
    BY DEF Next, Step, Background, vars, CreateCount, CreateName, CreateInsert, UpdateRead,
        UpdateWrite, ExtendRead, ExtendWrite, DeleteRead, DeleteWrite, ClearRead, ClearWrite,
        LogsGet, LogsAuthUI, LogsAuthAPI, LogsList, Abort, Serve, WriteLog, LoseLog,
        DeleteExpired
<1> QED
    BY <1>1 DEF Tick, TypeOK

\* No row comes from the future or expires beyond the horizon.
RowAgesOK == \A r \in mocks : r.created =< now /\ r.expires =< now + MaxTTL

\* Nor does an expiry that a request still holds; and an Extend holds the
\* creation time of a row no younger than the one its UPDATE may meet.
HeldOK(p) ==
    /\ req[p].pc \in {"insert", "update", "extend"} => req[p].expires =< now + MaxTTL
    /\ req[p].pc = "extend" =>
          /\ req[p].created =< now
          /\ \A r \in mocks : r.slug = req[p].slug => req[p].created =< r.created

AgesOK == RowAgesOK /\ \A p \in Req : HeldOK(p)

\* A horizon that was respected still is when the clock has gone on.
LEMMA HorizonGrows ==
    \A from, to, length \in Nat : from =< to =>
        \A e \in Nat : e =< from + length => e =< to + length
OBVIOUS

\* No statement writes an expiry beyond the horizon.
LEMMA RowAgesStep == TypeOK /\ AgesOK /\ [Next]_vars => RowAgesOK'
<1> SUFFICES ASSUME TypeOK, AgesOK, [Next]_vars PROVE RowAgesOK'
    OBVIOUS
<1>1. now' \in Nat /\ now \in Nat /\ now =< now' /\ MaxTTL \in Nat
    BY NowGrows, TTLIsNat DEF TypeOK
<1>2. \A r \in mocks : /\ r.created \in Nat /\ r.expires \in Nat
                       /\ r.created =< now' /\ r.expires =< now' + MaxTTL
    BY <1>1 DEF AgesOK, RowAgesOK, TypeOK, Row
<1>3. CASE mocks' \subseteq mocks
    BY <1>2, <1>3 DEF RowAgesOK
<1>4. ASSUME NEW p \in Req, CreateInsert(p) PROVE RowAgesOK'
    <2>1. PICK n \in Row : /\ n.created = now /\ n.expires = req[p].expires
                           /\ mocks' = {r \in mocks : r.slug # n.slug} \cup {n}
        BY <1>4, CreateInsertRow DEF Remain
    <2>2. n.created =< now' /\ n.expires =< now + MaxTTL
        BY <1>1, <1>4, <2>1 DEF AgesOK, HeldOK, CreateInsert
    <2>3. n.expires =< now' + MaxTTL
        BY <1>1, <2>2 DEF Row
    <2> QED
        BY <1>2, <2>1, <2>2, <2>3 DEF RowAgesOK
<1>5. ASSUME NEW p \in Req, NEW expires \in Nat, NEW public \in BOOLEAN,
             expires =< now + MaxTTL, UpdateRow(req[p].slug, expires, public)
      PROVE  RowAgesOK'
    <2>1. \A q \in mocks' : \E r \in mocks : /\ r.created = q.created
                                             /\ q.expires \in {r.expires, expires}
        BY <1>5 DEF UpdateRow, TypeOK, Row
    <2>2. expires =< now' + MaxTTL
        BY <1>1, <1>5, HorizonGrows
    <2> QED
        BY <1>2, <2>1, <2>2 DEF RowAgesOK
<1>6. ASSUME NEW p \in Req, UpdateWrite(p) PROVE RowAgesOK'
    <2>1. PICK t \in Nat, expires \in Nat :
              /\ t =< now
              /\ expires = IF req[p].ttl > 0 THEN t + req[p].ttl ELSE req[p].expires
              /\ UpdateRow(req[p].slug, expires, req[p].public)
              /\ req[p].public \in BOOLEAN
        BY <1>6, UpdateWriteRow
    <2>2. req[p] \in Request /\ req[p].pc = "update"
        BY <1>6 DEF UpdateWrite, TypeOK
    <2>3. req[p].ttl \in Nat /\ req[p].ttl =< MaxTTL /\ req[p].expires =< now + MaxTTL
        BY <2>2, Shapes, TTLIsNat DEF AgesOK, HeldOK, TTL
    <2>4. expires =< now + MaxTTL
        BY <1>1, <2>1, <2>3
    <2> QED
        BY <1>5, <2>1, <2>4
<1>7. ASSUME NEW p \in Req, ExtendWrite(p) PROVE RowAgesOK'
    BY <1>5, <1>7, ExtendWriteRow
<1> QED
    <2>1. ASSUME NEW p \in Req, DeleteWrite(p) PROVE mocks' \subseteq mocks
        BY <2>1 DEF DeleteWrite, Remain
    <2>2. DeleteExpired => mocks' \subseteq mocks
        BY DEF DeleteExpired, Remain
    <2> QED
        BY <1>3, <1>4, <1>6, <1>7, <2>1, <2>2, RowSteps

\* A reader that is authorized goes on to list.
LEMMA AuthLists ==
    ASSUME TypeOK, NEW p \in Req, LogsAuthUI(p) \/ LogsAuthAPI(p)
    PROVE  req'[p].pc = "list"
<1>1. req[p] \in Request /\ req[p].pc = "auth"
    BY DEF LogsAuthUI, LogsAuthAPI, TypeOK
<1>2. CASE LogsAuthUI(p)
    <2>1. req'[p] = [req[p] EXCEPT !.pc = "list"]
        BY <1>2 DEF LogsAuthUI, Hold, TypeOK
    <2> QED
        BY <1>1, <2>1 DEF Request
<1>3. CASE LogsAuthAPI(p)
    <2>1. PICK m \in Authorized(req[p].slug, req[p].token) :
              req'[p] = [req[p] EXCEPT !.pc = "list", !.id = m.id, !.public = m.public]
        BY <1>3 DEF LogsAuthAPI, Hold, TypeOK
    <2> QED
        BY <1>1, <2>1 DEF Request
<1> QED
    BY <1>2, <1>3

\* Nor does a handler hold one, or the creation time of a younger row.
LEMMA HeldStep ==
    ASSUME TypeOK, TablesOK, AgesOK, [Next]_vars, NEW p \in Req
    PROVE  HeldOK(p)'
<1>1. now' \in Nat /\ now \in Nat /\ now =< now' /\ MaxTTL \in Nat
    BY NowGrows, TTLIsNat DEF TypeOK
<1>2. CASE req'[p] = req[p]
    <2>1. ASSUME req[p].pc \in {"insert", "update", "extend"}
          PROVE  req[p].expires =< now' + MaxTTL
        <3>1. req[p].expires \in Nat /\ req[p].expires =< now + MaxTTL
            BY <2>1, Shapes DEF TypeOK, AgesOK, HeldOK
        <3> QED
            BY <1>1, <3>1
    <2>2. ASSUME req[p].pc = "extend"
          PROVE  /\ req[p].created =< now'
                 /\ \A q \in mocks' : q.slug = req[p].slug => req[p].created =< q.created
        <3>1. req[p].created \in Nat /\ req[p].created =< now
            BY <2>2, Shapes DEF TypeOK, AgesOK, HeldOK
        <3>2. \A q \in mocks' : \/ \E r \in mocks : r.slug = q.slug /\ r.created = q.created
                                \/ q.created = now
            BY RowsDescend DEF Descends
        <3> QED
            BY <1>1, <2>2, <3>1, <3>2 DEF AgesOK, HeldOK
    <2> QED
        BY <1>2, <2>1, <2>2 DEF HeldOK
<1>3. CASE req'[p].pc \notin {"insert", "update", "extend"}
    BY <1>3 DEF HeldOK
<1>4. CASE CreateName(p)
    <2> DEFINE c == req[p]
    <2>1. c \in Request /\ c.pc = "name" /\ now' = now
        BY <1>4 DEF CreateName, TypeOK
    <2>2. PICK slug \in SlugFor(c) :
              req'[p] = [pc |-> "insert", slug |-> slug, ip |-> c.ip, public |-> c.public,
                         expires |-> now + (IF c.ttl = 0 THEN DefaultTTL ELSE c.ttl)]
        BY <1>4 DEF CreateName, Hold, TypeOK
    <2>3. (IF c.ttl = 0 THEN DefaultTTL ELSE c.ttl) =< MaxTTL
        BY <2>1, Shapes, TTLIsNat, ConstantsOK DEF TTL
    <2>4. (IF c.ttl = 0 THEN DefaultTTL ELSE c.ttl) \in Nat
        BY <2>1, Shapes, TTLIsNat, ConstantsOK
    <2>5. req'[p].pc = "insert" /\ req'[p].expires =< now' + MaxTTL
        BY <1>1, <2>1, <2>2, <2>3, <2>4
    <2> QED
        BY <2>5 DEF HeldOK
<1>5. ASSUME NEW slug \in Slug, NEW token \in MockId, NEW ttl \in TTL, NEW public \in BOOLEAN,
             UpdateRead(p, slug, token, ttl, public)
      PROVE  HeldOK(p)'
    <2>1. PICK m \in Authorized(slug, token) :
              req'[p] = [pc |-> "update", token |-> token, slug |-> slug, expires |-> m.expires,
                         at |-> now, ttl |-> ttl, public |-> public]
        BY <1>5 DEF UpdateRead, Hold, TypeOK
    <2>2. m \in mocks /\ now' = now
        BY <1>5 DEF Authorized, BySlug, UpdateRead
    <2> QED
        BY <2>1, <2>2 DEF HeldOK, AgesOK, RowAgesOK
<1>6. ASSUME NEW slug \in Slug, NEW token \in MockId, ExtendRead(p, slug, token)
      PROVE  HeldOK(p)'
    <2>1. PICK m \in Authorized(slug, token) :
              req'[p] = [pc |-> "extend", token |-> token, slug |-> slug,
                         created |-> m.created, expires |-> m.expires, at |-> now,
                         public |-> m.public]
        BY <1>6 DEF ExtendRead, Hold, TypeOK
    <2>2. m \in mocks /\ m.slug = slug /\ now' = now /\ mocks' = mocks
        BY <1>6 DEF Authorized, BySlug, ExtendRead
    <2>3. \A r \in mocks : r.slug = slug => r = m
        BY <1>6, <2>2 DEF TablesOK
    <2>4. m.created \in Nat
        BY <2>2 DEF TypeOK, Row
    <2> QED
        BY <2>1, <2>2, <2>3, <2>4 DEF HeldOK, AgesOK, RowAgesOK
<1>7. ASSUME \/ \E slug \in Slug, token \in MockId : ClearRead(p, slug, token)
             \/ \E slug \in Slug, token \in issued \cup {NoToken} : LogsGet(p, slug, token)
             \/ LogsAuthAPI(p)
      PROVE  req'[p].pc \notin {"insert", "update", "extend"}
    BY <1>7, AuthLists DEF ClearRead, LogsGet, Hold, TypeOK
<1>8. ASSUME LogsAuthUI(p) PROVE req'[p].pc = "list"
    BY <1>8, AuthLists
<1>9. CASE req'[p] = Idle
    BY <1>9, <1>3 DEF Idle
<1>10. CASE req'[p].pc \in {"name", "delete"}
    BY <1>10, <1>3
<1> QED
    BY <1>2, <1>3, <1>4, <1>5, <1>6, <1>7, <1>8, <1>9, <1>10, RequestSteps

\* The ages of rows and of what requests hold, in every reachable state.
LEMMA AgesInvariant == Spec => [](TypeOK /\ TablesOK /\ AgesOK)
<1>1. Init => AgesOK
    BY DEF Init, AgesOK, RowAgesOK, HeldOK, Idle
<1>2. TypeOK /\ TablesOK /\ AgesOK /\ [Next]_vars => AgesOK'
    BY RowAgesStep, HeldStep DEF AgesOK
<1> QED
    BY <1>1, <1>2, TablesInvariant, PTL DEF Spec

\* However stale the row that an Update or an Extend has read, no mock gets an
\* expiry further than MaxTTL from the present.
THEOREM HorizonHolds == Spec => []HorizonBounded
<1>1. AgesOK => HorizonBounded
    BY DEF AgesOK, RowAgesOK, HorizonBounded
<1> QED
    BY <1>1, AgesInvariant, PTL

\* Extend never takes a mock past created_at + MaxTTL, even when the row its
\* UPDATE meets is a younger mock that took over the slug.
THEOREM ExtendStaysWithinLifetime == Spec => ExtendWithinLifetime
<1>1. ASSUME TypeOK, AgesOK, NEW p \in Req, ExtendWrite(p), NEW q \in mocks' \ mocks
      PROVE  q.expires =< q.created + MaxTTL
    <2> DEFINE c == req[p]
    <2>1. PICK t \in Nat : /\ NewExpiry(c.created, t) \in Nat
                           /\ NewExpiry(c.created, t) =< c.created + MaxTTL
                           /\ UpdateRow(c.slug, NewExpiry(c.created, t), c.public)
                           /\ c.created \in Nat
        BY <1>1, ExtendWriteRow
    <2>2. PICK r \in mocks : /\ r.slug = c.slug
                             /\ q = [r EXCEPT !.expires = NewExpiry(c.created, t),
                                              !.public = c.public]
        BY <1>1, <2>1 DEF UpdateRow, BySlug
    <2>3. r \in Row
        BY <1>1 DEF TypeOK
    <2>4. /\ q.created = r.created /\ r.created \in Nat
          /\ q.expires = NewExpiry(c.created, t)
        BY <2>2, <2>3 DEF Row
    <2>5. c.created =< r.created
        BY <1>1, <2>2 DEF AgesOK, HeldOK, ExtendWrite
    <2> QED
        BY <2>1, <2>4, <2>5, TTLIsNat
<1>2. TypeOK /\ AgesOK /\ [Next]_vars =>
          [\A p \in Req : ExtendWrite(p) =>
              \A q \in mocks' \ mocks : q.expires =< q.created + MaxTTL]_vars
    BY <1>1
<1> QED
    BY <1>2, AgesInvariant, PTL DEF Spec, ExtendWithinLifetime

-----------------------------------------------------------------------------
(* What a step never does *)

\* An expired mock never comes back, nor does its row change: an Update or an
\* Extend that was authorized in time finds no row to write once it is late.
THEOREM NothingResurrects == Spec => NoResurrection
<1>1. ASSUME TypeOK, TablesOK, [Next]_vars,
             NEW r \in Expired, NEW q \in mocks', q.id = r.id
      PROVE  q = r
    <2>1. r \in mocks /\ ~Live(r) /\ r.id \in issued
        BY <1>1 DEF Expired, TablesOK
    <2>2. CASE mocks' \subseteq mocks
        BY <1>1, <2>1, <2>2 DEF TablesOK
    <2>3. ASSUME NEW p \in Req, CreateInsert(p) PROVE q \in mocks
        BY <1>1, <2>1, <2>3, CreateInsertRow DEF Remain
    <2>4. ASSUME NEW p \in Req, UpdateWrite(p) \/ ExtendWrite(p) PROVE q = r
        <3>1. PICK expires \in Nat, public \in BOOLEAN : UpdateRow(req[p].slug, expires, public)
            BY <1>1, <2>4, WriteSteps
        <3>2. PICK o \in mocks :
                  /\ o.id = q.id
                  /\ q = IF o \in BySlug(req[p].slug)
                         THEN [o EXCEPT !.expires = expires, !.public = public] ELSE o
            BY <1>1, <3>1 DEF UpdateRow, TypeOK, Row
        <3>3. o = r
            BY <1>1, <2>1, <3>2 DEF TablesOK
        <3> QED
            BY <2>1, <3>2, <3>3 DEF BySlug
    <2>5. ASSUME NEW p \in Req, DeleteWrite(p) PROVE mocks' \subseteq mocks
        BY <2>5 DEF DeleteWrite, Remain
    <2>6. DeleteExpired => mocks' \subseteq mocks
        BY DEF DeleteExpired, Remain
    <2> QED
        BY <1>1, <2>1, <2>2, <2>3, <2>4, <2>5, <2>6, RowSteps DEF TablesOK
<1>2. TypeOK /\ TablesOK /\ [Next]_vars =>
          [\A r \in Expired, q \in mocks' : q.id = r.id => q = r]_vars
    BY <1>1
<1> QED
    BY <1>2, TablesInvariant, PTL DEF Spec, NoResurrection

\* A ClearLogs that has been let through holds the id its token belongs to.
ClearsOK == \A p \in Req : req[p].pc = "clear" => req[p].token = req[p].id

\* A step keeps what authorize has checked for a ClearLogs.
LEMMA ClearsStep == TypeOK /\ ClearsOK /\ [Next]_vars => ClearsOK'
<1> SUFFICES ASSUME TypeOK, ClearsOK, [Next]_vars, NEW p \in Req, req'[p].pc = "clear"
             PROVE  req'[p].token = req'[p].id
    BY DEF ClearsOK
<1>1. ASSUME NEW slug \in Slug, NEW token \in MockId, ClearRead(p, slug, token)
      PROVE  req'[p].token = req'[p].id
    BY <1>1 DEF ClearRead, Authorized, Hold, TypeOK
<1>2. ASSUME \/ CreateName(p)
             \/ \E slug \in Slug, token \in MockId, ttl \in TTL, public \in BOOLEAN :
                   UpdateRead(p, slug, token, ttl, public)
             \/ \E slug \in Slug, token \in MockId : ExtendRead(p, slug, token)
             \/ \E slug \in Slug, token \in issued \cup {NoToken} : LogsGet(p, slug, token)
      PROVE  FALSE
    BY <1>2 DEF CreateName, UpdateRead, ExtendRead, LogsGet, Hold, TypeOK
<1>3. ASSUME LogsAuthUI(p) \/ LogsAuthAPI(p) PROVE FALSE
    BY <1>3, AuthLists
<1>4. req'[p] # Idle
    BY DEF Idle
<1> QED
    BY <1>1, <1>2, <1>3, <1>4, RequestSteps DEF ClearsOK

\* Request logs of a mock that stays are only cleared by its own token's bearer.
THEOREM ClearingNeedsToken == Spec => ClearNeedsToken
<1>1. Init => ClearsOK
    BY DEF Init, ClearsOK, Idle
<1>2. Spec => []ClearsOK
    BY <1>1, ClearsStep, TypeCorrect, PTL DEF Spec
<1>3. ASSUME ClearsOK, [Next]_vars, NEW id \in logs \ logs'
      PROVE  \/ \A q \in mocks' : q.id # id
             \/ \E p \in Req : req[p].pc = "clear" /\ req[p].token = id
    <2>1. \/ logs \subseteq logs'
          \/ DeleteExpired
          \/ \E p \in Req : CreateInsert(p) \/ DeleteWrite(p) \/ ClearWrite(p)
        BY <1>3 DEF Next, Step, Background, vars, CreateCount, CreateName, UpdateRead,
            UpdateWrite, ExtendRead, ExtendWrite, DeleteRead, ClearRead, LogsGet, LogsAuthUI,
            LogsAuthAPI, LogsList, Abort, Serve, WriteLog, LoseLog, Tick
    <2>2. ASSUME NEW p \in Req, ClearWrite(p) PROVE req[p].pc = "clear" /\ req[p].token = id
        BY <1>3, <2>2 DEF ClearWrite, ClearsOK
    <2>3. ASSUME DeleteExpired \/ \E p \in Req : CreateInsert(p) \/ DeleteWrite(p)
          PROVE  \A q \in mocks' : q.id # id
        BY <1>3, <2>3 DEF DeleteExpired, CreateInsert, DeleteWrite, Remain
    <2> QED
        BY <1>3, <2>1, <2>2, <2>3
<1>4. ClearsOK /\ [Next]_vars =>
          [\A id \in logs \ logs' :
              \/ \A q \in mocks' : q.id # id
              \/ \E p \in Req : req[p].pc = "clear" /\ req[p].token = id]_vars
    BY <1>3
<1> QED
    BY <1>2, <1>4, PTL DEF Spec, ClearNeedsToken

-----------------------------------------------------------------------------
(* The cap on the mocks of an address: its live mocks and the creations    *)
(* that have counted them but not yet inserted are together at most        *)
(* MaxMocks plus all the other requests there can be. Mocks are counted by *)
(* their ids, which are keys.                                              *)

ActiveIds(ip) == {r.id : r \in ActiveByCreatorIP(ip)}

\* The creations past the count.
Counted == {"name", "insert"}
InFlight(ip) == {p \in Req : req[p].pc \in Counted /\ req[p].ip = ip}

Bounded(ip) == Cardinality(ActiveIds(ip)) + Cardinality(InFlight(ip))
                   =< MaxMocks + Cardinality(Req) - 1

CapOK == IsFiniteSet(issued) /\ \A ip \in Ip : Bounded(ip)

-----------------------------------------------------------------------------
(* Counting *)

\* Ids are as many as rows.
LEMMA CountByIds ==
    ASSUME TypeOK, TablesOK, IsFiniteSet(issued), NEW ip \in Ip
    PROVE  /\ IsFiniteSet(ActiveIds(ip)) /\ IsFiniteSet(ActiveByCreatorIP(ip))
           /\ Cardinality(ActiveIds(ip)) = Cardinality(ActiveByCreatorIP(ip))
<1> DEFINE A == ActiveByCreatorIP(ip)
           f == [r \in A |-> r.id]
<1>1. ActiveIds(ip) \in SUBSET issued
    BY DEF ActiveIds, ActiveByCreatorIP, TablesOK
<1>2. IsFiniteSet(ActiveIds(ip))
    BY <1>1, FS_Subset
<1>3. A \subseteq mocks
    BY DEF ActiveByCreatorIP
<1>4. f \in Injection(A, ActiveIds(ip)) /\ f \in Surjection(A, ActiveIds(ip))
    <2>1. f \in [A -> ActiveIds(ip)]
        BY DEF ActiveIds
    <2>2. \A r, q \in A : f[r] = f[q] => r = q
        BY <1>3 DEF TablesOK
    <2>3. \A id \in ActiveIds(ip) : \E r \in A : f[r] = id
        BY DEF ActiveIds
    <2> HIDE DEF f, A
    <2> QED
        BY <2>1, <2>2, <2>3 DEF Injection, Surjection, IsInjective
<1> HIDE DEF f, A
<1>5. IsFiniteSet(A) /\ Cardinality(A) = Cardinality(ActiveIds(ip))
    BY <1>2, <1>4, FS_Injection
<1> QED
    BY <1>2, <1>5 DEF A

\* The sizes of the sets that are counted.
LEMMA Sizes ==
    ASSUME TypeOK, TablesOK, IsFiniteSet(issued), NEW ip \in Ip
    PROVE  /\ IsFiniteSet(ActiveIds(ip)) /\ Cardinality(ActiveIds(ip)) \in Nat
           /\ IsFiniteSet(InFlight(ip)) /\ Cardinality(InFlight(ip)) \in Nat
           /\ Cardinality(InFlight(ip)) =< Cardinality(Req)
           /\ Cardinality(Req) \in Nat /\ MaxMocks \in Nat
<1>1. InFlight(ip) \in SUBSET Req
    BY DEF InFlight
<1>2. IsFiniteSet(InFlight(ip)) /\ Cardinality(InFlight(ip)) =< Cardinality(Req)
    BY <1>1, ReqFinite, FS_Subset
<1>3. IsFiniteSet(ActiveIds(ip))
    BY CountByIds
<1> QED
    BY <1>2, <1>3, ReqFinite, ConstantsOK, FS_CardinalityType

\* An address whose mocks and creations do not grow stays bounded.
LEMMA Shrinks ==
    ASSUME TypeOK, TablesOK, CapOK, NEW ip \in Ip,
           ActiveIds(ip)' \subseteq ActiveIds(ip), InFlight(ip)' \subseteq InFlight(ip)
    PROVE  Bounded(ip)'
<1>1. /\ IsFiniteSet(ActiveIds(ip)) /\ Cardinality(ActiveIds(ip)) \in Nat
      /\ IsFiniteSet(InFlight(ip)) /\ Cardinality(InFlight(ip)) \in Nat
      /\ Cardinality(Req) \in Nat /\ MaxMocks \in Nat
    BY Sizes DEF CapOK
<1>2. /\ IsFiniteSet(ActiveIds(ip)') /\ Cardinality(ActiveIds(ip)') =< Cardinality(ActiveIds(ip))
      /\ IsFiniteSet(InFlight(ip)') /\ Cardinality(InFlight(ip)') =< Cardinality(InFlight(ip))
    BY <1>1, FS_Subset
<1>3. Cardinality(ActiveIds(ip)') \in Nat /\ Cardinality(InFlight(ip)') \in Nat
    BY <1>2, FS_CardinalityType
<1> QED
    BY <1>1, <1>2, <1>3 DEF CapOK, Bounded

-----------------------------------------------------------------------------
(* The steps *)

\* No step but CreateInsert makes a mock live: an UPDATE finds live rows only.
LEMMA NoneRevives ==
    ASSUME TypeOK, TablesOK, [Next]_vars, ~\E p \in Req : CreateInsert(p), NEW ip \in Ip
    PROVE  ActiveIds(ip)' \subseteq ActiveIds(ip)
<1> SUFFICES ASSUME NEW q \in mocks', q.creator = ip, q.expires > now'
             PROVE  \E r \in ActiveByCreatorIP(ip) : r.id = q.id
    BY DEF ActiveIds, ActiveByCreatorIP, Live
<1>1. now \in Nat /\ now' \in Nat /\ now =< now'
    BY NowGrows DEF TypeOK
<1>2. CASE mocks' \subseteq mocks
    <2>1. q \in Row /\ q.expires \in Nat
        BY <1>2 DEF TypeOK, Row
    <2>2. q.expires > now
        BY <1>1, <2>1
    <2> QED
        BY <1>2, <2>2 DEF ActiveByCreatorIP, Live
<1>3. ASSUME NEW p \in Req, UpdateWrite(p) \/ ExtendWrite(p)
      PROVE  \E r \in ActiveByCreatorIP(ip) : r.id = q.id
    <2>1. PICK expires \in Nat, public \in BOOLEAN : UpdateRow(req[p].slug, expires, public)
        BY <1>3, WriteSteps
    <2>2. PICK r \in mocks : q = IF r \in BySlug(req[p].slug)
                                 THEN [r EXCEPT !.expires = expires, !.public = public]
                                 ELSE r
        BY <2>1 DEF UpdateRow
    <2>3. r.id = q.id /\ r.creator = ip
        BY <2>2 DEF TypeOK, Row
    <2>4. now' = now
        BY <1>3 DEF UpdateWrite, ExtendWrite
    <2>5. Live(r)
        BY <2>2, <2>4 DEF BySlug, Live
    <2> QED
        BY <2>3, <2>5 DEF ActiveByCreatorIP
<1>4. ASSUME NEW p \in Req, DeleteWrite(p) PROVE mocks' \subseteq mocks
    BY <1>4 DEF DeleteWrite, Remain
<1>5. DeleteExpired => mocks' \subseteq mocks
    BY DEF DeleteExpired, Remain
<1> QED
    BY <1>2, <1>3, <1>4, <1>5, RowSteps

\* No step but CreateCount adds a creation.
LEMMA NoneCounts ==
    ASSUME TypeOK, [Next]_vars, NEW ip \in Ip,
           ~\E p \in Req, slug \in Slug \cup {NoSlug}, x \in Ip, ttl \in TTL, public \in BOOLEAN :
               CreateCount(p, slug, x, ttl, public)
    PROVE  InFlight(ip)' \subseteq InFlight(ip)
<1> SUFFICES ASSUME NEW p \in Req, req'[p].pc \in Counted, req'[p].ip = ip
             PROVE  req[p].pc \in Counted /\ req[p].ip = ip
    BY DEF InFlight
<1>1. ASSUME NEW o \in Req, Step(o), o # p PROVE req'[p] = req[p]
    BY <1>1 DEF Step, TypeOK, Hold, Return, CreateCount, CreateName, CreateInsert, UpdateRead,
        UpdateWrite, ExtendRead, ExtendWrite, DeleteRead, DeleteWrite, ClearRead, ClearWrite,
        LogsGet, LogsAuthUI, LogsAuthAPI, LogsList, Abort
<1>2. ASSUME Step(p) PROVE req[p].pc \in Counted /\ req[p].ip = ip
    <2>1. CASE CreateName(p)
        BY <2>1 DEF CreateName, Hold, TypeOK, Counted
    <2>2. CASE \E slug \in Slug, token \in MockId, ttl \in TTL, public \in BOOLEAN :
                   UpdateRead(p, slug, token, ttl, public)
        BY <2>2 DEF UpdateRead, Hold, TypeOK, Counted
    <2>3. CASE \E slug \in Slug, token \in MockId :
                   ExtendRead(p, slug, token) \/ DeleteRead(p, slug, token)
                       \/ ClearRead(p, slug, token)
        BY <2>3 DEF ExtendRead, DeleteRead, ClearRead, Hold, TypeOK, Counted
    <2>4. CASE \E slug \in Slug, token \in issued \cup {NoToken} : LogsGet(p, slug, token)
        <3>1. req'[p].pc \in {"list", "auth"}
            BY <2>4 DEF LogsGet, Hold, TypeOK
        <3> QED
            BY <3>1 DEF Counted
    <2>5. CASE LogsAuthUI(p) \/ LogsAuthAPI(p)
        <3>1. req[p] \in Request /\ req[p].pc = "auth"
            BY <2>5 DEF LogsAuthUI, LogsAuthAPI, TypeOK
        <3>2. req[p] \in [pc : {"auth", "list"}, token : Token, slug : Slug, id : MockId,
                          public : BOOLEAN]
            BY <3>1 DEF Request, Idle
        <3>3. CASE LogsAuthUI(p)
            <4>1. req'[p] = [req[p] EXCEPT !.pc = "list"]
                BY <3>3 DEF LogsAuthUI, Hold, TypeOK
            <4>2. req'[p].pc = "list"
                BY <3>2, <4>1
            <4> QED
                BY <4>2 DEF Counted
        <3>4. CASE LogsAuthAPI(p)
            <4>1. PICK m : req'[p] = [req[p] EXCEPT !.pc = "list", !.id = m.id, !.public = m.public]
                BY <3>4 DEF LogsAuthAPI, Hold, TypeOK
            <4>2. req'[p].pc = "list"
                BY <3>2, <4>1
            <4> QED
                BY <4>2 DEF Counted
        <3> QED
            BY <2>5, <3>3, <3>4
    <2>6. CASE \/ CreateInsert(p) \/ UpdateWrite(p) \/ ExtendWrite(p) \/ DeleteWrite(p)
               \/ ClearWrite(p) \/ LogsList(p) \/ Abort(p)
        <3>1. req'[p] = Idle
            BY <2>6 DEF CreateInsert, UpdateWrite, ExtendWrite, DeleteWrite, ClearWrite,
                LogsList, Abort, Return, Hold, TypeOK
        <3> QED
            BY <3>1 DEF Idle, Counted
    <2> QED
        BY <1>2, <2>1, <2>2, <2>3, <2>4, <2>5, <2>6 DEF Step
<1>3. ASSUME Background PROVE req' = req
    BY <1>3 DEF Background, Serve, WriteLog, LoseLog, DeleteExpired, Tick
<1>4. CASE UNCHANGED vars
    BY <1>4 DEF vars
<1>5. CASE \E o \in Req : Step(o)
    <2>1. PICK o \in Req : Step(o)
        BY <1>5
    <2> QED
        BY <1>1, <1>2, <2>1
<1> QED
    BY <1>3, <1>4, <1>5 DEF Next

\* A creation that counts finds fewer than MaxMocks; only requests can follow.
LEMMA CountBounded ==
    ASSUME TypeOK, TablesOK, CapOK, NEW p \in Req, NEW slug \in Slug \cup {NoSlug}, NEW x \in Ip,
           NEW ttl \in TTL, NEW public \in BOOLEAN, CreateCount(p, slug, x, ttl, public),
           NEW ip \in Ip
    PROVE  Bounded(ip)'
<1>1. UNCHANGED <<mocks, now>>
    BY DEF CreateCount
<1>2. ActiveIds(ip)' = ActiveIds(ip)
    BY <1>1 DEF ActiveIds, ActiveByCreatorIP, Live
<1>3. CASE ip = x
    <2>1. Cardinality(ActiveIds(ip)) < MaxMocks
        BY <1>3, CountByIds DEF CreateCount, CapOK
    <2>2. InFlight(ip)' \in SUBSET Req
        BY DEF InFlight
    <2>3. Cardinality(InFlight(ip)') =< Cardinality(Req) /\ IsFiniteSet(InFlight(ip)')
        BY <2>2, ReqFinite, FS_Subset
    <2>4. /\ Cardinality(InFlight(ip)') \in Nat /\ Cardinality(Req) \in Nat /\ MaxMocks \in Nat
          /\ Cardinality(ActiveIds(ip)) \in Nat
        BY <2>3, FS_CardinalityType, Sizes DEF CapOK
    <2>5. Cardinality(ActiveIds(ip)') = Cardinality(ActiveIds(ip))
        BY <1>2
    <2> QED
        BY <2>1, <2>3, <2>4, <2>5 DEF Bounded
<1>4. CASE ip # x
    <2>1. /\ \A q \in Req \ {p} : req'[q] = req[q]
          /\ req'[p].ip = x
        BY DEF CreateCount, Hold, TypeOK
    <2>2. InFlight(ip)' \subseteq InFlight(ip)
        BY <1>4, <2>1 DEF InFlight
    <2> QED
        BY <1>2, <2>2, Shrinks
<1> QED
    BY <1>3, <1>4

\* A creation that inserts was counted.
LEMMA InsertBounded ==
    ASSUME TypeOK, TablesOK, CapOK, NEW p \in Req, CreateInsert(p), NEW ip \in Ip
    PROVE  Bounded(ip)'
<1> DEFINE c == req[p]
<1>1. c \in Request /\ c.pc = "insert" /\ c.ip \in Ip
    BY Shapes DEF CreateInsert, TypeOK
<1>2. PICK id \in MockId \ issued :
          mocks' = {r \in mocks : r.slug # c.slug}
                   \cup {[id |-> id, slug |-> c.slug, creator |-> c.ip, created |-> now,
                          expires |-> c.expires, public |-> c.public]}
    BY DEF CreateInsert, Remain
<1>3. /\ now' = now /\ req'[p] = Idle
      /\ \A q \in Req \ {p} : req'[q] = req[q]
    BY DEF CreateInsert, Return, Hold, TypeOK
<1>4. CASE ip # c.ip
    <2>1. ActiveIds(ip)' \subseteq ActiveIds(ip)
        BY <1>2, <1>3, <1>4 DEF ActiveIds, ActiveByCreatorIP, Live
    <2>2. InFlight(ip)' \subseteq InFlight(ip)
        BY <1>3 DEF InFlight, Idle, Counted
    <2> QED
        BY <2>1, <2>2, Shrinks
<1>5. CASE ip = c.ip
    <2>1. ActiveIds(ip)' \subseteq ActiveIds(ip) \cup {id}
        BY <1>2, <1>3 DEF ActiveIds, ActiveByCreatorIP, Live
    <2>2. p \in InFlight(ip) /\ InFlight(ip)' \subseteq InFlight(ip) \ {p}
        BY <1>1, <1>3, <1>5 DEF InFlight, Idle, Counted
    <2>3. /\ IsFiniteSet(ActiveIds(ip)) /\ Cardinality(ActiveIds(ip)) \in Nat
          /\ IsFiniteSet(InFlight(ip)) /\ Cardinality(InFlight(ip)) \in Nat
          /\ Cardinality(Req) \in Nat /\ MaxMocks \in Nat
        BY Sizes DEF CapOK
    <2>4. /\ IsFiniteSet(ActiveIds(ip) \cup {id})
          /\ Cardinality(ActiveIds(ip) \cup {id}) =< Cardinality(ActiveIds(ip)) + 1
        BY <2>3, FS_AddElement
    <2>5. /\ IsFiniteSet(InFlight(ip) \ {p})
          /\ Cardinality(InFlight(ip) \ {p}) = Cardinality(InFlight(ip)) - 1
        BY <2>2, <2>3, FS_RemoveElement
    <2>6. /\ IsFiniteSet(ActiveIds(ip)') /\ IsFiniteSet(InFlight(ip)')
          /\ Cardinality(ActiveIds(ip)') =< Cardinality(ActiveIds(ip) \cup {id})
          /\ Cardinality(InFlight(ip)') =< Cardinality(InFlight(ip) \ {p})
        BY <2>1, <2>2, <2>4, <2>5, FS_Subset
    <2>7. /\ Cardinality(ActiveIds(ip)') \in Nat /\ Cardinality(InFlight(ip)') \in Nat
          /\ Cardinality(ActiveIds(ip) \cup {id}) \in Nat
        BY <2>4, <2>6, FS_CardinalityType
    <2>8. Bounded(ip)
        BY DEF CapOK
    <2> QED
        BY <2>3, <2>4, <2>5, <2>6, <2>7, <2>8 DEF Bounded
<1> QED
    BY <1>4, <1>5

\* The bound, over every step.
LEMMA CapStep == TypeOK /\ TablesOK /\ CapOK /\ [Next]_vars => CapOK'
<1> SUFFICES ASSUME TypeOK, TablesOK, CapOK, [Next]_vars PROVE CapOK'
    OBVIOUS
<1>1. IsFiniteSet(issued')
    <2>1. ASSUME NEW p \in Req, CreateInsert(p) PROVE IsFiniteSet(issued')
        <3>1. PICK q \in Row : issued' = issued \cup {q.id}
            BY <2>1, CreateInsertRow
        <3> QED
            BY <3>1, FS_AddElement DEF CapOK
    <2> QED
        BY <2>1, WriteSteps, RowSteps DEF CapOK, DeleteWrite, DeleteExpired
<1>2. ASSUME NEW ip \in Ip PROVE Bounded(ip)'
    <2>1. CASE \E p \in Req : CreateInsert(p)
        BY <2>1, InsertBounded
    <2>2. CASE \E p \in Req, slug \in Slug \cup {NoSlug}, x \in Ip, ttl \in TTL,
                  public \in BOOLEAN : CreateCount(p, slug, x, ttl, public)
        BY <2>2, CountBounded
    <2>3. CASE /\ ~\E p \in Req : CreateInsert(p)
               /\ ~\E p \in Req, slug \in Slug \cup {NoSlug}, x \in Ip, ttl \in TTL,
                      public \in BOOLEAN : CreateCount(p, slug, x, ttl, public)
        BY <2>3, NoneRevives, NoneCounts, Shrinks
    <2> QED
        BY <2>1, <2>2, <2>3
<1> QED
    BY <1>1, <1>2 DEF CapOK

\* Concurrent creations of one address pass its cap together by the number of
\* requests besides the one that took the last place, and never by more.
THEOREM OvershootIsBounded == Spec => []CapOvershootBounded
<1>1. Init => CapOK
    <2> SUFFICES ASSUME Init PROVE CapOK
        OBVIOUS
    <2>1. \A ip \in Ip : ActiveIds(ip) = {} /\ InFlight(ip) = {}
        BY DEF Init, ActiveIds, ActiveByCreatorIP, InFlight, Idle, Counted
    <2>2. MaxMocks \in Nat \ {0} /\ Cardinality(Req) \in Nat
        BY ConstantsOK, ReqFinite, FS_CardinalityType
    <2>3. IsFiniteSet({}) /\ Cardinality({}) = 0
        BY FS_EmptySet
    <2>4. 0 + 0 =< MaxMocks + Cardinality(Req) - 1
        BY <2>2
    <2> QED
        BY <2>1, <2>3, <2>4 DEF Init, CapOK, Bounded
<1>2. TypeOK /\ TablesOK /\ CapOK => CapOvershootBounded
    <2> SUFFICES ASSUME TypeOK, TablesOK, CapOK, NEW ip \in Ip
                 PROVE  Cardinality(ActiveByCreatorIP(ip)) =< MaxMocks + Cardinality(Req) - 1
        BY DEF CapOvershootBounded
    <2>1. /\ Cardinality(ActiveIds(ip)) \in Nat /\ Cardinality(InFlight(ip)) \in Nat
          /\ Cardinality(Req) \in Nat /\ MaxMocks \in Nat
        BY Sizes DEF CapOK
    <2>2. Cardinality(ActiveByCreatorIP(ip)) = Cardinality(ActiveIds(ip))
        BY CountByIds DEF CapOK
    <2> QED
        BY <2>1, <2>2 DEF CapOK, Bounded
<1> QED
    BY <1>1, <1>2, TablesInvariant, CapStep, PTL DEF Spec

-----------------------------------------------------------------------------
(* The users' view *)

\* The mocks at a slug, as the registry sees them.
LEMMA SeenAt ==
    ASSUME NEW slug \in Slug
    PROVE  /\ Answers[slug] = {[id |-> r.id, public |-> r.public] : r \in BySlug(slug)}
           /\ Registry!At(slug) = {r.id : r \in BySlug(slug)}
<1>1. Answers[slug] = {[id |-> r.id, public |-> r.public] : r \in BySlug(slug)}
    BY DEF Answers
<1>2. ASSUME NEW x PROVE x \in Registry!At(slug) <=> \E r \in BySlug(slug) : x = r.id
    <2>1. \A r \in BySlug(slug) : [id |-> r.id, public |-> r.public].id = r.id
        OBVIOUS
    <2> QED
        BY <1>1, <2>1 DEF Registry!At
<1> QED
    BY <1>1, <1>2

\* Time only passes in Tick.
LEMMA ClockSteps == ASSUME [Next]_vars PROVE now' = now \/ Tick
BY ZenonT(60) DEF Next, Step, Background, vars, CreateCount, CreateName, CreateInsert, UpdateRead,
       UpdateWrite, ExtendRead, ExtendWrite, DeleteRead, DeleteWrite, ClearRead, ClearWrite,
       LogsGet, LogsAuthUI, LogsAuthAPI, LogsList, Abort, Serve, WriteLog, LoseLog, DeleteExpired

\* Steps that leave the rows alone may write or clear the logs of one mock.
LEMMA LogSteps ==
    ASSUME [Next]_vars, mocks' = mocks
    PROVE  \/ logs' = logs
           \/ \E id \in MockId : Stored(id) /\ logs' = logs \cup {id}
           \/ \E p \in Req : ClearWrite(p)
           \/ \E p \in Req : CreateInsert(p) \/ DeleteWrite(p)
           \/ DeleteExpired
BY ZenonT(60) DEF Next, Step, Background, vars, CreateCount, CreateName, UpdateRead,
       UpdateWrite, ExtendRead, ExtendWrite, DeleteRead, ClearRead, LogsGet, LogsAuthUI,
       LogsAuthAPI, LogsList, Abort, Serve, WriteLog, LoseLog, Tick

\* Without a change of the rows or the clock the view stays.
LEMMA ViewKept ==
    ASSUME mocks' = mocks, now' = now
    PROVE  Answers' = Answers /\ Ended' = Ended
BY DEF Answers, Ended, Expired, BySlug, Live

Ids(rows) == {r.id : r \in rows}

\* Rows that leave the table take their logs along, and no others.
LEMMA RemainLogs ==
    ASSUME TablesOK, NEW old \in SUBSET mocks, Remain(mocks'),
           \A r \in mocks : r \in mocks' <=> r \notin old,
           \A q \in mocks' : q \in mocks \/ q.id \notin issued
    PROVE  logs' = logs \ Ids(old)
<1>1. logs' = {id \in logs : \E r \in mocks' : r.id = id}
    BY DEF Remain
<1>2. ASSUME NEW id \in logs
      PROVE  (\E r \in mocks' : r.id = id) <=> id \notin Ids(old)
    <2>1. PICK m \in mocks : m.id = id
        BY DEF TablesOK, LogsHaveMock, Stored
    <2>2. \A r \in mocks : r.id = id => r = m
        BY <2>1 DEF TablesOK
    <2>3. \A q \in mocks' : q \notin mocks => q.id # id
        BY <2>1 DEF TablesOK
    <2> QED
        BY <2>1, <2>2, <2>3 DEF Ids
<1> QED
    BY <1>1, <1>2

\* A row is live or has ended, and a slug has one row.
LEMMA OneRow ==
    ASSUME TablesOK, NEW m \in mocks
    PROVE  /\ \A r \in mocks : r.slug = m.slug => r = m
           /\ m \in BySlug(m.slug) => BySlug(m.slug) = {m}
           /\ m \notin BySlug(m.slug) => BySlug(m.slug) = {} /\ m.id \in Ended
           /\ m.id \in Ended => m \notin BySlug(m.slug)
BY DEF TablesOK, BySlug, Ended, Expired, Live

\* Where the rows of a slug stay, its answer stays.
LEMMA SameAnswer ==
    ASSUME NEW slug \in Slug, BySlug(slug)' = BySlug(slug)
    PROVE  Answers'[slug] = Answers[slug]
BY DEF Answers

\* Only one slug's rows change.
LEMMA OneAnswer ==
    ASSUME NEW slug \in Slug, \A s \in Slug \ {slug} : BySlug(s)' = BySlug(s)
    PROVE  Answers' = [Answers EXCEPT ![slug] = Answers'[slug]]
<1>1. /\ Answers = [s \in Slug |-> Answers[s]]
      /\ Answers' = [s \in Slug |-> Answers'[s]]
    BY DEF Answers
<1>2. \A s \in Slug \ {slug} : Answers'[s] = Answers[s]
    BY SameAnswer
<1> HIDE DEF Answers
<1> QED
    BY <1>1, <1>2

\* A row that is inserted is published at a slug that was free, or comes too late.
LEMMA InsertPublishes ==
    ASSUME TypeOK, TablesOK, NEW p \in Req, CreateInsert(p)
    PROVE  Registry!Next
<1>1. PICK q \in Row :
          /\ q.id \notin issued
          /\ q.slug = req[p].slug
          /\ Remain({r \in mocks : r.slug # q.slug} \cup {q})
          /\ issued' = issued \cup {q.id}
    BY CreateInsertRow
<1>0. PICK kept \in SUBSET mocks : kept = {r \in mocks : r.slug # q.slug}
    OBVIOUS
<1> DEFINE gone == Ids(mocks \ kept)
<1>2. q.slug \in Slug /\ q.id \in MockId /\ q.public \in BOOLEAN /\ now' = now
    BY DEF Row, CreateInsert
<1>3. BySlug(q.slug) = {}
    BY <1>1 DEF CreateInsert, Freed
<1>4. logs' = logs \ gone
    <2>1. PICK old \in SUBSET mocks : old = mocks \ kept
        OBVIOUS
    <2>2. Remain(mocks') /\ mocks' = kept \cup {q}
        BY <1>0, <1>1 DEF Remain
    <2>3. logs' = logs \ Ids(old)
        BY <1>1, <2>1, <2>2, RemainLogs DEF TablesOK
    <2> QED
        BY <2>1, <2>3 DEF Ids
<1>5. \A r \in mocks \ kept : r \in Expired
    BY <1>0, <1>3 DEF BySlug, Expired
<1>6. gone \in SUBSET Ended
    BY <1>5 DEF Ended, Ids
<1>7. mocks' = kept \cup {q}
    BY <1>0, <1>1 DEF Remain
<1>8. \A s \in Slug \ {q.slug} : BySlug(s)' = BySlug(s)
    BY <1>0, <1>2, <1>7 DEF BySlug, Live
<1>9. Answers[q.slug] = {}
    BY <1>2, <1>3, SeenAt
<1>10. \A r \in kept : r.id \notin gone
    BY <1>0 DEF TablesOK, Ids
<1>11. CASE Live(q)
    <2>1. BySlug(q.slug)' = {q}
        BY <1>0, <1>2, <1>7, <1>11 DEF BySlug, Live
    <2>2. Answers'[q.slug] = {[id |-> q.id, public |-> q.public]}
        BY <1>2, <2>1 DEF Answers
    <2>3. Answers' = [Answers EXCEPT ![q.slug] = {[id |-> q.id, public |-> q.public]}]
        BY <1>2, <1>8, <2>2, OneAnswer
    <2>4. Expired' = Expired \ (mocks \ kept)
        BY <1>2, <1>5, <1>7, <1>11 DEF Expired, Live
    <2>5. Ended' = (Ended \ gone) \cup {}
        BY <1>10, <2>4 DEF Ended, Expired, Ids
    <2>6. Registry!Forget(gone, {})
        BY <1>4, <1>6, <2>5 DEF Registry!Forget
    <2>7. Registry!Publish(q.slug, q.id, q.public)
        BY <1>1, <1>6, <1>9, <2>3, <2>6 DEF Registry!Publish
    <2> QED
        BY <1>2, <2>7 DEF Registry!Next
<1>12. CASE ~Live(q)
    <2>1. BySlug(q.slug)' = {}
        BY <1>0, <1>2, <1>7, <1>12 DEF BySlug, Live
    <2>2. \A s \in Slug : BySlug(s)' = BySlug(s)
        BY <1>3, <1>8, <2>1
    <2>3. Answers' = Answers
        BY <2>2 DEF Answers
    <2>4. Expired' = (Expired \ (mocks \ kept)) \cup {q}
        BY <1>2, <1>5, <1>7, <1>12 DEF Expired, Live
    <2>5. Ended' = (Ended \ gone) \cup {q.id}
        BY <1>10, <2>4 DEF Ended, Expired, Ids
    <2>6. Registry!Forget(gone, {q.id})
        BY <1>4, <1>6, <2>5 DEF Registry!Forget
    <2>7. Registry!PublishLate(q.id)
        BY <1>1, <1>6, <2>3, <2>6 DEF Registry!PublishLate
    <2> QED
        BY <1>2, <2>7 DEF Registry!Next
<1> QED
    BY <1>11, <1>12

\* Update and Extend configure the mock that answers at the slug, or end it.
LEMMA WriteConfigures ==
    ASSUME TypeOK, TablesOK, NEW p \in Req, UpdateWrite(p) \/ ExtendWrite(p)
    PROVE  [Registry!Next]_<<Answers, Ended, issued, logs>>
<1>1. PICK slug \in Slug : slug = req[p].slug
    BY Shapes DEF TypeOK, UpdateWrite, ExtendWrite
<1>2. now' = now /\ issued' = issued /\ logs' = logs
    BY WriteSteps DEF UpdateWrite, ExtendWrite
<1>3. PICK expires \in Nat, public \in BOOLEAN : UpdateRow(slug, expires, public)
    BY <1>1, WriteSteps
<1>4. CASE BySlug(slug) = {}
    <2>1. mocks' = mocks
        BY <1>3, <1>4 DEF UpdateRow
    <2> QED
        BY <1>2, <2>1, ViewKept
<1>5. ASSUME NEW m \in BySlug(slug) PROVE Registry!Next
    <2> DEFINE q == [m EXCEPT !.expires = expires, !.public = public]
    <2>1. m \in mocks /\ m \in Row /\ m.slug = slug /\ BySlug(slug) = {m}
        BY OneRow DEF TypeOK, BySlug
    <2>2. q.id = m.id /\ q.slug = slug /\ q.expires = expires /\ q.public = public
        BY <2>1 DEF Row
    <2> HIDE DEF q
    <2>3. mocks' = (mocks \ {m}) \cup {q}
        <3> DEFINE New(r) == IF r \in BySlug(slug)
                             THEN [r EXCEPT !.expires = expires, !.public = public]
                             ELSE r
        <3>1. mocks' = {New(r) : r \in mocks}
            BY <1>3, Zenon DEF UpdateRow
        <3>2. New(m) = q /\ \A r \in mocks \ {m} : New(r) = r
            BY <2>1 DEF q
        <3> HIDE DEF New
        <3> QED
            BY <2>1, <3>1, <3>2
    <2>4. Answers[slug] = {[id |-> m.id, public |-> m.public]} /\ Registry!At(slug) = {m.id}
        BY <1>2, <2>1, SeenAt
    <2>5. \A s \in Slug \ {slug} : BySlug(s)' = BySlug(s)
        BY <1>2, <2>1, <2>2, <2>3 DEF BySlug, Live
    <2>6. \A r \in mocks \ {m} : r.slug # slug
        BY <2>1, OneRow
    <2>7. m.id \notin Ended
        BY <2>1, OneRow
    <2>8. CASE expires > now
        <3>1. BySlug(slug)' = {q}
            BY <1>2, <2>2, <2>3, <2>6, <2>8 DEF BySlug, Live
        <3>2. Answers'[slug] = {[id |-> m.id, public |-> public]}
            BY <1>2, <2>2, <3>1 DEF Answers
        <3>3. Answers'[slug] = {[id |-> id, public |-> public] : id \in Registry!At(slug)}
            BY <2>4, <3>2
        <3>4. Answers' = [Answers EXCEPT ![slug] =
                             {[id |-> id, public |-> public] : id \in Registry!At(slug)}]
            BY <1>2, <2>5, <3>3, OneAnswer
        <3>5. Expired' = Expired
            BY <1>2, <2>1, <2>2, <2>3, <2>8 DEF Expired, Live, BySlug
        <3>6. Ended' = Ended
            BY <3>5 DEF Ended
        <3> QED
            BY <1>2, <3>4, <3>6 DEF Registry!Next, Registry!Configure
    <2>9. CASE ~(expires > now)
        <3>1. BySlug(slug)' = {}
            BY <1>2, <2>2, <2>3, <2>6, <2>9 DEF BySlug, Live
        <3>2. Answers' = [s \in Slug |-> IF s \in {slug} THEN {} ELSE Answers[s]]
            <4>1. Answers'[slug] = {}
                BY <1>2, <3>1 DEF Answers
            <4>2. \A s \in Slug \ {slug} : Answers'[s] = Answers[s]
                BY <2>5, SameAnswer
            <4>3. Answers' = [s \in Slug |-> Answers'[s]]
                BY DEF Answers
            <4> HIDE DEF Answers
            <4> QED
                BY <1>2, <4>1, <4>2, <4>3
        <3>3. Expired' = Expired \cup {q}
            BY <1>2, <2>1, <2>2, <2>3, <2>9 DEF Expired, Live, BySlug
        <3>4. Ended' = Ended \cup {m.id}
            BY <2>2, <3>3 DEF Ended
        <3>5. UNION {Registry!At(s) : s \in {slug}} = {m.id}
            BY <2>4
        <3>6. Registry!End({slug})
            BY <1>2, <3>2, <3>4, <3>5 DEF Registry!End
        <3> QED
            BY <1>2, <3>6 DEF Registry!Next
    <2> QED
        BY <2>8, <2>9
<1> QED
    BY <1>4, <1>5

\* DELETE by slug deletes what answers there, or removes what has ended.
LEMMA DeleteForgets ==
    ASSUME TypeOK, TablesOK, NEW p \in Req, DeleteWrite(p)
    PROVE  Registry!Next
<1>0. PICK slug \in Slug : slug = req[p].slug
    BY Shapes DEF TypeOK, DeleteWrite
<1>1. PICK kept \in SUBSET mocks : kept = {r \in mocks : r.slug # slug}
    OBVIOUS
<1> DEFINE gone == Ids(mocks \ kept)
<1>2. now' = now /\ issued' = issued
    BY DEF DeleteWrite
<1>3. mocks' = kept
    BY <1>0, <1>1 DEF DeleteWrite, Remain
<1>4. logs' = logs \ gone
    <2>1. PICK old \in SUBSET mocks : old = mocks \ kept
        OBVIOUS
    <2>2. Remain(mocks') /\ mocks' = kept
        BY <1>0, <1>1 DEF DeleteWrite, Remain
    <2>3. logs' = logs \ Ids(old)
        BY <2>1, <2>2, RemainLogs
    <2> QED
        BY <2>1, <2>3 DEF Ids
<1>5. \A s \in Slug \ {slug} : BySlug(s)' = BySlug(s)
    BY <1>1, <1>2, <1>3 DEF BySlug, Live
<1>6. BySlug(slug)' = {} /\ Answers'[slug] = {}
    BY <1>1, <1>2, <1>3 DEF BySlug, Answers
<1>7. Answers' = [Answers EXCEPT ![slug] = {}]
    BY <1>2, <1>5, <1>6, OneAnswer
<1>8. \A r \in kept : r.id \notin gone
    BY <1>1 DEF TablesOK, Ids
<1>9. CASE BySlug(slug) = {}
    <2>1. \A r \in mocks \ kept : r \in Expired
        BY <1>1, <1>9 DEF BySlug, Expired
    <2>2. gone \in SUBSET Ended
        BY <2>1 DEF Ended, Ids
    <2>3. Expired' = Expired \ (mocks \ kept)
        BY <1>2, <1>3 DEF Expired, Live
    <2>4. Ended' = (Ended \ gone) \cup {}
        BY <1>8, <2>3 DEF Ended, Expired, Ids
    <2>5. \A s \in Slug : BySlug(s)' = BySlug(s)
        BY <1>5, <1>6, <1>9
    <2>6. Answers' = Answers
        BY <2>5 DEF Answers
    <2>7. Registry!Remove(gone)
        BY <1>2, <1>4, <2>2, <2>4, <2>6 DEF Registry!Remove, Registry!Forget
    <2> QED
        BY <2>2, <2>7 DEF Registry!Next
<1>10. ASSUME NEW m \in BySlug(slug) PROVE Registry!Next
    <2>1. m \in mocks /\ m.slug = slug /\ BySlug(slug) = {m} /\ m \notin Expired
        BY OneRow DEF BySlug, Expired
    <2>2. mocks \ kept = {m}
        BY <1>1, <2>1, OneRow
    <2>3. gone = {m.id}
        BY <2>2 DEF Ids
    <2>4. Registry!At(slug) = {m.id}
        BY <1>2, <2>1, SeenAt
    <2>5. Expired' = Expired
        BY <1>2, <1>3, <2>1, <2>2 DEF Expired, Live
    <2>6. Ended' = Ended
        BY <2>5 DEF Ended
    <2>7. Registry!Delete(slug)
        BY <1>2, <1>4, <1>7, <2>3, <2>4, <2>6 DEF Registry!Delete
    <2> QED
        BY <1>2, <2>7 DEF Registry!Next
<1> QED
    BY <1>9, <1>10

\* The sweep removes what has ended.
LEMMA SweepRemoves ==
    ASSUME TypeOK, TablesOK, DeleteExpired
    PROVE  Registry!Next
<1>0. PICK kept \in SUBSET mocks : kept = mocks \ Expired
    OBVIOUS
<1>1. mocks' = kept /\ now' = now /\ issued' = issued
    BY <1>0 DEF DeleteExpired, Remain
<1>2. logs' = logs \ Ids(mocks \ kept)
    <2>1. PICK old \in SUBSET mocks : old = mocks \ kept
        OBVIOUS
    <2>2. Remain(mocks') /\ mocks' = kept
        BY <1>0 DEF DeleteExpired, Remain
    <2>3. logs' = logs \ Ids(old)
        BY <2>1, <2>2, RemainLogs
    <2> QED
        BY <2>1, <2>3 DEF Ids
<1>3. mocks \ kept = Expired
    BY <1>0 DEF Expired
<1>4. logs' = logs \ Ended
    BY <1>2, <1>3 DEF Ended, Ids
<1>5. Expired' = {}
    BY <1>0, <1>1 DEF Expired, Live
<1>6. Ended' = (Ended \ Ended) \cup {}
    BY <1>5 DEF Ended, Ids
<1>7. \A s \in Slug : BySlug(s)' = BySlug(s)
    BY <1>0, <1>1 DEF BySlug, Expired, Live
<1>8. Answers' = Answers
    BY <1>7 DEF Answers
<1>9. Registry!Remove(Ended)
    BY <1>1, <1>4, <1>6, <1>8 DEF Registry!Remove, Registry!Forget
<1> QED
    BY <1>9 DEF Registry!Next

\* The clock ends the mocks whose time is over, all at once.
LEMMA TickEnds ==
    ASSUME TypeOK, TablesOK, Tick
    PROVE  Registry!Next
<1> DEFINE over == {slug \in Slug : BySlug(slug)' = {}}
<1>1. mocks' = mocks /\ issued' = issued /\ logs' = logs /\ now' = now + 1 /\ now \in Nat
    BY DEF Tick, TypeOK
<1>2. \A r \in mocks : Live(r)' => Live(r)
    BY <1>1 DEF Live, TypeOK, Row
<1>3. ASSUME NEW slug \in Slug PROVE BySlug(slug)' = IF slug \in over THEN {} ELSE BySlug(slug)
    <2>1. CASE slug \in over
        BY <2>1
    <2>2. CASE slug \notin over
        <3>1. PICK m \in BySlug(slug)' : TRUE
            BY <2>2
        <3>2. m \in mocks /\ m.slug = slug /\ Live(m)' /\ Live(m)
            BY <1>1, <1>2, <3>1 DEF BySlug, Live
        <3>3. BySlug(slug) = {m}
            BY <3>2, OneRow DEF BySlug
        <3>4. BySlug(slug)' = {m}
            BY <1>1, <1>2, <3>1, <3>3 DEF BySlug, Live
        <3> QED
            BY <2>2, <3>3, <3>4
    <2> QED
        BY <2>1, <2>2
<1>4. Answers' = [slug \in Slug |-> IF slug \in over THEN {} ELSE Answers[slug]]
    BY <1>3 DEF Answers
<1>5. Ended' = Ended \cup UNION {Registry!At(slug) : slug \in over}
    <2>1. ASSUME NEW id
          PROVE  id \in Ended' <=> id \in Ended \/ \E slug \in over : id \in Registry!At(slug)
        <3>1. ASSUME NEW r \in mocks, r.id = id, ~Live(r)'
              PROVE  id \in Ended \/ \E slug \in over : id \in Registry!At(slug)
            <4>1. CASE ~Live(r)
                BY <3>1, <4>1 DEF Ended, Expired
            <4>2. CASE Live(r)
                <5>1. r.slug \in Slug /\ r \in BySlug(r.slug)
                    BY <4>2 DEF TypeOK, Row, BySlug
                <5>2. BySlug(r.slug)' = {}
                    <6>1. BySlug(r.slug) = {r}
                        BY <5>1, OneRow
                    <6>2. r \notin BySlug(r.slug)'
                        BY <3>1 DEF BySlug
                    <6> QED
                        BY <1>3, <5>1, <6>1, <6>2
                <5>3. id \in Registry!At(r.slug)
                    BY <3>1, <5>1, SeenAt
                <5> QED
                    BY <5>1, <5>2, <5>3
            <4> QED
                BY <4>1, <4>2
        <3>2. ASSUME NEW slug \in over, id \in Registry!At(slug) PROVE id \in Ended'
            <4>1. PICK r \in BySlug(slug) : r.id = id
                BY <3>2, SeenAt
            <4>2. r \in mocks /\ r \notin BySlug(slug)' /\ r.slug = slug
                BY <3>2 DEF BySlug
            <4>3. r \in Expired'
                BY <1>1, <4>2 DEF BySlug, Expired
            <4> QED
                BY <4>1, <4>3 DEF Ended
        <3>3. id \in Ended => id \in Ended'
            BY <1>1, <1>2 DEF Ended, Expired
        <3>4. id \in Ended' => \E r \in mocks : r.id = id /\ ~Live(r)'
            BY <1>1 DEF Ended, Expired
        <3> QED
            BY <3>1, <3>2, <3>3, <3>4
    <2> HIDE DEF over
    <2> QED
        BY <2>1
<1>6. Registry!End(over)
    BY <1>1, <1>4, <1>5 DEF Registry!End
<1> QED
    BY <1>6 DEF Registry!Next

\* Steps that leave rows and clock alone write or clear request logs, if anything.
LEMMA LogsOnly ==
    ASSUME TypeOK, TablesOK, mocks' = mocks, now' = now, issued' = issued,
           \/ logs' = logs
           \/ \E id \in MockId : Stored(id) /\ logs' = logs \cup {id}
           \/ \E p \in Req : ClearWrite(p)
    PROVE  [Registry!Next]_<<Answers, Ended, issued, logs>>
<1>1. Answers' = Answers /\ Ended' = Ended
    BY ViewKept
<1>2. ASSUME NEW id \in MockId, Stored(id), logs' = logs \cup {id} PROVE Registry!Next
    <2>1. PICK r \in mocks : r.id = id
        BY <1>2 DEF Stored
    <2>2. r.slug \in Slug
        BY DEF TypeOK, Row
    <2>3. r \in BySlug(r.slug) \/ id \in Ended
        BY <2>1 DEF BySlug, Ended, Expired
    <2>4. r \in BySlug(r.slug) => id \in Registry!At(r.slug)
        BY <2>1, <2>2, SeenAt
    <2>5. id \in Registry!Answering \cup Ended
        BY <2>2, <2>3, <2>4 DEF Registry!Answering
    <2>6. Registry!Log(id)
        BY <1>1, <1>2, <2>5 DEF Registry!Log
    <2> QED
        BY <2>6 DEF Registry!Next
<1>3. ASSUME NEW p \in Req, ClearWrite(p) PROVE Registry!Next
    <2>1. req[p].id \in MockId
        BY <1>3, Shapes DEF ClearWrite, TypeOK
    <2>2. Registry!Clear(req[p].id)
        BY <1>1, <1>3 DEF ClearWrite, Registry!Clear
    <2> QED
        BY <2>1, <2>2 DEF Registry!Next
<1> QED
    BY <1>1, <1>2, <1>3

\* Every step of the service is one the users may see, or nothing to them.
LEMMA RegistryStep ==
    TypeOK /\ TablesOK /\ [Next]_vars => [Registry!Next]_<<Answers, Ended, issued, logs>>
<1> SUFFICES ASSUME TypeOK, TablesOK, [Next]_vars
             PROVE  [Registry!Next]_<<Answers, Ended, issued, logs>>
    OBVIOUS
<1>1. ASSUME NEW p \in Req, CreateInsert(p) PROVE Registry!Next
    BY <1>1, InsertPublishes
<1>2. ASSUME NEW p \in Req, UpdateWrite(p) \/ ExtendWrite(p)
      PROVE  [Registry!Next]_<<Answers, Ended, issued, logs>>
    BY <1>2, WriteConfigures
<1>3. ASSUME NEW p \in Req, DeleteWrite(p) PROVE Registry!Next
    BY <1>3, DeleteForgets
<1>4. CASE DeleteExpired
    BY <1>4, SweepRemoves
<1>5. CASE Tick
    BY <1>5, TickEnds
<1>6. CASE /\ mocks' = mocks /\ issued' = issued /\ now' = now
           /\ ~DeleteExpired /\ ~\E p \in Req : CreateInsert(p) \/ DeleteWrite(p)
    BY <1>6, LogSteps, LogsOnly
<1> QED
    BY <1>1, <1>2, <1>3, <1>4, <1>5, <1>6, ClockSteps, RowSteps

\* Through every interleaving of creations under one slug, stale writes, slow
\* requests, sweeps and log writes, a URL answers for one mock at a time and
\* passes on only when it is free, a mock that has ended or was deleted never
\* answers again, and its request logs go with it.
THEOREM ServiceImplementsRegistry == Spec => ImplementsRegistry
<1>1. Init => Registry!Init
    BY DEF Init, Registry!Init, Answers, Ended, Expired, BySlug
<1> QED
    BY <1>1, TablesInvariant, RegistryStep, PTL DEF Spec, ImplementsRegistry, Registry!Spec

=============================================================================
