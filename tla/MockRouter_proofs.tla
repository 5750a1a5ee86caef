------------------------- MODULE MockRouter_proofs -------------------------
(***************************************************************************)
(* Theorems about MockRouter, for any hits, requests and configurations,   *)
(* rows of earlier releases included.                                      *)
(***************************************************************************)
EXTENDS OpenAPIImport, MockInput_proofs

-----------------------------------------------------------------------------
(* The stages of a hit *)

HitFields ==
    {"at", "req", "m", "src", "served", "route", "step", "values", "logged", "reply"}

\* The records of the hits, and the counters.
Typed ==
    /\ DOMAIN hit = Hit /\ position \in Nat /\ tplPosition \in Nat
    /\ \A h \in Hit :
          /\ DOMAIN hit[h] = HitFields
          /\ hit[h].at \in {"new", "select", "delay", "write", "over"}
          /\ hit[h].values \in Seq(Nat)

\* A step of one hit leaves the others alone, and these fields of its own.
Alone(h) == \A k \in Hit \ {h} : hit'[k] = hit[k]
Same(h, fields) == \A f \in fields : hit'[h][f] = hit[h][f]

\* The end of a hit that is not answered from a configuration.
Ends(h, m, reply) ==
    /\ hit'[h].at = "over" /\ hit'[h].reply = <<reply>> /\ hit'[h].m = m
    /\ Same(h, {"src", "served", "route", "step", "values", "logged"})

\* Finish, and the hit's own lookup.
LEMMA FinishEffect ==
    ASSUME Typed, NEW h \in Hit, NEW req, NEW m, NEW reply, Finish(h, req, m, reply),
           UNCHANGED <<position, tplPosition>>
    PROVE  /\ Typed' /\ Alone(h) /\ Ends(h, m, reply) /\ hit'[h].req = req
BY DEF Finish, Typed, Alone, Ends, Same, HitFields

\* Proceed: a source is found.
LEMMA ProceedEffect ==
    ASSUME Typed, NEW h \in Hit, NEW req, NEW src, NEW route, Proceed(h, req, src, route),
           UNCHANGED <<position, tplPosition>>
    PROVE  /\ Typed' /\ Alone(h) /\ hit'[h].at = "select" /\ hit'[h].req = req
           /\ hit'[h].m = mock /\ hit'[h].src = src
           /\ Same(h, {"served", "step", "values", "logged", "reply"})
BY DEF Proceed, Typed, Alone, Same, HitFields

\* Choose: the response is chosen.
LEMMA ChooseEffect ==
    ASSUME Typed, NEW h \in Hit, NEW served, NEW step, Choose(h, served, step),
           UNCHANGED tplPosition, position' \in Nat
    PROVE  /\ Typed' /\ Alone(h) /\ hit'[h].at = "delay" /\ hit'[h].served = served
           /\ hit'[h].step = step
           /\ Same(h, {"req", "m", "src", "route", "values", "logged", "reply"})
BY DEF Choose, Typed, Alone, Same, HitFields

\* Logs: the entry is submitted.
LEMMA LogsEffect ==
    ASSUME Typed, NEW h \in Hit, NEW to \in {"write", "over"}, NEW status, Logs(h, to, status),
           UNCHANGED <<position, tplPosition>>
    PROVE  /\ Typed' /\ Alone(h) /\ hit'[h].at = to /\ hit'[h].logged = status
           /\ Same(h, {"req", "m", "src", "served", "route", "step", "values", "reply"})
BY DEF Logs, Typed, Alone, Same, HitFields

\* TakeSeq: a value for a token.
LEMMA TakeSeqEffect ==
    ASSUME Typed, NEW h \in Hit, TakeSeq(h)
    PROVE  /\ Typed' /\ Alone(h) /\ tplPosition' = tplPosition + 1 /\ position' = position
           /\ hit'[h].values = Append(hit[h].values, tplPosition + 1)
           /\ hit[h].at = "write" /\ Consumes(h) /\ UNCHANGED mock
           /\ Same(h, {"at", "req", "m", "src", "served", "route", "step", "logged", "reply"})
<1>1. tplPosition + 1 \in Nat
    BY DEF Typed
<1>2. Append(hit[h].values, tplPosition + 1) \in Seq(Nat)
    BY <1>1 DEF Typed
<1> QED
    BY <1>1, <1>2 DEF TakeSeq, Takes, Typed, Alone, Same, HitFields

\* Respond: the reply goes out.
RespondEnds(h) ==
    /\ hit[h].at = "write" /\ hit'[h].at = "over" /\ ~Consumes(h)
    /\ \E choice \in {0, 1} : hit'[h].reply =
          <<[status |-> WireStatus(Status(hit[h].served)),
             headers |-> ReplyHeaders(hit[h].m, hit[h].src, hit[h].served, hit[h].route),
             body |-> IF HasBody(Status(hit[h].served), hit[h].req.method)
                      THEN RenderResponseBodyForRequest(hit[h].served.body, hit[h].req, MockURL,
                                                        hit[h].values, choice)
                      ELSE <<>>]>>
    /\ Same(h, {"req", "m", "src", "served", "route", "step", "values", "logged"})

\* Respond ends the hit, with a reply of the response it was going to get.
LEMMA RespondEffect ==
    ASSUME Typed, NEW h \in Hit, Respond(h)
    PROVE  Typed' /\ Alone(h) /\ RespondEnds(h) /\ UNCHANGED <<mock, position, tplPosition>>
<1>1. PICK choice \in {0, 1} :
          hit' = [hit EXCEPT ![h] = [@ EXCEPT !.at = "over", !.reply =
                    <<[status |-> WireStatus(Status(hit[h].served)),
                       headers |-> ReplyHeaders(hit[h].m, hit[h].src, hit[h].served, hit[h].route),
                       body |-> IF HasBody(Status(hit[h].served), hit[h].req.method)
                                THEN RenderResponseBodyForRequest(hit[h].served.body, hit[h].req,
                                         MockURL, hit[h].values, choice)
                                ELSE <<>>]>>]]
    BY DEF Respond
<1>2. hit[h].at = "write" /\ ~Consumes(h) /\ UNCHANGED <<mock, position, tplPosition>>
    BY DEF Respond
<1> QED
    BY <1>1, <1>2 DEF RespondEnds, Typed, Alone, Same, HitFields

\* Receive: what the mock that was read, if any, says of the method and the path.
ReceiveEnds(h, req) ==
    /\ hit[h].at = "new" /\ hit'[h].req = req
    /\ Same(h, {"served", "step", "values", "logged"})
    /\ \/ Ends(h, None, Bare(404))
       \/ /\ mock # None /\ mock.cors /\ req.method = "OPTIONS"
          /\ Ends(h, mock, [Bare(204) EXCEPT !.headers = CORSHeaders])
       \/ /\ mock # None /\ ~(mock.cors /\ req.method = "OPTIONS") /\ mock.routes = <<>>
          /\ ~methodMatches(mock.method, req.method)
          /\ Ends(h, mock, [Bare(405) EXCEPT !.headers = Header("allow", mock.method)])
       \/ /\ mock # None /\ ~(mock.cors /\ req.method = "OPTIONS") /\ mock.routes # <<>>
          /\ matchRoute(mock.routes, req.path, req.method).route = <<>>
          /\ Ends(h, mock, Bare(IF matchRoute(mock.routes, req.path, req.method).pathMatched
                                THEN 405 ELSE 404))
       \/ /\ mock # None /\ ~(mock.cors /\ req.method = "OPTIONS")
          /\ \/ /\ mock.routes = <<>> /\ methodMatches(mock.method, req.method)
                /\ hit'[h].src = Source(mock)
             \/ /\ mock.routes # <<>>
                /\ matchRoute(mock.routes, req.path, req.method).route # <<>>
                /\ hit'[h].src = Source(matchRoute(mock.routes, req.path, req.method).route[1])
          /\ hit'[h].at = "select" /\ hit'[h].m = mock /\ hit'[h].reply = hit[h].reply

\* Receive touches one hit, which is over or has its source.
LEMMA ReceiveEffect ==
    ASSUME Typed, NEW h \in Hit, NEW req0 \in Requests, Receive(h, req0)
    PROVE  /\ Typed' /\ Alone(h) /\ UNCHANGED <<mock, position, tplPosition>>
           /\ \E req : ReceiveEnds(h, req)
<1> DEFINE req == [req0 EXCEPT !.body = Mapped(Long, @)]
           route == matchRoute(mock.routes, req.path, req.method)
           preflight == mock.cors /\ req.method = "OPTIONS"
<1>1. hit[h].at = "new" /\ UNCHANGED <<mock, position, tplPosition>>
    BY DEF Receive
<1>2. CASE Finish(h, req, None, Bare(404))
    <2> HIDE DEF req
    <2>1. Typed' /\ Alone(h) /\ Ends(h, None, Bare(404)) /\ hit'[h].req = req
        BY <1>1, <1>2, FinishEffect
    <2>2. Same(h, {"served", "step", "values", "logged"})
        BY <2>1 DEF Ends, Same
    <2>3. ReceiveEnds(h, req)
        BY <1>1, <2>1, <2>2 DEF ReceiveEnds
    <2> QED
        BY <1>1, <2>1, <2>3
<1>3. CASE \E reply : /\ Finish(h, req, mock, reply)
                      /\ \/ mock # None /\ preflight /\ reply = [Bare(204) EXCEPT !.headers = CORSHeaders]
                         \/ /\ mock # None /\ ~preflight /\ mock.routes = <<>>
                            /\ ~methodMatches(mock.method, req.method)
                            /\ reply = [Bare(405) EXCEPT !.headers = Header("allow", mock.method)]
                         \/ /\ mock # None /\ ~preflight /\ mock.routes # <<>> /\ route.route = <<>>
                            /\ reply = Bare(IF route.pathMatched THEN 405 ELSE 404)
    <2>1. PICK reply :
              /\ Finish(h, req, mock, reply)
              /\ \/ mock # None /\ preflight /\ reply = [Bare(204) EXCEPT !.headers = CORSHeaders]
                 \/ /\ mock # None /\ ~preflight /\ mock.routes = <<>>
                    /\ ~methodMatches(mock.method, req.method)
                    /\ reply = [Bare(405) EXCEPT !.headers = Header("allow", mock.method)]
                 \/ /\ mock # None /\ ~preflight /\ mock.routes # <<>> /\ route.route = <<>>
                    /\ reply = Bare(IF route.pathMatched THEN 405 ELSE 404)
        BY <1>3
    <2> HIDE DEF req
    <2>2. Typed' /\ Alone(h) /\ Ends(h, mock, reply) /\ hit'[h].req = req
        BY <1>1, <2>1, FinishEffect
    <2>3. Same(h, {"served", "step", "values", "logged"})
        BY <2>2 DEF Ends, Same
    <2>4. ReceiveEnds(h, req)
        BY <1>1, <2>1, <2>2, <2>3 DEF ReceiveEnds
    <2> QED
        BY <1>1, <2>2, <2>4
<1>4. CASE \E src, text : /\ Proceed(h, req, src, text) /\ mock # None /\ ~preflight
                          /\ \/ /\ mock.routes = <<>> /\ methodMatches(mock.method, req.method)
                                /\ src = Source(mock)
                             \/ mock.routes # <<>> /\ route.route # <<>> /\ src = Source(route.route[1])
    <2>1. PICK src, text :
              /\ Proceed(h, req, src, text) /\ mock # None /\ ~preflight
              /\ \/ /\ mock.routes = <<>> /\ methodMatches(mock.method, req.method)
                    /\ src = Source(mock)
                 \/ mock.routes # <<>> /\ route.route # <<>> /\ src = Source(route.route[1])
        BY <1>4
    <2> HIDE DEF req
    <2>2. /\ Typed' /\ Alone(h) /\ hit'[h].at = "select" /\ hit'[h].req = req
          /\ hit'[h].m = mock /\ hit'[h].src = src
          /\ Same(h, {"served", "step", "values", "logged", "reply"})
        BY <1>1, <2>1, ProceedEffect
    <2>3. Same(h, {"served", "step", "values", "logged"}) /\ hit'[h].reply = hit[h].reply
        BY <2>2 DEF Same
    <2>4. ReceiveEnds(h, req)
        BY <1>1, <2>1, <2>2, <2>3 DEF ReceiveEnds
    <2> QED
        BY <1>1, <2>2, <2>4
<1> HIDE DEF route
<1> QED
    BY <1>2, <1>3, <1>4, ZenonT(60) DEF Receive, route

\* Select: the response, and the position if it is the sequence's.
SelectEnds(h) ==
    LET m == hit[h].m  src == hit[h].src  configured == pickConfiguredVariant(src, hit[h].req)
        served == hit'[h].served  step == hit'[h].step
    IN
    /\ hit[h].at = "select" /\ hit'[h].at = "delay"
    /\ Same(h, {"req", "m", "src", "route", "values", "logged", "reply"})
    /\ \/ /\ position' = position /\ step = None
          /\ \/ configured # <<>> /\ served = configured[1]
             \/ /\ configured = <<>>
                /\ \/ m.routes # <<>> /\ served = DefaultServed(src)
                   \/ m.routes = <<>> /\ Fails(m) /\ served = ErrorServed(m)
                   \/ /\ m.routes = <<>> /\ (Fails(m) => m.errorRate < 100) /\ m.steps = <<>>
                      /\ served = DefaultServed(m)
       \/ /\ configured = <<>> /\ m.routes = <<>> /\ (Fails(m) => m.errorRate < 100)
          /\ m.steps # <<>> /\ served = SequenceServed(m, position) /\ step = position
          /\ position' = position + 1

\* Select touches one hit, and the position only for a step of the sequence.
LEMMA SelectEffect ==
    ASSUME Typed, NEW h \in Hit, Select(h)
    PROVE  Typed' /\ Alone(h) /\ SelectEnds(h) /\ UNCHANGED <<mock, tplPosition>>
<1> DEFINE m == hit[h].m
           src == hit[h].src
           configured == pickConfiguredVariant(src, hit[h].req)
<1>1. UNCHANGED <<mock, tplPosition>> /\ position' \in {position, position + 1} /\ position' \in Nat
    BY DEF Select, Typed
<1>2. PICK served, step : Choose(h, served, step) /\
          \/ /\ position' = position /\ step = None
             /\ \/ configured # <<>> /\ served = configured[1]
                \/ /\ configured = <<>>
                   /\ \/ m.routes # <<>> /\ served = DefaultServed(src)
                      \/ m.routes = <<>> /\ Fails(m) /\ served = ErrorServed(m)
                      \/ /\ m.routes = <<>> /\ (Fails(m) => m.errorRate < 100) /\ m.steps = <<>>
                         /\ served = DefaultServed(m)
          \/ /\ configured = <<>> /\ m.routes = <<>> /\ (Fails(m) => m.errorRate < 100)
             /\ m.steps # <<>> /\ served = SequenceServed(m, position) /\ step = position
             /\ position' = position + 1
    BY DEF Select
<1>3. /\ Typed' /\ Alone(h) /\ hit'[h].at = "delay" /\ hit'[h].served = served
      /\ hit'[h].step = step
      /\ Same(h, {"req", "m", "src", "route", "values", "logged", "reply"})
    BY <1>1, <1>2, ChooseEffect
<1>4. hit[h].at = "select"
    BY DEF Select
<1> QED
    BY <1>1, <1>2, <1>3, <1>4 DEF SelectEnds

\* HangUp and Submit: with the entry.
HangUpEnds(h) ==
    /\ hit[h].at = "delay" /\ hit'[h].at = "over" /\ hit'[h].logged = 0
    /\ Same(h, {"req", "m", "src", "served", "route", "step", "values", "reply"})

SubmitEnds(h) ==
    /\ hit[h].at = "delay" /\ hit'[h].at = "write" /\ hit'[h].logged = Status(hit[h].served)
    /\ Same(h, {"req", "m", "src", "served", "route", "step", "values", "reply"})

TakeSeqEnds(h) ==
    /\ hit[h].at = "write" /\ Consumes(h) /\ tplPosition' = tplPosition + 1
    /\ hit'[h].values = Append(hit[h].values, tplPosition + 1)
    /\ Same(h, {"at", "req", "m", "src", "served", "route", "step", "logged", "reply"})

\* A step of a hit, seen from its record.
HitStep(h) ==
    /\ Alone(h) /\ UNCHANGED mock
    /\ \/ (\E req : ReceiveEnds(h, req)) /\ UNCHANGED <<position, tplPosition>>
       \/ SelectEnds(h) /\ UNCHANGED tplPosition
       \/ (HangUpEnds(h) \/ SubmitEnds(h) \/ RespondEnds(h)) /\ UNCHANGED <<position, tplPosition>>
       \/ TakeSeqEnds(h) /\ UNCHANGED position

\* Every step is one of these, or leaves the hits alone.
LEMMA Steps ==
    ASSUME Typed, [Next]_vars
    PROVE  Typed' /\ ((\E h \in Hit : HitStep(h)) \/ UNCHANGED <<hit, position, tplPosition>>)
<1>1. ASSUME NEW in \in Inputs, Save(in)
      PROVE  Typed' /\ UNCHANGED <<hit, position, tplPosition>>
    BY <1>1 DEF Save, Typed
<1>2. CASE UNCHANGED vars
    BY <1>2 DEF vars, Typed
<1>3. ASSUME NEW h \in Hit, HangUp(h)
      PROVE  Typed' /\ HitStep(h)
    <2>1. Logs(h, "over", 0) /\ hit[h].at = "delay" /\ UNCHANGED <<mock, position, tplPosition>>
        BY <1>3 DEF HangUp
    <2> QED
        BY <2>1, LogsEffect DEF HitStep, HangUpEnds
<1>4. ASSUME NEW h \in Hit, Submit(h)
      PROVE  Typed' /\ HitStep(h)
    <2>1. /\ Logs(h, "write", Status(hit[h].served)) /\ hit[h].at = "delay"
          /\ UNCHANGED <<mock, position, tplPosition>>
        BY <1>4 DEF Submit
    <2> QED
        BY <2>1, LogsEffect DEF HitStep, SubmitEnds
<1>5. ASSUME NEW h \in Hit, \E req \in Requests : Receive(h, req)
      PROVE  Typed' /\ HitStep(h)
    BY <1>5, ReceiveEffect DEF HitStep
<1>6. ASSUME NEW h \in Hit, Select(h) \/ Respond(h)
      PROVE  Typed' /\ HitStep(h)
    BY <1>6, SelectEffect, RespondEffect DEF HitStep
<1>7. ASSUME NEW h \in Hit, TakeSeq(h)
      PROVE  Typed' /\ HitStep(h)
    BY <1>7, TakeSeqEffect DEF HitStep, TakeSeqEnds
<1> QED
    BY <1>1, <1>2, <1>3, <1>4, <1>5, <1>6, <1>7 DEF Next

\* No hit has come yet, and the counters stand at 0.
LEMMA InitTyped == Init => Typed
<1> SUFFICES ASSUME Init PROVE Typed
    OBVIOUS
<1>1. DOMAIN NewHit = HitFields /\ NewHit.at = "new" /\ NewHit.values \in Seq(Nat)
    BY DEF NewHit, HitFields
<1>2. DOMAIN hit = Hit /\ \A h \in Hit : hit[h] = NewHit
    BY DEF Init
<1> QED
    BY <1>1, <1>2 DEF Init, Typed

-----------------------------------------------------------------------------
(* The log *)

\* Nothing is logged or answered before its time, and what is logged before the
\* answer is its status.
Logged(h) ==
    /\ hit[h].at \in {"new", "select", "delay"} => hit[h].logged = None /\ hit[h].reply = <<>>
    /\ hit[h].at = "write" => hit[h].logged = Status(hit[h].served) /\ hit[h].reply = <<>>
    /\ hit[h].at = "over" /\ hit[h].logged # None =>
          IF hit[h].logged = 0 THEN hit[h].reply = <<>>
          ELSE /\ hit[h].reply # <<>>
               /\ hit[h].logged = ReplyTo(h).status \/ Informational(hit[h].logged)

AllLogged == \A h \in Hit : Logged(h)

\* A step logs for one hit at most, and answers it with what was logged.
LEMMA LoggedStep == Typed /\ AllLogged /\ [Next]_vars => AllLogged'
<1> SUFFICES ASSUME Typed, AllLogged, [Next]_vars, NEW k \in Hit PROVE Logged(k)'
    BY DEF AllLogged
<1>1. ASSUME NEW h \in Hit, HitStep(h) PROVE Logged(k)'
    <2>1. CASE k # h
        BY <1>1, <2>1 DEF HitStep, Alone, AllLogged, Logged, ReplyTo
    <2>2. CASE k = h /\ \E req : ReceiveEnds(h, req)
        BY <2>2 DEF ReceiveEnds, Ends, Same, AllLogged, Logged
    <2>3. CASE k = h /\ SelectEnds(h)
        BY <2>3 DEF SelectEnds, Same, AllLogged, Logged
    <2>4. CASE k = h /\ (HangUpEnds(h) \/ SubmitEnds(h) \/ TakeSeqEnds(h))
        BY <2>4 DEF HangUpEnds, SubmitEnds, TakeSeqEnds, Same, AllLogged, Logged
    <2>5. CASE k = h /\ RespondEnds(h)
        <3> DEFINE status == Status(hit[h].served)
        <3>1. hit[h].logged = status /\ hit'[h].logged = status /\ hit'[h].at = "over"
            BY <2>5 DEF RespondEnds, Same, AllLogged, Logged
        <3>2. status # 0 /\ (WireStatus(status) = status \/ Informational(status))
            BY DEF Status, OrDefault, WireStatus, Informational
        <3>3. hit'[h].reply # <<>> /\ ReplyTo(h)'.status = WireStatus(status)
            BY <2>5 DEF RespondEnds, ReplyTo
        <3> HIDE DEF status
        <3> QED
            BY <2>5, <3>1, <3>2, <3>3 DEF Logged
    <2> QED
        BY <1>1, <2>1, <2>2, <2>3, <2>4, <2>5 DEF HitStep
<1>2. CASE UNCHANGED hit
    BY <1>2 DEF AllLogged, Logged, ReplyTo
<1> QED
    BY <1>1, <1>2, Steps

\* The log and the wire agree, however long the delay, whoever hangs up, and
\* whatever else is served meanwhile.
THEOREM LogIsWritten == Spec => []LoggedIsWritten
<1>1. Init => AllLogged
    BY DEF Init, NewHit, AllLogged, Logged
<1>2. AllLogged => LoggedIsWritten
    BY DEF AllLogged, Logged, LoggedIsWritten
<1> QED
    BY <1>1, <1>2, InitTyped, Steps, LoggedStep, PTL DEF Spec

-----------------------------------------------------------------------------
(* The sequence *)

Taken == {h \in Hit : hit[h].step # None}

VariantAt(m, position0) ==
    "seq-" \o ToString((position0 % (Len(m.steps) + 1)) + 1)

\* A position is taken when the response is chosen, and stays with its hit.
Cycles ==
    /\ \A h \in Hit :
          /\ hit[h].at \in {"new", "select"} => hit[h].step = None
          /\ hit[h].step # None => hit[h].served.variant = VariantAt(hit[h].m, hit[h].step)
    /\ IsFiniteSet(Taken) /\ Cardinality(Taken) = position
    /\ {hit[h].step : h \in Taken} = 0 .. position - 1
    /\ UNION {Range(hit[h].values) : h \in Hit} = 1 .. tplPosition

\* A step that takes neither a position nor a value.
LEMMA CyclesKept ==
    ASSUME Cycles, UNCHANGED <<position, tplPosition>>,
           \A k \in Hit :
              /\ hit'[k].step = hit[k].step /\ hit'[k].values = hit[k].values
              /\ hit[k].at \notin {"new", "select"} => hit'[k].at \notin {"new", "select"}
              /\ hit[k].step # None => hit'[k].served = hit[k].served /\ hit'[k].m = hit[k].m
    PROVE  Cycles'
<1>1. Taken' = Taken /\ {hit'[k].step : k \in Taken'} = {hit[k].step : k \in Taken}
    BY DEF Taken
<1>2. {Range(hit'[k].values) : k \in Hit} = {Range(hit[k].values) : k \in Hit}
    OBVIOUS
<1>3. \A k \in Hit :
          /\ hit'[k].at \in {"new", "select"} => hit'[k].step = None
          /\ hit'[k].step # None => hit'[k].served.variant = VariantAt(hit'[k].m, hit'[k].step)
    BY DEF Cycles
<1> QED
    BY <1>1, <1>2, <1>3 DEF Cycles

\* What a sequence gets with one more member.
LEMMA RangeOfAppend ==
    ASSUME NEW s \in Seq(Nat), NEW v \in Nat
    PROVE  Range(Append(s, v)) = Range(s) \cup {v}
<1> DEFINE t == Append(s, v)
<1>1. /\ Len(s) \in Nat /\ DOMAIN s = 1 .. Len(s) /\ DOMAIN t = 1 .. Len(s) + 1
      /\ t[Len(s) + 1] = v /\ \A i \in 1 .. Len(s) : t[i] = s[i]
    OBVIOUS
<1> HIDE DEF t
<1>2. ASSUME NEW x \in Range(t) PROVE x \in Range(s) \cup {v}
    <2>1. PICK i \in 1 .. Len(s) + 1 : x = t[i]
        BY <1>1, <1>2 DEF Range
    <2>2. i \in 1 .. Len(s) \/ i = Len(s) + 1
        BY <1>1
    <2> QED
        BY <1>1, <2>1, <2>2 DEF Range
<1>3. ASSUME NEW x \in Range(s) \cup {v} PROVE x \in Range(t)
    <2>1. CASE x = v
        <3>1. Len(s) + 1 \in DOMAIN t
            BY <1>1
        <3> QED
            BY <1>1, <2>1, <3>1 DEF Range
    <2>2. CASE x \in Range(s)
        <3>1. PICK i \in 1 .. Len(s) : x = s[i]
            BY <1>1, <2>2 DEF Range
        <3>2. i \in DOMAIN t /\ x = t[i]
            BY <1>1, <3>1
        <3> QED
            BY <3>2 DEF Range
    <2> QED
        BY <1>3, <2>1, <2>2
<1> QED
    BY <1>2, <1>3 DEF t

\* Select takes the next position, or none.
LEMMA SelectCycles ==
    ASSUME Typed, Cycles, NEW h \in Hit, Alone(h), SelectEnds(h), UNCHANGED tplPosition
    PROVE  Cycles'
<1>1. hit[h].step = None /\ hit'[h].values = hit[h].values /\ hit'[h].m = hit[h].m
    BY DEF SelectEnds, Same, Cycles
<1>2. CASE position' = position /\ hit'[h].step = None
    <2>1. \A k \in Hit :
              /\ hit'[k].step = hit[k].step /\ hit'[k].values = hit[k].values
              /\ hit[k].at \notin {"new", "select"} => hit'[k].at \notin {"new", "select"}
              /\ hit[k].step # None => hit'[k].served = hit[k].served /\ hit'[k].m = hit[k].m
        BY <1>1, <1>2 DEF SelectEnds, Alone
    <2> QED
        BY <1>2, <2>1, CyclesKept
<1>3. CASE /\ hit'[h].served = SequenceServed(hit[h].m, position) /\ hit'[h].step = position
           /\ position' = position + 1
    <2>1. position \in Nat /\ position # None
        BY RouterConstants DEF Typed
    <2>2. Taken' = Taken \cup {h} /\ h \notin Taken
        BY <1>1, <1>3, <2>1 DEF Taken, Alone
    <2>3. IsFiniteSet(Taken') /\ Cardinality(Taken') = position'
        BY <1>3, <2>2, FS_AddElement DEF Cycles
    <2>4. {hit'[k].step : k \in Taken'} = {hit[k].step : k \in Taken} \cup {position}
        BY <1>3, <2>2 DEF Alone, Taken
    <2>5. 0 .. position' - 1 = (0 .. position - 1) \cup {position}
        BY <1>3, <2>1
    <2>6. {Range(hit'[k].values) : k \in Hit} = {Range(hit[k].values) : k \in Hit}
        <3>1. \A k \in Hit : hit'[k].values = hit[k].values
            BY <1>1 DEF Alone
        <3> QED
            BY <3>1
    <2>7. hit'[h].served.variant = VariantAt(hit'[h].m, position)
        <3>1. ASSUME NEW m PROVE SequenceServed(m, position).variant = VariantAt(m, position)
            <4>1. PICK status, body, headers :
                     SequenceServed(m, position)
                         = Served(VariantAt(m, position), status, body, headers, "")
                BY Zenon DEF SequenceServed, VariantAt
            <4>2. Served(VariantAt(m, position), status, body, headers, "").variant
                      = VariantAt(m, position)
                BY DEF Served
            <4> QED
                BY <4>1, <4>2, Zenon
        <3> QED
            BY <1>1, <1>3, <3>1
    <2>8. \A k \in Hit :
              /\ hit'[k].at \in {"new", "select"} => hit'[k].step = None
              /\ hit'[k].step # None => hit'[k].served.variant = VariantAt(hit'[k].m, hit'[k].step)
        BY <1>3, <2>7 DEF SelectEnds, Alone, Cycles
    <2> QED
        BY <2>3, <2>4, <2>5, <2>6, <2>8 DEF Cycles
<1> QED
    BY <1>2, <1>3 DEF SelectEnds

\* TakeSeq takes the next value.
LEMMA TakeSeqCycles ==
    ASSUME Typed, Cycles, NEW h \in Hit, Alone(h), TakeSeqEnds(h), UNCHANGED position
    PROVE  Cycles'
<1>1. /\ \A k \in Hit : /\ hit'[k].step = hit[k].step /\ hit'[k].served = hit[k].served
                        /\ hit'[k].m = hit[k].m /\ hit'[k].at = hit[k].at
      /\ tplPosition' = tplPosition + 1 /\ tplPosition \in Nat
    BY DEF TakeSeqEnds, Same, Alone, Typed
<1>2. Taken' = Taken /\ {hit'[k].step : k \in Taken'} = {hit[k].step : k \in Taken}
    BY <1>1 DEF Taken
<1>3. Range(hit'[h].values) = Range(hit[h].values) \cup {tplPosition + 1}
    <2>1. hit[h].values \in Seq(Nat) /\ tplPosition + 1 \in Nat
        BY DEF Typed
    <2> QED
        BY <2>1, RangeOfAppend DEF TakeSeqEnds
<1>4. \A k \in Hit \ {h} : Range(hit'[k].values) = Range(hit[k].values)
    BY DEF Alone
<1>5. UNION {Range(hit'[k].values) : k \in Hit}
          = (UNION {Range(hit[k].values) : k \in Hit}) \cup {tplPosition + 1}
    <2> DEFINE R(k) == Range(hit[k].values)
               S(k) == Range(hit'[k].values)
    <2> HIDE DEF R, S
    <2>1. S(h) = R(h) \cup {tplPosition + 1} /\ \A k \in Hit \ {h} : S(k) = R(k)
        BY <1>3, <1>4 DEF R, S
    <2>2. UNION {S(k) : k \in Hit} = (UNION {R(k) : k \in Hit}) \cup {tplPosition + 1}
        BY <2>1
    <2> QED
        BY <2>2 DEF R, S
<1>6. 1 .. tplPosition' = (1 .. tplPosition) \cup {tplPosition + 1}
    BY <1>1
<1>7. \A k \in Hit :
          /\ hit'[k].at \in {"new", "select"} => hit'[k].step = None
          /\ hit'[k].step # None => hit'[k].served.variant = VariantAt(hit'[k].m, hit'[k].step)
    BY <1>1 DEF Cycles
<1> QED
    BY <1>2, <1>5, <1>6, <1>7 DEF Cycles

\* A step takes one position or one value at most, the next one.
LEMMA CyclesStep == Typed /\ Cycles /\ [Next]_vars => Cycles'
<1> SUFFICES ASSUME Typed, Cycles, [Next]_vars PROVE Cycles'
    OBVIOUS
<1>1. ASSUME NEW h \in Hit, HitStep(h) PROVE Cycles'
    <2>1. CASE /\ (\E req : ReceiveEnds(h, req)) \/ HangUpEnds(h) \/ SubmitEnds(h) \/ RespondEnds(h)
               /\ UNCHANGED <<position, tplPosition>>
        <3>1. \A k \in Hit :
                  /\ hit'[k].step = hit[k].step /\ hit'[k].values = hit[k].values
                  /\ hit[k].at \notin {"new", "select"} => hit'[k].at \notin {"new", "select"}
                  /\ hit[k].step # None => hit'[k].served = hit[k].served /\ hit'[k].m = hit[k].m
            BY <1>1, <2>1 DEF HitStep, Alone, ReceiveEnds, Ends, HangUpEnds, SubmitEnds,
                              RespondEnds, Same, Cycles
        <3> QED
            BY <2>1, <3>1, CyclesKept
    <2> QED
        BY <1>1, <2>1, SelectCycles, TakeSeqCycles DEF HitStep
<1>2. CASE UNCHANGED <<hit, position, tplPosition>>
    BY <1>2 DEF Cycles, Taken
<1> QED
    BY <1>1, <1>2, Steps

\* In any interleaving of the hits, the edits and the clients that hang up, the
\* two counters of a mock give out each of their numbers once.
THEOREM SequenceGivesEachOnce == Spec => []SequenceCycles
<1>1. Init => Cycles
    <2> SUFFICES ASSUME Init PROVE Cycles
        OBVIOUS
    <2>1. /\ \A h \in Hit : hit[h].at = "new" /\ hit[h].step = None /\ hit[h].values = <<>>
          /\ position = 0 /\ tplPosition = 0
        BY DEF Init, NewHit
    <2>2. Taken = {} /\ 0 .. 0 - 1 = {} /\ 1 .. 0 = {}
        BY <2>1 DEF Taken
    <2>3. UNION {Range(hit[h].values) : h \in Hit} = {}
        BY <2>1 DEF Range
    <2> QED
        BY <2>1, <2>2, <2>3, FS_EmptySet DEF Cycles
<1>2. Cycles => SequenceCycles
    BY DEF Cycles, Taken, VariantAt, SequenceCycles
<1> QED
    BY <1>1, <1>2, InitTyped, Steps, CyclesStep, PTL DEF Spec

-----------------------------------------------------------------------------
(* The headers *)

SafeLocation(g) == "location" \in DOMAIN g => SafeRedirectLocation(g["location"])

\* Nothing in it is the server's to say.
Clean(g) == DOMAIN g \cap reservedHeaders = {} /\ SafeLocation(g)

\* What is the server's to say is the server's, or the preset of CORS.
Owned(g, cors) ==
    /\ \A name \in DOMAIN g \cap reservedHeaders :
          \/ name \in DOMAIN ProtectiveHeaders /\ g[name] = "server"
          \/ name \in DOMAIN CORSHeaders /\ g[name] = "preset" /\ cors
    /\ SafeLocation(g)

\* The re-check of the serve path, whatever is stored.
LEMMA AllowedIsClean == ASSUME NEW g PROVE Clean(Allowed(g))
<1>1. \A n \in reservedHeaders : TrimSpace(n) = n
    BY RouterConstants DEF TrimSpace, Mapped
<1>2. \A n \in DOMAIN Allowed(g) :
          /\ n \in DOMAIN g /\ TrimSpace(n) \notin reservedHeaders /\ Allowed(g)[n] = g[n]
          /\ n = "location" => SafeRedirectLocation(g[n])
    BY DEF Allowed
<1> QED
    BY <1>1, <1>2 DEF Clean, SafeLocation

\* Headers the server adds that are neither reserved nor a redirect.
LEMMA OptionalIsClean ==
    ASSUME NEW name \in {"content-type", "x-quickmock-route", "x-quickmock-variant", "allow"},
           NEW value
    PROVE  Clean(Optional(name, value)) /\ Clean(Header(name, value))
<1>1. name \notin reservedHeaders /\ name # "location"
    BY DEF reservedHeaders
<1>2. DOMAIN Header(name, value) = {name} /\ DOMAIN NoHeaders = {}
    BY DEF Header, NoHeaders
<1> QED
    BY <1>1, <1>2 DEF Optional, Clean, SafeLocation

\* Two clean header maps are clean together.
LEMMA OverlayIsClean ==
    ASSUME NEW f, NEW g, Clean(f), Clean(g)
    PROVE  Clean(Overlay(f, g))
BY DEF Overlay, Clean, SafeLocation

\* A clean header map laid over one that is owned leaves it so.
LEMMA CleanOverOwned ==
    ASSUME NEW f, NEW g, NEW cors, Clean(f), Owned(g, cors)
    PROVE  Owned(Overlay(f, g), cors)
<1>1. SafeLocation(Overlay(f, g))
    BY DEF Overlay, Clean, Owned, SafeLocation
<1>2. ASSUME NEW name \in DOMAIN Overlay(f, g) \cap reservedHeaders
      PROVE  name \in DOMAIN g /\ Overlay(f, g)[name] = g[name]
    BY <1>2 DEF Overlay, Clean
<1> QED
    BY <1>1, <1>2 DEF Owned

\* The reply of a response that was chosen.
LEMMA ReplyHeadersOwned ==
    ASSUME NEW m, NEW src, NEW served, NEW route
    PROVE  /\ Owned(ReplyHeaders(m, src, served, route), m.cors)
           /\ DOMAIN ProtectiveHeaders \subseteq DOMAIN ReplyHeaders(m, src, served, route)
<1> DEFINE configured == Overlay(Allowed(served.headers), Allowed(src.headers))
           typed == Overlay(Optional("content-type", OrDefault(served.contentType, "", src.contentType)),
                            configured)
           cors == IF m.cors THEN CORSHeaders ELSE NoHeaders
           shared == Overlay(cors, typed)
           variant == Overlay(Header("x-quickmock-variant", served.variant), shared)
           named == Overlay(Optional("x-quickmock-route", route), variant)
<1>1. Clean(typed)
    BY AllowedIsClean, OptionalIsClean, OverlayIsClean
<1>2. Owned(shared, m.cors)
    <2>1. "location" \notin DOMAIN CORSHeaders /\ \A n \in DOMAIN CORSHeaders : CORSHeaders[n] = "preset"
        BY DEF CORSHeaders
    <2>2. DOMAIN NoHeaders = {}
        BY DEF NoHeaders
    <2>3. CASE m.cors
        <3>1. cors = CORSHeaders
            BY <2>3
        <3> HIDE DEF cors, typed
        <3> QED
            BY <1>1, <2>1, <2>3, <3>1 DEF Overlay, Clean, Owned, SafeLocation
    <2>4. CASE ~m.cors
        <3>1. DOMAIN cors = {}
            BY <2>2, <2>4
        <3> HIDE DEF cors, typed
        <3> QED
            BY <1>1, <3>1 DEF Overlay, Clean, Owned, SafeLocation
    <2> QED
        BY <2>3, <2>4
<1>3. Owned(variant, m.cors)
    <2> HIDE DEF shared
    <2> QED
        BY <1>2, OptionalIsClean, CleanOverOwned
<1>4. Owned(named, m.cors)
    <2> HIDE DEF variant
    <2> QED
        BY <1>3, OptionalIsClean, CleanOverOwned
<1>5. ReplyHeaders(m, src, served, route) = Overlay(ProtectiveHeaders, named)
    BY DEF ReplyHeaders
<1>6. /\ "location" \notin DOMAIN ProtectiveHeaders
      /\ \A n \in DOMAIN ProtectiveHeaders : ProtectiveHeaders[n] = "server"
    BY DEF ProtectiveHeaders
<1> HIDE DEF named
<1>7. Owned(Overlay(ProtectiveHeaders, named), m.cors)
    BY <1>4, <1>6 DEF Overlay, Owned, SafeLocation
<1> QED
    BY <1>5, <1>7 DEF Overlay

\* A reply is the server's where it has to be, from the moment it is sent.
HeadersOwned(h) ==
    /\ hit[h].at = "new" => hit[h].served = None
    /\ Answered(h) =>
          /\ Owned(ReplyTo(h).headers, hit[h].m.cors)
          /\ hit[h].served # None => DOMAIN ProtectiveHeaders \subseteq DOMAIN ReplyTo(h).headers

AllOwned == \A h \in Hit : HeadersOwned(h)

\* The answers that are given without a response of the mock.
LEMMA EndsOwned ==
    ASSUME AllOwned, NEW h \in Hit, NEW req, ReceiveEnds(h, req), hit'[h].at = "over"
    PROVE  HeadersOwned(h)'
<1>1. hit'[h].served = None
    BY DEF AllOwned, HeadersOwned, ReceiveEnds, Same
<1>2. DOMAIN NoHeaders = {} /\ Owned(NoHeaders, FALSE) /\ \A cors : Owned(NoHeaders, cors)
    BY DEF NoHeaders, Owned, SafeLocation
<1>3. ASSUME NEW value, NEW cors PROVE Owned(Header("allow", value), cors)
    BY OptionalIsClean DEF Clean, Owned
<1>4. ASSUME NEW cors, cors PROVE Owned(CORSHeaders, cors)
    BY <1>4 DEF CORSHeaders, Owned, SafeLocation
<1>5. \A status : Bare(status).headers = NoHeaders
    BY DEF Bare
<1>6. ASSUME NEW m, NEW reply, Ends(h, m, reply), Owned(reply.headers, m.cors)
      PROVE  HeadersOwned(h)'
    <2>1. ReplyTo(h)' = reply /\ hit'[h].m = m /\ hit'[h].at = "over"
        BY <1>6 DEF Ends, ReplyTo
    <2> QED
        BY <1>1, <1>6, <2>1 DEF HeadersOwned
<1>7. ASSUME NEW m, NEW status, Ends(h, m, Bare(status)) PROVE HeadersOwned(h)'
    BY <1>2, <1>5, <1>6, <1>7
<1>8. CASE mock.cors /\ Ends(h, mock, [Bare(204) EXCEPT !.headers = CORSHeaders])
    <2> DEFINE reply == [Bare(204) EXCEPT !.headers = CORSHeaders]
    <2>1. Owned(reply.headers, mock.cors)
        BY <1>4, <1>8 DEF Bare
    <2> HIDE DEF reply
    <2> QED
        BY <1>6, <1>8, <2>1 DEF reply
<1>9. CASE Ends(h, mock, [Bare(405) EXCEPT !.headers = Header("allow", mock.method)])
    <2> DEFINE reply == [Bare(405) EXCEPT !.headers = Header("allow", mock.method)]
    <2>1. Owned(reply.headers, mock.cors)
        BY <1>3 DEF Bare
    <2> HIDE DEF reply
    <2> QED
        BY <1>6, <1>9, <2>1 DEF reply
<1> QED
    BY <1>7, <1>8, <1>9 DEF ReceiveEnds

\* A step writes the headers of one reply at most.
LEMMA OwnedStep == Typed /\ AllLogged /\ AllOwned /\ [Next]_vars => AllOwned'
<1> SUFFICES ASSUME Typed, AllLogged, AllOwned, [Next]_vars, NEW k \in Hit PROVE HeadersOwned(k)'
    BY DEF AllOwned
<1>1. ASSUME NEW h \in Hit, HitStep(h) PROVE HeadersOwned(k)'
    <2>1. CASE k # h
        BY <1>1, <2>1 DEF HitStep, Alone, AllOwned, HeadersOwned, Answered, ReplyTo
    <2>2. ASSUME k = h, NEW req, ReceiveEnds(h, req) PROVE HeadersOwned(h)'
        <3>1. CASE hit'[h].at = "over"
            BY <2>2, <3>1, EndsOwned
        <3>2. CASE hit'[h].at # "over"
            <4>1. hit'[h].at # "new"
                BY <2>2, <3>2 DEF ReceiveEnds, Ends
            <4> QED
                BY <3>2, <4>1 DEF HeadersOwned, Answered
        <3> QED
            BY <3>1, <3>2
    <2>3. CASE SelectEnds(h) \/ SubmitEnds(h) \/ TakeSeqEnds(h)
        <3>1. hit'[h].at \in {"delay", "write"}
            BY <2>3 DEF SelectEnds, SubmitEnds, TakeSeqEnds, Same
        <3>2. HeadersOwned(h)'
            BY <3>1 DEF HeadersOwned, Answered
        <3> QED
            BY <2>1, <3>2
    <2>4. CASE HangUpEnds(h)
        <3>1. hit'[h].at = "over" /\ hit'[h].reply = <<>>
            BY <2>4 DEF HangUpEnds, Same, AllLogged, Logged
        <3>2. HeadersOwned(h)'
            BY <3>1 DEF HeadersOwned, Answered
        <3> QED
            BY <2>1, <3>2
    <2>5. CASE RespondEnds(h)
        <3>1. /\ ReplyTo(h)'.headers
                     = ReplyHeaders(hit[h].m, hit[h].src, hit[h].served, hit[h].route)
              /\ hit'[h].m = hit[h].m /\ hit'[h].at = "over"
            BY <2>5 DEF RespondEnds, ReplyTo, Same
        <3>2. HeadersOwned(h)'
            BY <3>1, ReplyHeadersOwned DEF HeadersOwned
        <3> QED
            BY <2>1, <3>2
    <2> QED
        BY <1>1, <2>1, <2>2, <2>3, <2>4, <2>5 DEF HitStep
<1>2. CASE UNCHANGED hit
    BY <1>2 DEF AllOwned, HeadersOwned, Answered, ReplyTo
<1> QED
    BY <1>1, <1>2, Steps

\* No configuration, of this release or an earlier one, ever speaks for the
\* server, whatever its variants, steps and routes set.
THEOREM HeadersAreTheServers == Spec => []ServerOwnsHeaders
<1>1. Init => AllOwned /\ AllLogged
    <2> SUFFICES ASSUME Init, NEW h \in Hit PROVE HeadersOwned(h) /\ Logged(h)
        BY DEF AllOwned, AllLogged
    <2>1. hit[h] = NewHit
        BY DEF Init
    <2> QED
        BY <2>1 DEF NewHit, HeadersOwned, Answered, Logged
<1>2. AllOwned => ServerOwnsHeaders
    BY DEF AllOwned, HeadersOwned, Owned, SafeLocation, ServerOwnsHeaders
<1> QED
    BY <1>1, <1>2, InitTyped, Steps, LoggedStep, OwnedStep, PTL DEF Spec

-----------------------------------------------------------------------------
(* Least and greatest indices *)

\* Min and Max of the community modules choose what their names say.
LEMMA MinIsLeast ==
    ASSUME NEW S, S \subseteq Nat, S # {}
    PROVE  Min(S) \in S /\ \A i \in S : Min(S) =< i
BY LeastExists DEF Min

\* And a greatest, if it has a bound.
LEMMA MaxIsGreatest ==
    ASSUME NEW bound \in Nat, NEW S, S \subseteq 1 .. bound, S # {}
    PROVE  Max(S) \in S /\ \A i \in S : Max(S) >= i
<1> DEFINE D == {d \in Nat : bound - d \in S}
<1>1. D # {}
    <2>1. PICK i \in S : TRUE
        OBVIOUS
    <2>2. bound - i \in Nat /\ bound - (bound - i) = i
        BY <2>1
    <2> QED
        BY <2>1, <2>2
<1>2. PICK d \in D : \A e \in D : d =< e
    BY <1>1, LeastExists
<1>3. \A i \in S : bound - i \in D
    OBVIOUS
<1>4. bound - d \in S /\ \A i \in S : bound - d >= i
    BY <1>2, <1>3
<1> QED
    BY <1>4 DEF Max

\* What has the indices of a sequence.
IsIndexed(s) == \E len \in Nat : DOMAIN s = 1 .. len

\* FirstOf finds the member with the least index, if there is one.
LEMMA FirstOfIs ==
    ASSUME NEW s, IsIndexed(s), NEW S, S \subseteq DOMAIN s
    PROVE  /\ S = {} => FirstOf(s, S) = <<>>
           /\ S # {} => \E i \in S : FirstOf(s, S) = <<s[i]>> /\ \A j \in S : i =< j
<1>1. S \subseteq Nat
    BY DEF IsIndexed
<1> QED
    BY <1>1, MinIsLeast DEF FirstOf

\* LastOf takes its member from the set it is given.
LEMMA LastOfIs ==
    ASSUME NEW s, IsIndexed(s), NEW S, S \subseteq DOMAIN s
    PROVE  /\ S = {} => LastOf(s, S) = <<>>
           /\ S # {} => \E i \in S : LastOf(s, S) = <<s[i]>>
<1>1. PICK len \in Nat : DOMAIN s = 1 .. len
    BY DEF IsIndexed
<1> QED
    BY <1>1, MaxIsGreatest DEF LastOf

-----------------------------------------------------------------------------
(* The selection *)

\* A stored row, as far as its lists go.
IsRow(m) ==
    /\ IsIndexed(m.routes)
    /\ \A src \in {m} \cup Range(m.routes) : IsIndexed(src.rules) /\ IsIndexed(src.variants)

\* A list has the indices of one.
LEMMA ListIsIndexed == ASSUME NEW s, IsList(s) PROVE IsIndexed(s)
BY IsListIs DEF IsIndexed

\* A row of an earlier release is one.
LEMMA LegacyIsRow == ASSUME NEW m \in LegacyRows PROVE IsRow(m)
<1>1. IsConfig(m)
    BY RouterConstants
<1>2. /\ IsList(m.routes) /\ IsList(m.rules) /\ IsList(m.variants)
      /\ \A r \in Range(m.routes) : IsList(r.rules) /\ IsList(r.variants)
    BY <1>1 DEF IsConfig, HasResponses, IsListOf
<1> QED
    BY <1>2, ListIsIndexed DEF IsRow

\* What is stored has the lists of what was submitted.
LEMMA StoredIsRow == ASSUME NEW in \in Inputs PROVE IsRow(Row(in))
<1> DEFINE m == Row(in)
<1>1. IsConfig(in)
    BY RouterConstants
<1>2. /\ m.routes = Each(in.routes, NormalRoute)
      /\ m.variants = NormalVariants(in.variants) /\ m.rules = NormalRules(in.rules)
    BY <1>1, RowIs DEF IsConfig
<1>3. /\ IsList(in.routes) /\ IsList(in.rules) /\ IsList(in.variants)
      /\ \A r \in Range(in.routes) :
            DOMAIN r = RouteFields /\ IsList(r.rules) /\ IsList(r.variants)
    BY <1>1 DEF IsConfig, HasResponses, IsListOf
<1>4. ASSUME NEW s, IsList(s)
      PROVE  IsIndexed(NormalVariants(s)) /\ IsIndexed(NormalRules(s))
    <2>1. DOMAIN NormalVariants(s) = DOMAIN s /\ DOMAIN NormalRules(s) = DOMAIN s
        BY DEF NormalVariants, NormalRules, Each
    <2> QED
        BY <1>4, <2>1, ListIsIndexed DEF IsIndexed
<1> HIDE DEF m
<1>5. IsIndexed(m.routes)
    <2>1. DOMAIN m.routes = DOMAIN in.routes
        BY <1>2 DEF Each
    <2> QED
        BY <1>3, <2>1, ListIsIndexed DEF IsIndexed
<1>6. IsIndexed(m.rules) /\ IsIndexed(m.variants)
    BY <1>2, <1>3, <1>4
<1>7. \A r \in Range(m.routes) : \E q \in Range(in.routes) : r = NormalRoute(q)
    BY <1>2 DEF Each, Range
<1>8. ASSUME NEW r \in Range(m.routes) PROVE IsIndexed(r.rules) /\ IsIndexed(r.variants)
    <2>1. PICK q \in Range(in.routes) : r = NormalRoute(q)
        BY <1>7
    <2>2. DOMAIN q = RouteFields /\ IsList(q.rules) /\ IsList(q.variants)
        BY <1>3
    <2>3. r.variants = NormalVariants(q.variants) /\ r.rules = NormalRules(q.rules)
        BY <2>1, <2>2, NormalRouteIs
    <2> QED
        BY <1>4, <2>2, <2>3
<1> QED
    BY <1>5, <1>6, <1>8 DEF IsRow, m

\* The route that answers is one that may, and is missed only if there is none.
LEMMA RouteIs ==
    ASSUME NEW m, IsRow(m), m.routes # <<>>, NEW req
    PROVE  LET matched == matchRoute(m.routes, req.path, req.method) IN
           /\ matched.route = <<>> <=> AnsweringOf(m, req) = {}
           /\ matched.route # <<>> => matched.route[1] \in AnsweringOf(m, req)
           /\ matched.pathMatched <=> OnPathOf(m, req) # {}
<1> DEFINE P == OnPath(m.routes, req.path)
           S == {i \in P : methodMatches(m.routes[i].method, req.method)}
<1>1. /\ matchRoute(m.routes, req.path, req.method).route = FirstOf(m.routes, S)
      /\ matchRoute(m.routes, req.path, req.method).pathMatched = (P # {})
    BY DEF matchRoute
<1>2. P # {} <=> OnPathOf(m, req) # {}
    BY DEF OnPath, OnPathOf, Range
<1>3. S = {} <=> AnsweringOf(m, req) = {}
    BY DEF OnPath, OnPathOf, AnsweringOf, methodMatches, Range
<1>4. \A i \in S : m.routes[i] \in AnsweringOf(m, req)
    BY DEF OnPath, OnPathOf, AnsweringOf, methodMatches, Range
<1>5. S \subseteq DOMAIN m.routes /\ IsIndexed(m.routes)
    BY DEF OnPath, IsRow
<1> HIDE DEF S, P
<1>6. /\ S = {} => FirstOf(m.routes, S) = <<>>
      /\ S # {} => \E i \in S : FirstOf(m.routes, S) = <<m.routes[i]>>
    BY <1>5, FirstOfIs
<1> DEFINE matched == matchRoute(m.routes, req.path, req.method)
<1>7. matched.route = <<>> <=> AnsweringOf(m, req) = {}
    <2>1. FirstOf(m.routes, S) = <<>> <=> S = {}
        <3>1. ASSUME S # {} PROVE FirstOf(m.routes, S) # <<>>
            BY <1>6, <3>1, SMTT(30)
        <3> QED
            BY <1>6, <3>1
    <2>2. matched.route = FirstOf(m.routes, S)
        BY <1>1
    <2> HIDE DEF matched
    <2> QED
        BY <1>3, <2>1, <2>2
<1>8. ASSUME matched.route # <<>> PROVE matched.route[1] \in AnsweringOf(m, req)
    <2>1. PICK i \in S : FirstOf(m.routes, S) = <<m.routes[i]>>
        BY <1>1, <1>6, <1>8
    <2>2. matched.route[1] = m.routes[i]
        BY <1>1, <2>1
    <2> QED
        BY <1>4, <2>2
<1>9. matched.pathMatched <=> OnPathOf(m, req) # {}
    BY <1>1, <1>2
<1> HIDE DEF matched
<1> QED
    BY <1>7, <1>8, <1>9 DEF matched

\* The variants and rules of a source.
Names(src, req) == {requestedVariant(req), ""} \cup {rule.variant : rule \in Range(src.rules)}

\* The name that is looked up.
NameAsked(src, req) ==
    LET rule == Matching(src.rules, req) IN
    IF requestedVariant(req) # "" THEN requestedVariant(req)
    ELSE IF rule # <<>> THEN rule[1].variant ELSE ""

\* It is the one that was asked for, by the request or else by its first rule.
LEMMA NameIsAsked ==
    ASSUME NEW src, IsIndexed(src.rules), NEW req
    PROVE  Asked(src, req, NameAsked(src, req)) /\ NameAsked(src, req) \in Names(src, req)
<1> DEFINE M == {i \in DOMAIN src.rules : ruleMatches(src.rules[i], req)}
           rule == Matching(src.rules, req)
           name == NameAsked(src, req)
<1>1. /\ M = {} => rule = <<>>
      /\ M # {} => \E i \in M : rule = <<src.rules[i]>> /\ \A j \in M : i =< j
    <2>1. rule = FirstOf(src.rules, M) /\ M \subseteq DOMAIN src.rules
        BY DEF Matching
    <2> HIDE DEF M, rule
    <2> QED
        BY <2>1, FirstOfIs
<1>2. name = IF requestedVariant(req) # "" THEN requestedVariant(req)
             ELSE IF rule # <<>> THEN rule[1].variant ELSE ""
    BY DEF NameAsked
<1> HIDE DEF name
<1>3. CASE requestedVariant(req) # ""
    BY <1>2, <1>3 DEF Asked, Names, name
<1>4. CASE requestedVariant(req) = "" /\ M = {}
    <2>1. name = ""
        BY <1>1, <1>2, <1>4
    <2> QED
        BY <1>4, <2>1 DEF Asked, Names, name
<1>5. CASE requestedVariant(req) = "" /\ M # {}
    <2>1. PICK i \in M : rule = <<src.rules[i]>> /\ \A j \in M : i =< j
        BY <1>1, <1>5
    <2>2. rule # <<>> /\ rule[1] = src.rules[i]
        <3> HIDE DEF rule, M
        <3> QED
            BY <2>1
    <2>3. name = src.rules[i].variant
        <3> HIDE DEF rule, M
        <3> QED
            BY <1>2, <1>5, <2>2
    <2>4. src.rules[i] \in Range(src.rules)
        BY DEF Range
    <2>5. name \in Names(src, req)
        BY <2>3, <2>4 DEF Names
    <2>6. Asked(src, req, name)
        BY <1>5, <2>1, <2>3 DEF Asked
    <2> QED
        BY <2>5, <2>6 DEF name
<1> QED
    BY <1>3, <1>4, <1>5

\* Looking a name up finds a variant of that name exactly if there is one.
LEMMA NamedIs ==
    ASSUME NEW src, IsIndexed(src.variants), NEW name
    PROVE  IF \E v \in Range(src.variants) : v.name = name
           THEN Named(src, name) # <<>> /\ VariantServed(src, name, Named(src, name)[1])
           ELSE Named(src, name) = <<>>
<1> DEFINE N == {i \in DOMAIN src.variants : src.variants[i].name = name}
           found == LastOf(src.variants, N)
           As(v) == Served(v.name, v.status, v.body, v.headers,
                           OrDefault(v.contentType, "", src.contentType))
<1>1. /\ N = {} => found = <<>>
      /\ N # {} => \E i \in N : found = <<src.variants[i]>>
    <2>1. N \subseteq DOMAIN src.variants
        OBVIOUS
    <2> HIDE DEF N
    <2> QED
        BY <2>1, LastOfIs
<1>2. Named(src, name) = [i \in DOMAIN found |-> As(found[i])]
    BY DEF Named, Each
<1>3. N # {} <=> \E v \in Range(src.variants) : v.name = name
    BY DEF Range
<1>4. CASE N = {}
    <2>1. found = <<>>
        BY <1>1, <1>4
    <2>2. Named(src, name) = <<>>
        <3> HIDE DEF found, As
        <3> QED
            BY <1>2, <2>1
    <2> QED
        BY <1>3, <1>4, <2>2
<1>5. CASE N # {}
    <2>1. PICK i \in N : found = <<src.variants[i]>>
        BY <1>1, <1>5
    <2> DEFINE v == src.variants[i]
    <2>2. Named(src, name) # <<>> /\ Named(src, name)[1] = As(v)
        <3> HIDE DEF found, As
        <3> QED
            BY <1>2, <2>1
    <2>3. v.name = name /\ v \in Range(src.variants)
        BY <2>1 DEF Range
    <2>4. As(v).variant = v.name /\ As(v).status = v.status /\ As(v).body = v.body
        BY DEF Served
    <2>5. VariantServed(src, name, Named(src, name)[1])
        <3> HIDE DEF As, v
        <3> QED
            BY <2>2, <2>3, <2>4 DEF VariantServed
    <2> QED
        BY <1>3, <1>5, <2>2, <2>5
<1> QED
    BY <1>4, <1>5

\* A response is configured exactly if the name that was asked for is a variant's.
LEMMA ConfiguredIs ==
    ASSUME NEW src, IsIndexed(src.rules), IsIndexed(src.variants), NEW req
    PROVE  \E name \in Names(src, req) :
              /\ Asked(src, req, name)
              /\ LET configured == pickConfiguredVariant(src, req) IN
                 IF \E v \in Range(src.variants) : v.name = name
                 THEN configured # <<>> /\ VariantServed(src, name, configured[1])
                 ELSE configured = <<>>
<1>1. pickConfiguredVariant(src, req) = Named(src, NameAsked(src, req))
    BY DEF pickConfiguredVariant, NameAsked
<1> QED
    BY <1>1, NameIsAsked, NamedIs


-----------------------------------------------------------------------------
(* What is stored *)

\* A mock that is there is of an earlier release, or what Save made of an input
\* that passed.
Accepted ==
    \/ mock = None \/ mock \in LegacyRows
    \/ \E in \in Inputs : Verdict(in, in.creatorIP) = "stored" /\ mock = Row(in)

\* Save is the only step that writes the row.
LEMMA AcceptedStep == Accepted /\ [Next]_vars => Accepted'
<1> SUFFICES ASSUME Accepted, [Next]_vars PROVE Accepted'
    OBVIOUS
<1>1. ASSUME NEW in \in Inputs, Save(in) PROVE Accepted'
    <2>1. CASE Verdict(in, in.creatorIP) = "stored"
        <3>1. mock' = Row(in)
            BY <1>1, <2>1 DEF Save
        <3> QED
            BY <2>1, <3>1 DEF Accepted
    <2>2. CASE Verdict(in, in.creatorIP) # "stored"
        <3>1. mock' = mock
            BY <1>1, <2>2 DEF Save
        <3> QED
            BY <3>1 DEF Accepted
    <2> QED
        BY <2>1, <2>2
<1>2. CASE UNCHANGED mock
    BY <1>2 DEF Accepted
<1> QED
    BY <1>1, <1>2, ZenonT(60) DEF Next, vars, Receive, Select, HangUp, Submit, TakeSeq, Respond

\* No header of a stored row is reserved.
LEMMA RowIsUnreserved ==
    ASSUME NEW in \in Inputs, valid(in), NEW h \in AllHeaders(Row(in))
    PROVE  DOMAIN h \cap reservedHeaders = {}
<1> DEFINE m == Row(in)
<1>1. IsConfig(in)
    BY RouterConstants
<1>2. /\ \A src \in {m} \cup Range(m.routes) : Unreserved(src)
      /\ \A s \in Range(m.steps) : DOMAIN s.headers \cap reservedHeaders = {}
    BY <1>1, RowIsAnswerable
<1> HIDE DEF m
<1>3. \/ h = m.headers
      \/ \E s \in Range(m.steps) : h = s.headers
      \/ \E v \in Range(m.variants) : h = v.headers
      \/ \E r \in Range(m.routes) : h = r.headers \/ \E v \in Range(r.variants) : h = v.headers
    BY DEF AllHeaders, m
<1> QED
    BY <1>2, <1>3 DEF Unreserved

\* Whatever is submitted, what is stored of it is normal.
THEOREM StoredStaysNormal == Spec => []StoredIsNormal
<1>1. Init => Accepted
    BY DEF Init, Accepted
<1>2. Accepted => StoredIsNormal
    <2> SUFFICES ASSUME NEW in \in Inputs, Verdict(in, in.creatorIP) = "stored", mock = Row(in)
                 PROVE  StoredIsNormal
        BY DEF Accepted, StoredIsNormal
    <2>1. IsConfig(in) /\ valid(in)
        BY RouterConstants DEF Verdict
    <2>2. /\ \A src \in {mock} \cup Range(mock.routes) : Answerable(src)
          /\ \A i, j \in DOMAIN mock.routes : i # j =>
                mock.routes[i].path # mock.routes[j].path \/ mock.routes[i].method # mock.routes[j].method
        BY <2>1, RowIsAnswerable
    <2>3. mock.error # <<>> <=> mock.errorRate > 0
        BY <2>1, RowHasItsError
    <2>4. \A h \in AllHeaders(mock) : DOMAIN h \cap reservedHeaders = {}
        BY <2>1, RowIsUnreserved
    <2>5. valid(mock) /\ Row(mock) = mock
        BY <2>1, RowPasses, RowTwice
    <2>6. ~ Padded(in) => Verdict(mock, mock.creatorIP) = "stored"
        <3>1. mock.creatorIP = in.creatorIP
            BY <2>1, RowIs DEF IsConfig
        <3> QED
            BY <2>1, <3>1, RowIsStoredAgain
    <2> QED
        BY <2>2, <2>3, <2>4, <2>5, <2>6 DEF StoredIsNormal, Answerable, Sendable
<1> QED
    BY <1>1, <1>2, AcceptedStep, PTL DEF Spec

-----------------------------------------------------------------------------
(* What each hit gets *)

\* A mock that is there can be served.
MockIsRow == mock = None \/ IsRow(mock)

\* An accepted row has its lists.
LEMMA AcceptedIsRow == Accepted => MockIsRow
BY LegacyIsRow, StoredIsRow DEF Accepted, MockIsRow

\* From its lookup on, a hit is for a mock that answers it.
Routed(h) ==
    LET m == hit[h].m  req == hit[h].req IN
    /\ m # None /\ ~(m.cors /\ req.method = "OPTIONS") /\ IsRow(m)
    /\ \E r \in AnsweringOf(m, req) : hit[h].src = Source(r)

\* From its choice on, it has the response that was asked for.
Chosen(h) ==
    LET m == hit[h].m  req == hit[h].req  src == hit[h].src  served == hit[h].served IN
    \E name \in Names(src, req) :
        /\ Asked(src, req, name)
        /\ IF \E v \in Range(src.variants) : v.name = name
           THEN VariantServed(src, name, served) /\ hit[h].step = None
           ELSE UnnamedServed(m, src, served, hit[h].step)

\* What RepliesAsConfigured says of an answered hit.
Expected(h) ==
    LET m == hit[h].m  req == hit[h].req IN
    IF m = None THEN ReplyTo(h).status = 404
    ELSE IF m.cors /\ req.method = "OPTIONS" THEN ReplyTo(h).status = 204
    ELSE IF AnsweringOf(m, req) = {}
    THEN ReplyTo(h).status = (IF OnPathOf(m, req) = {} THEN 404 ELSE 405)
    ELSE /\ \E r \in AnsweringOf(m, req) : hit[h].src = Source(r)
         /\ Chosen(h)
         /\ ReplyTo(h).status = WireStatus(Status(hit[h].served))

Configured(h) ==
    /\ hit[h].at \in {"select", "delay", "write"} => Routed(h)
    /\ hit[h].at \in {"delay", "write"} => Chosen(h)
    /\ Answered(h) => Expected(h)

AllConfigured == \A h \in Hit : Configured(h)

\* Without routes, the mock itself is on every path.
LEMMA OnPathOfMock ==
    ASSUME NEW m, m.routes = <<>>, NEW req
    PROVE  /\ OnPathOf(m, req) = {m}
           /\ AnsweringOf(m, req) = IF methodMatches(m.method, req.method) THEN {m} ELSE {}
BY DEF OnPathOf, AnsweringOf, methodMatches

\* Receive: 404, 405 and the preflight, or a source that answers.
LEMMA ReceiveIsConfigured ==
    ASSUME MockIsRow, NEW h \in Hit, NEW req, ReceiveEnds(h, req)
    PROVE  Configured(h)'
<1> DEFINE matched == matchRoute(mock.routes, req.path, req.method)
<1>1. hit'[h].req = req
    BY DEF ReceiveEnds
<1>2. ASSUME hit'[h].at = "over", Expected(h)' PROVE Configured(h)'
    BY <1>2 DEF Configured
<1>3. CASE Ends(h, None, Bare(404))
    <2>1. ReplyTo(h)'.status = 404 /\ hit'[h].at = "over" /\ hit'[h].m = None
        BY <1>3 DEF Ends, ReplyTo, Bare
    <2> QED
        BY <1>1, <1>2, <1>3, <2>1 DEF Expected
<1>4. CASE /\ mock # None /\ mock.cors /\ req.method = "OPTIONS"
           /\ Ends(h, mock, [Bare(204) EXCEPT !.headers = CORSHeaders])
    <2>1. ReplyTo(h)'.status = 204 /\ hit'[h].at = "over" /\ hit'[h].m = mock
        BY <1>4 DEF Ends, ReplyTo, Bare
    <2> QED
        BY <1>1, <1>2, <1>4, <2>1 DEF Expected
<1>5. CASE /\ mock # None /\ ~(mock.cors /\ req.method = "OPTIONS") /\ mock.routes = <<>>
           /\ ~methodMatches(mock.method, req.method)
           /\ Ends(h, mock, [Bare(405) EXCEPT !.headers = Header("allow", mock.method)])
    <2>1. ReplyTo(h)'.status = 405 /\ hit'[h].at = "over" /\ hit'[h].m = mock
        BY <1>5 DEF Ends, ReplyTo, Bare
    <2>2. AnsweringOf(mock, req) = {} /\ OnPathOf(mock, req) # {}
        BY <1>5 DEF OnPathOf, AnsweringOf, methodMatches
    <2> QED
        BY <1>1, <1>2, <1>5, <2>1, <2>2 DEF Expected
<1>6. CASE /\ mock # None /\ ~(mock.cors /\ req.method = "OPTIONS") /\ mock.routes # <<>>
           /\ matched.route = <<>> /\ Ends(h, mock, Bare(IF matched.pathMatched THEN 405 ELSE 404))
    <2>1. /\ ReplyTo(h)'.status = (IF matched.pathMatched THEN 405 ELSE 404)
          /\ hit'[h].at = "over" /\ hit'[h].m = mock
        BY <1>6 DEF Ends, ReplyTo, Bare
    <2>2. AnsweringOf(mock, req) = {} /\ (matched.pathMatched <=> OnPathOf(mock, req) # {})
        BY <1>6, RouteIs DEF MockIsRow
    <2>3. ReplyTo(h)'.status = (IF OnPathOf(mock, req) = {} THEN 404 ELSE 405)
        <3> HIDE DEF matched
        <3> QED
            BY <2>1, <2>2
    <2> QED
        BY <1>1, <1>2, <1>6, <2>1, <2>2, <2>3 DEF Expected
<1>7. CASE /\ mock # None /\ ~(mock.cors /\ req.method = "OPTIONS")
           /\ \/ /\ mock.routes = <<>> /\ methodMatches(mock.method, req.method)
                 /\ hit'[h].src = Source(mock)
              \/ mock.routes # <<>> /\ matched.route # <<>> /\ hit'[h].src = Source(matched.route[1])
           /\ hit'[h].at = "select" /\ hit'[h].m = mock
    <2>1. \E r \in AnsweringOf(mock, req) : hit'[h].src = Source(r)
        <3>1. CASE mock.routes = <<>>
            BY <1>7, <3>1, OnPathOfMock
        <3>2. CASE mock.routes # <<>>
            <4>1. matched.route # <<>> /\ hit'[h].src = Source(matched.route[1]) /\ IsRow(mock)
                BY <1>7, <3>2 DEF MockIsRow
            <4>2. matched.route[1] \in AnsweringOf(mock, req)
                BY <3>2, <4>1, RouteIs
            <4> HIDE DEF matched
            <4> QED
                BY <4>1, <4>2
        <3> QED
            BY <3>1, <3>2
    <2>2. Routed(h)'
        BY <1>1, <1>7, <2>1 DEF Routed, MockIsRow
    <2> QED
        BY <1>7, <2>2 DEF Configured, Answered
<1> QED
    BY <1>3, <1>4, <1>5, <1>6, <1>7 DEF ReceiveEnds

\* Select: the name that was asked for, or error rate, sequence and default.
LEMMA SelectIsConfigured ==
    ASSUME Typed, NEW h \in Hit, Routed(h), SelectEnds(h)
    PROVE  Configured(h)'
<1> DEFINE m == hit[h].m
           req == hit[h].req
           src == hit[h].src
           served == hit'[h].served
           step == hit'[h].step
           configured == pickConfiguredVariant(src, req)
<1>1. hit'[h].at = "delay" /\ hit'[h].m = m /\ hit'[h].req = req /\ hit'[h].src = src
    BY DEF SelectEnds, Same
<1>2. IsIndexed(src.rules) /\ IsIndexed(src.variants) /\ (m.routes = <<>> => src = Source(m))
    <2>1. PICK r \in AnsweringOf(m, req) : src = Source(r)
        BY DEF Routed
    <2>2. r \in {m} \cup Range(m.routes) /\ (m.routes = <<>> => r = m)
        BY <2>1 DEF AnsweringOf, OnPathOf
    <2>3. src.rules = r.rules /\ src.variants = r.variants
        BY <2>1 DEF Source
    <2>4. IsRow(m)
        BY DEF Routed
    <2> QED
        BY <2>1, <2>2, <2>3, <2>4 DEF IsRow
<1>3. PICK name \in Names(src, req) :
          /\ Asked(src, req, name)
          /\ IF \E v \in Range(src.variants) : v.name = name
             THEN configured # <<>> /\ VariantServed(src, name, configured[1])
             ELSE configured = <<>>
    BY <1>2, ConfiguredIs
<1>4. \/ /\ step = None
         /\ \/ configured # <<>> /\ served = configured[1]
            \/ /\ configured = <<>>
               /\ \/ m.routes # <<>> /\ served = DefaultServed(src)
                  \/ m.routes = <<>> /\ Fails(m) /\ served = ErrorServed(m)
                  \/ /\ m.routes = <<>> /\ (Fails(m) => m.errorRate < 100) /\ m.steps = <<>>
                     /\ served = DefaultServed(m)
      \/ /\ configured = <<>> /\ m.routes = <<>> /\ (Fails(m) => m.errorRate < 100)
         /\ m.steps # <<>> /\ served = SequenceServed(m, position) /\ step = position
    BY DEF SelectEnds
<1>5. m.routes = <<>> => DefaultServed(m) = DefaultServed(src)
    BY <1>2 DEF DefaultServed, Source
<1>6. position # None
    BY RouterConstants DEF Typed
<1> HIDE DEF m, req, src, served, step, configured
<1>7. IF \E v \in Range(src.variants) : v.name = name
      THEN VariantServed(src, name, served) /\ step = None
      ELSE UnnamedServed(m, src, served, step)
    <2>1. CASE configured # <<>>
        BY <1>3, <1>4, <2>1
    <2>2. CASE configured = <<>>
        <3>1. ~ \E v \in Range(src.variants) : v.name = name
            BY <1>3, <2>2
        <3>2. UnnamedServed(m, src, served, step)
            BY <1>4, <1>5, <1>6, <2>2 DEF UnnamedServed
        <3> QED
            BY <3>1, <3>2
    <2> QED
        BY <2>1, <2>2
<1>8. Chosen(h)'
    BY <1>1, <1>3, <1>7 DEF Chosen, served, step
<1>9. Routed(h)'
    BY <1>1 DEF Routed, m, req, src
<1> QED
    BY <1>1, <1>8, <1>9 DEF Configured, Answered

\* The fields that an answer depends on.
LEMMA ConfiguredKept ==
    ASSUME NEW h \in Hit, Same(h, {"req", "m", "src", "served", "step"})
    PROVE  (Routed(h) => Routed(h)') /\ (Chosen(h) => Chosen(h)')
<1>1. /\ hit'[h].req = hit[h].req /\ hit'[h].m = hit[h].m /\ hit'[h].src = hit[h].src
      /\ hit'[h].served = hit[h].served /\ hit'[h].step = hit[h].step
    BY DEF Same
<1>2. Routed(h) => Routed(h)'
    BY <1>1 DEF Routed
<1>3. Chosen(h) => Chosen(h)'
    BY <1>1 DEF Chosen
<1> QED
    BY <1>2, <1>3

\* A step moves one hit at most, and that by one stage.
LEMMA ConfiguredStep ==
    Typed /\ AllLogged /\ MockIsRow /\ AllConfigured /\ [Next]_vars => AllConfigured'
<1> SUFFICES ASSUME Typed, AllLogged, MockIsRow, AllConfigured, [Next]_vars, NEW k \in Hit
             PROVE  Configured(k)'
    BY DEF AllConfigured
<1>1. Configured(k)
    BY DEF AllConfigured
<1>2. ASSUME hit'[k] = hit[k] PROVE Configured(k)'
    BY <1>1, <1>2 DEF Configured, Routed, Chosen, Expected, Answered, ReplyTo
<1>3. ASSUME HitStep(k) PROVE Configured(k)'
    <2>1. CASE \E req : ReceiveEnds(k, req)
        BY <2>1, ReceiveIsConfigured
    <2>2. CASE SelectEnds(k)
        <3>1. Routed(k)
            BY <1>1, <2>2 DEF SelectEnds, Configured
        <3> QED
            BY <2>2, <3>1, SelectIsConfigured
    <2>3. CASE HangUpEnds(k)
        <3>1. hit'[k].at = "over" /\ hit'[k].reply = <<>>
            BY <2>3 DEF HangUpEnds, Same, AllLogged, Logged
        <3> QED
            BY <3>1 DEF Configured, Answered
    <2>4. CASE SubmitEnds(k) \/ TakeSeqEnds(k)
        <3>1. /\ hit[k].at \in {"delay", "write"} /\ hit'[k].at = "write"
              /\ Same(k, {"req", "m", "src", "served", "step"})
            BY <2>4 DEF SubmitEnds, TakeSeqEnds, Same
        <3>2. Routed(k)' /\ Chosen(k)'
            BY <1>1, <3>1, ConfiguredKept DEF Configured
        <3> QED
            BY <3>1, <3>2 DEF Configured, Answered
    <2>5. CASE RespondEnds(k)
        <3>1. /\ hit[k].at = "write" /\ hit'[k].at = "over"
              /\ Same(k, {"req", "m", "src", "served", "step"})
            BY <2>5 DEF RespondEnds, Same
        <3>2. Routed(k)' /\ Chosen(k)'
            BY <1>1, <3>1, ConfiguredKept DEF Configured
        <3>3. ReplyTo(k)'.status = WireStatus(Status(hit[k].served))
            BY <2>5 DEF RespondEnds, ReplyTo
        <3>4. hit'[k].served = hit[k].served
            BY <3>1 DEF Same
        <3>5. AnsweringOf(hit'[k].m, hit'[k].req) # {}
            BY <3>2 DEF Routed
        <3>6. Expected(k)'
            BY <3>2, <3>3, <3>4, <3>5 DEF Expected, Routed
        <3> QED
            BY <3>1, <3>6 DEF Configured
    <2> QED
        BY <1>3, <2>1, <2>2, <2>3, <2>4, <2>5 DEF HitStep
<1> QED
    <2>1. ASSUME NEW h \in Hit, HitStep(h) PROVE Configured(k)'
        <3>1. CASE k = h
            BY <1>3, <2>1, <3>1
        <3>2. CASE k # h
            BY <1>2, <2>1, <3>2 DEF HitStep, Alone
        <3> QED
            BY <3>1, <3>2
    <2> QED
        BY <1>2, <2>1, Steps

\* Whatever configurations are stored, and whichever come and go meanwhile, each
\* hit gets what the mock it read says about it.
THEOREM HitsGetWhatIsConfigured == Spec => []RepliesAsConfigured
<1>1. Init => Accepted
    BY DEF Init, Accepted
<1>2. Init => AllLogged /\ AllConfigured
    <2> SUFFICES ASSUME Init, NEW h \in Hit PROVE Logged(h) /\ Configured(h)
        BY DEF AllLogged, AllConfigured
    <2>1. hit[h] = NewHit
        BY DEF Init
    <2> QED
        BY <2>1 DEF NewHit, Configured, Answered, Logged
<1>3. AllConfigured => RepliesAsConfigured
    BY DEF AllConfigured, Configured, Expected, Chosen, Names, RepliesAsConfigured
<1> QED
    BY <1>1, <1>2, <1>3, InitTyped, Steps, LoggedStep, AcceptedStep, AcceptedIsRow,
       ConfiguredStep, PTL DEF Spec

-----------------------------------------------------------------------------
(* The body *)

\* A record of a piece that has no others inside; a pick has options.
IsFlat(p) ==
    /\ DOMAIN p = PieceFields
    /\ p.kind = "pick" => p.options # <<>> /\ IsList(p.options)

\* A record of a piece, inside of which there are flat ones, if any.
IsPiece(p) ==
    /\ IsFlat(p) /\ \E len \in Nat : DOMAIN Inside(p) = 1 .. len
    /\ \A j \in DOMAIN Inside(p) : IsFlat(Inside(p)[j])

\* A list of records is indexed, and so are its members.
LEMMA ListOfIs ==
    ASSUME NEW s, IsListOf(s, PieceFields)
    PROVE  /\ \E len \in Nat : DOMAIN s = 1 .. len
           /\ \A i \in DOMAIN s : s[i] \in Range(s) /\ DOMAIN s[i] = PieceFields
<1>1. \A i \in DOMAIN s : s[i] \in Range(s)
    BY DEF Range
<1> QED
    BY <1>1, IsListIs DEF IsListOf

\* The pieces of a text are a list of records.
LEMMA ParseIs ==
    ASSUME NEW text
    PROVE  /\ \E len \in Nat : DOMAIN Parse(text) = 1 .. len
           /\ \A i \in DOMAIN Parse(text) : IsPiece(Parse(text)[i])
<1>1. ASSUME NEW p, IsFlat(p), p.kind # "braces" PROVE IsPiece(p)
    <2>1. Inside(p) = <<>>
        BY <1>1 DEF Inside
    <2>2. DOMAIN Inside(p) = 1 .. 0 /\ \A j \in DOMAIN Inside(p) : FALSE
        BY <2>1
    <2>3. \E len \in Nat : DOMAIN Inside(p) = 1 .. len
        BY <2>2
    <2> HIDE DEF IsFlat
    <2> QED
        BY <1>1, <2>2, <2>3 DEF IsPiece
<1>2. CASE text \in DOMAIN Template
    <2>1. Parse(text) = Template[text] /\ IsListOf(Template[text], PieceFields)
        BY <1>2, TemplateConstants DEF Parse
    <2>2. ASSUME NEW i \in DOMAIN Template[text] PROVE IsPiece(Template[text][i])
        <3> DEFINE p == Template[text][i]
        <3>1. /\ DOMAIN p = PieceFields
              /\ p.kind = "pick" => PickIsMatched(p)
              /\ p.kind = "braces" => BracesAreMatched(p)
            BY <1>2, <2>1, ListOfIs, TemplateConstants
        <3> HIDE DEF p
        <3>2. IsFlat(p)
            BY <3>1 DEF IsFlat, PickIsMatched
        <3>3. CASE p.kind = "braces"
            <4>1. Inside(p) = p.options[1] /\ IsListOf(p.options[1], PieceFields)
                BY <3>1, <3>3 DEF Inside, BracesAreMatched
            <4>2. ASSUME NEW j \in DOMAIN Inside(p) PROVE IsFlat(Inside(p)[j])
                <5>1. /\ Inside(p)[j] \in Range(p.options[1])
                      /\ DOMAIN Inside(p)[j] = PieceFields
                    BY <4>1, <4>2, ListOfIs
                <5>2. Inside(p)[j].kind = "pick" => PickIsMatched(Inside(p)[j])
                    BY <3>1, <3>3, <5>1 DEF BracesAreMatched
                <5> QED
                    BY <5>1, <5>2 DEF IsFlat, PickIsMatched
            <4>3. \E len \in Nat : DOMAIN Inside(p) = 1 .. len
                BY <4>1, ListOfIs
            <4>4. \A j \in DOMAIN Inside(p) : IsFlat(Inside(p)[j])
                BY <4>2
            <4> QED
                BY <3>2, <4>3, <4>4 DEF IsPiece, p
        <3> QED
            BY <1>1, <3>2, <3>3 DEF p
    <2> QED
        BY <2>1, <2>2, ListOfIs
<1>3. CASE text \notin DOMAIN Template
    <2>1. Parse(text) = <<Text(text)>>
        BY <1>3 DEF Parse
    <2>2. IsFlat(Text(text)) /\ Text(text).kind # "braces"
        BY DEF Text, Piece, PieceFields, IsFlat
    <2> QED
        BY <1>1, <2>1, <2>2
<1> QED
    BY <1>2, <1>3

\* Its {{seq}} tokens can be counted.
LEMMA TokensCounted ==
    ASSUME NEW text
    PROVE  Cardinality(SeqTokens(Parse(text))) \in Nat
<1>1. PICK pieces : pieces = Parse(text)
    OBVIOUS
<1>2. PICK len \in Nat : DOMAIN pieces = 1 .. len
    BY <1>1, ParseIs
<1>3. \A i \in DOMAIN pieces : IsPiece(pieces[i])
    BY <1>1, ParseIs
<1> DEFINE inner == [i \in 1 .. len |-> {<<i, j>> : j \in SeqIn(Inside(pieces[i]))}]
           outer == {<<i, 0>> : i \in SeqIn(pieces)}
           places == {inner[i] : i \in 1 .. len}
<1>4. IsFiniteSet(1 .. len) /\ IsFiniteSet({0})
    <2>1. IsFiniteSet(1 .. len)
        BY <1>2, UpTo
    <2>2. IsFiniteSet({0})
        BY FS_Singleton
    <2> QED
        BY <2>1, <2>2
<1>5. IsFiniteSet(outer)
    <2>1. outer \subseteq (1 .. len) \X {0}
        BY <1>2 DEF SeqIn
    <2> QED
        BY <1>4, <2>1, FS_Product, FS_Subset
<1>6. ASSUME NEW i \in 1 .. len PROVE IsFiniteSet(inner[i])
    <2>1. PICK n \in Nat : DOMAIN Inside(pieces[i]) = 1 .. n
        BY <1>2, <1>3 DEF IsPiece
    <2>2. inner[i] \subseteq {i} \X (1 .. n)
        BY <2>1 DEF SeqIn
    <2>3. IsFiniteSet(1 .. n)
        BY <2>1, UpTo
    <2>4. IsFiniteSet({i})
        BY FS_Singleton
    <2> HIDE DEF inner
    <2> QED
        BY <2>2, <2>3, <2>4, FS_Product, FS_Subset
<1>7. IsFiniteSet(places)
    <2> HIDE DEF inner
    <2>1. [i \in 1 .. len |-> inner[i]] \in Surjection(1 .. len, places)
        BY DEF Surjection
    <2> QED
        BY <1>4, <2>1, FS_Surjection
<1>8. IsFiniteSet(UNION places)
    <2> HIDE DEF inner
    <2> QED
        BY <1>6, <1>7, FS_UNION
<1>9. UNION places = UNION {{<<i, j>> : j \in SeqIn(Inside(pieces[i]))} : i \in 1 .. len}
    OBVIOUS
<1> HIDE DEF places, outer
<1>10. IsFiniteSet(SeqTokens(pieces))
    BY <1>2, <1>5, <1>8, <1>9, FS_Union DEF SeqTokens, outer
<1> QED
    BY <1>1, <1>10, FS_CardinalityType

\* The first pass makes text of a supported token and leaves the others alone.
LEMMA FakerOrNowIs ==
    ASSUME NEW p, IsFlat(p)
    PROVE  /\ FakerOrNow(p) = p \/ FakerOrNow(p).kind = "text"
           /\ p.kind \notin {"faker", "now"} => FakerOrNow(p) = p
<1>1. [p EXCEPT !.kind = "text"].kind = "text"
    BY DEF IsFlat, PieceFields
<1>2. p.kind \notin {"faker", "now"} => <<p.kind, p.value>> \notin SupportedTokens
    BY DEF SupportedTokens
<1> QED
    BY <1>1, <1>2 DEF FakerOrNow

\* An index from a remainder.
LEMMA RemainderIs ==
    ASSUME NEW n \in Nat \ {0}, NEW c \in Nat
    PROVE  (c % n) + 1 \in 1 .. n
OBVIOUS

\* The first two passes over a flat piece do what it stands for.
LEMMA FlatRendered ==
    ASSUME NEW p, IsFlat(p), NEW value, NEW choice \in Nat
    PROVE  /\ Extra(Made(p), value, choice) = StandsFor(p, value, choice)
           /\ \A kind \in {"seq", "braces"} : Made(p).kind = kind <=> p.kind = kind
<1>1. CASE p.kind = "pick"
    <2> DEFINE k == (choice % Len(p.options)) + 1
               options == Each(p.options, LAMBDA o : Each(o, FakerOrNow))
    <2>1. Made(p) = [p EXCEPT !.options = options]
        BY <1>1 DEF Made
    <2>2. Made(p).kind = "pick" /\ Made(p).options = options
        BY <1>1, <2>1 DEF IsFlat, PieceFields
    <2>3. IsList(options) /\ Len(options) = Len(p.options)
        BY <1>1, MappedIsList DEF IsFlat, Each
    <2>4. k \in DOMAIN p.options
        <3>1. Len(p.options) \in Nat \ {0} /\ DOMAIN p.options = 1 .. Len(p.options)
            BY <1>1, IsListIs DEF IsFlat
        <3>2. k \in 1 .. Len(p.options)
            BY <3>1, RemainderIs
        <3> QED
            BY <3>1, <3>2
    <2>5. options[k] = Each(p.options[k], FakerOrNow)
        BY <2>4 DEF Each
    <2>6. Extra(Made(p), value, choice) = Text(Words(options[k]))
        BY <2>2, <2>3 DEF Extra
    <2>7. StandsFor(p, value, choice) = Text(Words(Each(p.options[k], FakerOrNow)))
        BY <1>1 DEF StandsFor
    <2> QED
        BY <1>1, <2>2, <2>5, <2>6, <2>7
<1>2. CASE p.kind \in {"faker", "now"}
    <2>1. Made(p) = FakerOrNow(p) /\ FakerOrNow(p).kind \in {"faker", "now", "text"}
        BY <1>2, FakerOrNowIs DEF Made
    <2>2. Extra(Made(p), value, choice) = FakerOrNow(p)
        BY <2>1 DEF Extra
    <2>3. StandsFor(p, value, choice) = FakerOrNow(p)
        BY <1>2 DEF StandsFor
    <2> QED
        BY <1>2, <2>1, <2>2, <2>3
<1>3. CASE p.kind \notin {"pick", "faker", "now"}
    <2>1. Made(p) = p
        BY <1>3, FakerOrNowIs DEF Made
    <2> QED
        BY <1>3, <2>1 DEF Extra, StandsFor
<1> QED
    BY <1>1, <1>2, <1>3

\* The first pass keeps every {{seq}} where it is, and the braces around it.
LEMMA GeneratedKeeps ==
    ASSUME NEW pieces, \A i \in DOMAIN pieces : IsPiece(pieces[i])
    PROVE  /\ DOMAIN Generated(pieces) = DOMAIN pieces
           /\ \A i \in DOMAIN pieces :
                 /\ Generated(pieces)[i].kind = "braces" <=> pieces[i].kind = "braces"
                 /\ Inside(Generated(pieces)[i]) = Each(Inside(pieces[i]), Made)
                 /\ pieces[i].kind # "braces" => Generated(pieces)[i] = Made(pieces[i])
           /\ SeqTokens(Generated(pieces)) = SeqTokens(pieces)
<1> DEFINE one == Generated(pieces)
<1>1. DOMAIN one = DOMAIN pieces
    BY DEF Generated, Each
<1>2. ASSUME NEW i \in DOMAIN pieces
      PROVE  /\ \A kind \in {"seq", "braces"} : one[i].kind = kind <=> pieces[i].kind = kind
             /\ Inside(one[i]) = Each(Inside(pieces[i]), Made)
             /\ pieces[i].kind # "braces" => one[i] = Made(pieces[i])
    <2>1. PICK p : p = pieces[i] /\ IsPiece(p) /\ IsFlat(p)
        BY DEF IsPiece
    <2>2. CASE p.kind = "braces"
        <3>1. one[i] = [p EXCEPT !.options = <<Each(p.options[1], Made)>>]
            BY <2>1, <2>2 DEF Generated, Each
        <3>2. one[i].kind = "braces" /\ one[i].options = <<Each(p.options[1], Made)>>
            BY <2>1, <2>2, <3>1 DEF IsFlat, PieceFields
        <3>3. one[i].options[1] = Each(p.options[1], Made)
            BY <3>2
        <3>4. Inside(one[i]) = Each(p.options[1], Made) /\ Inside(p) = p.options[1]
            BY <2>2, <3>2, <3>3 DEF Inside
        <3> HIDE DEF one
        <3> QED
            BY <2>1, <2>2, <3>2, <3>4
    <2>3. CASE p.kind # "braces"
        <3>1. one[i] = Made(p)
            BY <2>1, <2>3 DEF Generated, Each
        <3>2. \A kind \in {"seq", "braces"} : one[i].kind = kind <=> p.kind = kind
            BY <2>1, <3>1, FlatRendered
        <3> HIDE DEF one
        <3>3. Inside(one[i]) = <<>> /\ Inside(p) = <<>>
            BY <2>3, <3>2 DEF Inside
        <3>4. Each(<<>>, Made) = <<>>
            BY DEF Each
        <3> QED
            BY <2>1, <2>3, <3>1, <3>2, <3>3, <3>4
    <2> QED
        BY <2>2, <2>3
<1>3. ASSUME NEW i \in DOMAIN pieces
      PROVE  SeqIn(Inside(one[i])) = SeqIn(Inside(pieces[i]))
    <2>1. PICK inside : inside = Inside(pieces[i]) /\ \A j \in DOMAIN inside : IsFlat(inside[j])
        BY DEF IsPiece
    <2>2. \A j \in DOMAIN inside : Made(inside[j]).kind = "seq" <=> inside[j].kind = "seq"
        <3>1. 0 \in Nat
            OBVIOUS
        <3> QED
            BY <2>1, <3>1, FlatRendered
    <2>3. SeqIn(Each(inside, Made)) = SeqIn(inside)
        BY <2>2 DEF SeqIn, Each
    <2> QED
        BY <1>2, <2>1, <2>3
<1> HIDE DEF one
<1>4. SeqIn(one) = SeqIn(pieces)
    BY <1>1, <1>2 DEF SeqIn
<1>5. SeqTokens(one) = SeqTokens(pieces)
    BY <1>1, <1>3, <1>4 DEF SeqTokens
<1> QED
    BY <1>1, <1>2, <1>5 DEF one

\* After two passes each place has its text, or the token that the inner ones completed.
LEMMA PieceCompleted ==
    ASSUME NEW pieces, \A i \in DOMAIN pieces : IsPiece(pieces[i]),
           NEW i \in DOMAIN pieces, NEW values, NEW choice \in Nat
    PROVE  substituteExtraTokens(Generated(pieces), values, choice)[i]
              = Completed(pieces, i, values, choice)
<1> DEFINE p == pieces[i]
           one == Generated(pieces)
           inside == Inside(p)
<1>1. /\ DOMAIN one = DOMAIN pieces /\ SeqTokens(one) = SeqTokens(pieces)
      /\ one[i].kind = "braces" <=> p.kind = "braces"
      /\ Inside(one[i]) = Each(inside, Made)
      /\ p.kind # "braces" => one[i] = Made(p)
    BY GeneratedKeeps
<1>2. IsFlat(p) /\ \A j \in DOMAIN inside : IsFlat(inside[j])
    BY DEF IsPiece
<1>3. \A place : Number(one, place) = Number(pieces, place)
    BY <1>1 DEF Number
<1> HIDE DEF one, p, inside
<1>4. CASE p.kind = "braces"
    <2> DEFINE Value(j) == values[Number(pieces, <<i, j>>)]
               found == [j \in DOMAIN inside |-> Extra(Made(inside[j]), Value(j), choice)]
    <2>1. substituteExtraTokens(one, values, choice)[i]
             = Reread([j \in DOMAIN Each(inside, Made) |->
                  Extra(Each(inside, Made)[j], values[Number(one, <<i, j>>)], choice)])
        BY <1>1, <1>4 DEF substituteExtraTokens
    <2>2. [j \in DOMAIN Each(inside, Made) |->
               Extra(Each(inside, Made)[j], values[Number(one, <<i, j>>)], choice)] = found
        BY <1>3 DEF Each
    <2>3. \A j \in DOMAIN inside :
              Extra(Made(inside[j]), Value(j), choice) = StandsFor(inside[j], Value(j), choice)
        <3> HIDE DEF Value
        <3> QED
            BY <1>2, FlatRendered
    <2>4. found = [j \in DOMAIN inside |-> StandsFor(inside[j], Value(j), choice)]
        <3> HIDE DEF Value
        <3> QED
            BY <2>3
    <2>5. Completed(pieces, i, values, choice)
             = Reread([j \in DOMAIN inside |-> StandsFor(inside[j], Value(j), choice)])
        BY <1>4 DEF Completed, p, inside
    <2> HIDE DEF found
    <2> QED
        BY <2>1, <2>2, <2>4, <2>5 DEF one
<1>5. CASE p.kind # "braces"
    <2>1. substituteExtraTokens(one, values, choice)[i]
             = Extra(Made(p), values[Number(pieces, <<i, 0>>)], choice)
        BY <1>1, <1>3, <1>5 DEF substituteExtraTokens
    <2>2. Completed(pieces, i, values, choice)
             = StandsFor(p, values[Number(pieces, <<i, 0>>)], choice)
        BY <1>5 DEF Completed, p
    <2> QED
        BY <1>2, <2>1, <2>2, FlatRendered DEF one
<1> QED
    BY <1>4, <1>5

\* The four passes over a body expand each of its pieces on its own.
LEMMA RenderedInsideOut ==
    ASSUME NEW body, NEW req, NEW values, NEW choice \in Nat
    PROVE  RenderResponseBodyForRequest(body, req, MockURL, values, choice)
              = FlattenSeq([i \in DOMAIN Parse(body) |->
                               Expansion(Parse(body), i, req, values, choice)])
<1>1. PICK pieces : pieces = Parse(body)
    OBVIOUS
<1>2. PICK two : two = substituteExtraTokens(Generated(pieces), values, choice)
    OBVIOUS
<1>3. PICK three : three = substituteMockTokens(two, MockURL)
    OBVIOUS
<1>4. \A i \in DOMAIN pieces : IsPiece(pieces[i])
    BY <1>1, ParseIs
<1>5. DOMAIN two = DOMAIN pieces /\ DOMAIN three = DOMAIN pieces
    BY <1>2, <1>3, <1>4, GeneratedKeeps DEF substituteMockTokens, substituteExtraTokens, Each
<1>6. MockToken("url").kind = "mock" /\ \A text : Text(text).kind = "text"
    BY DEF MockToken, Text, Piece
<1>7. ASSUME NEW i \in DOMAIN pieces
      PROVE  Expansion(pieces, i, req, values, choice)
                = IF three[i].kind = "request" THEN RequestValue(three[i], req) ELSE <<three[i]>>
    <2>1. PICK p : p = two[i] /\ p = Completed(pieces, i, values, choice)
        BY <1>2, <1>4, PieceCompleted
    <2>2. three[i] = IF p = MockToken("url") /\ MockURL # "" THEN Text(MockURL) ELSE p
        BY <1>3, <1>5, <2>1 DEF substituteMockTokens, Each
    <2>3. Expansion(pieces, i, req, values, choice)
             = CASE p.kind = "request" -> RequestValue(p, req)
                 [] p = MockToken("url") /\ MockURL # "" -> <<Text(MockURL)>>
                 [] OTHER -> <<p>>
        BY <2>1 DEF Expansion
    <2>4. CASE p.kind = "request"
        BY <1>6, <2>2, <2>3, <2>4
    <2>5. CASE p.kind # "request" /\ p = MockToken("url") /\ MockURL # ""
        BY <1>6, <2>2, <2>3, <2>5
    <2>6. CASE p.kind # "request" /\ ~ (p = MockToken("url") /\ MockURL # "")
        BY <2>2, <2>3, <2>6
    <2> QED
        BY <2>4, <2>5, <2>6
<1>8. Each(three, LAMBDA p : IF p.kind = "request" THEN RequestValue(p, req) ELSE <<p>>)
         = [i \in DOMAIN pieces |-> Expansion(pieces, i, req, values, choice)]
    BY <1>5, <1>7 DEF Each
<1>9. RenderResponseBodyForRequest(body, req, MockURL, values, choice)
         = FlattenSeq(Each(three, LAMBDA p :
                               IF p.kind = "request" THEN RequestValue(p, req) ELSE <<p>>))
    BY <1>1, <1>2, <1>3 DEF RenderResponseBodyForRequest, substituteRequestTokens
<1> QED
    BY <1>1, <1>8, <1>9

\* The {{seq}} tokens of the response that was chosen.
Tokens(h) == Cardinality(SeqTokens(Parse(hit[h].served.body)))

\* What BodiesInsideOut says of an answered hit.
BodyShown(h) ==
    LET pieces == Parse(hit[h].served.body) IN
    /\ Len(hit[h].values) = Tokens(h)
    /\ IF ReplyTo(h).status \in {101, 204, 304} \/ hit[h].req.method = "HEAD"
       THEN ReplyTo(h).body = <<>>
       ELSE \E choice \in {0, 1} :
               ReplyTo(h).body = FlattenSeq([i \in DOMAIN pieces |->
                   Expansion(pieces, i, hit[h].req, hit[h].values, choice)])

\* A hit takes no value before its response is chosen, none too many for it, and
\* goes on until each token has one.
Shown(h) ==
    /\ hit[h].at \in {"new", "select"} => hit[h].served = None
    /\ hit[h].at \in {"new", "select", "delay"} => hit[h].values = <<>>
    /\ hit[h].at = "write" => Len(hit[h].values) =< Tokens(h)
    /\ Answered(h) /\ hit[h].served # None => BodyShown(h)

AllShown == \A h \in Hit : Shown(h)

\* The last step of a hit shows the values it has taken, each in its place.
LEMMA RespondShows ==
    ASSUME Typed, NEW h \in Hit, Shown(h), RespondEnds(h)
    PROVE  Shown(h)'
<1>1. /\ hit'[h].at = "over" /\ hit'[h].req = hit[h].req /\ hit'[h].served = hit[h].served
      /\ hit'[h].values = hit[h].values
    BY DEF RespondEnds, Same
<1>2. PICK status, method, body, req, values :
          /\ status = Status(hit[h].served) /\ method = hit[h].req.method
          /\ body = hit[h].served.body /\ req = hit[h].req /\ values = hit[h].values
    OBVIOUS
<1>3. PICK choice \in {0, 1} :
          /\ ReplyTo(h)'.status = WireStatus(status)
          /\ ReplyTo(h)'.body
                = IF HasBody(status, method)
                  THEN RenderResponseBodyForRequest(body, req, MockURL, values, choice)
                  ELSE <<>>
    BY <1>2 DEF RespondEnds, ReplyTo
<1>4. Len(hit[h].values) = Tokens(h)
    <2>1. Len(hit[h].values) \in Nat /\ Tokens(h) \in Nat
        BY TokensCounted DEF Typed, Tokens
    <2>2. Len(hit[h].values) =< Tokens(h) /\ ~ (Len(hit[h].values) < Tokens(h))
        BY DEF RespondEnds, Shown, Consumes, Tokens
    <2> QED
        BY <2>1, <2>2
<1>5. RenderResponseBodyForRequest(body, req, MockURL, values, choice)
         = FlattenSeq([i \in DOMAIN Parse(body) |-> Expansion(Parse(body), i, req, values, choice)])
    BY RenderedInsideOut
<1>6. Tokens(h)' = Tokens(h)
    BY <1>1 DEF Tokens
<1>7. IF ReplyTo(h)'.status \in {101, 204, 304} \/ method = "HEAD"
      THEN ReplyTo(h)'.body = <<>>
      ELSE ReplyTo(h)'.body = FlattenSeq([i \in DOMAIN Parse(body) |->
                                  Expansion(Parse(body), i, req, values, choice)])
    BY <1>3, <1>5 DEF HasBody
<1>8. BodyShown(h)'
    BY <1>1, <1>2, <1>4, <1>6, <1>7 DEF BodyShown
<1> QED
    BY <1>1, <1>8 DEF Shown

\* A step takes a value only where one is missing.
LEMMA ShownStep == Typed /\ AllLogged /\ AllShown /\ [Next]_vars => AllShown'
<1> SUFFICES ASSUME Typed, AllLogged, AllShown, [Next]_vars, NEW k \in Hit PROVE Shown(k)'
    BY DEF AllShown
<1>1. Shown(k) /\ Logged(k)
    BY DEF AllShown, AllLogged
<1>2. ASSUME hit'[k] = hit[k] PROVE Shown(k)'
    BY <1>1, <1>2 DEF Shown, BodyShown, Tokens, Answered, ReplyTo
<1>3. ASSUME HitStep(k) PROVE Shown(k)'
    <2>1. CASE \E req : ReceiveEnds(k, req)
        <3>1. /\ hit[k].at = "new" /\ hit'[k].served = hit[k].served
              /\ hit'[k].values = hit[k].values /\ hit'[k].at \in {"over", "select"}
            BY <2>1 DEF ReceiveEnds, Ends, Same
        <3> QED
            BY <1>1, <3>1 DEF Shown
    <2>2. CASE SelectEnds(k)
        BY <1>1, <2>2 DEF SelectEnds, Same, Shown, Answered
    <2>3. CASE HangUpEnds(k)
        <3>1. hit'[k].at = "over" /\ hit'[k].reply = <<>>
            BY <1>1, <2>3 DEF HangUpEnds, Same, Logged
        <3> QED
            BY <3>1 DEF Shown, Answered
    <2>4. CASE SubmitEnds(k)
        <3>1. hit'[k].at = "write" /\ hit'[k].values = <<>>
            BY <1>1, <2>4 DEF SubmitEnds, Same, Shown
        <3>2. Tokens(k)' \in Nat
            BY TokensCounted DEF Tokens
        <3>3. Len(<<>>) = 0
            OBVIOUS
        <3> QED
            BY <3>1, <3>2, <3>3 DEF Shown, Answered
    <2>5. CASE TakeSeqEnds(k)
        <3>1. /\ hit[k].at = "write" /\ hit'[k].at = "write" /\ hit'[k].served = hit[k].served
              /\ hit'[k].values = Append(hit[k].values, tplPosition + 1)
            BY <2>5 DEF TakeSeqEnds, Same
        <3>2. Tokens(k)' = Tokens(k) /\ Tokens(k) \in Nat
            BY <3>1, TokensCounted DEF Tokens
        <3>3. Len(hit[k].values) \in Nat /\ Len(hit[k].values) < Tokens(k)
            BY <2>5 DEF TakeSeqEnds, Consumes, Typed, Tokens
        <3>4. Len(hit'[k].values) = Len(hit[k].values) + 1
            BY <3>1 DEF Typed
        <3>5. Len(hit'[k].values) =< Tokens(k)'
            BY <3>2, <3>3, <3>4
        <3> QED
            BY <3>1, <3>5 DEF Shown, Answered
    <2>6. CASE RespondEnds(k)
        BY <1>1, <2>6, RespondShows
    <2> QED
        BY <1>3, <2>1, <2>2, <2>3, <2>4, <2>5, <2>6 DEF HitStep
<1> QED
    <2>1. ASSUME NEW h \in Hit, HitStep(h) PROVE Shown(k)'
        <3>1. CASE k = h
            BY <1>3, <2>1, <3>1
        <3>2. CASE k # h
            BY <1>2, <2>1, <3>2 DEF HitStep, Alone
        <3> QED
            BY <3>1, <3>2
    <2> QED
        BY <1>2, <2>1, Steps

\* Whatever tokens a body has, between the braces of others too, whatever the
\* request's own words look like, and whichever hits take values in between: every
\* token is expanded on its own, from the inside to the outside, and every value
\* that a hit takes stands for one of its tokens, or for none if no body is sent.
THEOREM BodiesExpandInsideOut == Spec => []BodiesInsideOut
<1>1. Init => AllShown
    <2> SUFFICES ASSUME Init, NEW h \in Hit PROVE Shown(h)
        BY DEF AllShown
    <2>1. hit[h] = NewHit
        BY DEF Init
    <2> QED
        BY <2>1 DEF NewHit, Shown, Answered
<1>2. Init => AllLogged
    BY DEF Init, NewHit, AllLogged, Logged
<1>3. AllShown => BodiesInsideOut
    BY DEF AllShown, Shown, BodyShown, Tokens, BodiesInsideOut
<1> QED
    BY <1>1, <1>2, <1>3, InitTyped, Steps, LoggedStep, ShownStep, PTL DEF Spec

-----------------------------------------------------------------------------
(* What is imported *)

\* The ends of an interval.
LEMMA EndsAre ==
    ASSUME NEW n \in Nat
    PROVE  IF 1 .. n = {} THEN n = 0 ELSE Min(1 .. n) = 1 /\ Max(1 .. n) = n
<1>1. CASE n = 0
    BY <1>1
<1>2. CASE n # 0
    <2>1. 1 \in 1 .. n /\ n \in 1 .. n /\ 1 .. n \subseteq Nat
        BY <1>2
    <2>2. Min(1 .. n) \in 1 .. n /\ \A i \in 1 .. n : Min(1 .. n) =< i
        BY <2>1, MinIsLeast
    <2>3. Max(1 .. n) \in 1 .. n /\ \A i \in 1 .. n : Max(1 .. n) >= i
        BY <2>1, MaxIsGreatest
    <2>4. PICK least, most : least = Min(1 .. n) /\ most = Max(1 .. n)
        OBVIOUS
    <2>5. least \in 1 .. n /\ most \in 1 .. n /\ least =< 1 /\ most >= n
        BY <2>1, <2>2, <2>3, <2>4
    <2>6. least = 1 /\ most = n
        BY <2>5
    <2> QED
        BY <2>1, <2>4, <2>6
<1> QED
    BY <1>1, <1>2

\* A path without empty or escaped segments is what it is cut into.
LEMMA CleanPathIs ==
    ASSUME NEW path, IsList(path), \A s \in Range(path) : s \notin DOMAIN Unescaped \cup {""}
    PROVE  CleanPath(path) = path
<1>1. /\ Len(path) \in Nat /\ DOMAIN path = 1 .. Len(path)
      /\ path = [i \in DOMAIN path |-> path[i]] /\ path \in Seq(Range(path))
    BY IsListIs DEF IsList
<1>2. PICK kept : kept = {i \in DOMAIN path : path[i] # ""}
    OBVIOUS
<1>3. kept = 1 .. Len(path)
    BY <1>1, <1>2 DEF Range
<1>4. CASE kept = {}
    <2>1. Len(path) = 0
        BY <1>1, <1>3, <1>4, EndsAre, Zenon
    <2>2. path = <<>>
        BY <1>1, <2>1, EmptySeq
    <2> QED
        BY <1>2, <1>4, <2>2 DEF CleanPath
<1>5. CASE kept # {}
    <2>1. Min(kept) = 1 /\ Max(kept) = Len(path)
        BY <1>1, <1>3, <1>5, EndsAre, Zenon
    <2>2. SubSeq(path, Min(kept), Max(kept)) = path
        BY <1>1, <2>1, SubSeqFull
    <2>3. \A i \in DOMAIN path : Mapped(Unescaped, path[i]) = path[i]
        BY DEF Mapped, Range
    <2>4. Each(path, LAMBDA s : Mapped(Unescaped, s)) = path
        BY <1>1, <2>3 DEF Each
    <2> QED
        BY <1>2, <1>5, <2>2, <2>4 DEF CleanPath
<1> QED
    BY <1>4, <1>5

\* The status of an imported route itself.
Own(op) == baseStatus(Statuses(op.responses))

\* It is one of the statuses, and a success if there is one.
LEMMA OwnIs ==
    ASSUME NEW op
    PROVE  LET documented == DOMAIN op.responses \cap 100 .. 599 IN
           /\ Own(op) \in Statuses(op.responses)
           /\ documented \subseteq Statuses(op.responses) /\ Statuses(op.responses) \subseteq 100 .. 599
           /\ documented \cap 200 .. 299 # {} => Own(op) \in documented \cap 200 .. 299
<1>1. PICK documented, statuses, successes :
          /\ documented = DOMAIN op.responses \cap 100 .. 599
          /\ statuses = Statuses(op.responses) /\ successes = statuses \cap 200 .. 299
    OBVIOUS
<1>2. statuses = IF documented = {} THEN {200} ELSE documented
    BY <1>1 DEF Statuses
<1>3. Own(op) = Min(IF successes # {} THEN successes ELSE statuses)
    BY <1>1 DEF Own, baseStatus
<1>4. statuses # {} /\ statuses \subseteq 100 .. 599 /\ documented \subseteq statuses
    BY <1>1, <1>2
<1>5. statuses \subseteq Nat /\ successes \subseteq Nat
    BY <1>1, <1>4
<1>6. Own(op) \in IF successes # {} THEN successes ELSE statuses
    <2>1. CASE successes # {}
        <3>1. Min(successes) \in successes
            BY <1>5, <2>1, MinIsLeast
        <3> QED
            BY <1>3, <2>1, <3>1
    <2>2. CASE successes = {}
        <3>1. Min(statuses) \in statuses
            BY <1>4, <1>5, MinIsLeast
        <3> QED
            BY <1>3, <2>2, <3>1
    <2> QED
        BY <2>1, <2>2
<1> QED
    BY <1>1, <1>2, <1>4, <1>6

\* A stored route that was imported: the operation's method and path, its own
\* status, no rules, and a variant for each of the other statuses.
IsImported(n, op) ==
    LET others == Statuses(op.responses) \ {Own(op)} IN
    /\ n.method = op.method /\ n.path = NonEmpty(op.path)
    /\ n.status = Own(op) /\ n.body = Response(op, Own(op)).body
    /\ DOMAIN n.rules = {} /\ IsIndexed(n.variants)
    /\ \A v \in Range(n.variants) : \E s \in others :
          v.name = StatusName[s] /\ v.status = s /\ v.body = Response(op, s).body
    /\ \A s \in others : \E v \in Range(n.variants) : v.name = StatusName[s]

\* One variant, as it is stored.
LEMMA ImportedVariantIs ==
    ASSUME NEW op, NEW s \in 100 .. 599
    PROVE  LET v == NormalVariant(ImportedVariant(op, s)) IN
           v.name = StatusName[s] /\ v.status = s /\ v.body = Response(op, s).body
<1>1. PICK v : v = ImportedVariant(op, s)
    OBVIOUS
<1>2. /\ DOMAIN v = VariantFields /\ v.name = StatusName[s] /\ v.status = s
      /\ v.body = Response(op, s).body
    BY <1>1 DEF ImportedVariant, VariantFields
<1>3. StatusName[s] \notin DOMAIN Trimmed
    BY ImportConstants DEF Range
<1>4. TrimSpace(v.name) = v.name /\ Filled(v.status) = v.status
    BY <1>2, <1>3 DEF TrimSpace, Mapped, Filled, OrDefault
<1> QED
    BY <1>1, <1>2, <1>4, NormalVariantIs

\* validate changes nothing of an imported route but the spelling of its path.
LEMMA ImportedRouteIs ==
    ASSUME NEW op
    PROVE  IsImported(NormalRoute(ImportedRoute(op)), op)
<1>1. PICK r, n, others : /\ r = ImportedRoute(op) /\ n = NormalRoute(r)
                          /\ others = Statuses(op.responses) \ {Own(op)}
    OBVIOUS
<1>2. /\ DOMAIN r = RouteFields /\ r.method = op.method /\ r.path = op.path
      /\ r.status = Own(op) /\ r.body = Response(op, Own(op)).body /\ r.rules = <<>>
      /\ r.variants = [k \in DOMAIN InOrder(others) |-> ImportedVariant(op, InOrder(others)[k])]
    BY <1>1 DEF ImportedRoute, RouteFields, Own
<1>3. /\ n.method = r.method /\ n.body = r.body /\ n.path = NonEmpty(r.path)
      /\ n.status = Filled(r.status)
      /\ n.variants = NormalVariants(r.variants) /\ n.rules = NormalRules(r.rules)
    BY <1>1, <1>2, NormalRouteIs
<1>4. others \subseteq 100 .. 599 /\ Own(op) \in 100 .. 599
    <2>1. Own(op) \in Statuses(op.responses) /\ Statuses(op.responses) \subseteq 100 .. 599
        BY OwnIs
    <2> QED
        BY <1>1, <2>1
<1>5. n.status = Own(op)
    <2>1. Own(op) # 0
        BY <1>4
    <2> QED
        BY <1>2, <1>3, <2>1 DEF Filled, OrDefault
<1>6. DOMAIN n.rules = {}
    BY <1>2, <1>3 DEF NormalRules, Each
<1>7. /\ Cardinality(others) \in Nat /\ DOMAIN InOrder(others) = 1 .. Cardinality(others)
      /\ \A k \in 1 .. Cardinality(others) : InOrder(others)[k] \in others
      /\ \A s \in others : \E k \in 1 .. Cardinality(others) : InOrder(others)[k] = s
    <2>1. others \subseteq 1 .. 599
        BY <1>4
    <2>2. \E len \in Nat : others \subseteq 1 .. len
        <3> WITNESS 599 \in Nat
        <3> QED
            BY <2>1
    <2>3. /\ Cardinality(others) \in Nat /\ DOMAIN InOrder(others) = 1 .. Cardinality(others)
          /\ \A k \in 1 .. Cardinality(others) : InOrder(others)[k] \in others
          /\ \A s \in others : /\ Rank(others, s) \in 1 .. Cardinality(others)
                                /\ InOrder(others)[Rank(others, s)] = s
        BY <2>2, InOrderIs
    <2> QED
        BY <2>3
<1>8. n.variants = [k \in DOMAIN r.variants |-> NormalVariant(r.variants[k])]
    BY <1>3 DEF NormalVariants, Each, NormalVariant, Filled
<1>9. /\ DOMAIN n.variants = 1 .. Cardinality(others)
      /\ \A k \in 1 .. Cardinality(others) :
            n.variants[k] = NormalVariant(ImportedVariant(op, InOrder(others)[k]))
    BY <1>2, <1>7, <1>8
<1>10. IsIndexed(n.variants)
    BY <1>7, <1>9 DEF IsIndexed
<1>11. \A k \in 1 .. Cardinality(others) :
          LET s == InOrder(others)[k]  v == n.variants[k] IN
          v.name = StatusName[s] /\ v.status = s /\ v.body = Response(op, s).body
    <2> TAKE k \in 1 .. Cardinality(others)
    <2>1. PICK s : s = InOrder(others)[k] /\ s \in 100 .. 599
        BY <1>4, <1>7
    <2>2. PICK v : v = NormalVariant(ImportedVariant(op, s))
        OBVIOUS
    <2>3. v.name = StatusName[s] /\ v.status = s /\ v.body = Response(op, s).body
        BY <2>1, <2>2, ImportedVariantIs
    <2>4. n.variants[k] = v
        BY <1>9, <2>1, <2>2
    <2> QED
        BY <2>1, <2>3, <2>4
<1>12. ASSUME NEW v \in Range(n.variants)
       PROVE  \E s \in others :
                 v.name = StatusName[s] /\ v.status = s /\ v.body = Response(op, s).body
    <2>1. PICK k \in 1 .. Cardinality(others) : v = n.variants[k]
        BY <1>9, <1>12 DEF Range
    <2> QED
        BY <1>7, <1>11, <2>1
<1>13. ASSUME NEW s \in others PROVE \E v \in Range(n.variants) : v.name = StatusName[s]
    <2>1. PICK k \in 1 .. Cardinality(others) : InOrder(others)[k] = s
        BY <1>7
    <2>2. n.variants[k] \in Range(n.variants)
        BY <1>9 DEF Range
    <2> QED
        BY <1>11, <2>1, <2>2
<1> QED
    BY <1>1, <1>2, <1>3, <1>5, <1>6, <1>10, <1>12, <1>13 DEF IsImported

\* A request whose only word is the name of a variant asks for that one.
LEMMA HeaderAsks ==
    ASSUME NEW text, text \notin DOMAIN Trimmed \cup {""}
    PROVE  requestedVariant([header |-> Header("x-quickmock-variant", text), query |-> NoHeaders]) = text
<1>1. PICK header : header = Header("x-quickmock-variant", text)
    OBVIOUS
<1>2. "x-quickmock-variant" \in DOMAIN header /\ header["x-quickmock-variant"] = text
    BY <1>1 DEF Header
<1>3. TrimSpace(text) = text
    BY DEF TrimSpace, Mapped
<1> QED
    BY <1>1, <1>2, <1>3 DEF requestedVariant, OrDefault

\* And one without a word for none.
LEMMA NothingAsks == requestedVariant([header |-> NoHeaders, query |-> NoHeaders]) = ""
<1>1. DOMAIN NoHeaders = {}
    BY DEF NoHeaders
<1> QED
    BY <1>1 DEF requestedVariant, OrDefault

\* Without rules, the name alone decides.
LEMMA WithoutRules ==
    ASSUME NEW src, DOMAIN src.rules = {}, NEW req
    PROVE  pickConfiguredVariant(src, req) = Named(src, requestedVariant(req))
<1>1. {i \in DOMAIN src.rules : ruleMatches(src.rules[i], req)} = {}
    OBVIOUS
<1>2. Matching(src.rules, req) = <<>>
    BY <1>1 DEF Matching, FirstOf
<1>3. PICK name : name = requestedVariant(req)
    OBVIOUS
<1> QED
    BY <1>2, <1>3 DEF pickConfiguredVariant

\* Each status has a name of its own, and one that can be asked for.
LEMMA StatusNames ==
    ASSUME NEW s \in 100 .. 599
    PROVE  /\ StatusName[s] \notin DOMAIN Trimmed \cup {""}
           /\ \A t \in 100 .. 599 : StatusName[t] = StatusName[s] => t = s
<1>1. DOMAIN StatusName = 100 .. 599 /\ IsInjective(StatusName)
    BY ImportConstants
<1>2. StatusName[s] \in Range(StatusName)
    BY <1>1 DEF Range
<1>3. StatusName[s] \notin DOMAIN Trimmed \cup {""}
    BY <1>2, ImportConstants
<1>4. \A t \in DOMAIN StatusName : StatusName[t] = StatusName[s] => t = s
    BY <1>1, Zenon DEF IsInjective
<1> QED
    BY <1>1, <1>3, <1>4, Zenon

\* An imported route answers with each of its statuses to whoever names it, and
\* with its own to whoever names none.
LEMMA ImportedAnswers ==
    ASSUME NEW op, NEW n, IsImported(n, op), NEW routes, NEW path, NEW method,
           matchRoute(routes, path, method).route = <<n>>
    PROVE  /\ \A s \in Statuses(op.responses) :
                 LET served == AnswerTo(routes, path, method, Header("x-quickmock-variant", StatusName[s])) IN
                 served.status = s /\ served.body = Response(op, s).body
           /\ AnswerTo(routes, path, method, NoHeaders).status = Own(op)
<1>1. PICK src : src = Source(n)
    OBVIOUS
<1>2. /\ src.variants = n.variants /\ src.rules = n.rules /\ IsIndexed(src.variants)
      /\ DefaultServed(src).status = Own(op) /\ DefaultServed(src).body = Response(op, Own(op)).body
    BY <1>1 DEF Source, IsImported, DefaultServed, Served
<1>3. ASSUME NEW header, NEW name, name = requestedVariant([header |-> header, query |-> NoHeaders])
      PROVE  AnswerTo(routes, path, method, header)
                = IF Named(src, name) = <<>> THEN DefaultServed(src) ELSE Named(src, name)[1]
    <2>1. PICK req : req = [header |-> header, query |-> NoHeaders]
        OBVIOUS
    <2>2. DOMAIN src.rules = {}
        BY <1>2 DEF IsImported
    <2>3. pickConfiguredVariant(src, req) = Named(src, name)
        BY <1>3, <2>1, <2>2, WithoutRules
    <2>4. matchRoute(routes, path, method).route[1] = n
        OBVIOUS
    <2> QED
        BY <1>1, <2>1, <2>3, <2>4 DEF AnswerTo
<1>4. Statuses(op.responses) \subseteq 100 .. 599 /\ Own(op) \in Statuses(op.responses)
    BY OwnIs
<1>5. ASSUME NEW s \in Statuses(op.responses)
      PROVE  /\ StatusName[s] \notin DOMAIN Trimmed \cup {""}
             /\ \A t \in Statuses(op.responses) : StatusName[t] = StatusName[s] => t = s
    <2>1. s \in 100 .. 599
        BY <1>4
    <2> QED
        BY <1>4, <2>1, StatusNames, Zenon
<1>6. ASSUME NEW s \in Statuses(op.responses), NEW served,
             served = AnswerTo(routes, path, method, Header("x-quickmock-variant", StatusName[s]))
      PROVE  served.status = s /\ served.body = Response(op, s).body
    <2>1. PICK name : name = StatusName[s]
        OBVIOUS
    <2>2. name = requestedVariant([header |-> Header("x-quickmock-variant", name), query |-> NoHeaders])
        BY <1>4, <1>5, <2>1, HeaderAsks
    <2>3. served = IF Named(src, name) = <<>> THEN DefaultServed(src) ELSE Named(src, name)[1]
        BY <1>3, <1>6, <2>1, <2>2
    <2>4. CASE s = Own(op)
        <3>1. ASSUME NEW v \in Range(src.variants), v.name = name PROVE FALSE
            <4>1. PICK t \in Statuses(op.responses) \ {Own(op)} : v.name = StatusName[t]
                BY <1>2, <3>1 DEF IsImported
            <4>2. t = s
                BY <1>5, <2>1, <3>1, <4>1
            <4> QED
                BY <2>4, <4>1, <4>2
        <3>2. Named(src, name) = <<>>
            BY <1>2, <3>1, NamedIs
        <3> QED
            BY <1>2, <2>3, <2>4, <3>2
    <2>5. CASE s # Own(op)
        <3>1. \E v \in Range(src.variants) : v.name = name
            BY <1>2, <2>1, <2>5 DEF IsImported
        <3>2. Named(src, name) # <<>> /\ VariantServed(src, name, Named(src, name)[1])
            BY <1>2, <3>1, NamedIs
        <3>3. PICK v \in Range(src.variants) : v.name = name /\ served.status = v.status /\ served.body = v.body
            BY <2>3, <3>2 DEF VariantServed
        <3>4. PICK t \in Statuses(op.responses) :
                  v.name = StatusName[t] /\ v.status = t /\ v.body = Response(op, t).body
            BY <1>2, <3>3 DEF IsImported
        <3>5. t = s
            BY <1>5, <2>1, <3>3, <3>4
        <3> QED
            BY <3>3, <3>4, <3>5
    <2> QED
        BY <2>4, <2>5
<1>7. AnswerTo(routes, path, method, NoHeaders).status = Own(op)
    <2>1. ASSUME NEW v \in Range(src.variants), v.name = "" PROVE FALSE
        <3>1. PICK t \in Statuses(op.responses) : v.name = StatusName[t]
            BY <1>2, <2>1 DEF IsImported
        <3> QED
            BY <1>5, <2>1, <3>1
    <2>2. Named(src, "") = <<>>
        BY <1>2, <2>1, NamedIs
    <2>3. AnswerTo(routes, path, method, NoHeaders) = DefaultServed(src)
        BY <1>3, <2>2, NothingAsks
    <2> QED
        BY <1>2, <2>3
<1> QED
    BY <1>6, <1>7

\* A valid pattern fits the path that a request for it would have.
LEMMA ConcreteFits ==
    ASSUME NEW pattern, IsList(pattern), validRoutePath(NonEmpty(pattern))
    PROVE  routePathMatches(NonEmpty(pattern), Concrete(pattern))
<1>1. PICK p, a : p = NonEmpty(pattern) /\ a = Concrete(pattern)
    OBVIOUS
<1>2. IsList(p) /\ "" \notin Range(p)
    BY <1>1, NonEmptyIs
<1>3. \A s \in Range(p) : s \notin DOMAIN Unescaped \cup {""}
    BY <1>1, <1>2, ImportConstants DEF validRoutePath
<1>4. a = [i \in DOMAIN p |-> IF p[i] \in Placeholder THEN "7" ELSE p[i]]
    BY <1>1 DEF Concrete, Each
<1>5. IsList(a) /\ Len(a) = Len(p)
    <2>1. DOMAIN a = DOMAIN p /\ a = [i \in DOMAIN a |-> a[i]]
        BY <1>4
    <2> QED
        BY <1>2, <2>1, MappedIsList
<1>6. \A s \in Range(a) : s \notin DOMAIN Unescaped \cup {""}
    <2> TAKE s \in Range(a)
    <2>1. s = "7" \/ s \in Range(p)
        BY <1>4 DEF Range
    <2>2. "7" \notin DOMAIN Unescaped \cup {""}
        BY ImportConstants
    <2> QED
        BY <1>3, <2>1, <2>2
<1>7. CleanPath(p) = p /\ CleanPath(a) = a
    BY <1>2, <1>3, <1>5, <1>6, CleanPathIs
<1>8. \A i \in DOMAIN p : p[i] \in Placeholder \/ p[i] = a[i]
    BY <1>4
<1> QED
    BY <1>1, <1>5, <1>7, <1>8 DEF routePathMatches

\* The routes a mock has of a document, each at the rank of its operation.
LEMMA ImportsAre ==
    ASSUME NEW document \in Documents, NEW routes, routes = Each(ParseOpenAPI(document), NormalRoute)
    PROVE  /\ IsIndexed(routes)
           /\ \A k \in DOMAIN routes : \E j \in Importable(document) :
                 k = Rank(Importable(document), j) /\ IsImported(routes[k], document[j])
           /\ \A j \in Importable(document) :
                 LET k == Rank(Importable(document), j) IN
                 k \in DOMAIN routes /\ IsImported(routes[k], document[j])
<1>1. PICK S, taken : S = Importable(document) /\ taken = InOrder(S)
    OBVIOUS
<1>2. PICK len \in Nat : DOMAIN document = 1 .. len
    BY ImportConstants, IsListIs DEF IsListOf
<1>3. S \subseteq 1 .. len
    BY <1>1, <1>2 DEF Importable
<1>4. /\ Cardinality(S) \in Nat /\ DOMAIN taken = 1 .. Cardinality(S)
      /\ \A k \in 1 .. Cardinality(S) : taken[k] \in S /\ Rank(S, taken[k]) = k
      /\ \A i \in S : Rank(S, i) \in 1 .. Cardinality(S) /\ taken[Rank(S, i)] = i
    BY <1>1, <1>3, InOrderIs
<1>5. /\ DOMAIN routes = 1 .. Cardinality(S)
      /\ \A k \in 1 .. Cardinality(S) : routes[k] = NormalRoute(ImportedRoute(document[taken[k]]))
    <2>1. PICK parsed : parsed = ParseOpenAPI(document)
        OBVIOUS
    <2>2. parsed = [k \in 1 .. Cardinality(S) |-> ImportedRoute(document[taken[k]])]
        BY <1>1, <1>4, <2>1 DEF ParseOpenAPI
    <2>3. routes = [k \in DOMAIN parsed |-> NormalRoute(parsed[k])]
        BY <2>1 DEF Each
    <2> QED
        BY <2>2, <2>3
<1>6. \A k \in 1 .. Cardinality(S) : IsImported(routes[k], document[taken[k]])
    <2> TAKE k \in 1 .. Cardinality(S)
    <2>1. IsImported(NormalRoute(ImportedRoute(document[taken[k]])), document[taken[k]])
        BY ImportedRouteIs
    <2> QED
        BY <1>5, <2>1
<1>7. IsIndexed(routes)
    BY <1>4, <1>5 DEF IsIndexed
<1>8. ASSUME NEW k \in DOMAIN routes
      PROVE  \E j \in S : k = Rank(S, j) /\ IsImported(routes[k], document[j])
    BY <1>4, <1>5, <1>6, <1>8
<1>9. ASSUME NEW j \in S
      PROVE  Rank(S, j) \in DOMAIN routes /\ IsImported(routes[Rank(S, j)], document[j])
    <2>1. PICK k \in 1 .. Cardinality(S) : k = Rank(S, j) /\ taken[k] = j
        BY <1>4, <1>9
    <2> QED
        BY <1>5, <1>6, <2>1
<1> QED
    BY <1>1, <1>7, <1>8, <1>9

\* Of the imported operations that a path fits, the earliest answers.
LEMMA EarliestAnswers ==
    ASSUME NEW document \in Documents, NEW routes, routes = Each(ParseOpenAPI(document), NormalRoute),
           NEW i \in Importable(document), NEW path, routePathMatches(NonEmpty(document[i].path), path),
           \A j \in 1 .. i - 1 : ~IsFor(document[j], path, document[i].method)
    PROVE  \E n : /\ IsImported(n, document[i])
                  /\ matchRoute(routes, path, document[i].method).route = <<n>>
<1>1. PICK S, method : S = Importable(document) /\ method = document[i].method
    OBVIOUS
<1>2. PICK len \in Nat : DOMAIN document = 1 .. len
    BY ImportConstants, IsListIs DEF IsListOf
<1>3. S \subseteq 1 .. len /\ i \in S /\ \A j \in S : Supported(document[j])
    BY <1>1, <1>2 DEF Importable
<1>4. /\ IsIndexed(routes)
      /\ \A k \in DOMAIN routes : \E j \in S : k = Rank(S, j) /\ IsImported(routes[k], document[j])
      /\ \A j \in S : Rank(S, j) \in DOMAIN routes /\ IsImported(routes[Rank(S, j)], document[j])
    BY <1>1, ImportsAre
<1>5. PICK M : M = {k \in OnPath(routes, path) : methodMatches(routes[k].method, method)}
    OBVIOUS
<1>6. /\ M \subseteq DOMAIN routes
      /\ \A k \in DOMAIN routes : k \in M <=> /\ routePathMatches(routes[k].path, path)
                                              /\ routes[k].method \in {"ANY", method}
    BY <1>5 DEF OnPath, methodMatches
<1>7. PICK r \in DOMAIN routes : r = Rank(S, i) /\ IsImported(routes[r], document[i])
    BY <1>3, <1>4
<1>8. r \in M
    BY <1>1, <1>6, <1>7 DEF IsImported
<1>9. ASSUME NEW k \in M PROVE r =< k
    <2>1. PICK j \in S : k = Rank(S, j) /\ IsImported(routes[k], document[j])
        BY <1>4, <1>6, <1>9
    <2>2. document[j].method = method
        BY <1>3, <1>6, <1>9, <2>1 DEF IsImported, Supported
    <2>3. IsFor(document[j], path, method)
        BY <1>3, <1>6, <1>9, <2>1, <2>2 DEF IsImported, IsFor
    <2>4. i =< j
        <3>1. i \in Nat /\ j \in Nat /\ 1 =< j
            BY <1>3
        <3>2. j \notin 1 .. i - 1
            BY <1>1, <2>3
        <3> HIDE DEF IsFor
        <3> QED
            BY <3>1, <3>2
    <2>5. i < j => Rank(S, i) < Rank(S, j)
        BY <1>3, RankIs
    <2>6. Rank(S, i) \in Nat /\ Rank(S, j) \in Nat
        BY <1>4, <1>7, <2>1 DEF IsIndexed
    <2> QED
        BY <1>3, <1>7, <2>1, <2>4, <2>5, <2>6
<1>10. PICK k \in M : FirstOf(routes, M) = <<routes[k]>> /\ \A j \in M : k =< j
    BY <1>4, <1>6, <1>8, FirstOfIs
<1>11. k = r
    <2>1. k \in Nat /\ r \in Nat
        BY <1>4, <1>6 DEF IsIndexed
    <2> QED
        BY <1>8, <1>9, <1>10, <2>1
<1>12. matchRoute(routes, path, method).route = FirstOf(routes, M)
    BY <1>5 DEF matchRoute
<1> QED
    BY <1>1, <1>7, <1>10, <1>11, <1>12

\* An operation whose route answers can be had.
LEMMA AnsweringIsReachable ==
    ASSUME NEW op, NEW n, IsImported(n, op),
           matchRoute(mock.routes, Concrete(op.path), op.method).route = <<n>>
    PROVE  Reachable(op)
<1> DEFINE path == Concrete(op.path)
           documented == DOMAIN op.responses \cap 100 .. 599
           Answer(header) == AnswerTo(mock.routes, path, op.method, header)
<1>1. /\ \A s \in Statuses(op.responses) :
            LET served == Answer(Header("x-quickmock-variant", StatusName[s])) IN
            served.status = s /\ served.body = Response(op, s).body
      /\ Answer(NoHeaders).status = Own(op)
    BY ImportedAnswers
<1>2. /\ documented \subseteq Statuses(op.responses)
      /\ documented \cap 200 .. 299 # {} => Own(op) \in documented \cap 200 .. 299
    BY OwnIs
<1>3. \A s \in documented : Response(op, s) = openAPIResponse(op.responses[s])
    BY DEF Response
<1>4. matchRoute(mock.routes, path, op.method).route # <<>>
    OBVIOUS
<1> HIDE DEF documented, Answer
<1>5. ASSUME NEW s \in documented,
             NEW served, served = Answer(Header("x-quickmock-variant", StatusName[s]))
      PROVE  served.status = s /\ served.body = openAPIResponse(op.responses[s]).body
    BY <1>1, <1>2, <1>3, <1>5
<1>6. documented \cap 200 .. 299 # {} => Answer(NoHeaders).status \in documented \cap 200 .. 299
    BY <1>1, <1>2
<1> QED
    BY <1>4, <1>5, <1>6, Zenon DEF Reachable, documented, Answer

\* What passed validate and was imported can be had.
LEMMA NormalIsReachable == StoredIsNormal => ImportedIsReachable
<1>1. SUFFICES ASSUME StoredIsNormal, NEW document \in Documents,
                      mock # None, mock \notin LegacyRows,
                      mock.routes = Each(ParseOpenAPI(document), NormalRoute),
                      NEW i \in DOMAIN document, Supported(document[i]),
                      Cardinality({j \in 1 .. i : Supported(document[j])}) =< MaxMockRoutes,
                      \A j \in 1 .. i - 1 :
                          ~IsFor(document[j], Concrete(document[i].path), document[i].method)
               PROVE  Reachable(document[i])
    BY Zenon DEF ImportedIsReachable
<1>2. PICK op : op = document[i]
    OBVIOUS
<1>3. PICK len \in Nat : DOMAIN document = 1 .. len
    BY ImportConstants, IsListIs DEF IsListOf
<1>4. IsList(op.path)
    BY <1>2, ImportConstants DEF Range
<1>5. i \in Importable(document)
    <2>1. PICK supported : supported = {j \in DOMAIN document : Supported(document[j])}
        OBVIOUS
    <2>2. {j \in supported : j =< i} = {j \in 1 .. i : Supported(document[j])}
        BY <1>3, <2>1
    <2>3. Rank(supported, i) =< MaxMockRoutes
        BY <1>1, <2>2 DEF Rank
    <2> QED
        BY <1>1, <2>1, <2>3 DEF Importable
<1>6. validRoutePath(NonEmpty(op.path))
    <2>1. PICK r \in Range(mock.routes) : IsImported(r, op)
        BY <1>1, <1>2, <1>5, ImportsAre DEF Range
    <2>2. validRoutePath(normalizeRoutePath(r.path))
        BY <1>1, <2>1 DEF StoredIsNormal, valid, validRoutes
    <2> QED
        BY <1>4, <2>1, <2>2, NonEmptyTwice DEF IsImported, normalizeRoutePath
<1>7. routePathMatches(NonEmpty(document[i].path), Concrete(document[i].path))
    BY <1>2, <1>4, <1>6, ConcreteFits
<1>8. PICK n : /\ IsImported(n, document[i])
               /\ matchRoute(mock.routes, Concrete(document[i].path), document[i].method).route = <<n>>
    BY <1>1, <1>5, <1>7, EarliestAnswers, ZenonT(60)
<1> QED
    BY <1>8, AnsweringIsReachable

\* Whatever OpenAPI documents are imported, and whatever else is submitted or
\* served: as long as a mock has the routes of a document, every response that the
\* document has for an operation within the cap can be had by its status.
THEOREM ImportsAreReachable == Spec => []ImportedIsReachable
BY StoredStaysNormal, NormalIsReachable, PTL

=============================================================================
