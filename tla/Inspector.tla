----------------------------- MODULE Inspector -----------------------------
(***************************************************************************)
(* The live request inspector of one mock: the stream handlers of          *)
(* handler/stream.go with the two shared structures of package sse (the    *)
(* slots of StreamLimiter, the subscriptions of Broker), the log writer    *)
(* that publishes, and the page of mock.html, whose EventSource reconnects *)
(* and whose htmx box refetches the list.                                  *)
(***************************************************************************)
EXTENDS Naturals, FiniteSets

CONSTANTS
    Page,       \* the open inspector pages
    Addr,       \* client addresses
    MaxConns,   \* bound: the connections a page makes
    MaxTotal,   \* SSEMaxConns
    MaxPerIP,   \* SSEMaxPerIP
    GiveUp,     \* the errors in a row after which the page polls: 3 in mock.html
    MaxRows     \* bound: the requests that are logged

ASSUME InspectorConstants ==
    /\ MaxTotal \in Nat /\ MaxPerIP \in Nat /\ MaxRows \in Nat
    /\ MaxConns \in Nat \ {0} /\ GiveUp \in Nat \ {0}
    /\ Addr # {} /\ IsFiniteSet(Page)

Connection == 1 .. MaxConns
Handler == Page \X Connection

VARIABLES
    gone,       \* the mock was deleted or has expired
    allowed,    \* the pages inspectorAuthorized lets pass: public logs, or a session
    rows,       \* the newest row of request_logs
    published,  \* the newest row Broker.Publish was called for
    at,         \* where each call of LogsStream is
    ip,         \* the address of each call
    total, perIP,   \* StreamLimiter
    buffer,     \* the calls whose channel holds a signal
    subs,       \* Broker.subs
    conn,       \* the connection each page is on; 0 before it opens
    source,     \* the page's EventSource
    failures,   \* its consecutive errors
    event,      \* pages with a "log" event on their connection
    fetch,      \* the page's request for the list
    listed,     \* what the answer of that request shows
    again,      \* the request queued behind it
    shown,      \* the newest row the page shows; 0 while it shows none
    stopped,    \* the pages whose polling a 286 has ended
    owed        \* history: the newest row published to the page's subscription, until it is shown;
                \* 0 again once its signal, its event or its fetch is lost

limiterVars == <<total, perIP>>
brokerVars == <<buffer, subs>>
streamVars == <<at, ip, limiterVars, brokerVars>>
boxVars == <<fetch, listed, again, shown, stopped>>
pageVars == <<conn, source, failures, event, boxVars, owed>>
logVars == <<gone, allowed, rows, published>>
vars == <<logVars, streamVars, pageVars>>

\* A write to a client that does not read blocks; LogsStream has lifted the
\* deadline that would end it, and streamLifetime is only looked at in the select.
Stalled == {"greetStalls", "pingStalls", "eventStalls"}
InLoop == {"open", "pingStalls", "eventStalls"}
Subscribed == InLoop \cup {"cancel"}
HoldsSlot == Subscribed \cup {"acquired", "greetStalls", "connected", "release"}
Sent200 == Subscribed \cup {"connected", "release", "over"}

Init ==
    /\ gone = FALSE
    /\ allowed \in SUBSET Page
    /\ rows = 0 /\ published = 0
    /\ at = [h \in Handler |-> "new"]
    /\ ip = [h \in Handler |-> CHOOSE a \in Addr : TRUE]
    /\ total = 0 /\ perIP = [a \in Addr |-> 0]
    /\ buffer = {} /\ subs = {}
    /\ conn = [p \in Page |-> 0]
    /\ source = [p \in Page |-> "none"]
    /\ failures = [p \in Page |-> 0]
    /\ event = {}
    /\ fetch = [p \in Page |-> "none"]
    /\ listed = [p \in Page |-> 0]
    /\ again = {}
    /\ shown = [p \in Page |-> 0]
    /\ stopped = {}
    /\ owed = [p \in Page |-> 0]

Current(h) == conn[h[1]] = h[2] /\ source[h[1]] \in {"connecting", "live"}

-----------------------------------------------------------------------------
(* The mock and who may inspect it. *)

\* Deleted or expired: Get does not find it again.
Vanish ==
    /\ ~gone
    /\ gone' = TRUE
    /\ UNCHANGED <<allowed, rows, published, streamVars, pageVars>>

\* The owner edits logs_public, or a session's cookie lapses.
Reauthorize ==
    /\ allowed' \in SUBSET Page
    /\ UNCHANGED <<gone, rows, published, streamVars, pageVars>>

-----------------------------------------------------------------------------
(* service.LogWriter.write, one entry at a time. *)

InsertRow ==
    /\ rows = published /\ rows < MaxRows
    /\ rows' = rows + 1
    /\ UNCHANGED <<gone, allowed, published, streamVars, pageVars>>

\* A full channel keeps its signal.
Publish ==
    /\ published < rows
    /\ published' = rows
    /\ buffer' = buffer \cup subs
    /\ owed' = [p \in Page |-> IF /\ conn[p] # 0 /\ Current(<<p, conn[p]>>)
                                  /\ at[<<p, conn[p]>>] \in InLoop
                               THEN rows ELSE owed[p]]
    /\ UNCHANGED <<gone, allowed, rows, at, ip, limiterVars, subs, conn, source, failures, event, boxVars>>

-----------------------------------------------------------------------------
(* UI.LogsStream. *)

Go(h, from, to) == at[h] = from /\ at' = [at EXCEPT ![h] = to]

\* Get and inspectorAuthorized; a mock that is gone, a session that is not valid
\* any more or a lookup that fails ends the call.
Authorize(h) ==
    /\ Current(h)
    /\ \/ /\ ~gone /\ h[1] \in allowed
          /\ Go(h, "new", "authorized")
          /\ \E a \in Addr : ip' = [ip EXCEPT ![h] = a]
       \/ Go(h, "new", "refused") /\ UNCHANGED ip
    /\ UNCHANGED <<logVars, limiterVars, brokerVars, pageVars>>

Acquire(h) ==
    /\ IF total >= MaxTotal \/ perIP[ip[h]] >= MaxPerIP
       THEN Go(h, "authorized", "refused") /\ UNCHANGED limiterVars
       ELSE /\ Go(h, "authorized", "acquired")
            /\ total' = total + 1
            /\ perIP' = [perIP EXCEPT ![ip[h]] = @ + 1]
    /\ UNCHANGED <<logVars, ip, brokerVars, pageVars>>

\* Slip: the early return comes before the deferred Release is in place.
FlushLeaks(h) ==
    /\ \/ Go(h, "acquired", "connected")
       \/ Go(h, "acquired", "over")
    /\ UNCHANGED <<logVars, ip, limiterVars, brokerVars, pageVars>>

\* ": connected" reaches the client, or the writer cannot flush.
Flush(h) ==
    /\ \/ Go(h, "acquired", "connected")
       \/ Go(h, "acquired", "release")
    /\ UNCHANGED <<logVars, ip, limiterVars, brokerVars, pageVars>>

Subscribe(h) ==
    /\ Go(h, "connected", "open")
    /\ subs' = subs \cup {h}
    /\ UNCHANGED <<logVars, ip, limiterVars, buffer, pageVars>>

\* Only a connection that still exists carries the event to the page.
Arrives(h) == event' = IF Current(h) THEN event \cup {h[1]} ELSE event

\* case <-events: the "log" event is written. (A ping that is written changes
\* nothing.)
Deliver(h) ==
    /\ at[h] = "open" /\ h \in buffer
    /\ buffer' = buffer \ {h}
    /\ Arrives(h)
    /\ UNCHANGED <<logVars, at, ip, limiterVars, subs, conn, source, failures, boxVars, owed>>

\* The client does not read, and a write or its Flush blocks: the first, a ping,
\* or an event, whose signal is taken from the channel.
Stall(h) ==
    /\ \/ Go(h, "acquired", "greetStalls") /\ UNCHANGED buffer
       \/ Go(h, "open", "pingStalls") /\ UNCHANGED buffer
       \/ h \in buffer /\ Go(h, "open", "eventStalls") /\ buffer' = buffer \ {h}
    /\ UNCHANGED <<logVars, ip, limiterVars, subs, pageVars>>

\* The client reads on, or TCP gives the connection up; in the loop the error is
\* ignored, and the context ends the call.
Resume(h) ==
    /\ \/ Go(h, "greetStalls", "connected") /\ UNCHANGED event
       \/ Go(h, "greetStalls", "release") /\ UNCHANGED event
       \/ Go(h, "pingStalls", "open") /\ UNCHANGED event
       \/ Go(h, "eventStalls", "open") /\ Arrives(h)
    /\ UNCHANGED <<logVars, ip, limiterVars, brokerVars, conn, source, failures, boxVars, owed>>

\* Slip: no lifetime, only the request's context.
LeaveNoLifetime(h) ==
    /\ ~Current(h)
    /\ Go(h, "open", "cancel")
    /\ UNCHANGED <<logVars, ip, limiterVars, brokerVars, pageVars>>

\* The request's context is done, or the five minutes are over; the select
\* may pick either while a signal waits, and that signal is lost.
Leave(h) ==
    /\ Go(h, "open", "cancel")
    /\ owed' = IF Current(h) /\ h \in buffer THEN [owed EXCEPT ![h[1]] = 0] ELSE owed
    /\ UNCHANGED <<logVars, ip, limiterVars, brokerVars, conn, source, failures, event, boxVars>>

\* Slip: the subscription is not cancelled.
CancelForgets(h) ==
    /\ Go(h, "cancel", "release")
    /\ UNCHANGED <<logVars, ip, limiterVars, brokerVars, pageVars>>

Cancel(h) ==
    /\ Go(h, "cancel", "release")
    /\ subs' = subs \ {h}
    /\ buffer' = buffer \ {h}
    /\ UNCHANGED <<logVars, ip, limiterVars, pageVars>>

Release(h) ==
    /\ Go(h, "release", "over")
    /\ total' = IF total > 0 THEN total - 1 ELSE total
    /\ perIP' = [perIP EXCEPT ![ip[h]] = IF @ > 1 THEN @ - 1 ELSE 0]
    /\ UNCHANGED <<logVars, ip, brokerVars, pageVars>>

-----------------------------------------------------------------------------
(* mock.html: qmStartInspector and the box #qm-logs. *)

\* The page is rendered with the list of the moment, or locked and without a
\* stream; "load" refetches the box.
OpenPage(p) ==
    /\ source[p] = "none" /\ ~gone
    /\ \/ /\ p \in allowed
          /\ conn' = [conn EXCEPT ![p] = 1]
          /\ source' = [source EXCEPT ![p] = "connecting"]
          /\ shown' = [shown EXCEPT ![p] = rows]
       \/ /\ p \notin allowed
          /\ source' = [source EXCEPT ![p] = "locked"]
          /\ UNCHANGED <<conn, shown>>
    /\ fetch' = [fetch EXCEPT ![p] = "asked"]
    /\ UNCHANGED <<logVars, streamVars, failures, event, listed, again, stopped, owed>>

OnOpen(p) ==
    /\ source[p] = "connecting" /\ at[<<p, conn[p]>>] \in Sent200
    /\ source' = [source EXCEPT ![p] = "live"]
    /\ failures' = [failures EXCEPT ![p] = 0]
    /\ UNCHANGED <<logVars, streamVars, conn, event, boxVars, owed>>

\* A trigger while a request is in flight waits behind it: hx-sync "queue last".
Trigger(p) ==
    IF fetch[p] = "none"
    THEN fetch' = [fetch EXCEPT ![p] = "asked"] /\ UNCHANGED again
    ELSE again' = again \cup {p} /\ UNCHANGED fetch

\* openInspectorSession exchanges the owner's token for the cookie, refetches the
\* box (which listens to qm:log until it polls) and starts the stream of a page
\* that was locked.
Session(p) ==
    /\ source[p] # "none" /\ ~gone
    /\ allowed' = allowed \cup {p}
    /\ IF source[p] = "locked"
       THEN /\ conn' = [conn EXCEPT ![p] = 1]
            /\ source' = [source EXCEPT ![p] = "connecting"]
       ELSE UNCHANGED <<conn, source>>
    /\ IF source[p] = "polling" THEN UNCHANGED <<fetch, again>> ELSE Trigger(p)
    /\ UNCHANGED <<gone, rows, published, streamVars, failures, event, listed, shown, stopped, owed>>

\* Slip: a trigger while a request is in flight is dropped.
OnLogDrops(p) ==
    /\ source[p] = "live" /\ p \in event
    /\ event' = event \ {p}
    /\ failures' = [failures EXCEPT ![p] = 0]
    /\ fetch' = [fetch EXCEPT ![p] = IF @ = "none" THEN "asked" ELSE @]
    /\ UNCHANGED <<logVars, streamVars, conn, source, listed, again, shown, stopped, owed>>

OnLog(p) ==
    /\ source[p] = "live" /\ p \in event
    /\ event' = event \ {p}
    /\ failures' = [failures EXCEPT ![p] = 0]
    /\ Trigger(p)
    /\ UNCHANGED <<logVars, streamVars, conn, source, listed, shown, stopped, owed>>

\* The browser gives up on an answer that is not 200; three errors in a row
\* without an open are as good, and the box is set up anew, to poll; otherwise it
\* connects again.
OnError(p, refused) ==
    /\ failures' = [failures EXCEPT ![p] = @ + 1]
    /\ event' = event \ {p}
    /\ owed' = [owed EXCEPT ![p] = IF \/ p \in event \/ <<p, conn[p]>> \in buffer
                                      \/ at[<<p, conn[p]>>] = "eventStalls"
                                   THEN 0 ELSE @]
    /\ IF refused \/ failures[p] + 1 >= GiveUp
       THEN /\ source' = [source EXCEPT ![p] = "polling"]
            /\ stopped' = stopped \ {p}
            /\ UNCHANGED conn
       ELSE /\ conn[p] + 1 \in Connection
            /\ conn' = [conn EXCEPT ![p] = @ + 1]
            /\ source' = [source EXCEPT ![p] = "connecting"]
            /\ UNCHANGED stopped
    /\ UNCHANGED <<logVars, streamVars, fetch, listed, again, shown>>

Refused(p) == source[p] = "connecting" /\ at[<<p, conn[p]>>] = "refused" /\ OnError(p, TRUE)

\* The handler returned and what it wrote is read.
Ended(p) ==
    /\ source[p] = "live" /\ p \notin event
    /\ at[<<p, conn[p]>>] = "over"
    /\ OnError(p, FALSE)

\* Slip: no es.close().
BrokenNotClosed(p) == source[p] \notin {"none", "locked"} /\ OnError(p, FALSE)

\* The connection breaks under the page; the handler learns of it later.
Broken(p) == source[p] \in {"connecting", "live"} /\ OnError(p, FALSE)

\* Slip: the box polls only while it is empty.
PollWhileEmpty(p) ==
    /\ source[p] = "polling" /\ p \notin stopped /\ fetch[p] = "none" /\ shown[p] = 0
    /\ fetch' = [fetch EXCEPT ![p] = "asked"]
    /\ UNCHANGED <<logVars, streamVars, conn, source, failures, event, listed, again, shown,
                   stopped, owed>>

\* every 2s
Poll(p) ==
    /\ source[p] = "polling" /\ p \notin stopped /\ fetch[p] = "none"
    /\ fetch' = [fetch EXCEPT ![p] = "asked"]
    /\ UNCHANGED <<logVars, streamVars, conn, source, failures, event, listed, again, shown,
                   stopped, owed>>

\* UI.LogsPartial answers with the list ...
ListRows(p) ==
    /\ fetch[p] = "asked"
    /\ ~gone /\ p \in allowed
    /\ fetch' = [fetch EXCEPT ![p] = "answered"]
    /\ listed' = [listed EXCEPT ![p] = rows]
    /\ UNCHANGED <<logVars, streamVars, conn, source, failures, event, again, shown, stopped, owed>>

\* ... with the locked partial, since the session is not valid or its lookup
\* fails, or with no row, since the error of the list's query is ignored ...
ListNothing(p) ==
    /\ fetch[p] = "asked"
    /\ fetch' = [fetch EXCEPT ![p] = "answered"]
    /\ listed' = [listed EXCEPT ![p] = 0]
    /\ owed' = [owed EXCEPT ![p] = 0]
    /\ UNCHANGED <<logVars, streamVars, conn, source, failures, event, again, shown, stopped>>

\* ... or, the mock not found, with 286 and a notice.
ListGone(p) ==
    /\ fetch[p] = "asked"
    /\ gone
    /\ fetch' = [fetch EXCEPT ![p] = "gone"]
    /\ listed' = [listed EXCEPT ![p] = 0]
    /\ owed' = [owed EXCEPT ![p] = 0]
    /\ UNCHANGED <<logVars, streamVars, conn, source, failures, event, again, shown, stopped>>

List(p) == ListRows(p) \/ ListNothing(p) \/ ListGone(p)

\* Slip: the queued request is forgotten.
NextFetchForgets(p) ==
    /\ fetch' = [fetch EXCEPT ![p] = "none"]
    /\ again' = again \ {p}

NextFetch(p) ==
    /\ fetch' = [fetch EXCEPT ![p] = IF p \in again THEN "asked" ELSE "none"]
    /\ again' = again \ {p}

\* The answer is swapped in, and a 286 ends the polling; the queued request
\* follows.
Show(p) ==
    /\ fetch[p] \in {"answered", "gone"}
    /\ shown' = [shown EXCEPT ![p] = listed[p]]
    /\ listed' = [listed EXCEPT ![p] = 0]
    /\ owed' = [owed EXCEPT ![p] = IF @ > listed[p] THEN @ ELSE 0]
    /\ stopped' = IF fetch[p] = "gone" THEN stopped \cup {p} ELSE stopped
    /\ NextFetch(p)
    /\ UNCHANGED <<logVars, streamVars, conn, source, failures, event>>

\* The read limit answers 429, Get fails with another error (a 404), or the
\* request is lost: nothing is swapped.
FetchFails(p) ==
    /\ fetch[p] = "asked"
    /\ NextFetch(p)
    /\ owed' = [owed EXCEPT ![p] = 0]
    /\ UNCHANGED <<logVars, streamVars, conn, source, failures, event, listed, shown, stopped>>

-----------------------------------------------------------------------------
Handle(h) == \/ Authorize(h) \/ Acquire(h) \/ Flush(h) \/ Subscribe(h)
             \/ Cancel(h) \/ Release(h)

Next ==
    \/ Vanish \/ Reauthorize
    \/ InsertRow \/ Publish
    \/ \E h \in Handler : Handle(h) \/ Deliver(h) \/ Leave(h) \/ Stall(h) \/ Resume(h)
    \/ \E p \in Page : \/ OpenPage(p) \/ Session(p) \/ OnOpen(p) \/ OnLog(p) \/ Refused(p) \/ Ended(p)
                       \/ Broken(p) \/ Poll(p) \/ List(p) \/ Show(p) \/ FetchFails(p)

Spec == Init /\ [][Next]_vars

(***************************************************************************)
(* Goroutines that can run do. A stream that is not stalled comes back to  *)
(* its select, which picks a ready case at random: lifetime.C stays ready  *)
(* once it is. A stalled one depends on its client.                        *)
(***************************************************************************)
StreamFairness == \A h \in Handler : WF_vars(Handle(h)) /\ SF_vars(Leave(h))

StreamSpec == Spec /\ StreamFairness

(***************************************************************************)
(* The browser's callbacks that can run do, too. Nobody has to log a       *)
(* request, open a page or a session, break a connection or fail a fetch;  *)
(* but a page that asks again and again is answered by Postgres some time, *)
(* since the window of the read limit ends.                                *)
(***************************************************************************)
PageFairness ==
    \A p \in Page : /\ WF_vars(OnOpen(p) \/ OnLog(p) \/ Refused(p))
                    /\ WF_vars(Poll(p) \/ List(p) \/ Show(p))
                    /\ SF_vars(ListRows(p) \/ ListGone(p))

FairSpec == StreamSpec /\ WF_vars(Publish) /\ PageFairness

-----------------------------------------------------------------------------
(* Invariants *)

\* Type correctness.
TypeOK ==
    /\ gone \in BOOLEAN /\ allowed \subseteq Page
    /\ rows \in 0 .. MaxRows /\ published \in 0 .. MaxRows
    /\ at \in [Handler -> HoldsSlot \cup {"new", "authorized", "refused", "over"}]
    /\ ip \in [Handler -> Addr]
    /\ total \in Nat /\ perIP \in [Addr -> Nat]
    /\ buffer \subseteq Handler /\ subs \subseteq Handler
    /\ conn \in [Page -> Connection \cup {0}]
    /\ source \in [Page -> {"none", "locked", "connecting", "live", "polling"}]
    /\ failures \in [Page -> 0 .. GiveUp]
    /\ event \subseteq Page /\ again \subseteq Page /\ stopped \subseteq Page
    /\ fetch \in [Page -> {"none", "asked", "answered", "gone"}]
    /\ listed \in [Page -> 0 .. MaxRows] /\ shown \in [Page -> 0 .. MaxRows]
    /\ owed \in [Page -> 0 .. MaxRows]

\* The limiter's counts are the streams that hold a slot, in total and for each
\* address, through every return path of the handler and every interleaving of
\* calls; so the caps are never passed and never shrink.
SlotsMatchStreams ==
    /\ total = Cardinality({h \in Handler : at[h] \in HoldsSlot})
    /\ \A a \in Addr : perIP[a] = Cardinality({h \in Handler : at[h] \in HoldsSlot /\ ip[h] = a})
    /\ total =< MaxTotal /\ \A a \in Addr : perIP[a] =< MaxPerIP

\* Broker.subs holds the channels of the streams that are open and no other: a
\* stream that was torn down, however it was, leaves nothing behind.
SubsMatchStreams ==
    /\ subs = {h \in Handler : at[h] \in Subscribed}
    /\ buffer \subseteq subs

\* "A full buffer already holds a pending refetch signal, so dropping is
\* lossless": a row published to a page's subscription is shown, or something
\* that will show it is under way, until the stream ends or the connection breaks
\* with the signal or the event still on its way, or a fetch fails or is answered
\* without the list: locked, gone, or empty because its query failed.
NoLostWakeup ==
    \A p \in Page : owed[p] > shown[p] =>
        \/ <<p, conn[p]>> \in buffer \/ at[<<p, conn[p]>>] = "eventStalls"
        \/ p \in event \/ p \in again
        \/ fetch[p] = "asked"
        \/ fetch[p] = "answered" /\ listed[p] >= owed[p]

-----------------------------------------------------------------------------
(* Liveness *)

\* ... and it is eventually shown, unless one of those loses it or the page's
\* stream stalls for good.
OwedIsShown ==
    \A p \in Page : owed[p] > shown[p] ~>
        owed[p] =< shown[p] \/ [](conn[p] # 0 /\ at[<<p, conn[p]>>] \in Stalled)

\* A page that fell back to polling catches up with the log, as long as it is
\* authorized; once its mock is gone it is told, and stops asking.
PollingCatchesUp ==
    \A p \in Page : source[p] = "polling" ~>
        IF gone THEN p \in stopped ELSE shown[p] = rows \/ p \notin allowed

\* A slot that is taken is given back through every path, unless a write to a
\* client that never reads blocks for good.
SlotsComeBack ==
    \A h \in Handler : at[h] \in HoldsSlot ~> at[h] = "over" \/ [](at[h] \in Stalled)

=============================================================================
