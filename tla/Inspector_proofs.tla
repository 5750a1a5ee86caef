-------------------------- MODULE Inspector_proofs --------------------------
(***************************************************************************)
(* Theorems about Inspector, for any number of pages, addresses,           *)
(* connections and rows, and any limits.                                   *)
(***************************************************************************)
EXTENDS Inspector, FiniteSetTheorems, TLAPS

-----------------------------------------------------------------------------
(* Type correctness *)

\* A page that still has an EventSource has not had all its errors yet; a page
\* without a connection has none.
Typed ==
    /\ TypeOK
    /\ \A p \in Page : /\ source[p] # "polling" => failures[p] < GiveUp
                       /\ conn[p] = 0 <=> source[p] \in {"none", "locked"}

\* Runs start well typed.
LEMMA InitTyped == Init => Typed
<1> SUFFICES ASSUME Init PROVE Typed
    OBVIOUS
<1>1. 0 \in 0 .. MaxRows /\ 0 \in 0 .. GiveUp /\ 0 < GiveUp
    BY InspectorConstants
<1>2. (CHOOSE a \in Addr : TRUE) \in Addr
    BY InspectorConstants
<1> QED
    BY <1>1, <1>2 DEF Init, Typed, TypeOK

\* An action of a stream handler.
StreamStep(h) == Handle(h) \/ Deliver(h) \/ Leave(h) \/ Stall(h) \/ Resume(h)

\* The slots stay numbers.
LEMMA SlotTypes ==
    ASSUME Typed, NEW h \in Handler, Acquire(h) \/ Release(h)
    PROVE  total' \in Nat /\ perIP' \in [Addr -> Nat]
<1>1. total \in Nat /\ perIP \in [Addr -> Nat] /\ ip[h] \in Addr /\ perIP[ip[h]] \in Nat
    BY DEF Typed, TypeOK
<1>2. CASE Acquire(h)
    BY <1>1, <1>2 DEF Acquire, limiterVars
<1>3. CASE Release(h)
    <2>1. (IF total > 0 THEN total - 1 ELSE total) \in Nat
        BY <1>1
    <2>2. (IF perIP[ip[h]] > 1 THEN perIP[ip[h]] - 1 ELSE 0) \in Nat
        BY <1>1
    <2> QED
        BY <1>1, <1>3, <2>1, <2>2 DEF Release
<1> QED
    BY <1>2, <1>3

\* A stream handler keeps the types.
LEMMA StreamTyped ==
    ASSUME Typed, NEW h \in Handler, StreamStep(h)
    PROVE  Typed'
<1>1. at' \in [Handler -> HoldsSlot \cup {"new", "authorized", "refused", "over"}]
    BY DEF StreamStep, Handle, Authorize, Acquire, Flush, Subscribe, Deliver, Leave, Cancel,
           Release, Stall, Resume, Go, Typed, TypeOK, HoldsSlot, Subscribed, InLoop
<1>2. ip' \in [Handler -> Addr]
    BY DEF StreamStep, Handle, Authorize, Acquire, Flush, Subscribe, Deliver, Leave, Cancel,
           Release, Stall, Resume, Typed, TypeOK
<1>3. total' \in Nat /\ perIP' \in [Addr -> Nat]
    BY SlotTypes DEF StreamStep, Handle, Authorize, Flush, Subscribe, Deliver, Leave, Cancel,
           Stall, Resume, limiterVars, Typed, TypeOK
<1>4. subs' \subseteq Handler /\ buffer' \subseteq Handler
    BY DEF StreamStep, Handle, Authorize, Acquire, Flush, Subscribe, Deliver, Leave, Cancel,
           Release, Stall, Resume, brokerVars, Typed, TypeOK
<1>5. event' \subseteq Page
    <2> h[1] \in Page
        BY DEF Handler
    <2> QED
        BY DEF StreamStep, Handle, Authorize, Acquire, Flush, Subscribe, Deliver, Leave, Cancel,
           Release, Stall, Resume, Arrives, pageVars, Typed, TypeOK
<1>6. owed' \in [Page -> 0 .. MaxRows]
    <2> 0 \in 0 .. MaxRows
        BY InspectorConstants
    <2> QED
        BY DEF StreamStep, Handle, Authorize, Acquire, Flush, Subscribe, Deliver, Leave, Cancel,
           Release, Stall, Resume, Arrives, pageVars, Typed, TypeOK
<1>7. UNCHANGED <<logVars, conn, source, failures, boxVars>>
    BY DEF StreamStep, Handle, Authorize, Acquire, Flush, Subscribe, Deliver, Leave, Cancel,
           Release, Stall, Resume, Arrives, pageVars
<1> QED
    BY <1>1, <1>2, <1>3, <1>4, <1>5, <1>6, <1>7 DEF Typed, TypeOK, logVars, boxVars

\* An error of the EventSource counts, and gives up at the limit.
LEMMA ErrorTyped ==
    ASSUME Typed, NEW p \in Page, NEW refused \in BOOLEAN, OnError(p, refused),
           source[p] \in {"connecting", "live"}
    PROVE  Typed'
<1>1. failures[p] \in Nat /\ failures[p] < GiveUp /\ GiveUp \in Nat
    BY InspectorConstants DEF Typed, TypeOK
<1>2. failures[p] + 1 \in 0 .. GiveUp
    BY <1>1
<1>3. failures' = [failures EXCEPT ![p] = failures[p] + 1]
    BY DEF OnError
<1>4. failures' \in [Page -> 0 .. GiveUp]
    BY <1>2, <1>3 DEF Typed, TypeOK
<1>5. /\ conn' \in [Page -> Connection \cup {0}]
      /\ source' \in [Page -> {"none", "locked", "connecting", "live", "polling"}]
    BY DEF OnError, Typed, TypeOK
<1>6. source'[p] # "polling" => failures'[p] < GiveUp
    <2>1. failures'[p] = failures[p] + 1
        BY <1>3 DEF Typed, TypeOK
    <2>2. CASE failures[p] + 1 >= GiveUp
        BY <2>2 DEF OnError, Typed, TypeOK
    <2>3. CASE ~(failures[p] + 1 >= GiveUp)
        BY <1>1, <2>1, <2>3
    <2> QED
        BY <2>2, <2>3
<1>7. /\ \A q \in Page \ {p} : /\ source'[q] = source[q] /\ failures'[q] = failures[q]
                               /\ conn'[q] = conn[q]
      /\ conn'[p] # 0 /\ source'[p] \notin {"none", "locked"}
    BY <1>3 DEF OnError, Typed, TypeOK, Connection
<1>8. event' \subseteq Page /\ stopped' \subseteq Page /\ owed' \in [Page -> 0 .. MaxRows]
    <2> 0 \in 0 .. MaxRows
        BY InspectorConstants
    <2> QED
        BY DEF OnError, Typed, TypeOK
<1> QED
    BY <1>4, <1>5, <1>6, <1>7, <1>8 DEF OnError, Typed, TypeOK, logVars, streamVars,
       limiterVars, brokerVars, boxVars

\* An action of a page.
PageStep(p) == \/ OpenPage(p) \/ Session(p) \/ OnOpen(p) \/ OnLog(p) \/ Refused(p) \/ Ended(p)
               \/ Broken(p) \/ Poll(p) \/ List(p) \/ Show(p) \/ FetchFails(p)

\* A page keeps the types.
LEMMA PageTyped ==
    ASSUME Typed, NEW p \in Page, PageStep(p)
    PROVE  Typed'
<1> USE DEF Typed, TypeOK, logVars, streamVars, limiterVars, brokerVars, boxVars
<1>0. 0 \in 0 .. MaxRows /\ 0 \in 0 .. GiveUp /\ 0 < GiveUp /\ 1 \in Connection
    BY InspectorConstants DEF Connection
<1>1. CASE Refused(p) \/ Ended(p) \/ Broken(p)
    BY <1>1, ErrorTyped DEF Refused, Ended, Broken
<1>2. CASE OpenPage(p)
    <2>1. /\ conn' \in [Page -> Connection \cup {0}]
          /\ source' \in [Page -> {"none", "locked", "connecting", "live", "polling"}]
          /\ shown' \in [Page -> 0 .. MaxRows]
          /\ fetch' \in [Page -> {"none", "asked", "answered", "gone"}]
        BY <1>0, <1>2 DEF OpenPage
    <2>2. /\ source[p] = "none"
          /\ \/ source'[p] = "connecting" /\ conn'[p] = 1
             \/ source'[p] = "locked" /\ conn'[p] = 0
          /\ \A q \in Page \ {p} : source'[q] = source[q] /\ conn'[q] = conn[q]
        BY <1>0, <1>2 DEF OpenPage
    <2>3. UNCHANGED <<logVars, streamVars, failures, event, listed, again, stopped, owed>>
        BY <1>2 DEF OpenPage
    <2> QED
        BY <2>1, <2>2, <2>3
<1>3. CASE OnOpen(p)
    <2>1. \A q \in Page : failures'[q] = 0 \/ (source'[q] = source[q] /\ failures'[q] = failures[q])
        BY <1>3 DEF OnOpen
    <2>2. /\ source' \in [Page -> {"none", "locked", "connecting", "live", "polling"}]
          /\ failures' \in [Page -> 0 .. GiveUp]
        BY <1>0, <1>3 DEF OnOpen
    <2>3. UNCHANGED <<logVars, streamVars, conn, event, boxVars, owed>>
        BY <1>3 DEF OnOpen
    <2>4. \A q \in Page : source'[q] # "polling" => failures'[q] < GiveUp
        BY <1>0, <2>1
    <2>5. \A q \in Page : (conn'[q] = 0) <=> (source'[q] \in {"none", "locked"})
        <3>1. source[p] = "connecting" /\ source' = [source EXCEPT ![p] = "live"] /\ conn' = conn
            BY <1>3 DEF OnOpen
        <3>2. source'[p] = "live" /\ conn[p] # 0 /\ \A q \in Page \ {p} : source'[q] = source[q]
            BY <3>1
        <3> TAKE q \in Page
        <3>3. CASE q = p
            BY <3>1, <3>2, <3>3
        <3>4. CASE q # p
            BY <3>1, <3>2, <3>4
        <3> QED
            BY <3>3, <3>4
    <2> QED
        BY <2>2, <2>3, <2>4, <2>5

<1>4. CASE OnLog(p)
    <2>1. \A q \in Page : failures'[q] = 0 \/ failures'[q] = failures[q]
        BY <1>4 DEF OnLog
    <2>2. failures' \in [Page -> 0 .. GiveUp]
        BY <1>0, <1>4 DEF OnLog
    <2>3. fetch' \in [Page -> {"none", "asked", "answered", "gone"}] /\ again' \subseteq Page
        BY <1>4 DEF OnLog, Trigger
    <2>4. /\ event' \subseteq Page
          /\ UNCHANGED <<logVars, streamVars, conn, source, listed, shown, stopped, owed>>
        BY <1>4 DEF OnLog
    <2>5. \A q \in Page : source'[q] # "polling" => failures'[q] < GiveUp
        BY <1>0, <2>1, <2>4
    <2> QED
        BY <2>2, <2>3, <2>4, <2>5
<1>5. CASE Poll(p) \/ List(p)
    <2>1. fetch' \in [Page -> {"none", "asked", "answered", "gone"}]
        BY <1>5 DEF Poll, List, ListRows, ListNothing, ListGone
    <2>2. listed' \in [Page -> 0 .. MaxRows] /\ owed' \in [Page -> 0 .. MaxRows]
        BY <1>0, <1>5 DEF Poll, List, ListRows, ListNothing, ListGone
    <2>3. UNCHANGED <<logVars, streamVars, conn, source, failures, event, again, shown, stopped>>
        BY <1>5 DEF Poll, List, ListRows, ListNothing, ListGone
    <2> QED
        BY <2>1, <2>2, <2>3
<1>6. CASE Show(p) \/ FetchFails(p)
    <2>1. /\ fetch' \in [Page -> {"none", "asked", "answered", "gone"}]
          /\ again' \subseteq Page /\ stopped' \subseteq Page
        BY <1>6 DEF Show, FetchFails, NextFetch
    <2>2. /\ shown' \in [Page -> 0 .. MaxRows] /\ owed' \in [Page -> 0 .. MaxRows]
          /\ listed' \in [Page -> 0 .. MaxRows]
        BY <1>0, <1>6 DEF Show, FetchFails
    <2> QED
        BY <1>6, <2>1, <2>2 DEF Show, FetchFails
<1>7. CASE Session(p)
    <2>1. /\ fetch' \in [Page -> {"none", "asked", "answered", "gone"}]
          /\ again' \subseteq Page /\ allowed' \subseteq Page
        BY <1>7 DEF Session, Trigger
    <2>2. /\ conn' \in [Page -> Connection \cup {0}]
          /\ source' \in [Page -> {"none", "locked", "connecting", "live", "polling"}]
        BY <1>0, <1>7 DEF Session
    <2>3. /\ \/ source[p] = "locked" /\ source'[p] = "connecting" /\ conn'[p] = 1
             \/ source'[p] = source[p] /\ conn'[p] = conn[p]
          /\ \A q \in Page \ {p} : source'[q] = source[q] /\ conn'[q] = conn[q]
        BY <1>7 DEF Session
    <2>4. /\ UNCHANGED <<gone, rows, published, failures, event, listed, shown, stopped, owed>>
          /\ UNCHANGED streamVars
        BY <1>7 DEF Session
    <2> QED
        BY <2>1, <2>2, <2>3, <2>4
<1> QED
    BY <1>1, <1>2, <1>3, <1>4, <1>5, <1>6, <1>7 DEF PageStep

\* Every step keeps the types.
LEMMA TypeStep == Typed /\ [Next]_vars => Typed'
<1> SUFFICES ASSUME Typed, [Next]_vars PROVE Typed'
    OBVIOUS
<1>1. CASE InsertRow
    <2>1. rows' \in 0 .. MaxRows
        BY <1>1, InspectorConstants DEF InsertRow, Typed, TypeOK
    <2> QED
        BY <1>1, <2>1 DEF InsertRow, Typed, TypeOK, streamVars, limiterVars, brokerVars,
           pageVars, boxVars
<1>2. CASE Publish
    <2>1. owed' \in [Page -> 0 .. MaxRows] /\ buffer' \subseteq Handler
        BY <1>2 DEF Publish, Typed, TypeOK
    <2> QED
        BY <1>2, <2>1 DEF Publish, Typed, TypeOK, limiterVars, boxVars
<1>3. CASE Vanish \/ Reauthorize \/ UNCHANGED vars
    BY <1>3 DEF Vanish, Reauthorize, Typed, TypeOK, vars, logVars, streamVars, limiterVars,
       brokerVars, pageVars, boxVars
<1> QED
    BY <1>1, <1>2, <1>3, StreamTyped, PageTyped DEF Next, StreamStep, PageStep

\* Every variable keeps its type; a page never counts more errors than it takes
\* to give up.
THEOREM TypeCorrect == Spec => []TypeOK
<1>1. Typed => TypeOK
    BY DEF Typed
<1> QED
    BY <1>1, InitTyped, TypeStep, PTL DEF Spec


-----------------------------------------------------------------------------
(* The subscriptions *)

\* A stream handler registers when it opens and removes itself when it cancels.
LEMMA SubsOfStream ==
    ASSUME Typed, SubsMatchStreams, NEW h \in Handler, StreamStep(h)
    PROVE  SubsMatchStreams'
<1> USE DEF Typed, TypeOK, SubsMatchStreams, Subscribed, InLoop, Go
<1>1. CASE Subscribe(h)
    BY <1>1 DEF Subscribe
<1>2. CASE Cancel(h)
    BY <1>2 DEF Cancel
<1>3. CASE Deliver(h)
    BY <1>3 DEF Deliver
<1>4. CASE Authorize(h) \/ Acquire(h) \/ Flush(h) \/ Leave(h) \/ Release(h) \/ Stall(h)
           \/ Resume(h)
    <2>1. subs' = subs /\ buffer' \subseteq buffer
        BY <1>4 DEF Authorize, Acquire, Flush, Leave, Release, Stall, Resume, brokerVars
    <2>2. /\ \A g \in Handler \ {h} : at'[g] = at[g]
          /\ at[h] \in Subscribed <=> at'[h] \in Subscribed
        BY <1>4 DEF Authorize, Acquire, Flush, Leave, Release, Stall, Resume
    <2> QED
        BY <2>1, <2>2
<1> QED
    BY <1>1, <1>2, <1>3, <1>4 DEF StreamStep, Handle

\* Every step keeps the subscriptions those of the open streams.
LEMMA SubsStep == Typed /\ SubsMatchStreams /\ [Next]_vars => SubsMatchStreams'
<1> SUFFICES ASSUME Typed, SubsMatchStreams, [Next]_vars PROVE SubsMatchStreams'
    OBVIOUS
<1>1. CASE Publish
    BY <1>1 DEF Publish, SubsMatchStreams
<1>2. ASSUME NEW p \in Page, PageStep(p) PROVE SubsMatchStreams'
    <2>1. UNCHANGED streamVars
        BY <1>2 DEF PageStep, OpenPage, Session, OnOpen, OnLog, Refused, Ended, Broken,
                   OnError, Poll, List, ListRows, ListNothing, ListGone, Show, FetchFails
    <2> QED
        BY <2>1 DEF SubsMatchStreams, streamVars, brokerVars
<1>3. CASE Vanish \/ Reauthorize \/ InsertRow \/ UNCHANGED vars
    BY <1>3 DEF Vanish, Reauthorize, InsertRow, vars, SubsMatchStreams, streamVars, brokerVars
<1> QED
    BY <1>1, <1>2, <1>3, SubsOfStream DEF Next, StreamStep, PageStep

\* No stream runs without its subscription, and none that was torn down leaves
\* one, nor a signal, behind.
THEOREM SubscriptionsExact == Spec => []SubsMatchStreams
<1>1. Init => SubsMatchStreams
    BY DEF Init, SubsMatchStreams, Subscribed, InLoop
<1> QED
    BY <1>1, InitTyped, TypeStep, SubsStep, PTL DEF Spec

-----------------------------------------------------------------------------
(* The slots *)

Holders == {h \in Handler : at[h] \in HoldsSlot}
HoldersAt(a) == {h \in Handler : at[h] \in HoldsSlot /\ ip[h] = a}

\* There are finitely many calls.
LEMMA FiniteHolders ==
    /\ IsFiniteSet(Holders) /\ Cardinality(Holders) \in Nat
    /\ \A a \in Addr : IsFiniteSet(HoldersAt(a)) /\ Cardinality(HoldersAt(a)) \in Nat
<1>1. IsFiniteSet(Handler)
    <2>1. IsFiniteSet(Connection)
        BY InspectorConstants, FS_Interval DEF Connection
    <2> QED
        BY <2>1, InspectorConstants, FS_Product DEF Handler
<1>2. \A S \in SUBSET Handler : IsFiniteSet(S) /\ Cardinality(S) \in Nat
    BY <1>1, FS_Subset, FS_CardinalityType
<1>3. Holders \in SUBSET Handler /\ \A a \in Addr : HoldersAt(a) \in SUBSET Handler
    BY DEF Holders, HoldersAt
<1> QED
    BY <1>2, <1>3

\* A step that gives no slot and takes none.
LEMMA SlotsUntouched ==
    ASSUME SlotsMatchStreams, UNCHANGED limiterVars,
           \A h \in Handler : /\ at[h] \in HoldsSlot <=> at'[h] \in HoldsSlot
                              /\ at[h] \in HoldsSlot => ip'[h] = ip[h]
    PROVE  SlotsMatchStreams'
<1>1. Holders' = Holders /\ \A a \in Addr : HoldersAt(a)' = HoldersAt(a)
    BY DEF Holders, HoldersAt
<1> QED
    BY <1>1 DEF SlotsMatchStreams, Holders, HoldersAt, limiterVars

\* A slot is taken when both counts are under their limits.
LEMMA AcquireCounts ==
    ASSUME Typed, SlotsMatchStreams, NEW h \in Handler, Acquire(h)
    PROVE  SlotsMatchStreams'
<1> DEFINE a == ip[h]
<1>0. /\ a \in Addr /\ at[h] = "authorized" /\ total \in Nat /\ perIP \in [Addr -> Nat]
      /\ MaxTotal \in Nat /\ MaxPerIP \in Nat
    BY InspectorConstants DEF Acquire, Go, Typed, TypeOK
<1>1. CASE total >= MaxTotal \/ perIP[a] >= MaxPerIP
    <2>1. UNCHANGED limiterVars /\ UNCHANGED ip /\ at' = [at EXCEPT ![h] = "refused"]
        BY <1>1 DEF Acquire, Go
    <2> QED
        BY <1>0, <2>1, SlotsUntouched DEF HoldsSlot, Subscribed, InLoop, Typed, TypeOK
<1>2. CASE ~(total >= MaxTotal \/ perIP[a] >= MaxPerIP)
    <2>1. /\ at' = [at EXCEPT ![h] = "acquired"] /\ ip' = ip
          /\ total' = total + 1 /\ perIP' = [perIP EXCEPT ![a] = @ + 1]
        BY <1>2 DEF Acquire, Go
    <2>2. /\ Holders' = Holders \cup {h} /\ h \notin Holders
          /\ HoldersAt(a)' = HoldersAt(a) \cup {h} /\ h \notin HoldersAt(a)
          /\ \A b \in Addr \ {a} : HoldersAt(b)' = HoldersAt(b)
        BY <1>0, <2>1 DEF Holders, HoldersAt, HoldsSlot, Subscribed, InLoop, Typed, TypeOK
    <2>3. /\ Cardinality(Holders') = Cardinality(Holders) + 1
          /\ Cardinality(HoldersAt(a)') = Cardinality(HoldersAt(a)) + 1
        BY <1>0, <2>2, FiniteHolders, FS_AddElement
    <2>4. total + 1 =< MaxTotal /\ perIP[a] + 1 =< MaxPerIP
        BY <1>0, <1>2
    <2>5. total' = Cardinality(Holders') /\ total' =< MaxTotal
        BY <2>1, <2>3, <2>4 DEF SlotsMatchStreams, Holders
    <2>6. ASSUME NEW b \in Addr
          PROVE  perIP'[b] = Cardinality(HoldersAt(b)') /\ perIP'[b] =< MaxPerIP
        <3>1. perIP[b] = Cardinality(HoldersAt(b)) /\ perIP[b] =< MaxPerIP
            BY DEF SlotsMatchStreams, HoldersAt
        <3>2. CASE b = a
            BY <1>0, <2>1, <2>3, <2>4, <3>1, <3>2
        <3>3. CASE b # a
            BY <1>0, <2>1, <2>2, <3>1, <3>3
        <3> QED
            BY <3>2, <3>3
    <2> QED
        BY <2>5, <2>6 DEF SlotsMatchStreams, Holders, HoldersAt
<1> QED
    BY <1>1, <1>2

\* A slot that is given back was counted.
LEMMA ReleaseCounts ==
    ASSUME Typed, SlotsMatchStreams, NEW h \in Handler, Release(h)
    PROVE  SlotsMatchStreams'
<1> DEFINE a == ip[h]
<1>0. /\ a \in Addr /\ at[h] = "release" /\ total \in Nat /\ perIP \in [Addr -> Nat]
      /\ MaxTotal \in Nat /\ MaxPerIP \in Nat
      /\ at' = [at EXCEPT ![h] = "over"] /\ ip' = ip
    BY InspectorConstants DEF Release, Go, Typed, TypeOK
<1>1. /\ Holders' = Holders \ {h} /\ h \in Holders
      /\ HoldersAt(a)' = HoldersAt(a) \ {h} /\ h \in HoldersAt(a)
      /\ \A b \in Addr \ {a} : HoldersAt(b)' = HoldersAt(b)
    BY <1>0 DEF Holders, HoldersAt, HoldsSlot, Subscribed, InLoop, Typed, TypeOK
<1>2. /\ Cardinality(Holders') = Cardinality(Holders) - 1
      /\ Cardinality(HoldersAt(a)') = Cardinality(HoldersAt(a)) - 1
      /\ Cardinality(Holders') \in Nat /\ Cardinality(HoldersAt(a)') \in Nat
    <2>1. \A S : IsFiniteSet(S) /\ h \in S => /\ Cardinality(S \ {h}) = Cardinality(S) - 1
                                              /\ Cardinality(S \ {h}) \in Nat
        BY FS_RemoveElement, FS_CardinalityType
    <2> QED
        BY <1>0, <1>1, <2>1, FiniteHolders
<1>3. total = Cardinality(Holders) /\ perIP[a] = Cardinality(HoldersAt(a))
    BY <1>0 DEF SlotsMatchStreams, Holders, HoldersAt
<1>4. total > 0 /\ perIP[a] > 0
    BY <1>0, <1>2, <1>3, FiniteHolders
<1>5. total' = total - 1 /\ perIP' = [perIP EXCEPT ![a] = perIP[a] - 1]
    <2>1. (IF perIP[a] > 1 THEN perIP[a] - 1 ELSE 0) = perIP[a] - 1
        BY <1>0, <1>4
    <2> QED
        BY <1>4, <2>1 DEF Release
<1>6. total' = Cardinality(Holders') /\ total' =< MaxTotal
    BY <1>0, <1>2, <1>3, <1>5 DEF SlotsMatchStreams
<1>7. ASSUME NEW b \in Addr
      PROVE  perIP'[b] = Cardinality(HoldersAt(b)') /\ perIP'[b] =< MaxPerIP
    <2>1. perIP[b] = Cardinality(HoldersAt(b)) /\ perIP[b] =< MaxPerIP /\ perIP[b] \in Nat
        BY <1>0 DEF SlotsMatchStreams, HoldersAt
    <2>2. CASE b = a
        BY <1>0, <1>2, <1>5, <2>1, <2>2
    <2>3. CASE b # a
        BY <1>0, <1>1, <1>5, <2>1, <2>3
    <2> QED
        BY <2>2, <2>3
<1> QED
    BY <1>6, <1>7 DEF SlotsMatchStreams, Holders, HoldersAt

\* Every step keeps the counts.
LEMMA SlotsStep == Typed /\ SlotsMatchStreams /\ [Next]_vars => SlotsMatchStreams'
<1> SUFFICES ASSUME Typed, SlotsMatchStreams, [Next]_vars PROVE SlotsMatchStreams'
    OBVIOUS
<1>1. ASSUME NEW h \in Handler, StreamStep(h) PROVE SlotsMatchStreams'
    <2>1. CASE Authorize(h)
        <3>1. /\ at[h] = "new" /\ at'[h] \in {"authorized", "refused"}
              /\ UNCHANGED limiterVars
              /\ \A g \in Handler \ {h} : at'[g] = at[g] /\ ip'[g] = ip[g]
            BY <2>1 DEF Authorize, Go, Typed, TypeOK
        <3> QED
            BY <3>1, SlotsUntouched DEF HoldsSlot, Subscribed, InLoop
    <2>2. CASE Flush(h) \/ Subscribe(h) \/ Deliver(h) \/ Leave(h) \/ Cancel(h) \/ Stall(h)
               \/ Resume(h)
        <3>1. UNCHANGED limiterVars /\ UNCHANGED ip
            BY <2>2 DEF Flush, Subscribe, Deliver, Leave, Cancel, Stall, Resume
        <3>2. /\ at'[h] \in HoldsSlot /\ at[h] \in HoldsSlot
              /\ \A g \in Handler \ {h} : at'[g] = at[g]
            BY <2>2 DEF Flush, Subscribe, Deliver, Leave, Cancel, Stall, Resume, Go, HoldsSlot,
                   Subscribed, InLoop, Typed, TypeOK
        <3> QED
            BY <3>1, <3>2, SlotsUntouched
    <2> QED
        BY <1>1, <2>1, <2>2, AcquireCounts, ReleaseCounts DEF StreamStep, Handle
<1>2. CASE Vanish \/ Reauthorize \/ InsertRow \/ Publish \/ (\E p \in Page : PageStep(p)) \/ UNCHANGED vars
    <2>1. UNCHANGED <<at, ip, limiterVars>>
        BY <1>2 DEF Vanish, Reauthorize, InsertRow, Publish, vars, PageStep, OpenPage, Session, OnOpen, OnLog, Refused, Ended,
                   Broken, OnError, Poll, List, ListRows, ListNothing, ListGone, Show, FetchFails,
                   streamVars
    <2> QED
        BY <2>1, SlotsUntouched
<1> QED
    BY <1>1, <1>2 DEF Next, StreamStep, PageStep

\* The limiter counts the open streams exactly, so its caps hold and no slot is
\* lost through any return path.
THEOREM SlotsExact == Spec => []SlotsMatchStreams
<1>1. Init => SlotsMatchStreams
    <2> SUFFICES ASSUME Init PROVE SlotsMatchStreams
        OBVIOUS
    <2>1. Holders = {} /\ \A a \in Addr : HoldersAt(a) = {}
        BY DEF Init, Holders, HoldersAt, HoldsSlot, Subscribed, InLoop
    <2> QED
        BY <2>1, FS_EmptySet, InspectorConstants
        DEF Init, SlotsMatchStreams, Holders, HoldersAt
<1> QED
    BY <1>1, InitTyped, TypeStep, SlotsStep, PTL DEF Spec


-----------------------------------------------------------------------------
(* The signals *)

\* No page is owed a row that is not in the table, and the notice that the mock
\* is gone shows none.
Debts == \A p \in Page : owed[p] =< rows /\ (fetch[p] = "gone" => listed[p] = 0)

\* The page's stream is subscribed, its EventSource reads it, and a signal waits
\* in the channel or in the write of its event.
Signalled(p) ==
    /\ source[p] \in {"connecting", "live"}
    /\ \/ <<p, conn[p]>> \in buffer /\ at[<<p, conn[p]>>] \in InLoop
       \/ at[<<p, conn[p]>>] = "eventStalls"

\* What the page shows once it has swapped in the answer it has.
WillShow(p) == IF fetch[p] \in {"answered", "gone"} THEN listed[p] ELSE shown[p]

\* What will bring a page another answer.
UnderWay(p) == Signalled(p) \/ p \in event \/ p \in again \/ fetch[p] = "asked"

\* NoLostWakeup, without the signals that nobody reads any more, and with the
\* answers that take rows away.
Awake == \A p \in Page : owed[p] > WillShow(p) => UnderWay(p)

\* The numbers of a page.
LEMMA Numbers ==
    ASSUME Typed, NEW p \in Page
    PROVE  rows \in Nat /\ owed[p] \in Nat /\ shown[p] \in Nat /\ listed[p] \in Nat
BY InspectorConstants DEF Typed, TypeOK

\* Only Publish makes debts, of the newest row.
LEMMA DebtsStep == Typed /\ Debts /\ [Next]_vars => Debts'
<1> SUFFICES ASSUME Typed, Debts, [Next]_vars PROVE Debts'
    OBVIOUS
<1>0. rows \in Nat /\ \A p \in Page : owed[p] \in Nat
    BY InspectorConstants, Numbers DEF Typed, TypeOK
<1>1. CASE InsertRow
    <2>1. rows' = rows + 1 /\ UNCHANGED <<owed, fetch, listed>>
        BY <1>1 DEF InsertRow, pageVars, boxVars
    <2> QED
        BY <1>0, <2>1 DEF Debts
<1>2. CASE Publish
    <2>1. /\ UNCHANGED <<rows, fetch, listed>>
          /\ \A p \in Page : owed'[p] = rows \/ owed'[p] = owed[p]
        BY <1>2 DEF Publish, boxVars
    <2> QED
        BY <1>0, <2>1 DEF Debts
<1>3. ASSUME NEW h \in Handler, StreamStep(h) PROVE Debts'
    <2>1. UNCHANGED <<rows, fetch, listed>>
        BY <1>3 DEF StreamStep, Handle, Authorize, Acquire, Flush, Subscribe, Deliver, Leave,
                   Cancel, Release, Stall, Resume, logVars, pageVars, boxVars
    <2>2. \A p \in Page : owed'[p] = owed[p] \/ owed'[p] = 0
        BY <1>3 DEF StreamStep, Handle, Authorize, Acquire, Flush, Subscribe, Deliver, Leave,
                   Cancel, Release, Stall, Resume, pageVars, Typed, TypeOK
    <2> QED
        BY <1>0, <2>1, <2>2 DEF Debts
<1>4. ASSUME NEW p \in Page, PageStep(p) PROVE Debts'
    <2>1. rows' = rows
        BY <1>4 DEF PageStep, OpenPage, Session, OnOpen, OnLog, Refused, Ended, Broken, OnError,
                   Poll, List, ListRows, ListNothing, ListGone, Show, FetchFails, logVars
    <2>2. \A q \in Page : owed'[q] = owed[q] \/ owed'[q] = 0
        BY <1>4 DEF PageStep, OpenPage, Session, OnOpen, OnLog, Refused, Ended, Broken, OnError,
                   Poll, List, ListRows, ListNothing, ListGone, Show, FetchFails, Typed, TypeOK
    <2>3. \A q \in Page : \/ fetch'[q] # "gone" \/ listed'[q] = 0
                          \/ fetch[q] = "gone" /\ listed'[q] = listed[q]
        BY <1>4 DEF PageStep, OpenPage, Session, Trigger, OnOpen, OnLog, Refused, Ended, Broken,
                   OnError, Poll, List, ListRows, ListNothing, ListGone, Show, NextFetch,
                   FetchFails, boxVars, Typed, TypeOK
    <2> QED
        BY <1>0, <2>1, <2>2, <2>3 DEF Debts
<1>5. CASE Vanish \/ Reauthorize \/ UNCHANGED vars
    BY <1>5 DEF Vanish, Reauthorize, vars, logVars, pageVars, boxVars, Debts
<1> QED
    BY <1>1, <1>2, <1>3, <1>4, <1>5 DEF Next, StreamStep, PageStep

\* The log writer wakes the open streams and nobody else; the mock's own steps
\* wake nobody.
LEMMA WriterWakes ==
    ASSUME Typed, SubsMatchStreams, Awake, Vanish \/ Reauthorize \/ InsertRow \/ Publish
    PROVE  Awake'
<1>1. CASE Vanish \/ Reauthorize \/ InsertRow
    BY <1>1 DEF Vanish, Reauthorize, InsertRow, Awake, UnderWay, WillShow, Signalled, streamVars,
               brokerVars, pageVars, boxVars
<1>2. CASE Publish
    <2> SUFFICES ASSUME NEW p \in Page, (owed[p] > WillShow(p))' PROVE UnderWay(p)'
        BY DEF Awake
    <2>1. /\ UNCHANGED <<at, conn, source, event, fetch, listed, again, shown>>
          /\ buffer' = buffer \cup subs
        BY <1>2 DEF Publish, boxVars
    <2>2. CASE conn[p] # 0 /\ Current(<<p, conn[p]>>) /\ at[<<p, conn[p]>>] \in InLoop
        <3>1. <<p, conn[p]>> \in Handler
            BY <2>2 DEF Typed, TypeOK, Handler
        <3>2. <<p, conn[p]>> \in subs
            BY <2>2, <3>1 DEF SubsMatchStreams, Subscribed
        <3> QED
            BY <2>1, <2>2, <3>2 DEF UnderWay, Signalled, Current
    <2>3. CASE ~(conn[p] # 0 /\ Current(<<p, conn[p]>>) /\ at[<<p, conn[p]>>] \in InLoop)
        <3>1. owed'[p] = owed[p]
            BY <1>2, <2>3 DEF Publish
        <3>2. UnderWay(p)
            BY <2>1, <3>1 DEF Awake, WillShow
        <3> QED
            BY <2>1, <3>1, <3>2 DEF UnderWay, Signalled
    <2> QED
        BY <2>2, <2>3
<1> QED
    BY <1>1, <1>2

\* A stream passes its signal on, through a write that stalls, or loses it with
\* the debt.
LEMMA StreamWakes ==
    ASSUME Typed, SubsMatchStreams, Awake, NEW h \in Handler, StreamStep(h)
    PROVE  Awake'
<1> SUFFICES ASSUME NEW p \in Page, (owed[p] > WillShow(p))' PROVE UnderWay(p)'
    BY DEF Awake
<1>0. /\ owed[p] \in Nat /\ shown[p] \in Nat /\ listed[p] \in Nat /\ WillShow(p) \in Nat
      /\ h = <<h[1], h[2]>> /\ h[1] \in Page
    BY Numbers DEF Handler, WillShow
<1>1. UNCHANGED <<conn, source, fetch, listed, again, shown>> /\ WillShow(p)' = WillShow(p)
    BY DEF StreamStep, Handle, Authorize, Acquire, Flush, Subscribe, Deliver, Leave, Cancel,
           Release, Stall, Resume, pageVars, boxVars, WillShow
<1>2. owed'[p] = owed[p] /\ UnderWay(p)
    <2>1. owed'[p] = owed[p] \/ owed'[p] = 0
        BY DEF StreamStep, Handle, Authorize, Acquire, Flush, Subscribe, Deliver, Leave, Cancel,
               Release, Stall, Resume, pageVars, Typed, TypeOK
    <2>2. ~(0 > WillShow(p))
        BY <1>0
    <2> QED
        BY <1>1, <2>1, <2>2 DEF Awake
<1>3. CASE ~Signalled(p)
    <2>1. event \subseteq event'
        BY DEF StreamStep, Handle, Authorize, Acquire, Flush, Subscribe, Deliver, Leave, Cancel,
               Release, Stall, Resume, Arrives, pageVars
    <2> QED
        BY <1>1, <1>2, <1>3, <2>1 DEF UnderWay
<1>4. CASE Signalled(p) /\ h # <<p, conn[p]>>
    <2>0. <<p, conn[p]>> \in Handler
        BY <1>4 DEF Signalled, Typed, TypeOK, Handler
    <2>1. at'[<<p, conn[p]>>] = at[<<p, conn[p]>>]
        BY <1>4, <2>0 DEF StreamStep, Handle, Authorize, Acquire, Flush, Subscribe, Deliver,
           Leave, Cancel, Release, Stall, Resume, Go, Typed, TypeOK
    <2>2. <<p, conn[p]>> \in buffer => <<p, conn[p]>> \in buffer'
        BY <1>4 DEF StreamStep, Handle, Authorize, Acquire, Flush, Subscribe, Deliver, Leave,
           Cancel, Release, Stall, Resume, brokerVars
    <2> QED
        BY <1>1, <1>4, <2>1, <2>2 DEF UnderWay, Signalled
<1>5. CASE Signalled(p) /\ h = <<p, conn[p]>>
    <2>0. at[h] \in InLoop /\ Current(h) /\ h[1] = p /\ (h \in buffer \/ at[h] = "eventStalls")
        BY <1>5 DEF Signalled, Current, InLoop
    <2>1. CASE Deliver(h)
        BY <2>0, <2>1 DEF Deliver, Arrives, UnderWay
    <2>2. CASE Leave(h)
        <3>1. owed' = [owed EXCEPT ![p] = 0]
            BY <2>0, <2>2 DEF Leave, Go
        <3> QED
            BY <1>0, <1>1, <1>2, <3>1 DEF Typed, TypeOK
    <2>3. CASE Handle(h)
        BY <2>0, <2>3 DEF Handle, Authorize, Acquire, Flush, Subscribe, Cancel, Release, Go,
           InLoop
    <2>4. CASE Stall(h)
        <3>1. /\ at[h] = "open"
              /\ \/ at'[h] = "pingStalls" /\ h \in buffer'
                 \/ at'[h] = "eventStalls"
            BY <2>0, <2>4 DEF Stall, Go, InLoop, Typed, TypeOK
        <3> QED
            BY <1>1, <1>5, <3>1 DEF UnderWay, Signalled, InLoop
    <2>5. CASE Resume(h)
        <3>1. CASE at[h] = "eventStalls"
            BY <2>0, <2>5, <3>1 DEF Resume, Go, Arrives, UnderWay
        <3>2. CASE at[h] # "eventStalls"
            <4>1. at'[h] = "open" /\ h \in buffer'
                BY <2>0, <2>5, <3>2 DEF Resume, Go, InLoop, brokerVars, Typed, TypeOK
            <4> QED
                BY <1>1, <1>5, <4>1 DEF UnderWay, Signalled, InLoop
        <3> QED
            BY <3>1, <3>2
    <2> QED
        BY <2>1, <2>2, <2>3, <2>4, <2>5 DEF StreamStep
<1> QED
    BY <1>3, <1>4, <1>5

\* A page turns its event into a fetch, a fetch into what it shows; an error, a
\* failed fetch and an answer without the list lose the debt with the signal.
LEMMA PageWakes ==
    ASSUME Typed, Debts, Awake, NEW q \in Page, PageStep(q)
    PROVE  Awake'
<1> SUFFICES ASSUME NEW p \in Page, (owed[p] > WillShow(p))' PROVE UnderWay(p)'
    BY DEF Awake
<1>0. /\ rows \in Nat /\ owed[p] \in Nat /\ shown[p] \in Nat /\ listed[p] \in Nat
      /\ ~(0 > shown[p]) /\ ~(0 > listed[p]) /\ ~(0 > 0) /\ ~(owed[p] > rows)
    BY Numbers DEF Debts
<1>1. CASE p # q
    <2>1. /\ conn'[p] = conn[p] /\ source'[p] = source[p] /\ owed'[p] = owed[p]
          /\ fetch'[p] = fetch[p] /\ listed'[p] = listed[p] /\ shown'[p] = shown[p]
          /\ p \in event => p \in event'
          /\ p \in again => p \in again'
        BY <1>1 DEF PageStep, OpenPage, Session, OnOpen, OnLog, Trigger, Refused, Ended, Broken,
           OnError, Poll, List, ListRows, ListNothing, ListGone, Show, NextFetch, FetchFails,
           boxVars, Typed, TypeOK
    <2>2. UNCHANGED <<at, buffer>>
        BY DEF PageStep, OpenPage, Session, OnOpen, OnLog, Refused, Ended, Broken, OnError, Poll,
           List, ListRows, ListNothing, ListGone, Show, FetchFails, streamVars, brokerVars
    <2> QED
        BY <2>1, <2>2 DEF Awake, UnderWay, WillShow, Signalled
<1>2. CASE p = q
    <2>1. CASE OpenPage(p)
        BY <2>1 DEF OpenPage, UnderWay, Typed, TypeOK
    <2>2. CASE OnOpen(p)
        <3>1. /\ source'[p] = "live" /\ source[p] = "connecting"
              /\ UNCHANGED <<at, buffer, conn, event, fetch, listed, again, shown, owed>>
            BY <2>2 DEF OnOpen, Typed, TypeOK, streamVars, brokerVars, boxVars
        <3> QED
            BY <3>1 DEF Awake, UnderWay, WillShow, Signalled
    <2>3. CASE OnLog(p)
        BY <2>3 DEF OnLog, Trigger, UnderWay, Typed, TypeOK
    <2>4. CASE Refused(p) \/ Ended(p) \/ Broken(p)
        <3>1. /\ owed'[p] = IF \/ p \in event \/ <<p, conn[p]>> \in buffer
                               \/ at[<<p, conn[p]>>] = "eventStalls"
                            THEN 0 ELSE owed[p]
              /\ UNCHANGED <<fetch, listed, again, shown>>
            BY <2>4 DEF Refused, Ended, Broken, OnError, Typed, TypeOK
        <3>2. WillShow(p)' = WillShow(p) /\ ~(0 > WillShow(p))
            BY <1>0, <3>1 DEF WillShow
        <3>3. /\ p \notin event /\ <<p, conn[p]>> \notin buffer
              /\ at[<<p, conn[p]>>] # "eventStalls" /\ owed'[p] = owed[p]
            BY <1>0, <3>1, <3>2
        <3> QED
            BY <3>1, <3>2, <3>3 DEF Awake, UnderWay, Signalled
    <2>5. CASE Poll(p)
        BY <2>5 DEF Poll, UnderWay, Typed, TypeOK
    <2>6. CASE ListRows(p)
        <3>1. fetch'[p] = "answered" /\ listed'[p] = rows /\ owed' = owed
            BY <2>6 DEF ListRows, Typed, TypeOK
        <3> QED
            BY <1>0, <3>1 DEF WillShow
    <2>7. CASE ListNothing(p) \/ ListGone(p)
        <3>1. fetch'[p] \in {"answered", "gone"} /\ listed'[p] = 0 /\ owed'[p] = 0
            BY <2>7 DEF ListNothing, ListGone, Typed, TypeOK
        <3> QED
            BY <1>0, <3>1 DEF WillShow
    <2>8. CASE Show(p)
        <3>1. /\ shown'[p] = listed[p] /\ fetch[p] \in {"answered", "gone"}
              /\ fetch'[p] \in {"asked", "none"}
              /\ p \in again => fetch'[p] = "asked"
              /\ owed'[p] = owed[p] \/ owed'[p] = 0
              /\ UNCHANGED <<at, buffer, conn, source, event>>
            BY <2>8 DEF Show, NextFetch, Typed, TypeOK, streamVars, brokerVars
        <3>2. owed'[p] > listed[p] /\ owed'[p] = owed[p]
            BY <1>0, <3>1 DEF WillShow
        <3>3. UnderWay(p)
            BY <3>1, <3>2 DEF Awake, WillShow
        <3> QED
            BY <3>1, <3>3 DEF UnderWay, Signalled
    <2>9. CASE FetchFails(p)
        <3>1. fetch'[p] \in {"asked", "none"} /\ owed'[p] = 0 /\ shown' = shown
            BY <2>9 DEF FetchFails, NextFetch, Typed, TypeOK
        <3> QED
            BY <1>0, <3>1 DEF WillShow
    <2>10. CASE Session(p)
        <3>1. CASE source[p] = "polling"
            <4>1. /\ UNCHANGED <<at, buffer, conn, source, event, fetch, listed, again, shown,
                                 owed>>
                BY <2>10, <3>1 DEF Session, streamVars, brokerVars
            <4> QED
                BY <4>1 DEF Awake, UnderWay, WillShow, Signalled
        <3>2. CASE source[p] # "polling"
            BY <2>10, <3>2 DEF Session, Trigger, UnderWay, Typed, TypeOK
        <3> QED
            BY <3>1, <3>2
    <2> QED
        BY <1>2, <2>1, <2>2, <2>3, <2>4, <2>5, <2>6, <2>7, <2>8, <2>9, <2>10 DEF PageStep, List
<1> QED
    BY <1>1, <1>2

\* The broker's full channel loses nothing: a row that was published to a page
\* is shown, or something that will show it is under way.
THEOREM WakeupsKept == Spec => []NoLostWakeup
<1>1. Init => Debts /\ Awake
    <2>1. ~(0 > 0) /\ 0 =< 0
        OBVIOUS
    <2> QED
        BY <2>1 DEF Init, Debts, Awake, WillShow
<1>2. Typed /\ SubsMatchStreams /\ Debts /\ Awake /\ [Next]_vars => Awake'
    <2> SUFFICES ASSUME Typed, SubsMatchStreams, Debts, Awake, [Next]_vars PROVE Awake'
        OBVIOUS
    <2>1. CASE UNCHANGED vars
        BY <2>1 DEF vars, streamVars, brokerVars, pageVars, boxVars, Awake, UnderWay, WillShow,
                   Signalled
    <2> QED
        BY <2>1, WriterWakes, StreamWakes, PageWakes DEF Next, StreamStep, PageStep
<1>3. Typed /\ Debts /\ Awake => NoLostWakeup
    <2> SUFFICES ASSUME Typed, Debts, Awake, NEW p \in Page, owed[p] > shown[p]
                 PROVE  \/ <<p, conn[p]>> \in buffer \/ at[<<p, conn[p]>>] = "eventStalls"
                        \/ p \in event \/ p \in again
                        \/ fetch[p] = "asked"
                        \/ fetch[p] = "answered" /\ listed[p] >= owed[p]
        BY DEF NoLostWakeup
    <2>1. CASE UnderWay(p)
        BY <2>1 DEF UnderWay, Signalled
    <2>2. CASE ~UnderWay(p)
        <3>1. ~(owed[p] > WillShow(p)) /\ owed[p] \in Nat /\ listed[p] \in Nat /\ shown[p] \in Nat
            BY <2>2, Numbers DEF Awake
        <3>2. CASE fetch[p] = "answered"
            BY <3>1, <3>2 DEF WillShow
        <3>3. CASE fetch[p] = "gone"
            BY <3>1, <3>3 DEF WillShow, Debts
        <3> QED
            BY <3>1, <3>2, <3>3 DEF WillShow
    <2> QED
        BY <2>1, <2>2
<1>4. Init => SubsMatchStreams
    BY DEF Init, SubsMatchStreams, Subscribed, InLoop
<1> QED
    BY <1>1, <1>2, <1>3, <1>4, InitTyped, TypeStep, SubsStep, DebtsStep, PTL DEF Spec

=============================================================================
