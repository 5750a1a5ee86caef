-------------------------- MODULE LogWriter_proofs --------------------------
(***************************************************************************)
(* Theorems about LogWriter, for any number of requests and any capacity   *)
(* of the channel. The invariants say what the consumer holds and where an *)
(* entry of the channel has been: that is what the step that stores,       *)
(* counts, signals, drains or closes relies on.                            *)
(***************************************************************************)
EXTENDS LogWriter, TLAPS

-----------------------------------------------------------------------------
(* Sequences *)

\* The elements of a longer sequence.
LEMMA RangeAppend ==
    ASSUME NEW S, NEW s \in Seq(S), NEW e \in S
    PROVE  Range(Append(s, e)) = Range(s) \cup {e}
BY DEF Range

\* A sequence that is not empty is its head and its tail.
LEMMA RangeHeadTail ==
    ASSUME NEW S, NEW s \in Seq(S), s # <<>>
    PROVE  /\ Head(s) \in S /\ Tail(s) \in Seq(S) /\ Len(Tail(s)) = Len(s) - 1
           /\ Head(s) \in Range(s) /\ Range(Tail(s)) \subseteq Range(s)
BY DEF Range

\* Putting an element in front.
LEMMA InFront ==
    ASSUME NEW S, NEW s \in Seq(S), NEW e \in S
    PROVE  /\ <<e>> \o s \in Seq(S) /\ <<e>> \o s # <<>>
           /\ Head(<<e>> \o s) = e /\ Tail(<<e>> \o s) = s
<1> <<e>> \in Seq(S) /\ Len(<<e>>) = 1 /\ <<e>>[1] = e
    OBVIOUS
<1>1. <<e>> \o s \in Seq(S) /\ Len(<<e>> \o s) = Len(s) + 1 /\ (<<e>> \o s)[1] = e
    OBVIOUS
<1>2. \A i \in 1 .. Len(s) : Tail(<<e>> \o s)[i] = s[i]
    OBVIOUS
<1>3. Tail(<<e>> \o s) \in Seq(S) /\ Len(Tail(<<e>> \o s)) = Len(s)
    BY <1>1
<1> QED
    BY <1>1, <1>2, <1>3

-----------------------------------------------------------------------------
(* Type correctness *)

\* Before the Insert has succeeded, and after.
HoldingAt == {"write", "doomed", "hung", "drainWrite", "drainHung"}
StoredAt == {"count", "countHung", "publish", "drainCount", "drainCountHung", "drainPublish"}

\* Between Receive and the end of write the consumer holds a request's entry.
HasEntry == consumer \in HoldingAt \cup StoredAt => entry \in Hit

\* The types, and what the steps that use the entry rely on.
Typed == TypeOK /\ HasEntry

\* The channel after a Submit: full or one longer.
LEMMA SubmitType ==
    ASSUME Typed, NEW h \in Hit, Submit(h)
    PROVE  Typed'
<1>1. hit' \in [Hit -> {"new", "serving", "done", "panicked"}]
    BY DEF Typed, TypeOK, Submit
<1>2. queue' \in Seq(Hit) /\ Len(queue') =< Capacity
    <2> queue \in Seq(Hit) /\ Len(queue) =< Capacity /\ Capacity \in Nat
        BY ConstantsOK DEF Typed, TypeOK
    <2>1. CASE Len(queue) < Capacity
        <3>1. queue' = Append(queue, h)
            BY <2>1 DEF Submit
        <3>2. Append(queue, h) \in Seq(Hit) /\ Len(Append(queue, h)) = Len(queue) + 1
            OBVIOUS
        <3> QED
            BY <2>1, <3>1, <3>2
    <2>2. CASE ~(Len(queue) < Capacity)
        BY <2>2 DEF Submit
    <2> QED
        BY <2>1, <2>2
<1> QED
    BY <1>1, <1>2 DEF Typed, TypeOK, HasEntry, Submit, consumerVars, serverVars

\* Every step of Next keeps the types: one case for each group of actions.
LEMMA TypeStep == Typed /\ [Next]_vars => Typed'
<1> SUFFICES ASSUME Typed, [Next]_vars PROVE Typed'
    OBVIOUS
<1> USE DEF Typed, TypeOK, HasEntry
<1>1. ASSUME NEW h \in Hit, Arrive(h) PROVE Typed'
    BY <1>1 DEF Arrive, consumerVars, serverVars
<1>2. ASSUME NEW h \in Hit, Submit(h) PROVE Typed'
    BY <1>2, SubmitType
<1>3. ASSUME NEW h \in Hit, SubmitPanics(h) PROVE Typed'
    BY <1>3 DEF SubmitPanics, consumerVars, serverVars
<1>4. CASE Receive \/ DrainReceive
    <2>1. queue # <<>> /\ entry' = Head(queue) /\ queue' = Tail(queue)
        BY <1>4 DEF Receive, DrainReceive
    <2>2. entry' \in Hit /\ queue' \in Seq(Hit) /\ Len(queue') =< Capacity
        BY <2>1, RangeHeadTail, ConstantsOK
    <2>3. consumer' \in ConsumerAt
        BY <1>4 DEF Receive, DrainReceive, ConsumerAt, DrainAt
    <2> QED
        BY <1>4, <2>2, <2>3 DEF Receive, DrainReceive, handlerVars, serverVars
<1>5. CASE SeeClosed \/ SeeCancel \/ DrainEnd
    BY <1>5 DEF SeeClosed, SeeCancel, DrainEnd, ConsumerAt, DrainAt, HoldingAt, StoredAt,
               handlerVars, serverVars
<1>6. CASE Insert \/ InsertHangs
    <2>1. entry \in Hit
        BY <1>6 DEF Insert, InsertHangs, HoldingAt
    <2>2. rows' \in Seq(Hit)
        BY <1>6, <2>1 DEF Insert, InsertHangs
    <2>3. consumer' \in ConsumerAt
        BY <1>6 DEF Insert, InsertHangs, ConsumerAt, DrainAt, Draining
    <2> QED
        BY <1>6, <2>1, <2>2, <2>3 DEF Insert, InsertHangs, handlerVars, serverVars
<1>7. CASE InsertFails
    BY <1>7 DEF InsertFails, ConsumerAt, DrainAt, Draining, HoldingAt, StoredAt,
               handlerVars, serverVars
<1>8. CASE Count \/ CountHangs \/ CountCancelled
    <2>1. entry \in Hit
        BY <1>8 DEF Count, CountHangs, CountCancelled, StoredAt
    <2>2. counted' \subseteq Hit
        BY <1>8, <2>1 DEF Count, CountHangs, CountCancelled
    <2>3. consumer' \in ConsumerAt
        BY <1>8 DEF Count, CountHangs, CountCancelled, ConsumerAt, DrainAt, Draining
    <2> QED
        BY <1>8, <2>1, <2>2, <2>3 DEF Count, CountHangs, CountCancelled, handlerVars, serverVars
<1>9. CASE Publish
    BY <1>9 DEF Publish, ConsumerAt, DrainAt, Draining, HoldingAt, StoredAt, handlerVars,
               serverVars
<1>10. CASE Signal
    <2>1. Range(queue) \subseteq Hit
        BY DEF Range
    <2> QED
        BY <1>10, <2>1 DEF Signal, handlerVars, consumerVars
<1>11. CASE Shutdown
    BY <1>11 DEF Shutdown, CloseQueue, CloseQueueTimeout, ShutdownReturns, Exit,
               handlerVars, consumerVars
<1>12. CASE UNCHANGED vars
    BY <1>12 DEF vars
<1> QED
    BY <1>1, <1>2, <1>3, <1>4, <1>5, <1>6, <1>7, <1>8, <1>9, <1>10, <1>11, <1>12
    DEF Next, Consume

\* Runs start well typed.
LEMMA InitTyped == Init => Typed
<1> SUFFICES ASSUME Init PROVE Typed
    OBVIOUS
<1>1. queue \in Seq(Hit) /\ rows \in Seq(Hit) /\ Len(queue) =< Capacity
    BY ConstantsOK DEF Init
<1>2. hit \in [Hit -> {"new", "serving", "done", "panicked"}]
    BY DEF Init
<1>3. consumer \in ConsumerAt /\ HasEntry
    BY DEF Init, HasEntry, ConsumerAt, HoldingAt, StoredAt
<1> QED
    BY <1>1, <1>2, <1>3 DEF Init, Typed, TypeOK

\* Spec types every variable: the channel never exceeds its capacity, whatever
\* the handlers submit.
THEOREM TypeCorrect == Spec => []TypeOK
<1>1. Typed => TypeOK
    BY DEF Typed
<1> QED
    BY <1>1, InitTyped, TypeStep, PTL DEF Spec


-----------------------------------------------------------------------------
(* A row before its signal *)

\* What the consumer counts and publishes is in the table already.
RowsFirst == SignalledHasRow /\ (consumer \in StoredAt => entry \in Range(rows))

\* Only write appends to the table, and only then goes on to count.
LEMMA RowsStep == Typed /\ RowsFirst /\ [Next]_vars => RowsFirst'
<1> SUFFICES ASSUME Typed, RowsFirst, [Next]_vars PROVE RowsFirst'
    OBVIOUS
<1> USE DEF RowsFirst, SignalledHasRow
<1>1. CASE Insert
    <2>1. entry \in Hit /\ rows \in Seq(Hit) /\ rows' = Append(rows, entry)
        BY <1>1 DEF Insert, Typed, TypeOK, HasEntry, HoldingAt
    <2>2. Range(rows') = Range(rows) \cup {entry}
        BY <2>1, RangeAppend
    <2> QED
        BY <1>1, <2>2 DEF Insert
<1>2. CASE Count \/ CountHangs \/ CountCancelled \/ Publish
    <2>1. entry \in Range(rows) /\ rows' = rows
        BY <1>2 DEF Count, CountHangs, CountCancelled, Publish, StoredAt
    <2>2. counted' \subseteq counted \cup {entry} /\ signalled' \subseteq signalled \cup {entry}
        BY <1>2 DEF Count, CountHangs, CountCancelled, Publish
    <2>3. consumer' \in StoredAt => entry' = entry
        BY <1>2 DEF Count, CountHangs, CountCancelled, Publish, StoredAt
    <2> QED
        BY <2>1, <2>2, <2>3 DEF Range
<1>3. CASE Receive \/ SeeClosed \/ SeeCancel \/ DrainReceive \/ DrainEnd \/ InsertFails
           \/ InsertHangs
    <2>1. consumer' \notin StoredAt
        BY <1>3 DEF Receive, SeeClosed, SeeCancel, DrainReceive, DrainEnd, InsertFails,
                   InsertHangs, Draining, StoredAt
    <2>2. UNCHANGED <<rows, counted, signalled>>
        BY <1>3 DEF Receive, SeeClosed, SeeCancel, DrainReceive, DrainEnd, InsertFails,
                   InsertHangs
    <2> QED
        BY <2>1, <2>2 DEF Range
<1>4. CASE (\E h \in Hit : Arrive(h) \/ Submit(h) \/ SubmitPanics(h)) \/ Signal \/ Shutdown
           \/ UNCHANGED vars
    <2>1. UNCHANGED consumerVars
        BY <1>4 DEF Arrive, Submit, SubmitPanics, Signal, Shutdown, CloseQueue,
                   CloseQueueTimeout, ShutdownReturns, Exit, vars, consumerVars
    <2> QED
        BY <2>1 DEF consumerVars, Range
<1> QED
    BY <1>1, <1>2, <1>3, <1>4 DEF Next, Consume

\* An inspector that is told of a request finds its row, however the inserts,
\* the counter's update and the shutdown interleave.
THEOREM RowBeforeSignal == Spec => []SignalledHasRow
<1>1. Init => Typed /\ RowsFirst
    BY InitTyped DEF Init, RowsFirst, SignalledHasRow, StoredAt
<1>2. RowsFirst => SignalledHasRow
    BY DEF RowsFirst
<1> QED
    BY <1>1, <1>2, TypeStep, RowsStep, PTL DEF Spec

-----------------------------------------------------------------------------
(* The two shutdowns *)

\* Nobody is serving behind a queue that was closed in time; the consumer only
\* ends, or drains, after the signal; and it has ended after an orderly exit.
Ordered ==
    /\ Closed /\ ~timedOut => \A h \in Hit : hit[h] # "serving"
    /\ PanicOnlyAfterTimeout
    /\ consumer \in DrainAt \cup {"returned"} => Cancelled
    /\ server \in {"releasing", "exited"} /\ ~timedOut => consumer = "returned"

\* An action of the consumer, which moves neither the server nor a handler.
LEMMA ConsumerOrdered ==
    ASSUME Ordered, Consume \/ InsertHangs \/ CountHangs
    PROVE  Ordered' /\ UNCHANGED <<server, timedOut, hit, atSignal>>
<1> USE DEF Consume, Receive, SeeClosed, SeeCancel, DrainReceive, DrainEnd, Insert, InsertFails,
            InsertHangs, Count, CountHangs, CountCancelled, Publish
<1>1. UNCHANGED <<server, timedOut, hit, atSignal>>
    BY DEF handlerVars, serverVars
<1>2. consumer' \in DrainAt \cup {"returned"} => Cancelled
    BY DEF Ordered, Draining, DrainAt, Cancelled, Closed
<1>3. consumer # "returned"
    BY DEF CanFail
<1> QED
    BY <1>1, <1>2, <1>3 DEF Ordered, PanicOnlyAfterTimeout, Cancelled, Closed

\* The order of the two shutdowns, over every step.
LEMMA OrderStep == Typed /\ Ordered /\ [Next]_vars => Ordered'
<1> SUFFICES ASSUME Typed, Ordered, [Next]_vars PROVE Ordered'
    OBVIOUS
<1>1. ASSUME NEW h \in Hit, Arrive(h) PROVE Ordered'
    BY <1>1 DEF Arrive, Ordered, PanicOnlyAfterTimeout, Cancelled, Closed, Typed, TypeOK,
               consumerVars, serverVars
<1>2. ASSUME NEW h \in Hit, Submit(h) PROVE Ordered'
    BY <1>2 DEF Submit, Ordered, PanicOnlyAfterTimeout, Cancelled, Closed, Typed, TypeOK,
               consumerVars, serverVars
<1>3. ASSUME NEW h \in Hit, SubmitPanics(h) PROVE Ordered'
    BY <1>3 DEF SubmitPanics, Ordered, PanicOnlyAfterTimeout, Cancelled, Closed, Typed, TypeOK,
               consumerVars, serverVars
<1>4. CASE Consume \/ InsertHangs \/ CountHangs
    BY <1>4, ConsumerOrdered
<1>5. CASE Signal
    BY <1>5 DEF Signal, Ordered, PanicOnlyAfterTimeout, Cancelled, Closed, handlerVars,
               consumerVars
<1>6. CASE CloseQueue
    BY <1>6 DEF CloseQueue, Ordered, PanicOnlyAfterTimeout, Cancelled, Closed, handlerVars,
               consumerVars
<1>7. CASE CloseQueueTimeout
    BY <1>7 DEF CloseQueueTimeout, Ordered, PanicOnlyAfterTimeout, Cancelled, Closed,
               handlerVars, consumerVars
<1>8. CASE ShutdownReturns
    BY <1>8 DEF ShutdownReturns, Ordered, PanicOnlyAfterTimeout, Cancelled, Closed, handlerVars,
               consumerVars
<1>10. CASE Exit
    BY <1>10 DEF Exit, Ordered, PanicOnlyAfterTimeout, Cancelled, Closed, handlerVars,
               consumerVars
<1>9. CASE UNCHANGED vars
    BY <1>9 DEF vars, Ordered, PanicOnlyAfterTimeout, Cancelled, Closed
<1> QED
    BY <1>1, <1>2, <1>3, <1>4, <1>5, <1>6, <1>7, <1>8, <1>9, <1>10 DEF Next, Shutdown

\* Runs start ordered.
LEMMA InitOrdered == Init => Ordered
BY DEF Init, Ordered, PanicOnlyAfterTimeout, Closed, Cancelled, DrainAt

\* No handler sends on the closed queue unless srv.Shutdown's wait ran out.
THEOREM NoSendOnClosed == Spec => []PanicOnlyAfterTimeout
<1>1. Ordered => PanicOnlyAfterTimeout
    BY DEF Ordered
<1> QED
    BY <1>1, InitTyped, InitOrdered, TypeStep, OrderStep, PTL DEF Spec

-----------------------------------------------------------------------------
(* The drain *)

\* An entry that was in the channel belongs to a handler that is done, which
\* will not submit it again; none is there once the consumer has returned.
Drained ==
    /\ \A h \in Range(queue) \cup atSignal : hit[h] = "done"
    /\ consumer = "returned" => atSignal \cap Range(queue) = {}

\* Every step keeps it: a late Submit adds an entry that was not there before.
LEMMA DrainStep == Typed /\ Ordered /\ Drained /\ [Next]_vars => Drained'
<1> SUFFICES ASSUME Typed, Ordered, Drained, [Next]_vars PROVE Drained'
    OBVIOUS
<1>0. queue \in Seq(Hit) /\ atSignal \subseteq Hit /\ Range(queue) \subseteq Hit
    BY DEF Typed, TypeOK, Range
<1>1. ASSUME NEW h \in Hit, Submit(h) PROVE Drained'
    <2>1. Range(queue') \subseteq Range(queue) \cup {h}
        BY <1>1, <1>0, RangeAppend DEF Submit, Range
    <2>2. /\ hit[h] # "done" /\ hit'[h] = "done"
          /\ \A g \in Hit : hit[g] = "done" => hit'[g] = "done"
        BY <1>1 DEF Submit, Typed, TypeOK
    <2>3. h \notin atSignal
        BY <2>2 DEF Drained
    <2>4. UNCHANGED <<consumer, atSignal>>
        BY <1>1 DEF Submit, consumerVars, serverVars
    <2> QED
        BY <1>0, <2>1, <2>2, <2>3, <2>4 DEF Drained
<1>2. ASSUME NEW h \in Hit, Arrive(h) \/ SubmitPanics(h) PROVE Drained'
    <2>1. \A g \in Hit : hit[g] = "done" => hit'[g] = "done"
        BY <1>2 DEF Arrive, SubmitPanics, Typed, TypeOK
    <2>2. UNCHANGED <<consumer, atSignal, queue>>
        BY <1>2 DEF Arrive, SubmitPanics, consumerVars, serverVars
    <2> QED
        BY <1>0, <2>1, <2>2 DEF Drained, Range
<1>3. CASE Receive \/ DrainReceive
    <2>1. Range(queue') \subseteq Range(queue)
        BY <1>3, <1>0, RangeHeadTail DEF Receive, DrainReceive
    <2>2. consumer' # "returned" /\ UNCHANGED <<hit, atSignal>>
        BY <1>3 DEF Receive, DrainReceive, handlerVars, serverVars
    <2> QED
        BY <2>1, <2>2 DEF Drained
<1>4. CASE SeeClosed \/ DrainEnd
    <2>1. Range(queue') = {} /\ UNCHANGED <<hit, atSignal>>
        BY <1>4 DEF SeeClosed, DrainEnd, handlerVars, serverVars, Range
    <2> QED
        BY <2>1 DEF Drained
<1>5. CASE SeeCancel \/ Insert \/ InsertFails \/ Count \/ CountCancelled \/ Publish
           \/ InsertHangs \/ CountHangs
    <2>1. consumer' # "returned"
        BY <1>5 DEF SeeCancel, Insert, InsertFails, Count, CountCancelled, Publish, InsertHangs,
                   CountHangs
    <2>2. UNCHANGED <<hit, atSignal, queue>>
        BY <1>5 DEF SeeCancel, Insert, InsertFails, Count, CountCancelled, Publish, InsertHangs,
                   CountHangs, handlerVars, serverVars
    <2> QED
        BY <2>1, <2>2 DEF Drained, Range
<1>6. CASE Signal
    <2>1. atSignal' = Range(queue) /\ UNCHANGED <<hit, queue, consumer>>
        BY <1>6 DEF Signal, handlerVars, consumerVars
    <2>2. consumer # "returned"
        BY <1>6 DEF Signal, Ordered, Cancelled
    <2> QED
        BY <2>1, <2>2 DEF Drained, Range
<1>7. CASE Shutdown \/ UNCHANGED vars
    <2>1. UNCHANGED <<hit, atSignal, queue, consumer>>
        BY <1>7 DEF Shutdown, CloseQueue, CloseQueueTimeout, ShutdownReturns, Exit,
                   handlerVars, consumerVars, vars
    <2> QED
        BY <2>1 DEF Drained, Range
<1> QED
    BY <1>1, <1>2, <1>3, <1>4, <1>5, <1>6, <1>7 DEF Next, Consume

\* An orderly exit leaves nothing behind that was queued when the signal came.
THEOREM QueuedIsDrained == Spec => []DrainsWhatWasQueued
<1>1. Init => Drained
    BY DEF Init, Drained, Range
<1>2. Ordered /\ Drained => DrainsWhatWasQueued
    BY DEF Ordered, Drained, DrainsWhatWasQueued
<1> QED
    BY <1>1, <1>2, InitTyped, InitOrdered, TypeStep, OrderStep, DrainStep, PTL DEF Spec

-----------------------------------------------------------------------------
(* The sink *)

\* A step of the detailed writer is a step of the log it promises: a Submit
\* that finds room takes, an Insert stores, a failure loses the oldest entry.
LEMMA SinkStep == Typed /\ [Next]_vars => [Sink!Next]_(<<InHand \o queue, rows>>)
<1> SUFFICES ASSUME Typed, [Next]_vars PROVE [Sink!Next]_(<<InHand \o queue, rows>>)
    OBVIOUS
<1>0. queue \in Seq(Hit) /\ InHand \in Seq(Hit)
    BY DEF Typed, TypeOK, HasEntry, InHand, HoldingAt
<1>1. ASSUME NEW h \in Hit, Submit(h) PROVE [Sink!Next]_(<<InHand \o queue, rows>>)
    <2>1. InHand' = InHand /\ rows' = rows
        BY <1>1 DEF Submit, consumerVars, InHand
    <2>2. CASE queue' = Append(queue, h)
        <3>1. InHand \o Append(queue, h) = Append(InHand \o queue, h)
            BY <1>0
        <3> QED
            BY <2>1, <2>2, <3>1 DEF Sink!Next, Sink!Take
    <2>3. CASE queue' = queue
        BY <2>1, <2>3
    <2> QED
        BY <1>1, <2>2, <2>3 DEF Submit
<1>2. CASE Receive \/ DrainReceive
    <2>1. InHand = <<>> /\ InHand' = <<Head(queue)>> /\ queue # <<>> /\ queue' = Tail(queue)
          /\ rows' = rows
        BY <1>2 DEF Receive, DrainReceive, InHand
    <2>2. <<>> \o queue = queue /\ <<Head(queue)>> \o Tail(queue) = queue
        BY <1>0, <2>1
    <2> QED
        BY <2>1, <2>2
<1>3. CASE Insert \/ InsertFails
    <2>1. /\ entry \in Hit /\ InHand = <<entry>> /\ InHand' = <<>> /\ queue' = queue
          /\ rows' = Append(rows, entry) \/ rows' = rows
        BY <1>3 DEF Insert, InsertFails, CanFail, InHand, Draining, DrainAt, Typed, HasEntry,
                   HoldingAt
    <2>2. /\ <<entry>> \o queue # <<>> /\ Head(<<entry>> \o queue) = entry
          /\ Tail(<<entry>> \o queue) = queue /\ <<>> \o queue = queue
        BY <1>0, <2>1, InFront
    <2> QED
        BY <2>1, <2>2 DEF Sink!Next, Sink!Store, Sink!Lose
<1>4. CASE SeeClosed \/ SeeCancel \/ DrainEnd \/ InsertHangs \/ Count \/ CountHangs
           \/ CountCancelled \/ Publish
    <2>1. InHand' = InHand
        BY <1>4 DEF SeeClosed, SeeCancel, DrainEnd, InsertHangs, Count, CountHangs,
                   CountCancelled, Publish, InHand, Draining, DrainAt
    <2>2. UNCHANGED <<queue, rows>>
        BY <1>4 DEF SeeClosed, SeeCancel, DrainEnd, InsertHangs, Count, CountHangs,
                   CountCancelled, Publish
    <2> QED
        BY <2>1, <2>2
<1>5. CASE (\E h \in Hit : Arrive(h) \/ SubmitPanics(h)) \/ Signal \/ Shutdown
           \/ UNCHANGED vars
    <2>1. UNCHANGED <<consumer, entry, queue, rows>>
        BY <1>5 DEF Arrive, SubmitPanics, Signal, Shutdown, CloseQueue, CloseQueueTimeout,
                   ShutdownReturns, Exit, vars, consumerVars
    <2> QED
        BY <2>1 DEF InHand
<1> QED
    BY <1>1, <1>2, <1>3, <1>4, <1>5 DEF Next, Consume

\* The log promises order, at most once, and losses only of its oldest entry:
\* the writer, its queue and its shutdown keep that promise.
THEOREM WriterImplementsSink == Spec => ImplementsSink
<1>1. Init => Sink!Init
    BY DEF Init, Sink!Init, InHand
<1> QED
    BY <1>1, InitTyped, TypeStep, SinkStep, PTL DEF Spec, ImplementsSink, Sink!Spec

=============================================================================
