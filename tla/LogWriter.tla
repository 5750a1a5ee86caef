----------------------------- MODULE LogWriter -----------------------------
(***************************************************************************)
(* service.LogWriter between the mock router's handlers, Postgres and the  *)
(* shutdown sequence of cmd/server/main.go: handlers submit one entry per  *)
(* request to a bounded channel, one consumer goroutine inserts the rows,  *)
(* and SIGTERM cancels rootCtx, which is at once the consumer's context    *)
(* and, through BaseContext, that of every request.                        *)
(***************************************************************************)
EXTENDS Naturals, Sequences, Functions

CONSTANTS
    Hit,        \* the requests to mocks; each submits at most one entry
    NoHit,      \* the consumer holds no entry
    Capacity    \* of the channel: 1024 in runServe

ASSUME ConstantsOK == Capacity \in Nat \ {0} /\ NoHit \notin Hit

VARIABLES
    server,     \* where runServe is
    timedOut,   \* one of the two bounded waits of the shutdown ran out
    hit,        \* where each handler is
    queue,      \* LogWriter.queue
    consumer,   \* where the goroutine of Start is
    entry,      \* the entry it holds
    rows,       \* request_logs, in the order of the inserts
    counted,    \* the entries RecordHit has counted
    signalled,  \* the entries Broker.Publish was called for
    atSignal    \* history: the entries in the channel when rootCtx was cancelled

vars == <<server, timedOut, hit, queue, consumer, entry, rows, counted, signalled, atSignal>>
handlerVars == <<hit>>
consumerVars == <<consumer, entry, rows, counted, signalled>>
serverVars == <<server, timedOut, atSignal>>

\* rootCtx.Done(): the signal cancels it for good.
Cancelled == server # "serving"

\* close(w.queue) has been called.
Closed == server \in {"closing", "releasing", "exited"}

\* The select of the loop, the one of the drain, and the calls of write under
\* each. A write that starts with a cancelled context ("doomed") cannot succeed;
\* a statement that gets no answer hangs, and only the context gets it off. The
\* drain has a context of its own, which nobody cancels.
DrainAt == {"drain", "drainWrite", "drainHung", "drainCount", "drainCountHung", "drainPublish"}
ConsumerAt == DrainAt \cup {"select", "write", "doomed", "hung", "count", "countHung",
                            "publish", "returned"}

\* Where a statement without an answer keeps its connection of the pool.
HungAt == {"hung", "countHung", "drainHung", "drainCountHung"}

Draining == consumer \in DrainAt

Init ==
    /\ server = "serving"
    /\ timedOut = FALSE
    /\ hit = [h \in Hit |-> "new"]
    /\ queue = <<>>
    /\ consumer = "select"
    /\ entry = NoHit
    /\ rows = <<>>
    /\ counted = {}
    /\ signalled = {}
    /\ atSignal = {}

-----------------------------------------------------------------------------
(* The handlers: MockRouter.ServeHTTP. *)

\* The mock is found and the entry is built. Once rootCtx is cancelled the
\* lookup fails, and a request gets no further than that.
Arrive(h) ==
    /\ ~Cancelled
    /\ hit[h] = "new"
    /\ hit' = [hit EXCEPT ![h] = "serving"]
    /\ UNCHANGED <<queue, consumerVars, serverVars>>

\* Slip: no default case in the select of Submit.
SubmitBlocking(h) ==
    /\ server # "exited"
    /\ hit[h] = "serving"
    /\ ~Closed
    /\ Len(queue) < Capacity
    /\ hit' = [hit EXCEPT ![h] = "done"]
    /\ queue' = Append(queue, h)
    /\ UNCHANGED <<consumerVars, serverVars>>

\* After the delay, or as soon as the request's context is done.
Submit(h) ==
    /\ server # "exited"
    /\ hit[h] = "serving"
    /\ ~Closed
    /\ hit' = [hit EXCEPT ![h] = "done"]
    /\ queue' = IF Len(queue) < Capacity THEN Append(queue, h) ELSE queue
    /\ UNCHANGED <<consumerVars, serverVars>>

\* A send on the closed channel panics, default case or not; Recoverer catches it.
SubmitPanics(h) ==
    /\ server # "exited"
    /\ hit[h] = "serving"
    /\ Closed
    /\ hit' = [hit EXCEPT ![h] = "panicked"]
    /\ UNCHANGED <<queue, consumerVars, serverVars>>

-----------------------------------------------------------------------------
(* The consumer: Start and write. *)

Alive == server # "exited"

\* A closed channel still yields what is in it.
Receive ==
    /\ Alive
    /\ consumer = "select"
    /\ queue # <<>>
    /\ entry' = Head(queue)
    /\ queue' = Tail(queue)
    /\ consumer' = IF Cancelled THEN "doomed" ELSE "write"
    /\ UNCHANGED <<handlerVars, rows, counted, signalled, serverVars>>

SeeClosed ==
    /\ Alive
    /\ consumer = "select"
    /\ queue = <<>> /\ Closed
    /\ consumer' = "returned"
    /\ UNCHANGED <<handlerVars, queue, entry, rows, counted, signalled, serverVars>>

\* Slip: the goroutine returns on ctx.Done() without draining.
SeeCancelReturns ==
    /\ Alive
    /\ consumer = "select"
    /\ Cancelled
    /\ consumer' = "returned"
    /\ UNCHANGED <<handlerVars, queue, entry, rows, counted, signalled, serverVars>>

\* The other case of the select; Go picks either when both are ready.
SeeCancel ==
    /\ Alive
    /\ consumer = "select"
    /\ Cancelled
    /\ consumer' = "drain"
    /\ UNCHANGED <<handlerVars, queue, entry, rows, counted, signalled, serverVars>>

DrainReceive ==
    /\ Alive
    /\ consumer = "drain"
    /\ queue # <<>>
    /\ entry' = Head(queue)
    /\ queue' = Tail(queue)
    /\ consumer' = "drainWrite"
    /\ UNCHANGED <<handlerVars, rows, counted, signalled, serverVars>>

DrainEnd ==
    /\ Alive
    /\ consumer = "drain"
    /\ queue = <<>>
    /\ consumer' = "returned"
    /\ UNCHANGED <<handlerVars, queue, entry, rows, counted, signalled, serverVars>>

Insert ==
    /\ Alive
    /\ consumer \in {"write", "drainWrite"}
    /\ rows' = Append(rows, entry)
    /\ consumer' = IF Draining THEN "drainCount" ELSE "count"
    /\ UNCHANGED <<handlerVars, queue, entry, counted, signalled, serverVars>>

\* No answer: the pool's contexts have no deadline.
InsertHangs ==
    /\ Alive
    /\ consumer \in {"write", "drainWrite"}
    /\ consumer' = IF Draining THEN "drainHung" ELSE "hung"
    /\ UNCHANGED <<handlerVars, queue, entry, rows, counted, signalled, serverVars>>

\* Slip: the loop writes with context.Background(), as the drain does.
CanFailBackground == consumer \in {"write", "doomed", "drainWrite"}

CanFail == consumer \in {"write", "doomed", "drainWrite"} \/ (consumer = "hung" /\ Cancelled)

\* Slip: no return after the failed Insert.
InsertFailsThrough ==
    /\ Alive
    /\ CanFail
    /\ consumer' = IF Draining THEN "drainCount" ELSE "count"
    /\ UNCHANGED <<handlerVars, queue, entry, rows, counted, signalled, serverVars>>

\* Slip: a failed Insert ends the goroutine.
InsertFailsReturns ==
    /\ Alive
    /\ CanFail
    /\ consumer' = "returned"
    /\ entry' = NoHit
    /\ UNCHANGED <<handlerVars, queue, rows, counted, signalled, serverVars>>

\* Slip: a failed Insert is retried by submitting the entry again.
InsertFailsRequeues ==
    /\ Alive
    /\ CanFail
    /\ queue' = Append(queue, entry)
    /\ consumer' = IF Draining THEN "drain" ELSE "select"
    /\ entry' = NoHit
    /\ UNCHANGED <<handlerVars, rows, counted, signalled, serverVars>>

\* A database error, a mock that is gone, a context cancelled under the call.
InsertFails ==
    /\ Alive
    /\ CanFail
    /\ consumer' = IF Draining THEN "drain" ELSE "select"
    /\ entry' = NoHit
    /\ UNCHANGED <<handlerVars, queue, rows, counted, signalled, serverVars>>

\* RecordHit, whose failure is only logged.
Count ==
    /\ Alive
    /\ consumer \in {"count", "drainCount"}
    /\ counted' \in {counted, counted \cup {entry}}
    /\ consumer' = IF Draining THEN "drainPublish" ELSE "publish"
    /\ UNCHANGED <<handlerVars, queue, entry, rows, signalled, serverVars>>

\* The UPDATE of RecordHit may get no answer either.
CountHangs ==
    /\ Alive
    /\ consumer \in {"count", "drainCount"}
    /\ consumer' = IF Draining THEN "drainCountHung" ELSE "countHung"
    /\ UNCHANGED <<handlerVars, queue, entry, rows, counted, signalled, serverVars>>

CountCancelled ==
    /\ Alive
    /\ consumer = "countHung" /\ Cancelled
    /\ consumer' = "publish"
    /\ UNCHANGED <<handlerVars, queue, entry, rows, counted, signalled, serverVars>>

Publish ==
    /\ Alive
    /\ consumer \in {"publish", "drainPublish"}
    /\ signalled' = signalled \cup {entry}
    /\ consumer' = IF Draining THEN "drain" ELSE "select"
    /\ entry' = NoHit
    /\ UNCHANGED <<handlerVars, queue, rows, counted, serverVars>>

Consume ==
    \/ Receive \/ SeeClosed \/ SeeCancel \/ DrainReceive \/ DrainEnd
    \/ Insert \/ InsertFails \/ Count \/ CountCancelled \/ Publish

-----------------------------------------------------------------------------
(* The end of runServe. *)

Signal ==
    /\ server = "serving"
    /\ server' = "stopping"
    /\ atSignal' = Range(queue)
    /\ UNCHANGED <<timedOut, handlerVars, queue, consumerVars>>

\* Slip: logWriter.Shutdown before srv.Shutdown.
CloseQueueFirst ==
    /\ server = "stopping"
    /\ server' = "closing"
    /\ UNCHANGED <<timedOut, atSignal, handlerVars, queue, consumerVars>>

\* srv.Shutdown returns when the last handler has; then the queue is closed.
CloseQueue ==
    /\ server = "stopping"
    /\ \A h \in Hit : hit[h] # "serving"
    /\ server' = "closing"
    /\ UNCHANGED <<timedOut, atSignal, handlerVars, queue, consumerVars>>

\* ... or after 30 seconds, handlers or not.
CloseQueueTimeout ==
    /\ server = "stopping"
    /\ \E h \in Hit : hit[h] = "serving"
    /\ server' = "closing"
    /\ timedOut' = TRUE
    /\ UNCHANGED <<atSignal, handlerVars, queue, consumerVars>>

\* Shutdown waits for the consumer, for 5 seconds at most.
ShutdownReturns ==
    /\ server = "closing"
    /\ server' = "releasing"
    /\ timedOut' = (timedOut \/ consumer # "returned")
    /\ UNCHANGED <<atSignal, handlerVars, queue, consumerVars>>

\* The deferred pool.Close() waits for the connections in use, as long as it
\* takes; the consumer that Shutdown has given up on may have one.
Exit ==
    /\ server = "releasing"
    /\ consumer \notin HungAt
    /\ server' = "exited"
    /\ UNCHANGED <<timedOut, atSignal, handlerVars, queue, consumerVars>>

Shutdown == CloseQueue \/ CloseQueueTimeout \/ ShutdownReturns \/ Exit

-----------------------------------------------------------------------------
Next ==
    \/ \E h \in Hit : Arrive(h) \/ Submit(h) \/ SubmitPanics(h)
    \/ Consume
    \/ InsertHangs \/ CountHangs
    \/ Signal
    \/ Shutdown

Spec == Init /\ [][Next]_vars

(***************************************************************************)
(* Goroutines that can run do: a handler's delay is at most 30 seconds, a  *)
(* database call that is not hung returns, and the two waits of the        *)
(* shutdown end by their timeouts; the wait of pool.Close() has none, and  *)
(* ends only if no connection is in use. Nobody has to send a request or a *)
(* signal.                                                                 *)
(***************************************************************************)
Fairness ==
    /\ \A h \in Hit : WF_vars(Submit(h) \/ SubmitPanics(h))
    /\ WF_vars(Consume)
    /\ WF_vars(Shutdown)

FairSpec == Spec /\ Fairness

-----------------------------------------------------------------------------
(* Invariants *)

\* Type correctness; the channel never holds more than its capacity.
TypeOK ==
    /\ server \in {"serving", "stopping", "closing", "releasing", "exited"}
    /\ timedOut \in BOOLEAN
    /\ hit \in [Hit -> {"new", "serving", "done", "panicked"}]
    /\ queue \in Seq(Hit) /\ Len(queue) =< Capacity
    /\ consumer \in ConsumerAt
    /\ entry \in Hit \cup {NoHit}
    /\ rows \in Seq(Hit)
    /\ counted \subseteq Hit
    /\ signalled \subseteq Hit
    /\ atSignal \subseteq Hit

\* An inspector that is told of a request finds it: the row is there before the
\* request is counted and before its signal is published, in every interleaving
\* with the shutdown.
SignalledHasRow == counted \cup signalled \subseteq Range(rows)

\* No handler ever sends on the closed queue, unless the 30 seconds of
\* srv.Shutdown ran out on it: the order of the two shutdowns in runServe.
PanicOnlyAfterTimeout == (\E h \in Hit : hit[h] = "panicked") => timedOut

\* An orderly shutdown leaves no entry behind that was in the channel when the
\* signal came: the consumer drains before it returns.
DrainsWhatWasQueued ==
    server \in {"releasing", "exited"} /\ ~timedOut => atSignal \cap Range(queue) = {}

-----------------------------------------------------------------------------
(* Liveness *)

\* The mock router never waits for the log: a handler that was serving returns,
\* with the queue full and Postgres silent for good, or during the shutdown.
HandlersReturn ==
    \A h \in Hit : hit[h] = "serving" ~> hit[h] # "serving" \/ server = "exited"

\* While the server runs and Postgres answers, what was queued does not stay there.
QueueMoves ==
    \A h \in Hit : h \in Range(queue) ~> h \notin Range(queue) \/ Cancelled
                                      \/ consumer \in {"hung", "countHung"}

\* After the signal the process ends, whatever the handlers do and with Postgres
\* silent: a statement that hangs loses its context. The one exception are the
\* statements of the drain, whose context nobody cancels: pool.Close() waits for
\* their connection, the 5 seconds of Shutdown notwithstanding.
SignalEnds ==
    server = "stopping" ~> server = "exited" \/ consumer \in {"drainHung", "drainCountHung"}

-----------------------------------------------------------------------------
(* Refinement *)

InHand == IF consumer \in {"write", "doomed", "hung", "drainWrite", "drainHung"}
          THEN <<entry>> ELSE <<>>

Sink == INSTANCE LogSink WITH
            Entry <- Hit, pending <- InHand \o queue, stored <- rows

\* The writer implements the log it promises: in order, at most once, with
\* losses only of the oldest entry it still has.
ImplementsSink == Sink!Spec

-----------------------------------------------------------------------------
(* What a comment says and the code does not do. *)

\* "Cancel ctx to stop accepting new items; Shutdown drains the remaining
\* queue": the comment of Start. Violated by a handler that submits after the
\* consumer has seen the cancellation, found the queue empty and returned.
ShutdownDrains == server = "exited" /\ ~timedOut => queue = <<>>

=============================================================================
