---------------------------- MODULE MockRegistry ----------------------------
(***************************************************************************)
(* What the users of the server may rely on, whatever requests, sweeps and *)
(* log entries do at the same time: a URL answers for one mock at a time   *)
(* and changes hands only after a moment when it did not answer; a mock    *)
(* that has stopped answering never answers again, under any URL; and its  *)
(* request logs go when it is removed.                                     *)
(***************************************************************************)
CONSTANTS Slug, MockId

VARIABLES
    answers,    \* what answers at each slug: nothing, or a mock as it is configured
    ended,      \* the mocks that have stopped answering and are still stored
    taken,      \* the ids given out so far
    logs        \* the mocks with request logs

At(slug) == {m.id : m \in answers[slug]}

Answering == UNION {At(slug) : slug \in Slug}

Init ==
    /\ answers = [slug \in Slug |-> {}]
    /\ ended = {} /\ taken = {} /\ logs = {}

\* Mocks that have ended go, and their request logs with them.
Forget(gone, born) ==
    /\ gone \subseteq ended
    /\ ended' = (ended \ gone) \cup born
    /\ logs' = logs \ gone

\* The slug was free: nothing answered there.
Publish(slug, id, public) ==
    /\ answers[slug] = {}
    /\ id \notin taken
    /\ answers' = [answers EXCEPT ![slug] = {[id |-> id, public |-> public]}]
    /\ taken' = taken \cup {id}
    /\ \E gone \in SUBSET ended : Forget(gone, {})

\* A creation that took longer than its mock was to live.
PublishLate(id) ==
    /\ id \notin taken
    /\ taken' = taken \cup {id}
    /\ \E gone \in SUBSET ended : Forget(gone, {id})
    /\ UNCHANGED answers

Configure(slug, public) ==
    /\ answers' = [answers EXCEPT ![slug] = {[id |-> id, public |-> public] : id \in At(slug)}]
    /\ UNCHANGED <<ended, taken, logs>>

End(slugs) ==
    /\ answers' = [slug \in Slug |-> IF slug \in slugs THEN {} ELSE answers[slug]]
    /\ ended' = ended \cup UNION {At(slug) : slug \in slugs}
    /\ UNCHANGED <<taken, logs>>

Delete(slug) ==
    /\ answers' = [answers EXCEPT ![slug] = {}]
    /\ logs' = logs \ At(slug)
    /\ UNCHANGED <<ended, taken>>

Remove(gone) == Forget(gone, {}) /\ UNCHANGED <<answers, taken>>

Log(id) ==
    /\ id \in Answering \cup ended
    /\ logs' = logs \cup {id}
    /\ UNCHANGED <<answers, ended, taken>>

Clear(id) ==
    /\ logs' = logs \ {id}
    /\ UNCHANGED <<answers, ended, taken>>

Next ==
    \/ \E slug \in Slug, id \in MockId, public \in BOOLEAN : Publish(slug, id, public)
    \/ \E id \in MockId : PublishLate(id) \/ Log(id) \/ Clear(id)
    \/ \E slug \in Slug, public \in BOOLEAN : Configure(slug, public)
    \/ \E slugs \in SUBSET Slug : End(slugs)
    \/ \E slug \in Slug : Delete(slug)
    \/ \E gone \in SUBSET ended : Remove(gone)

Spec == Init /\ [][Next]_<<answers, ended, taken, logs>>
=============================================================================
