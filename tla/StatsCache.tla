----------------------------- MODULE StatsCache -----------------------------
(***************************************************************************)
(* service.StatsCache and repository.StatsRepo for one counter: goroutines *)
(* of BumpAsync add to the table, views of the home page take the snapshot *)
(* of the process or refresh it. The refresh holds no lock while it        *)
(* queries, so refreshes overlap.                                          *)
(***************************************************************************)
EXTENDS Naturals

CONSTANTS
    View,       \* concurrent views of the home page
    TTL,        \* of the snapshot: 30 s in runServe
    Slow,       \* bound: the longest query, in ticks
    MaxBumps, MaxClock  \* bounds

ASSUME StatsConstants ==
    TTL \in Nat \ {0} /\ {Slow, MaxBumps, MaxClock} \subseteq Nat /\ TTL =< MaxClock

VARIABLES
    clock,
    value,      \* stats.value
    bumps,      \* goroutines of BumpAsync under way
    snapshot,   \* StatsCache.snapshot: the value, and when it was read
    loadedAt,   \* the tick of the last refresh; 0 before the first
    view,       \* where each view is; "stale" is the answer after a failed refresh
    read,       \* what its query returned
    answer      \* what Snapshot returned to it

statsVars == <<clock, value, bumps, snapshot, loadedAt, view, read, answer>>

Reading == [value : 0 .. MaxBumps, at : 0 .. MaxClock]
Empty == [value |-> 0, at |-> 0]

\* The process starts at tick TTL: the zero time is long past.
StatsInit ==
    /\ clock = TTL
    /\ value = 0 /\ bumps = 0
    /\ snapshot = Empty /\ loadedAt = 0
    /\ view = [v \in View |-> "idle"]
    /\ read = [v \in View |-> Empty]
    /\ answer = [v \in View |-> Empty]

\* BumpAsync, for a mock that was created or a request that was served.
BumpAsync ==
    /\ value + bumps < MaxBumps
    /\ bumps' = bumps + 1
    /\ UNCHANGED <<clock, value, snapshot, loadedAt, view, read, answer>>

\* The upsert adds in the database; or fails within its 5 seconds and is lost.
Bump ==
    /\ bumps > 0
    /\ bumps' = bumps - 1
    /\ value' \in {value, value + 1}
    /\ UNCHANGED <<clock, snapshot, loadedAt, view, read, answer>>

Fresh == clock - loadedAt < TTL

\* Snapshot under the read lock.
Look(v) ==
    /\ view[v] = "idle"
    /\ IF Fresh
       THEN view' = [view EXCEPT ![v] = "answered"] /\ answer' = [answer EXCEPT ![v] = snapshot]
       ELSE view' = [view EXCEPT ![v] = "query"] /\ UNCHANGED answer
    /\ UNCHANGED <<clock, value, bumps, snapshot, loadedAt, read>>

\* StatsRepo.All reads the table ...
Query(v) ==
    /\ view[v] = "query"
    /\ view' = [view EXCEPT ![v] = "store"]
    /\ read' = [read EXCEPT ![v] = [value |-> value, at |-> clock]]
    /\ UNCHANGED <<clock, value, bumps, snapshot, loadedAt, answer>>

\* Slip: a failure restarts the ttl as well.
QueryFailsLoads(v) ==
    /\ view[v] = "query"
    /\ view' = [view EXCEPT ![v] = "stale"]
    /\ answer' = [answer EXCEPT ![v] = snapshot]
    /\ loadedAt' = clock
    /\ UNCHANGED <<clock, value, bumps, snapshot, read>>

\* ... or fails: the stale snapshot is the answer.
QueryFails(v) ==
    /\ view[v] = "query"
    /\ view' = [view EXCEPT ![v] = "stale"]
    /\ answer' = [answer EXCEPT ![v] = snapshot]
    /\ UNCHANGED <<clock, value, bumps, snapshot, loadedAt, read>>

\* Whoever comes last wins, whatever it read.
Store(v) ==
    /\ view[v] = "store"
    /\ view' = [view EXCEPT ![v] = "answered"]
    /\ snapshot' = read[v]
    /\ loadedAt' = clock
    /\ answer' = [answer EXCEPT ![v] = read[v]]
    /\ read' = [read EXCEPT ![v] = Empty]
    /\ UNCHANGED <<clock, value, bumps>>

\* The page is rendered; the next view may come.
Rendered(v) ==
    /\ view[v] \in {"answered", "stale"}
    /\ view' = [view EXCEPT ![v] = "idle"]
    /\ answer' = [answer EXCEPT ![v] = Empty]
    /\ UNCHANGED <<clock, value, bumps, snapshot, loadedAt, read>>

\* No query takes longer than Slow; an answer is rendered at once.
StatsTick ==
    /\ clock < MaxClock
    /\ \A v \in View : /\ view[v] = "store" => clock - read[v].at < Slow
                       /\ view[v] \in {"idle", "query", "store"}
    /\ clock' = clock + 1
    /\ UNCHANGED <<value, bumps, snapshot, loadedAt, view, read, answer>>

StatsNext ==
    \/ BumpAsync \/ Bump \/ StatsTick
    \/ \E v \in View : Look(v) \/ Query(v) \/ QueryFails(v) \/ Store(v) \/ Rendered(v)

StatsSpec == StatsInit /\ [][StatsNext]_statsVars

-----------------------------------------------------------------------------
\* Type correctness.
StatsTypeOK ==
    /\ clock \in TTL .. MaxClock /\ loadedAt \in 0 .. MaxClock
    /\ value \in 0 .. MaxBumps /\ bumps \in 0 .. MaxBumps
    /\ snapshot \in Reading /\ read \in [View -> Reading] /\ answer \in [View -> Reading]
    /\ view \in [View -> {"idle", "query", "store", "answered", "stale"}]

\* Overlapping refreshes may put an older reading over a newer one, but what a
\* view shows was never read longer ago than the ttl and the slowest query,
\* unless its own refresh failed.
AnswerIsRecent ==
    \A v \in View : view[v] = "answered" =>
        answer[v].at + TTL + Slow > clock

=============================================================================
