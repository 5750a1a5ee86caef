-------------------------- MODULE StatsCache_proofs --------------------------
(***************************************************************************)
(* Theorems about StatsCache, for any number of views, any ttl and any     *)
(* longest query. The snapshot may go back when refreshes overlap, but     *)
(* every reading is at most Slow old when it is stored, and the ttl runs   *)
(* from the moment it is stored.                                           *)
(***************************************************************************)
EXTENDS StatsCache, TLAPS

\* What has happened or is under way is bounded.
Bumped == value + bumps =< MaxBumps

\* How old readings are: of the refresh that is about to store one, and of the
\* snapshot at the moment it was stored.
Ages ==
    /\ \A v \in View : view[v] = "store" => clock =< read[v].at + Slow
    /\ loadedAt =< snapshot.at + Slow
    /\ AnswerIsRecent

-----------------------------------------------------------------------------
(* Type correctness *)

\* What the assumption says of each constant.
LEMMA Constants ==
    /\ TTL \in Nat /\ TTL > 0 /\ TTL =< MaxClock
    /\ Slow \in Nat /\ MaxBumps \in Nat /\ MaxClock \in Nat
BY StatsConstants

\* The types with the bound on the bumps.
LEMMA TypeStep == StatsTypeOK /\ Bumped /\ [StatsNext]_statsVars => StatsTypeOK' /\ Bumped'
<1> SUFFICES ASSUME StatsTypeOK, Bumped, [StatsNext]_statsVars PROVE StatsTypeOK' /\ Bumped'
    OBVIOUS
<1>1. /\ clock \in Nat /\ value \in Nat /\ bumps \in Nat
      /\ TTL \in Nat /\ MaxClock \in Nat /\ MaxBumps \in Nat
    BY Constants DEF StatsTypeOK
<1>2. clock \in 0 .. MaxClock
    BY <1>1, Constants DEF StatsTypeOK
<1>3. CASE BumpAsync
    BY <1>1, <1>3 DEF BumpAsync, StatsTypeOK, Bumped
<1>4. CASE Bump
    <2>1. bumps' \in 0 .. MaxBumps /\ value' \in 0 .. MaxBumps /\ value' + bumps' =< MaxBumps
        <3>1. bumps' = bumps - 1 /\ bumps > 0 /\ (value' = value \/ value' = value + 1)
            BY <1>4 DEF Bump
        <3> QED
            BY <1>1, <3>1 DEF Bumped
    <2> QED
        BY <1>4, <2>1 DEF Bump, StatsTypeOK, Bumped
<1>5. CASE StatsTick
    BY <1>1, <1>5 DEF StatsTick, StatsTypeOK, Bumped
<1>6. ASSUME NEW v \in View, Look(v) PROVE StatsTypeOK' /\ Bumped'
    BY <1>6 DEF Look, StatsTypeOK, Bumped
<1>7. ASSUME NEW v \in View, Query(v) PROVE StatsTypeOK' /\ Bumped'
    <2>1. [value |-> value, at |-> clock] \in Reading
        BY <1>2 DEF Reading, StatsTypeOK
    <2> QED
        BY <1>7, <2>1 DEF Query, StatsTypeOK, Bumped
<1>8. ASSUME NEW v \in View, QueryFails(v) PROVE StatsTypeOK' /\ Bumped'
    BY <1>8 DEF QueryFails, StatsTypeOK, Bumped
<1>9. ASSUME NEW v \in View, Store(v) PROVE StatsTypeOK' /\ Bumped'
    <2>1. read[v] \in Reading /\ Empty \in Reading
        BY <1>1 DEF StatsTypeOK, Empty, Reading
    <2> QED
        BY <1>2, <1>9, <2>1 DEF Store, StatsTypeOK, Bumped
<1>10. ASSUME NEW v \in View, Rendered(v) PROVE StatsTypeOK' /\ Bumped'
    <2>1. Empty \in Reading
        BY <1>1 DEF Empty, Reading
    <2> QED
        BY <1>10, <2>1 DEF Rendered, StatsTypeOK, Bumped
<1>11. CASE UNCHANGED statsVars
    BY <1>11 DEF statsVars, StatsTypeOK, Bumped
<1> QED
    BY <1>3, <1>4, <1>5, <1>6, <1>7, <1>8, <1>9, <1>10, <1>11 DEF StatsNext

\* The counter, the snapshot and every view are well formed.
THEOREM StatsTypeCorrect == StatsSpec => []StatsTypeOK
<1>1. StatsInit => StatsTypeOK /\ Bumped
    <2>1. Empty \in Reading
        BY Constants DEF Empty, Reading
    <2>2. TTL \in TTL .. MaxClock /\ 0 \in 0 .. MaxClock /\ 0 \in 0 .. MaxBumps /\ 0 + 0 =< MaxBumps
        BY Constants
    <2> QED
        BY <2>1, <2>2 DEF StatsInit, StatsTypeOK, Bumped
<1> QED
    BY <1>1, TypeStep, PTL DEF StatsSpec

-----------------------------------------------------------------------------
(* How old an answer can be *)

\* One step keeps the ages.
LEMMA AgesStep == StatsTypeOK /\ Ages /\ [StatsNext]_statsVars => Ages'
<1> SUFFICES ASSUME StatsTypeOK, Ages, [StatsNext]_statsVars PROVE Ages'
    OBVIOUS
<1>1. /\ clock \in Nat /\ loadedAt \in Nat /\ snapshot.at \in Nat /\ snapshot \in Reading
      /\ \A v \in View : read[v].at \in Nat /\ answer[v].at \in Nat
      /\ TTL \in Nat /\ TTL > 0 /\ Slow \in Nat
    BY Constants DEF StatsTypeOK, Reading
<1>2. CASE BumpAsync \/ Bump \/ UNCHANGED statsVars
    BY <1>2 DEF BumpAsync, Bump, statsVars, Ages, AnswerIsRecent
<1>3. CASE StatsTick
    <2>1. \A v \in View : view[v] = "store" => clock + 1 =< read[v].at + Slow
        BY <1>1, <1>3 DEF StatsTick
    <2>2. \A v \in View : view[v] # "answered"
        BY <1>3 DEF StatsTick
    <2> QED
        BY <1>3, <2>1, <2>2 DEF StatsTick, Ages, AnswerIsRecent
<1>4. ASSUME NEW v \in View, Look(v) PROVE Ages'
    <2>1. CASE Fresh
        <3>1. snapshot.at + TTL + Slow > clock
            BY <1>1, <2>1 DEF Fresh, Ages
        <3>2. /\ view' = [view EXCEPT ![v] = "answered"]
              /\ answer' = [answer EXCEPT ![v] = snapshot]
              /\ UNCHANGED <<clock, read, snapshot, loadedAt>>
            BY <1>4, <2>1 DEF Look
        <3> QED
            BY <3>1, <3>2 DEF Ages, AnswerIsRecent, StatsTypeOK
    <2>2. CASE ~Fresh
        BY <1>4, <2>2 DEF Look, Ages, AnswerIsRecent, StatsTypeOK
    <2> QED
        BY <2>1, <2>2
<1>5. ASSUME NEW v \in View, Query(v) PROVE Ages'
    <2>1. clock =< [value |-> value, at |-> clock].at + Slow
        BY <1>1
    <2> QED
        BY <1>5, <2>1 DEF Query, Ages, AnswerIsRecent, StatsTypeOK
<1>6. ASSUME NEW v \in View, QueryFails(v) PROVE Ages'
    BY <1>6 DEF QueryFails, Ages, AnswerIsRecent, StatsTypeOK
<1>7. ASSUME NEW v \in View, Store(v) PROVE Ages'
    <2>1. clock =< read[v].at + Slow
        BY <1>7 DEF Store, Ages
    <2>2. read[v].at + TTL + Slow > clock
        BY <1>1, <2>1
    <2> QED
        BY <1>7, <2>1, <2>2 DEF Store, Ages, AnswerIsRecent, StatsTypeOK
<1>8. ASSUME NEW v \in View, Rendered(v) PROVE Ages'
    BY <1>8 DEF Rendered, Ages, AnswerIsRecent, StatsTypeOK
<1> QED
    BY <1>2, <1>3, <1>4, <1>5, <1>6, <1>7, <1>8 DEF StatsNext

\* A view of the home page never shows counters that were read longer ago than
\* the ttl and the slowest query, however its refresh raced with others.
THEOREM AnswersAreRecent == StatsSpec => []AnswerIsRecent
<1>1. StatsInit => Ages
    BY Constants DEF StatsInit, Ages, AnswerIsRecent, Empty
<1>2. Ages => AnswerIsRecent
    BY DEF Ages
<1> QED
    BY <1>1, <1>2, StatsTypeCorrect, AgesStep, PTL DEF StatsSpec

=============================================================================
