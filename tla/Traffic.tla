------------------------------ MODULE Traffic ------------------------------
(***************************************************************************)
(* What a request to a mock does in Redis before it is answered: the rate  *)
(* limit of its address (middleware/ratelimit.go, repository/redis.go),    *)
(* the distinct callers of the day (repository/callers.go) and the shared  *)
(* position of the response sequence (repository/seq.go). The mock has a   *)
(* sequence and no error rate, so that every hit takes a position. Any     *)
(* call may fail before or after Redis executes it; keys expire; Redis may *)
(* restart empty.                                                          *)
(***************************************************************************)
EXTENDS Integers, FiniteSets

CONSTANTS
    Request,    \* the requests, one goroutine each
    Addr,       \* client addresses; one caller each (callerID)
    NoAddr,
    Limit, Window,  \* of the limiter
    Threshold,  \* distinct callers a day that are reported
    DayLength,  \* ticks
    MaxTime, MaxFaults, MaxRestarts     \* bounds

ASSUME TrafficConstants ==
    /\ NoAddr \notin Addr
    /\ {Limit, Window, Threshold, DayLength} \subseteq Nat \ {0}
    /\ {MaxTime, MaxFaults, MaxRestarts} \subseteq Nat

Never == -1     \* no expiry; also what TTL answers for it

VARIABLES
    now, faults, epoch,     \* epoch: the restarts of Redis
    at, addr, day,          \* of each request: where it is, from whom, the day of its key
    n,                      \* the counter it read
    counter, expiry,        \* rl:ip:<addr>
    sketch, flagged,        \* callers:<mock>:<day> and its :flagged
    seq, mem,               \* seq:<mock>, and SeqCounter.mem of this process
    position,               \* the position each hit was given, and by whom
    grants,                 \* history: which requests the limiter allowed, by the time of their INCR
    orphans,                \* history: addresses whose EXPIRE was not carried out
    reports,                \* history: how often each day was reported since the restart
    missed,                 \* history: days whose flag a failure kept from being set
    skipped                 \* history: positions Redis counted for an answer that was lost

redisVars == <<counter, expiry, sketch, flagged, seq>>
history == <<grants, orphans, reports, missed, skipped>>
vars == <<now, faults, epoch, at, addr, day, n, redisVars, mem, position, history>>

Day == 0 .. (MaxTime \div DayLength)
Today == now \div DayLength
NoPosition == [from |-> "none", pos |-> 0]

Init ==
    /\ now = 0 /\ faults = 0 /\ epoch = 0
    /\ at = [r \in Request |-> "new"]
    /\ addr = [r \in Request |-> NoAddr]
    /\ day = [r \in Request |-> 0]
    /\ n = [r \in Request |-> 0]
    /\ counter = [a \in Addr |-> 0] /\ expiry = [a \in Addr |-> Never]
    /\ sketch = [d \in Day |-> {}] /\ flagged = {}
    /\ seq = 0 /\ mem = 0
    /\ position = [r \in Request |-> NoPosition]
    /\ grants = {} /\ orphans = {} /\ missed = {} /\ skipped = {}
    /\ reports = [d \in Day |-> 0]

\* What becomes of a call: answered; failed before Redis saw it; or executed,
\* and the answer lost.
Outcomes == {"ok", "unreached", "lost"}

Outcome(o) ==
    /\ o = "ok" \/ faults < MaxFaults
    /\ faults' = IF o = "ok" THEN faults ELSE faults + 1
Executed(o) == o # "unreached"

Go(r, to) == at' = [at EXCEPT ![r] = to]

-----------------------------------------------------------------------------
(* RateLimit and RateLimiter.Allow *)

\* Slip: what remains is compared after it was cut off at zero.
AllowedByRemaining(count) == (IF count > Limit THEN 0 ELSE Limit - count) >= 0

Allowed(count) == count =< Limit

\* Over the limit: 429. Otherwise the handler runs; Observe computes its key.
Decide(r, count) ==
    IF Allowed(count)
    THEN Go(r, "observe") /\ day' = [day EXCEPT ![r] = Today]
    ELSE Go(r, "denied") /\ UNCHANGED day

\* Slip: zero is taken for "no expiry"; Redis answers -1.
NeedsExpireZero(a) == expiry[a] = 0

\* ttl.Val() < 0
NeedsExpire(a) == expiry[a] = Never

\* The transaction of INCR and TTL; an error lets the request through.
Allow(r, a, o) ==
    /\ at[r] = "new"
    /\ Outcome(o)
    /\ addr' = [addr EXCEPT ![r] = a]
    /\ counter' = IF Executed(o) THEN [counter EXCEPT ![a] = @ + 1] ELSE counter
    /\ n' = [n EXCEPT ![r] = counter[a] + 1]
    /\ orphans' = IF o = "lost" /\ expiry[a] = Never THEN orphans \cup {a} ELSE orphans
    /\ grants' = IF o = "ok" /\ Allowed(counter[a] + 1)
                 THEN grants \cup {[who |-> a, by |-> r, time |-> now]} ELSE grants
    /\ IF o # "ok"
       THEN Go(r, "observe") /\ day' = [day EXCEPT ![r] = Today]
       ELSE IF NeedsExpire(a)
       THEN Go(r, "expire") /\ UNCHANGED day
       ELSE Decide(r, counter[a] + 1)
    /\ UNCHANGED <<now, epoch, expiry, sketch, flagged, seq, mem, position,
                   reports, missed, skipped>>

\* EXPIRE, whose error is ignored; on a key that is gone it does nothing.
SetExpiry(r, o) ==
    /\ at[r] = "expire"
    /\ Outcome(o)
    /\ expiry' = IF Executed(o) /\ counter[addr[r]] > 0
                 THEN [expiry EXCEPT ![addr[r]] = now + Window] ELSE expiry
    /\ orphans' = IF Executed(o) THEN orphans \ {addr[r]}
                  ELSE IF expiry[addr[r]] = Never THEN orphans \cup {addr[r]} ELSE orphans
    /\ Decide(r, n[r])
    /\ UNCHANGED <<now, epoch, addr, n, counter, sketch, flagged, seq, mem, position,
                   grants, reports, missed, skipped>>

-----------------------------------------------------------------------------
(* CallerTracker.Observe *)

\* Slip: one caller later.
CrossesAbove(d, c) == Cardinality(sketch[d] \cup {c}) > Threshold

Crosses(d, c) == Cardinality(sketch[d] \cup {c}) >= Threshold

\* PFADD, EXPIRE and PFCOUNT in one transaction; only a caller that is new to
\* the sketch goes on to the flag. The sketch counts a handful of callers
\* exactly.
Observe(r, o) ==
    LET c == addr[r]  d == day[r]
        new == c \notin sketch[d] IN
    /\ at[r] = "observe"
    /\ Outcome(o)
    /\ sketch' = IF Executed(o) THEN [sketch EXCEPT ![d] = @ \cup {c}] ELSE sketch
    /\ Go(r, IF o = "ok" /\ new /\ Crosses(d, c) THEN "flag" ELSE "position")
    /\ missed' = IF o = "lost" /\ new THEN missed \cup {d} ELSE missed
    /\ UNCHANGED <<now, epoch, addr, day, n, counter, expiry, flagged, seq, mem, position,
                   grants, orphans, reports, skipped>>

\* Slip: a flag that is already there counts as set.
FirstFlagAny(d) == TRUE

FirstFlag(d) == d \notin flagged

\* SETNX; its error reads as "not crossed".
Flag(r, o) ==
    /\ at[r] = "flag"
    /\ Outcome(o)
    /\ flagged' = IF Executed(o) THEN flagged \cup {day[r]} ELSE flagged
    /\ reports' = IF o = "ok" /\ FirstFlag(day[r])
                  THEN [reports EXCEPT ![day[r]] = @ + 1] ELSE reports
    /\ missed' = IF o = "unreached" THEN missed \cup {day[r]} ELSE missed
    /\ Go(r, "position")
    /\ UNCHANGED <<now, epoch, addr, day, n, counter, expiry, sketch, seq, mem, position,
                   grants, orphans, skipped>>

-----------------------------------------------------------------------------
(* SeqCounter.Next *)

\* Slip: the answer's value is used whatever the error says.
PositionIgnoresError(o) == [from |-> "redis", pos |-> IF Executed(o) THEN seq ELSE -1]

PositionOf(o) ==
    IF o = "ok" THEN [from |-> "redis", pos |-> seq] ELSE [from |-> "memory", pos |-> mem]

\* INCR and EXPIRE in one transaction; any error falls back to the process.
Position(r, o) ==
    /\ at[r] = "position"
    /\ Outcome(o)
    /\ seq' = IF Executed(o) THEN seq + 1 ELSE seq
    /\ mem' = IF o = "ok" THEN mem ELSE mem + 1
    /\ position' = [position EXCEPT ![r] = PositionOf(o)]
    /\ skipped' = IF o = "lost" THEN skipped \cup {seq} ELSE skipped
    /\ Go(r, "done")
    /\ UNCHANGED <<now, epoch, addr, day, n, counter, expiry, sketch, flagged,
                   grants, orphans, reports, missed>>

-----------------------------------------------------------------------------
(* Redis and the clock *)

Tick ==
    /\ now < MaxTime
    /\ now' = now + 1
    /\ counter' = [a \in Addr |-> IF expiry[a] = now + 1 THEN 0 ELSE counter[a]]
    /\ expiry' = [a \in Addr |-> IF expiry[a] = now + 1 THEN Never ELSE expiry[a]]
    /\ UNCHANGED <<faults, epoch, at, addr, day, n, sketch, flagged, seq, mem, position, history>>

\* Redis comes back empty. The history of what it held ends with it.
Restart ==
    /\ epoch < MaxRestarts
    /\ epoch' = epoch + 1
    /\ counter' = [a \in Addr |-> 0] /\ expiry' = [a \in Addr |-> Never]
    /\ sketch' = [d \in Day |-> {}] /\ flagged' = {}
    /\ seq' = 0
    /\ position' = [r \in Request |-> IF position[r].from = "redis" THEN NoPosition ELSE position[r]]
    /\ grants' = {} /\ orphans' = {} /\ missed' = {} /\ skipped' = {}
    /\ reports' = [d \in Day |-> 0]
    /\ UNCHANGED <<now, faults, at, addr, day, n, mem>>

Step(r) == \E o \in Outcomes :
    \/ \E a \in Addr : Allow(r, a, o)
    \/ SetExpiry(r, o) \/ Observe(r, o) \/ Flag(r, o) \/ Position(r, o)

Next == (\E r \in Request : Step(r)) \/ Tick \/ Restart

Spec == Init /\ [][Next]_vars

-----------------------------------------------------------------------------
(* Invariants *)

\* Type correctness.
TypeOK ==
    /\ now \in 0 .. MaxTime /\ faults \in 0 .. MaxFaults /\ epoch \in 0 .. MaxRestarts
    /\ at \in [Request -> {"new", "expire", "denied", "observe", "flag", "position", "done"}]
    /\ addr \in [Request -> Addr \cup {NoAddr}] /\ day \in [Request -> Day]
    /\ n \in [Request -> Nat] /\ counter \in [Addr -> Nat] /\ expiry \in [Addr -> Nat \cup {Never}]
    /\ sketch \in [Day -> SUBSET Addr] /\ flagged \subseteq Day
    /\ seq \in Nat /\ mem \in Nat
    /\ position \in [Request -> [from : {"none", "redis", "memory"}, pos : Nat]]
    /\ grants \subseteq [who : Addr, by : Request, time : 0 .. MaxTime]
    /\ orphans \subseteq Addr /\ missed \subseteq Day /\ skipped \subseteq Nat
    /\ reports \in [Day -> Nat]

\* A fixed window lets an address through twice its limit around a boundary and
\* never more, however late the EXPIRE of the first request comes: a counter
\* lives for a window at least.
BurstBounded ==
    \A a \in Addr, t \in 0 .. MaxTime :
        Cardinality({g \in grants : g.who = a /\ g.time \in t .. t + Window - 1}) =< 2 * Limit

\* A counter without an expiry would deny its address for ever: some request is
\* about to set it, or the call that should have failed and the next request
\* that Redis answers sets it.
CounterHasHorizon ==
    \A a \in Addr : counter[a] > 0 =>
        \/ expiry[a] # Never /\ expiry[a] =< now + Window
        \/ expiry[a] = Never /\ (a \in orphans \/ \E r \in Request : at[r] = "expire" /\ addr[r] = a)

\* A day that reached the threshold is flagged, unless a call of a new caller
\* failed or is still to come; and the mock is reported once a day at most, also
\* when two callers cross at the same time (until Redis loses its flags).
ReportedOnce ==
    \A d \in Day :
        /\ Cardinality(sketch[d]) >= Threshold =>
              \/ d \in flagged \cup missed
              \/ \E r \in Request : at[r] = "flag" /\ day[r] = d
        /\ reports[d] =< 1

\* No two hits get the same position from the same counter, and Redis gives each
\* position below its value to one hit, or to an answer that was lost: between
\* failures the sequence neither repeats nor skips a step.
PositionsExact ==
    /\ \A r, s \in Request : r # s /\ position[r] = position[s] => position[r] = NoPosition
    /\ {position[r].pos : r \in {q \in Request : position[q].from = "redis"}} \cup skipped
           = 0 .. seq - 1

=============================================================================
