--------------------------- MODULE Traffic_proofs ---------------------------
(***************************************************************************)
(* Theorems about Traffic, for any number of requests, addresses, faults   *)
(* and restarts of Redis, and any limit, window, threshold and day.        *)
(***************************************************************************)
EXTENDS Traffic, FiniteSetTheorems, TLAPS

-----------------------------------------------------------------------------
(* Type correctness *)

\* The constants, as numbers.
LEMMA Bounds ==
    /\ Limit \in Nat /\ Window \in Nat /\ Window > 0
    /\ Threshold \in Nat /\ Threshold > 0 /\ DayLength \in Nat /\ DayLength > 0
    /\ MaxTime \in Nat /\ MaxFaults \in Nat /\ MaxRestarts \in Nat
BY TrafficConstants

\* A later time is on no earlier day.
LEMMA DivIsMonotone ==
    ASSUME NEW a \in Nat, NEW b \in Nat, NEW d \in Nat, d > 0, a =< b
    PROVE  a \div d \in 0 .. (b \div d)
<1>1. /\ a \div d \in Nat /\ b \div d \in Nat
      /\ a = d * (a \div d) + (a % d) /\ b = d * (b \div d) + (b % d)
      /\ 0 =< a % d /\ b % d < d
    OBVIOUS
<1> DEFINE x == a \div d
           y == b \div d
<1> HIDE DEF x, y
<1>2. CASE x > y
    <2>1. x \in Nat /\ y \in Nat /\ d * x < d * y + d
        BY <1>1 DEF x, y
    <2>2. d * (y + 1) =< d * x
        BY <1>2, <2>1
    <2> QED
        BY <2>1, <2>2
<1> QED
    BY <1>1, <1>2 DEF x, y

\* Every request that has reached Redis has an address.
Typed == TypeOK /\ \A r \in Request : at[r] # "new" => addr[r] \in Addr

Places == {"new", "expire", "denied", "observe", "flag", "position", "done"}

\* Today is a day.
LEMMA TodayIsDay == ASSUME Typed PROVE Today \in Day
<1>1. now \in Nat /\ now =< MaxTime
    BY Bounds DEF Typed, TypeOK
<1>2. now \div DayLength \in 0 .. (MaxTime \div DayLength)
    BY <1>1, Bounds, DivIsMonotone
<1> QED
    BY <1>2 DEF Today, Day

\* A call that fails is within the bound.
LEMMA OutcomeType ==
    ASSUME Typed, NEW o, Outcome(o)
    PROVE  faults' \in 0 .. MaxFaults
BY Bounds DEF Typed, TypeOK, Outcome

\* What Decide does to its request, which is past the limiter or denied.
LEMMA DecideType ==
    ASSUME Typed, NEW r \in Request, NEW c, Decide(r, c)
    PROVE  /\ day' \in [Request -> Day]
           /\ \E to \in {"observe", "denied"} : at' = [at EXCEPT ![r] = to]
BY TodayIsDay DEF Typed, TypeOK, Decide, Go

\* A request keeps its address once it has one.
LEMMA AddrKept ==
    ASSUME Typed, NEW r \in Request, addr[r] \in Addr, UNCHANGED addr,
           NEW to \in Places, Go(r, to)
    PROVE  /\ at' \in [Request -> Places]
           /\ \A q \in Request : at'[q] # "new" => addr'[q] \in Addr
BY DEF Typed, TypeOK, Go, Places

\* Allow keeps the types.
LEMMA AllowTyped ==
    ASSUME Typed, NEW r \in Request, NEW a \in Addr, NEW o \in Outcomes, Allow(r, a, o)
    PROVE  Typed'
<1> USE DEF Typed, TypeOK
<1>1. counter[a] + 1 \in Nat
    OBVIOUS
<1>2. counter' \in [Addr -> Nat] /\ n' \in [Request -> Nat]
    BY <1>1 DEF Allow
<1>3. day' \in [Request -> Day] /\ \E to \in Places : at' = [at EXCEPT ![r] = to]
    <2>1. CASE o # "ok" \/ NeedsExpire(a)
        BY <2>1, TodayIsDay DEF Allow, Go, Places
    <2>2. CASE ~(o # "ok" \/ NeedsExpire(a))
        <3>1. Decide(r, counter[a] + 1)
            BY <2>2 DEF Allow
        <3> QED
            BY <3>1, DecideType DEF Places
    <2> QED
        BY <2>1, <2>2
<1>4. /\ addr' \in [Request -> Addr \cup {NoAddr}] /\ at' \in [Request -> Places]
      /\ \A q \in Request : at'[q] # "new" => addr'[q] \in Addr
    BY <1>3 DEF Allow, Places
<1>5. faults' \in 0 .. MaxFaults
    BY OutcomeType DEF Allow
<1>6. grants' \subseteq [who : Addr, by : Request, time : 0 .. MaxTime] /\ orphans' \subseteq Addr
    BY DEF Allow
<1>7. UNCHANGED <<now, epoch, expiry, sketch, flagged, seq, mem, position, reports, missed,
                  skipped>>
    BY DEF Allow
<1> QED
    BY <1>2, <1>3, <1>4, <1>5, <1>6, <1>7 DEF Places

\* SetExpiry keeps the types.
LEMMA SetExpiryTyped ==
    ASSUME Typed, NEW r \in Request, NEW o \in Outcomes, SetExpiry(r, o)
    PROVE  Typed'
<1> USE DEF Typed, TypeOK
<1>1. now + Window \in Nat /\ addr[r] \in Addr /\ UNCHANGED addr
    BY Bounds DEF SetExpiry
<1>2. expiry' \in [Addr -> Nat \cup {Never}] /\ orphans' \subseteq Addr
    BY <1>1 DEF SetExpiry
<1>3. day' \in [Request -> Day] /\ \E to \in {"observe", "denied"} : at' = [at EXCEPT ![r] = to]
    BY DecideType DEF SetExpiry
<1>4. /\ at' \in [Request -> Places]
      /\ \A q \in Request : at'[q] # "new" => addr'[q] \in Addr
    BY <1>1, <1>3, AddrKept DEF Go, Places
<1>5. faults' \in 0 .. MaxFaults
    BY OutcomeType DEF SetExpiry
<1>6. UNCHANGED <<now, epoch, addr, n, counter, sketch, flagged, seq, mem, position, grants,
                  reports, missed, skipped>>
    BY DEF SetExpiry
<1> QED
    BY <1>2, <1>3, <1>4, <1>5, <1>6 DEF Places

\* The calls of CallerTracker and SeqCounter keep the types.
LEMMA RestTyped ==
    ASSUME Typed, NEW r \in Request, NEW o \in Outcomes,
           Observe(r, o) \/ Flag(r, o) \/ Position(r, o)
    PROVE  Typed'
<1> USE DEF Typed, TypeOK
<1>1. addr[r] \in Addr /\ UNCHANGED addr /\ day[r] \in Day
    BY DEF Observe, Flag, Position
<1>2. faults' \in 0 .. MaxFaults
    BY OutcomeType DEF Observe, Flag, Position
<1>3. \E to \in Places : Go(r, to)
    BY DEF Observe, Flag, Position, Places
<1>4. /\ at' \in [Request -> Places]
      /\ \A q \in Request : at'[q] # "new" => addr'[q] \in Addr
    BY <1>1, <1>3, AddrKept
<1>5. CASE Observe(r, o)
    BY <1>1, <1>2, <1>4, <1>5 DEF Observe, Places
<1>6. CASE Flag(r, o)
    <2>1. reports[day[r]] + 1 \in Nat
        BY <1>1
    <2>2. reports' \in [Day -> Nat] /\ flagged' \subseteq Day /\ missed' \subseteq Day
        BY <1>1, <1>6, <2>1 DEF Flag
    <2> QED
        BY <1>2, <1>4, <1>6, <2>2 DEF Flag, Places
<1>7. CASE Position(r, o)
    <2>1. PositionOf(o) \in [from : {"none", "redis", "memory"}, pos : Nat]
        BY DEF PositionOf
    <2>2. position' \in [Request -> [from : {"none", "redis", "memory"}, pos : Nat]]
        BY <1>7, <2>1 DEF Position
    <2>3. seq' \in Nat /\ mem' \in Nat /\ skipped' \subseteq Nat
        BY <1>7 DEF Position
    <2> QED
        BY <1>2, <1>4, <1>7, <2>2, <2>3 DEF Position, Places
<1> QED
    BY <1>5, <1>6, <1>7

\* Every step keeps the types.
LEMMA TypeStep == Typed /\ [Next]_vars => Typed'
<1> SUFFICES ASSUME Typed, [Next]_vars PROVE Typed'
    OBVIOUS
<1>1. ASSUME NEW r \in Request, Step(r) PROVE Typed'
    BY <1>1, AllowTyped, SetExpiryTyped, RestTyped DEF Step
<1>2. CASE Tick
    <2>1. now' \in 0 .. MaxTime
        BY <1>2, Bounds DEF Tick, Typed, TypeOK
    <2>2. counter' \in [Addr -> Nat] /\ expiry' \in [Addr -> Nat \cup {Never}]
        BY <1>2 DEF Tick, Typed, TypeOK
    <2> QED
        BY <1>2, <2>1, <2>2 DEF Tick, Typed, TypeOK, history
<1>3. CASE Restart
    <2>1. epoch' \in 0 .. MaxRestarts
        BY <1>3, Bounds DEF Restart, Typed, TypeOK
    <2>2. /\ counter' \in [Addr -> Nat] /\ expiry' \in [Addr -> Nat \cup {Never}]
          /\ sketch' \in [Day -> SUBSET Addr] /\ reports' \in [Day -> Nat]
        BY <1>3 DEF Restart
    <2>3. position' \in [Request -> [from : {"none", "redis", "memory"}, pos : Nat]]
        BY <1>3 DEF Restart, NoPosition, Typed, TypeOK
    <2> QED
        BY <1>3, <2>1, <2>2, <2>3 DEF Restart, Typed, TypeOK
<1>4. CASE UNCHANGED vars
    BY <1>4 DEF vars, redisVars, history, Typed, TypeOK
<1> QED
    BY <1>1, <1>2, <1>3, <1>4 DEF Next

\* Runs start well typed.
LEMMA InitTyped == Init => Typed
<1> SUFFICES ASSUME Init PROVE Typed
    OBVIOUS
<1>1. 0 \in 0 .. MaxTime /\ 0 \in 0 .. MaxFaults /\ 0 \in 0 .. MaxRestarts
    BY Bounds
<1>2. 0 \in Day
    BY Bounds, DivIsMonotone DEF Day
<1>3. NoPosition \in [from : {"none", "redis", "memory"}, pos : Nat]
    BY DEF NoPosition
<1> QED
    BY <1>1, <1>2, <1>3 DEF Init, Typed, TypeOK

\* The types hold in every state.
THEOREM TypeCorrect == Spec => []TypeOK
<1>1. Typed => TypeOK
    BY DEF Typed
<1> QED
    BY <1>1, InitTyped, TypeStep, PTL DEF Spec


-----------------------------------------------------------------------------
(* The limiter's counter *)

\* Somebody is about to set the address's expiry, or a failed call owes it.
Owed(a) == a \in orphans \/ \E q \in Request : at[q] = "expire" /\ addr[q] = a

\* A key has no more than a window to live, or its expiry is owed.
Key(a) ==
    /\ expiry[a] # Never => expiry[a] =< now + Window
    /\ expiry[a] = Never => counter[a] = 0 \/ Owed(a)

Keys == \A a \in Addr : Key(a)

\* A request that is not at its EXPIRE owes nothing.
LEMMA OwedKept ==
    ASSUME Typed, NEW r \in Request, at[r] # "expire", orphans \subseteq orphans',
           \A q \in Request \ {r} : at'[q] = at[q] /\ addr'[q] = addr[q]
    PROVE  \A b \in Addr : Owed(b) => Owed(b)'
BY DEF Owed

\* Allow counts, and remembers a key without an expiry.
LEMMA AllowKeys ==
    ASSUME Typed, Keys, NEW r \in Request, NEW a \in Addr, NEW o \in Outcomes, Allow(r, a, o)
    PROVE  Keys'
<1> SUFFICES ASSUME NEW b \in Addr PROVE Key(b)'
    BY DEF Keys
<1>1. /\ UNCHANGED <<now, expiry>> /\ orphans \subseteq orphans' /\ at[r] = "new"
      /\ \A q \in Request \ {r} : at'[q] = at[q] /\ addr'[q] = addr[q]
    BY DEF Allow, Decide, Go, Typed, TypeOK
<1>2. Owed(b) => Owed(b)'
    BY <1>1, OwedKept
<1>3. CASE a # b \/ o = "unreached" \/ expiry[b] # Never
    <2>1. counter'[b] = counter[b] \/ expiry[b] # Never
        BY <1>3 DEF Allow, Executed, Typed, TypeOK
    <2> QED
        BY <1>1, <1>2, <2>1 DEF Keys, Key
<1>4. CASE a = b /\ o = "lost" /\ expiry[b] = Never
    BY <1>1, <1>4 DEF Allow, Key, Owed
<1>5. CASE a = b /\ o = "ok" /\ expiry[b] = Never
    <2>1. at'[r] = "expire" /\ addr'[r] = b
        BY <1>5 DEF Allow, NeedsExpire, Go, Typed, TypeOK
    <2> QED
        BY <1>1, <1>5, <2>1 DEF Key, Owed
<1> QED
    BY <1>3, <1>4, <1>5 DEF Outcomes

\* EXPIRE sets it, or its failure is remembered.
LEMMA SetExpiryKeys ==
    ASSUME Typed, Keys, NEW r \in Request, NEW o \in Outcomes, SetExpiry(r, o)
    PROVE  Keys'
<1> SUFFICES ASSUME NEW b \in Addr PROVE Key(b)'
    BY DEF Keys
<1> DEFINE a == addr[r]
<1>1. /\ UNCHANGED <<now, counter, addr>> /\ at[r] = "expire" /\ a \in Addr
      /\ \A q \in Request \ {r} : at'[q] = at[q]
      /\ now \in Nat /\ Window \in Nat /\ counter[a] \in Nat
    BY Bounds DEF SetExpiry, Decide, Go, Typed, TypeOK
<1>2. CASE b # a
    <2>1. expiry'[b] = expiry[b] /\ (b \in orphans => b \in orphans')
        BY <1>1, <1>2 DEF SetExpiry, Typed, TypeOK
    <2>2. Owed(b) => Owed(b)'
        BY <1>1, <1>2, <2>1 DEF Owed
    <2> QED
        BY <1>1, <2>1, <2>2 DEF Keys, Key
<1>3. CASE b = a /\ Executed(o)
    <2>1. CASE counter[a] > 0
        <3>1. expiry'[a] = now + Window
            BY <1>1, <1>3, <2>1 DEF SetExpiry, Typed, TypeOK
        <3>2. now + Window # Never /\ now + Window =< now + Window
            BY <1>1 DEF Never
        <3> QED
            BY <1>1, <1>3, <3>1, <3>2 DEF Key
    <2>2. CASE ~(counter[a] > 0)
        <3>1. counter[a] = 0 /\ expiry' = expiry
            BY <1>1, <2>2 DEF SetExpiry
        <3> QED
            BY <1>1, <1>3, <3>1 DEF Keys, Key
    <2> QED
        BY <2>1, <2>2
<1>4. CASE b = a /\ ~Executed(o)
    <2>1. expiry' = expiry /\ (expiry[a] = Never => a \in orphans')
        BY <1>4 DEF SetExpiry
    <2> QED
        BY <1>1, <1>4, <2>1 DEF Keys, Key, Owed
<1> QED
    BY <1>2, <1>3, <1>4

\* Keys, over every step.
LEMMA KeysStep == Typed /\ Keys /\ [Next]_vars => Keys'
<1> SUFFICES ASSUME Typed, Keys, [Next]_vars PROVE Keys'
    OBVIOUS
<1>1. ASSUME NEW r \in Request, NEW o \in Outcomes, Observe(r, o) \/ Flag(r, o) \/ Position(r, o)
      PROVE  Keys'
    <2>1. /\ UNCHANGED <<now, counter, expiry, orphans, addr>> /\ at[r] # "expire"
          /\ \A q \in Request \ {r} : at'[q] = at[q]
        BY <1>1 DEF Observe, Flag, Position, Go, Typed, TypeOK
    <2> QED
        BY <2>1, OwedKept DEF Keys, Key
<1>2. CASE Tick
    <2> SUFFICES ASSUME NEW b \in Addr PROVE Key(b)'
        BY DEF Keys
    <2>1. /\ now' = now + 1 /\ now \in Nat /\ Window \in Nat /\ UNCHANGED <<orphans, at, addr>>
          /\ expiry[b] \in Nat \cup {Never}
        BY <1>2, Bounds DEF Tick, history, Typed, TypeOK
    <2>2. Owed(b)' <=> Owed(b)
        BY <2>1 DEF Owed
    <2>3. CASE expiry[b] = now + 1
        <3>1. counter'[b] = 0 /\ expiry'[b] = Never
            BY <1>2, <2>3 DEF Tick
        <3> QED
            BY <3>1 DEF Key
    <2>4. CASE expiry[b] # now + 1
        <3>1. counter'[b] = counter[b] /\ expiry'[b] = expiry[b]
            BY <1>2, <2>4 DEF Tick
        <3>2. expiry[b] # Never /\ expiry[b] =< now + Window => expiry[b] =< (now + 1) + Window
            BY <2>1 DEF Never
        <3> QED
            BY <2>1, <2>2, <3>1, <3>2 DEF Keys, Key
    <2> QED
        BY <2>3, <2>4
<1>3. CASE Restart
    BY <1>3 DEF Restart, Keys, Key
<1>4. CASE UNCHANGED vars
    BY <1>4 DEF vars, redisVars, history, Keys, Key, Owed
<1> QED
    BY <1>1, <1>2, <1>3, <1>4, AllowKeys, SetExpiryKeys DEF Next, Step

\* No counter outlives its window unless a call to Redis failed: not between
\* INCR and EXPIRE, not when the key expires or Redis restarts in between.
THEOREM CounterExpires == Spec => []CounterHasHorizon
<1>1. Init => Keys
    BY DEF Init, Keys, Key
<1>2. Typed /\ Keys => CounterHasHorizon
    BY DEF Typed, TypeOK, Keys, Key, Owed, CounterHasHorizon
<1> QED
    BY <1>1, <1>2, InitTyped, TypeStep, KeysStep, PTL DEF Spec


-----------------------------------------------------------------------------
(* The distinct callers of a day *)

\* Somebody is about to set the day's flag.
Crossing(d) == \E q \in Request : at[q] = "flag" /\ day[q] = d

\* A day over the threshold is flagged, or will be, or a call failed; it is
\* reported by the request that set the flag and by no other.
Flags == \A d \in Day :
    /\ Cardinality(sketch[d]) >= Threshold => d \in flagged \cup missed \/ Crossing(d)
    /\ reports[d] = 0 \/ (reports[d] = 1 /\ d \in flagged)

\* A step of a request that is not at its flag, and leaves the sketch alone.
LEMMA FlagsKept ==
    ASSUME Typed, Flags, NEW r \in Request, at[r] # "flag",
           UNCHANGED <<sketch, flagged, missed, reports>>,
           \A q \in Request \ {r} : at'[q] = at[q] /\ day'[q] = day[q]
    PROVE  Flags'
BY DEF Flags, Crossing

\* Observe: a caller that is new and crosses goes on to the flag.
LEMMA ObserveFlags ==
    ASSUME Typed, Flags, NEW r \in Request, NEW o \in Outcomes, Observe(r, o)
    PROVE  Flags'
<1> SUFFICES ASSUME NEW e \in Day
             PROVE  /\ Cardinality(sketch'[e]) >= Threshold =>
                         e \in flagged' \cup missed' \/ Crossing(e)'
                    /\ reports'[e] = 0 \/ (reports'[e] = 1 /\ e \in flagged')
    BY DEF Flags
<1> DEFINE d == day[r]
           c == addr[r]
<1>1. /\ UNCHANGED <<flagged, reports, day>> /\ missed \subseteq missed' /\ at[r] = "observe"
      /\ d \in Day /\ \A q \in Request \ {r} : at'[q] = at[q]
      /\ sketch[d] \cup {c} # sketch[d] => c \notin sketch[d]
    BY DEF Observe, Go, Typed, TypeOK
<1>2. Crossing(e) => Crossing(e)'
    BY <1>1 DEF Crossing
<1>3. CASE sketch'[e] = sketch[e]
    BY <1>1, <1>2, <1>3 DEF Flags
<1>4. CASE sketch'[e] # sketch[e]
    <2>1. e = d /\ o # "unreached" /\ c \notin sketch[d] /\ sketch'[d] = sketch[d] \cup {c}
        BY <1>1, <1>4 DEF Observe, Executed, Typed, TypeOK
    <2>2. CASE o = "lost"
        BY <1>1, <2>1, <2>2 DEF Observe, Flags
    <2>3. CASE o = "ok" /\ Crosses(d, c)
        <3>1. at'[r] = "flag" /\ day'[r] = d
            BY <1>1, <2>1, <2>3 DEF Observe, Go, Typed, TypeOK
        <3>2. Crossing(d)'
            BY <3>1 DEF Crossing
        <3> QED
            BY <1>1, <2>1, <3>2 DEF Flags
    <2>4. CASE o = "ok" /\ ~Crosses(d, c)
        BY <1>1, <2>1, <2>4 DEF Crosses, Flags
    <2> QED
        BY <2>1, <2>2, <2>3, <2>4 DEF Outcomes
<1> QED
    BY <1>3, <1>4

\* Flag: whoever finds it free reports the day, and nobody after.
LEMMA FlagFlags ==
    ASSUME Typed, Flags, NEW r \in Request, NEW o \in Outcomes, Flag(r, o)
    PROVE  Flags'
<1> SUFFICES ASSUME NEW e \in Day
             PROVE  /\ Cardinality(sketch'[e]) >= Threshold =>
                         e \in flagged' \cup missed' \/ Crossing(e)'
                    /\ reports'[e] = 0 \/ (reports'[e] = 1 /\ e \in flagged')
    BY DEF Flags
<1> DEFINE d == day[r]
<1>1. /\ UNCHANGED <<sketch, day>> /\ d \in flagged' \cup missed' /\ d \in Day
      /\ flagged \subseteq flagged' /\ missed \subseteq missed'
      /\ \A q \in Request \ {r} : at'[q] = at[q]
    BY DEF Flag, Go, Executed, Outcomes, Typed, TypeOK
<1>2. Crossing(e) => e = d \/ Crossing(e)'
    BY <1>1 DEF Crossing
<1>3. reports'[e] = 0 \/ (reports'[e] = 1 /\ e \in flagged')
    <2>1. CASE o = "ok" /\ d \notin flagged /\ e = d
        <3>1. reports[d] = 0
            BY <1>1, <2>1 DEF Flags
        <3>2. reports'[d] = reports[d] + 1 /\ d \in flagged'
            BY <1>1, <2>1 DEF Flag, FirstFlag, Executed, Typed, TypeOK
        <3> QED
            BY <2>1, <3>1, <3>2
    <2>2. CASE ~(o = "ok" /\ d \notin flagged /\ e = d)
        <3>1. reports'[e] = reports[e]
            BY <1>1, <2>2 DEF Flag, FirstFlag, Typed, TypeOK
        <3> QED
            BY <1>1, <3>1 DEF Flags
    <2> QED
        BY <2>1, <2>2
<1> QED
    BY <1>1, <1>2, <1>3 DEF Flags

\* Flags, over every step.
LEMMA FlagsStep == Typed /\ Flags /\ [Next]_vars => Flags'
<1> SUFFICES ASSUME Typed, Flags, [Next]_vars PROVE Flags'
    OBVIOUS
<1>1. ASSUME NEW r \in Request, NEW a \in Addr, NEW o \in Outcomes,
             Allow(r, a, o)
      PROVE  Flags'
    <2>1. at[r] # "flag" /\ UNCHANGED <<sketch, flagged, missed, reports>>
        BY <1>1 DEF Allow
    <2>2. \A q \in Request \ {r} : at'[q] = at[q] /\ day'[q] = day[q]
        BY <1>1 DEF Allow, Decide, Go, Typed, TypeOK
    <2> QED
        BY <2>1, <2>2, FlagsKept
<1>2. ASSUME NEW r \in Request, NEW o \in Outcomes, SetExpiry(r, o) \/ Position(r, o)
      PROVE  Flags'
    <2>1. at[r] # "flag" /\ UNCHANGED <<sketch, flagged, missed, reports>>
        BY <1>2 DEF SetExpiry, Position
    <2>2. \A q \in Request \ {r} : at'[q] = at[q] /\ day'[q] = day[q]
        BY <1>2 DEF SetExpiry, Position, Decide, Go, Typed, TypeOK
    <2> QED
        BY <2>1, <2>2, FlagsKept
<1>3. CASE Tick \/ UNCHANGED vars
    <2>1. UNCHANGED <<at, day, sketch, flagged, missed, reports>>
        BY <1>3 DEF Tick, vars, redisVars, history
    <2> QED
        BY <2>1 DEF Flags, Crossing
<1>4. CASE Restart
    <2>1. \A d \in Day : sketch'[d] = {} /\ reports'[d] = 0
        BY <1>4 DEF Restart
    <2>2. ~(Cardinality({}) >= Threshold)
        BY Bounds, FS_EmptySet
    <2> QED
        BY <2>1, <2>2 DEF Flags
<1> QED
    BY <1>1, <1>2, <1>3, <1>4, ObserveFlags, FlagFlags DEF Next, Step

\* Callers that cross the threshold together report the mock once, and none is
\* overlooked unless a call of a new caller failed.
THEOREM ReportedOnceADay == Spec => []ReportedOnce
<1>1. Init => Flags
    <2>1. ~(Cardinality({}) >= Threshold)
        BY Bounds, FS_EmptySet
    <2> QED
        BY <2>1 DEF Init, Flags
<1>2. Flags => ReportedOnce
    BY DEF Flags, Crossing, ReportedOnce
<1> QED
    BY <1>1, <1>2, InitTyped, TypeStep, FlagsStep, PTL DEF Spec

-----------------------------------------------------------------------------
(* The positions of the sequence *)

FromRedis == {q \in Request : position[q].from = "redis"}

\* A position is taken once, by a hit that is done, and is below its counter.
Positions ==
    /\ \A r \in Request :
          /\ at[r] # "done" => position[r] = NoPosition
          /\ position[r].from = "none" => position[r] = NoPosition
          /\ position[r].from = "redis" => position[r].pos < seq
          /\ position[r].from = "memory" => position[r].pos < mem
    /\ PositionsExact

\* A hit takes the next position of one of the two counters.
LEMMA PositionTaken ==
    ASSUME Typed, Positions, NEW r \in Request, NEW o \in Outcomes, Position(r, o)
    PROVE  Positions'
<1> DEFINE P == PositionOf(o)
<1>0. /\ seq \in Nat /\ mem \in Nat /\ position[r] = NoPosition /\ position'[r] = P
      /\ \A q \in Request \ {r} : position'[q] = position[q] /\ at'[q] = at[q]
      /\ \A q \in Request : position[q].pos \in Nat
      /\ at'[r] = "done"
    BY DEF Position, Go, Positions, Typed, TypeOK
<1>1. /\ o = "ok" => P.from = "redis" /\ P.pos = seq /\ seq' = seq + 1 /\ mem' = mem
      /\ o = "lost" => P.from = "memory" /\ P.pos = mem /\ seq' = seq + 1 /\ mem' = mem + 1
      /\ o = "unreached" => P.from = "memory" /\ P.pos = mem /\ seq' = seq /\ mem' = mem + 1
    BY DEF PositionOf, Position, Executed
<1>2. \A q \in Request \ {r} : position'[q] # P
    BY <1>0, <1>1 DEF Positions, Outcomes
<1>3. \A q \in Request :
          /\ at'[q] # "done" => position'[q] = NoPosition
          /\ position'[q].from = "none" => position'[q] = NoPosition
    BY <1>0, <1>1 DEF Positions, Outcomes
<1>4. \A q \in Request :
          /\ position'[q].from = "redis" => position'[q].pos < seq'
          /\ position'[q].from = "memory" => position'[q].pos < mem'
    <2> SUFFICES ASSUME NEW q \in Request
                 PROVE  /\ position'[q].from = "redis" => position'[q].pos < seq'
                        /\ position'[q].from = "memory" => position'[q].pos < mem'
        OBVIOUS
    <2>1. CASE q = r
        BY <1>0, <1>1, <2>1 DEF Outcomes
    <2>2. CASE q # r
        <3>1. /\ position'[q] = position[q] /\ position[q].pos \in Nat
              /\ position[q].from = "redis" => position[q].pos < seq
              /\ position[q].from = "memory" => position[q].pos < mem
            BY <1>0, <2>2 DEF Positions
        <3>2. seq' \in {seq, seq + 1} /\ mem' \in {mem, mem + 1}
            BY <1>1 DEF Outcomes
        <3> QED
            BY <1>0, <3>1, <3>2
    <2> QED
        BY <2>1, <2>2
<1>5. \A q, t \in Request : q # t /\ position'[q] = position'[t] => position'[q] = NoPosition
    BY <1>0, <1>2 DEF Positions, PositionsExact
<1>6. {position'[q].pos : q \in FromRedis'} \cup skipped' = 0 .. seq' - 1
    <2>1. {position[q].pos : q \in FromRedis} \cup skipped = 0 .. seq - 1
        BY DEF Positions, PositionsExact, FromRedis
    <2>2. r \notin FromRedis
        BY <1>0 DEF FromRedis, NoPosition
    <2>3. CASE o = "ok"
        <3>1. FromRedis' = FromRedis \cup {r} /\ skipped' = skipped
            BY <1>0, <1>1, <2>3 DEF FromRedis, Position
        <3>2. {position'[q].pos : q \in FromRedis'} = {position[q].pos : q \in FromRedis} \cup {seq}
            BY <1>0, <1>1, <2>2, <2>3, <3>1 DEF FromRedis
        <3>3. 0 .. seq' - 1 = (0 .. seq - 1) \cup {seq}
            BY <1>0, <1>1, <2>3
        <3> QED
            BY <2>1, <3>1, <3>2, <3>3
    <2>4. CASE o # "ok"
        <3>1. FromRedis' = FromRedis
            BY <1>0, <1>1, <2>2, <2>4 DEF FromRedis, Outcomes
        <3>2. {position'[q].pos : q \in FromRedis'} = {position[q].pos : q \in FromRedis}
            BY <1>0, <2>2, <3>1 DEF FromRedis
        <3>3. CASE o = "lost"
            <4>1. skipped' = skipped \cup {seq}
                BY <3>3 DEF Position
            <4>2. 0 .. seq' - 1 = (0 .. seq - 1) \cup {seq}
                BY <1>0, <1>1, <3>3
            <4> QED
                BY <2>1, <3>2, <4>1, <4>2
        <3>4. CASE o = "unreached"
            BY <1>1, <2>1, <3>2, <3>4 DEF Position
        <3> QED
            BY <2>4, <3>3, <3>4 DEF Outcomes
    <2> QED
        BY <2>3, <2>4
<1> QED
    BY <1>3, <1>4, <1>5, <1>6 DEF Positions, PositionsExact, FromRedis

\* Positions, over every step.
LEMMA PositionsStep == Typed /\ Positions /\ [Next]_vars => Positions'
<1> SUFFICES ASSUME Typed, Positions, [Next]_vars PROVE Positions'
    OBVIOUS
<1>1. ASSUME NEW r \in Request, NEW a \in Addr, NEW o \in Outcomes,
             Allow(r, a, o)
      PROVE  Positions'
    <2>1. UNCHANGED <<position, seq, mem, skipped>>
        BY <1>1 DEF Allow
    <2>2. at[r] # "done" /\ \A q \in Request \ {r} : at'[q] = at[q]
        BY <1>1 DEF Allow, Decide, Go, Typed, TypeOK
    <2> QED
        BY <2>1, <2>2 DEF Positions, PositionsExact
<1>2. ASSUME NEW r \in Request, NEW o \in Outcomes, SetExpiry(r, o) \/ Observe(r, o) \/ Flag(r, o)
      PROVE  Positions'
    <2>1. UNCHANGED <<position, seq, mem, skipped>>
        BY <1>2 DEF SetExpiry, Observe, Flag
    <2>2. at[r] # "done" /\ \A q \in Request \ {r} : at'[q] = at[q]
        BY <1>2 DEF SetExpiry, Observe, Flag, Decide, Go, Typed, TypeOK
    <2> QED
        BY <2>1, <2>2 DEF Positions, PositionsExact
<1>3. CASE Tick \/ UNCHANGED vars
    <2>1. UNCHANGED <<at, position, seq, mem, skipped>>
        BY <1>3 DEF Tick, vars, redisVars, history
    <2> QED
        BY <2>1 DEF Positions, PositionsExact
<1>4. CASE Restart
    <2>1. /\ \A q \in Request : position'[q] = IF position[q].from = "redis" THEN NoPosition
                                               ELSE position[q]
          /\ seq' = 0 /\ skipped' = {} /\ UNCHANGED <<at, mem>>
        BY <1>4 DEF Restart
    <2>2. NoPosition.from = "none" /\ NoPosition.pos = 0
        BY DEF NoPosition
    <2>3. {position'[q].pos : q \in FromRedis'} \cup skipped' = 0 .. seq' - 1
        <3>1. FromRedis' = {}
            BY <2>1, <2>2 DEF FromRedis
        <3> QED
            BY <2>1, <3>1
    <2>4. \A q, t \in Request : q # t /\ position'[q] = position'[t] => position'[q] = NoPosition
        BY <2>1 DEF Positions, PositionsExact
    <2>5. \A q \in Request :
              /\ at'[q] # "done" => position'[q] = NoPosition
              /\ position'[q].from = "none" => position'[q] = NoPosition
              /\ position'[q].from # "redis"
              /\ position'[q].from = "memory" => position'[q].pos < mem'
        BY <2>1, <2>2 DEF Positions
    <2> QED
        BY <2>3, <2>4, <2>5 DEF Positions, PositionsExact, FromRedis
<1> QED
    BY <1>1, <1>2, <1>3, <1>4, PositionTaken DEF Next, Step

\* Between failures the shared sequence neither repeats nor skips a position,
\* in any interleaving of hits; a failed call skips one and repeats none.
THEOREM SequenceExact == Spec => []PositionsExact
<1>1. Init => Positions
    <2> SUFFICES ASSUME Init PROVE Positions
        OBVIOUS
    <2>1. \A q \in Request : position[q] = NoPosition /\ position[q].from = "none"
        BY DEF Init, NoPosition
    <2>2. FromRedis = {} /\ seq = 0 /\ skipped = {} /\ 0 .. 0 - 1 = {}
        BY <2>1 DEF FromRedis, Init
    <2> QED
        BY <2>1, <2>2 DEF Init, Positions, PositionsExact, FromRedis
<1>2. Positions => PositionsExact
    BY DEF Positions
<1> QED
    BY <1>1, <1>2, InitTyped, TypeStep, PositionsStep, PTL DEF Spec

-----------------------------------------------------------------------------
(* The limiter's bursts *)

\* What an address was granted; of that, what lies in a window, or since a time.
Granted(a) == {g \in grants : g.who = a}
Within(G, t) == {g \in G : g.time \in t .. t + Window - 1}
Since(G, t) == {g \in G : g.time >= t}

\* The grants that the present key of a counts are C, all since born; the others
\* were counted by keys that expired by then. The present key lives for a window
\* at least, and so did the one before: of the older grants no more than Limit
\* are less than a window older than born.
Burst(a, born, C) ==
    LET O == Granted(a) \ C IN
    /\ C \subseteq Granted(a) /\ born \in 0 .. now
    /\ Cardinality(C) =< Limit /\ Cardinality(C) =< counter[a]
    /\ \A g \in C : born =< g.time
    /\ \A g \in O : g.time < born
    /\ expiry[a] # Never => born + Window =< expiry[a]
    /\ Cardinality(Since(O, born - Window + 1)) =< Limit
    /\ \A t \in 0 .. MaxTime : Cardinality(Within(O, t)) =< 2 * Limit

Bursts ==
    /\ IsFiniteSet(grants) /\ \A g \in grants : g.time =< now
    /\ \A a \in Addr : \E born, C : Burst(a, born, C)

\* Two sets together have no more members than both.
LEMMA UnionBound ==
    ASSUME NEW S, NEW T, IsFiniteSet(S), IsFiniteSet(T)
    PROVE  Cardinality(S \cup T) =< Cardinality(S) + Cardinality(T)
<1>1. S \cap T \subseteq S
    OBVIOUS
<1>2. IsFiniteSet(S \cap T) /\ Cardinality(S \cap T) \in Nat
    BY <1>1, FS_Subset, FS_CardinalityType
<1>3. Cardinality(S \cup T) = Cardinality(S) + Cardinality(T) - Cardinality(S \cap T)
    BY FS_Union
<1>4. Cardinality(S) \in Nat /\ Cardinality(T) \in Nat
    BY FS_CardinalityType
<1> QED
    BY <1>2, <1>3, <1>4

\* The numbers a burst is about.
LEMMA BurstTypes ==
    ASSUME Typed, Bursts, NEW a \in Addr
    PROVE  /\ now \in Nat /\ now =< MaxTime /\ MaxTime \in Nat /\ counter[a] \in Nat
           /\ Limit \in Nat /\ Window \in Nat /\ Window > 0
           /\ IsFiniteSet(Granted(a)) /\ \A g \in Granted(a) : g.time \in 0 .. MaxTime
<1>1. Granted(a) \subseteq grants /\ IsFiniteSet(grants)
    BY DEF Granted, Bursts
<1>2. IsFiniteSet(Granted(a))
    BY <1>1, FS_Subset
<1>3. now \in Nat /\ now =< MaxTime /\ counter[a] \in Nat
    BY Bounds DEF Typed, TypeOK
<1>4. \A g \in Granted(a) : g.time \in 0 .. MaxTime
    BY DEF Granted, Typed, TypeOK
<1> QED
    BY <1>2, <1>3, <1>4, Bounds

\* A window that begins near or after the birth of the key holds grants of this
\* key and of the one before; an earlier one holds grants of older keys only.
LEMMA WindowBounded ==
    ASSUME Typed, Bursts, NEW a \in Addr, NEW born, NEW C, Burst(a, born, C),
           NEW t \in 0 .. MaxTime
    PROVE  Cardinality(Within(Granted(a), t)) =< 2 * Limit
<1> DEFINE O == Granted(a) \ C
           N == Since(O, born - Window + 1)
<1>1. /\ now \in Nat /\ now =< MaxTime /\ MaxTime \in Nat /\ Limit \in Nat
      /\ Window \in Nat /\ Window > 0 /\ born \in Nat /\ t \in Nat
      /\ C \subseteq Granted(a) /\ \A g \in Granted(a) : g.time \in 0 .. MaxTime
    BY BurstTypes DEF Burst
<1>2. IsFiniteSet(Granted(a))
    BY BurstTypes
<1>3. CASE t + Window - 1 < born
    <2>1. \A g \in C : ~(g.time =< t + Window - 1)
        BY <1>1, <1>3 DEF Burst
    <2>2. Within(Granted(a), t) = Within(O, t)
        BY <1>1, <2>1 DEF Within
    <2> QED
        BY <2>2 DEF Burst
<1>4. CASE t + Window - 1 >= born
    <2>1. Within(Granted(a), t) \subseteq N \cup C
        BY <1>1, <1>4 DEF Within, Since
    <2>2. IsFiniteSet(C) /\ IsFiniteSet(N)
        <3>1. N \subseteq Granted(a)
            BY DEF Since
        <3> QED
            BY <1>1, <1>2, <3>1, FS_Subset
    <2>3. /\ IsFiniteSet(N \cup C)
          /\ Cardinality(N \cup C) =< Cardinality(N) + Cardinality(C)
        BY <2>2, UnionBound, FS_Union
    <2>4. /\ Cardinality(Within(Granted(a), t)) =< Cardinality(N \cup C)
          /\ Cardinality(Within(Granted(a), t)) \in Nat
        BY <2>1, <2>3, FS_Subset, FS_CardinalityType
    <2>5. Cardinality(N) =< Limit /\ Cardinality(C) =< Limit
        BY DEF Burst
    <2>6. Cardinality(N) \in Nat /\ Cardinality(C) \in Nat /\ Cardinality(N \cup C) \in Nat
        BY <2>2, <2>3, FS_CardinalityType
    <2> HIDE DEF N, O
    <2> QED
        BY <1>1, <2>3, <2>4, <2>5, <2>6
<1> QED
    BY <1>1, <1>3, <1>4

\* A step after which the key of a is the same, or has got its expiry a window
\* from now, and that grants a nothing.
LEMMA BurstKept ==
    ASSUME Typed, Bursts, NEW a \in Addr, NEW born, NEW C, Burst(a, born, C),
           UNCHANGED grants, now' \in {now, now + 1}, counter'[a] \in Nat, counter[a] =< counter'[a],
           expiry'[a] \in {expiry[a], Never, now + Window}
    PROVE  Burst(a, born, C)'
<1> USE DEF Burst
<1>1. /\ now \in Nat /\ Window \in Nat /\ born \in 0 .. now /\ counter[a] \in Nat /\ Limit \in Nat
      /\ IsFiniteSet(Granted(a)) /\ C \subseteq Granted(a)
    BY BurstTypes
<1>2. IsFiniteSet(C) /\ Cardinality(C) \in Nat
    BY <1>1, FS_Subset, FS_CardinalityType
<1>3. Granted(a)' = Granted(a)
    BY DEF Granted
<1>4. born \in 0 .. now' /\ Cardinality(C) =< counter'[a]
    BY <1>1, <1>2
<1>5. expiry'[a] # Never => born + Window =< expiry'[a]
    BY <1>1
<1> QED
    BY <1>3, <1>4, <1>5 DEF Since, Within

\* Allow: the request counts with the present key.
LEMMA AllowBursts ==
    ASSUME Typed, Bursts, NEW r \in Request, NEW a \in Addr, NEW o \in Outcomes, Allow(r, a, o)
    PROVE  Bursts'
<1> DEFINE g == [who |-> a, by |-> r, time |-> now]
<1>1. /\ UNCHANGED <<now, expiry>> /\ grants' \subseteq grants \cup {g} /\ grants \subseteq grants'
      /\ g.who = a /\ g.time = now
    BY DEF Allow
<1>2. IsFiniteSet(grants')
    <2>1. IsFiniteSet(grants \cup {g})
        BY FS_AddElement DEF Bursts
    <2> QED
        BY <1>1, <2>1, FS_Subset
<1>3. ASSUME NEW b \in Addr PROVE \E born, C : Burst(b, born, C)'
    <2>1. PICK born, C : Burst(b, born, C)
        BY DEF Bursts
    <2>2. counter[b] \in Nat /\ counter[a] \in Nat
        BY <1>3, BurstTypes
    <2>3. counter'[b] \in {counter[b], counter[b] + 1}
        BY <2>2 DEF Allow, Typed, TypeOK
    <2>4. CASE b # a \/ grants' = grants
        <3>1. Granted(b)' = Granted(b)
            BY <1>1, <2>4 DEF Granted
        <3>2. /\ born \in 0 .. now' /\ Cardinality(C) =< counter'[b]
            <4>1. IsFiniteSet(C) /\ Cardinality(C) \in Nat
                BY <1>3, <2>1, BurstTypes, FS_Subset, FS_CardinalityType DEF Burst
            <4>2. Cardinality(C) =< counter[b]
                BY <2>1 DEF Burst
            <4> QED
                BY <1>1, <2>1, <2>2, <2>3, <4>1, <4>2 DEF Burst
        <3>3. Burst(b, born, C)'
            BY <1>1, <2>1, <3>1, <3>2 DEF Burst, Since, Within
        <3> QED
            BY <3>3
    <2>5. CASE b = a /\ grants' # grants
        <3> DEFINE D == C \cup {g}
        <3>1. o = "ok" /\ counter[a] + 1 =< Limit /\ grants' = grants \cup {g}
            BY <2>5 DEF Allow, Allowed
        <3>2. counter'[a] = counter[a] + 1
            BY <3>1 DEF Allow, Executed, Typed, TypeOK
        <3>3. /\ C \subseteq Granted(a) /\ born \in 0 .. now /\ now \in Nat
              /\ IsFiniteSet(Granted(a)) /\ Limit \in Nat
            BY <1>3, <2>1, <2>5, BurstTypes DEF Burst
        <3>4. IsFiniteSet(C) /\ Cardinality(C) \in Nat /\ Cardinality(C) =< counter[a]
            BY <2>1, <2>5, <3>3, FS_Subset, FS_CardinalityType DEF Burst
        <3>5. Cardinality(D) =< Cardinality(C) + 1 /\ Cardinality(D) \in Nat
            <4>1. /\ IsFiniteSet(D)
                  /\ Cardinality(D) = IF g \in C THEN Cardinality(C) ELSE Cardinality(C) + 1
                BY <3>4, FS_AddElement
            <4>2. Cardinality(D) \in Nat
                BY <4>1, FS_CardinalityType
            <4> HIDE DEF D, g
            <4> QED
                BY <3>4, <4>1, <4>2
        <3>6. Cardinality(D) =< Limit /\ Cardinality(D) =< counter'[a]
            <4> HIDE DEF D
            <4> QED
                BY <2>2, <3>1, <3>2, <3>3, <3>4, <3>5
        <3>7. Granted(a)' = Granted(a) \cup {g}
            BY <1>1, <3>1 DEF Granted
        <3>8. g \notin Granted(a) \ C
            BY <1>1, <2>1, <2>5, <3>3 DEF Burst
        <3>9. Granted(a)' \ D = Granted(a) \ C
            BY <3>7, <3>8
        <3>10. D \subseteq Granted(a)' /\ \A e \in D : born =< e.time
            BY <1>1, <2>1, <2>5, <3>3, <3>7 DEF Burst
        <3>11. D' = D
            BY <1>1
        <3>12. Burst(a, born, D)'
            <4> HIDE DEF D, g
            <4>1. Burst(a, born, C) /\ now' = now /\ expiry'[a] = expiry[a]
                BY <1>1, <2>1, <2>5
            <4>2. born \in 0 .. now' /\ (expiry'[a] # Never => born + Window =< expiry'[a])
                BY <4>1 DEF Burst
            <4>3. /\ \A e \in Granted(a)' \ D : e.time < born
                  /\ Cardinality(Since(Granted(a)' \ D, born - Window + 1)) =< Limit
                  /\ \A t \in 0 .. MaxTime : Cardinality(Within(Granted(a)' \ D, t)) =< 2 * Limit
                BY <3>9, <4>1 DEF Burst
            <4> QED
                BY <3>6, <3>10, <3>11, <4>2, <4>3 DEF Burst
        <3> QED
            BY <2>5, <3>11, <3>12
    <2> QED
        BY <2>4, <2>5
<1>4. \A e \in grants' : e.time =< now'
    BY <1>1 DEF Bursts, Typed, TypeOK
<1> QED
    BY <1>2, <1>3, <1>4 DEF Bursts

\* The clock: a key that expires has lived for a window.
LEMMA TickBursts == Typed /\ Bursts /\ Tick => Bursts'
<1> SUFFICES ASSUME Typed, Bursts, Tick, NEW a \in Addr
             PROVE  \E born, C : Burst(a, born, C)'
    <2>1. Typed /\ Bursts /\ Tick => IsFiniteSet(grants') /\ \A g \in grants' : g.time =< now'
        BY DEF Bursts, Tick, history, Typed, TypeOK
    <2> QED
        BY <2>1 DEF Bursts
<1>1. PICK born, C : Burst(a, born, C)
    BY DEF Bursts
<1>2. now' = now + 1 /\ UNCHANGED grants /\ Granted(a)' = Granted(a)
    BY DEF Tick, history, Granted
<1>3. /\ now \in Nat /\ Window \in Nat /\ Window > 0 /\ counter[a] \in Nat /\ Limit \in Nat
      /\ \A g \in Granted(a) : g.time \in Nat
    BY BurstTypes
<1>4. CASE expiry[a] = now + 1
    <2>1. counter'[a] = 0 /\ expiry'[a] = Never
        BY <1>4 DEF Tick
    <2>2. born + Window =< now + 1 /\ born \in 0 .. now
        BY <1>1, <1>3, <1>4 DEF Burst, Never
    <2>3. Granted(a) \ {} = Granted(a) /\ Cardinality({}) = 0
        BY FS_EmptySet
    <2>4. \A g \in Granted(a) : g.time < now + 1
        BY <1>3 DEF Granted, Bursts
    <2>5. Cardinality(Since(Granted(a), (now + 1) - Window + 1)) =< Limit
        <3> DEFINE N == Since(Granted(a), (now + 1) - Window + 1)
        <3>1. N \subseteq C
            BY <1>1, <1>3, <2>2 DEF Burst, Since
        <3>2. IsFiniteSet(C) /\ Cardinality(C) =< Limit
            BY <1>1, BurstTypes, FS_Subset DEF Burst
        <3>3. Cardinality(N) =< Cardinality(C) /\ Cardinality(N) \in Nat /\ Cardinality(C) \in Nat
            BY <3>1, <3>2, FS_Subset, FS_CardinalityType
        <3>4. Cardinality(N) =< Limit
            <4> HIDE DEF N
            <4> QED
                BY <1>3, <3>2, <3>3
        <3> QED
            BY <3>4
    <2>6. \A t \in 0 .. MaxTime : Cardinality(Within(Granted(a), t)) =< 2 * Limit
        BY <1>1, WindowBounded
    <2>7. now + 1 \in 0 .. (now + 1) /\ 0 =< Limit
        BY <1>3
    <2>8. ASSUME NEW m, m = now + 1 PROVE Burst(a, m, {})'
        BY <1>2, <2>1, <2>3, <2>4, <2>5, <2>6, <2>7, <2>8 DEF Burst
    <2> QED
        BY <2>8
<1>5. CASE expiry[a] # now + 1
    <2>1. counter'[a] = counter[a] /\ expiry'[a] = expiry[a]
        BY <1>5 DEF Tick
    <2> QED
        BY <1>1, <1>2, <1>3, <2>1, BurstKept
<1> QED
    BY <1>4, <1>5

\* Bursts, over every step.
LEMMA BurstsStep == Typed /\ Bursts /\ [Next]_vars => Bursts'
<1> SUFFICES ASSUME Typed, Bursts, [Next]_vars PROVE Bursts'
    OBVIOUS
<1>1. ASSUME NEW r \in Request, NEW o \in Outcomes, SetExpiry(r, o)
      PROVE  Bursts'
    <2>1. UNCHANGED <<grants, counter, now>>
        BY <1>1 DEF SetExpiry
    <2> SUFFICES ASSUME NEW a \in Addr PROVE \E born, C : Burst(a, born, C)'
        BY <2>1 DEF Bursts
    <2>2. PICK born, C : Burst(a, born, C)
        BY DEF Bursts
    <2>3. expiry'[a] \in {expiry[a], Never, now + Window}
        BY <1>1 DEF SetExpiry, Typed, TypeOK
    <2>4. counter[a] \in Nat /\ counter[a] =< counter[a]
        BY BurstTypes
    <2> QED
        BY <2>1, <2>2, <2>3, <2>4, BurstKept
<1>2. CASE \/ \E r \in Request, o \in Outcomes : Observe(r, o) \/ Flag(r, o) \/ Position(r, o)
           \/ UNCHANGED vars
    <2>1. UNCHANGED <<grants, counter, expiry, now>>
        BY <1>2 DEF Observe, Flag, Position, vars, redisVars, history
    <2>2. ASSUME NEW a \in Addr, NEW born, NEW C, Burst(a, born, C) PROVE Burst(a, born, C)'
        <3>1. /\ now \in Nat /\ Window \in Nat /\ counter[a] \in Nat /\ counter[a] =< counter[a]
              /\ now' \in {now, now + 1} /\ counter'[a] \in Nat /\ counter[a] =< counter'[a]
              /\ expiry'[a] \in {expiry[a], Never, now + Window}
            BY <2>1, BurstTypes
        <3> QED
            BY <2>1, <2>2, <3>1, BurstKept
    <2> QED
        BY <2>1, <2>2 DEF Bursts
<1>3. CASE Restart
    <2>1. /\ grants' = {} /\ now' = now /\ now \in Nat /\ Limit \in Nat
          /\ \A a \in Addr : counter'[a] = 0 /\ expiry'[a] = Never
        BY <1>3, Bounds DEF Restart, Typed, TypeOK
    <2>2. IsFiniteSet({}) /\ Cardinality({}) = 0
        BY FS_EmptySet
    <2>3. ASSUME NEW a \in Addr PROVE Burst(a, 0, {})'
        <3>1. Granted(a)' = {} /\ Granted(a)' \ {} = {}
            BY <2>1 DEF Granted
        <3>2. \A t : Since({}, t) = {} /\ Within({}, t) = {}
            BY DEF Since, Within
        <3>3. 0 \in 0 .. now' /\ 0 =< Limit /\ 0 =< 2 * Limit /\ 0 =< counter'[a]
            BY <2>1, <2>3
        <3> QED
            BY <2>1, <2>2, <2>3, <3>1, <3>2, <3>3 DEF Burst
    <2> QED
        BY <2>1, <2>2, <2>3 DEF Bursts
<1> QED
    BY <1>1, <1>2, <1>3, AllowBursts, TickBursts DEF Next, Step

\* No address gets more than twice its limit in any window, in any interleaving
\* of its requests, with any failed calls, for any limit and window.
THEOREM BurstsAreBounded == Spec => []BurstBounded
<1>1. Init => Bursts
    <2> SUFFICES ASSUME Init, NEW a \in Addr PROVE Burst(a, 0, {})
        BY FS_EmptySet DEF Init, Bursts
    <2>1. Granted(a) = {} /\ Granted(a) \ {} = {}
        BY DEF Granted, Init
    <2>2. \A t : Since({}, t) = {} /\ Within({}, t) = {}
        BY DEF Since, Within
    <2>3. 0 \in 0 .. now /\ 0 =< Limit /\ 0 =< 2 * Limit /\ 0 =< counter[a] /\ expiry[a] = Never
        BY Bounds DEF Init
    <2> QED
        BY <2>1, <2>2, <2>3, FS_EmptySet DEF Burst
<1>2. Typed /\ Bursts => BurstBounded
    <2> SUFFICES ASSUME Typed, Bursts, NEW a \in Addr, NEW t \in 0 .. MaxTime
                 PROVE  Cardinality(Within(Granted(a), t)) =< 2 * Limit
        <3>1. \A a \in Addr, t \in 0 .. MaxTime :
                 {g \in grants : g.who = a /\ g.time \in t .. t + Window - 1} = Within(Granted(a), t)
            BY DEF Within, Granted
        <3> QED
            BY <3>1 DEF BurstBounded
    <2> QED
        BY WindowBounded DEF Bursts
<1> QED
    BY <1>1, <1>2, InitTyped, TypeStep, BurstsStep, PTL DEF Spec

=============================================================================
