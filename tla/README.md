# Quickmock in TLA+

Quickmock is a Go service that answers HTTP requests with responses its users
configure ("mocks"), keeps the requests it got for its users to inspect, and
deletes mocks when they expire. This directory models its core in TLA+, checks
it with TLC on small instances and proves theorems about it with TLAPS for all.

    tlc -workers 2 -config MCMockService.cfg MCMockService.tla
    tlapm MockService_proofs.tla

## The system

| Part | State it keeps | Operations | Hard behaviour |
|---|---|---|---|
| Mock lifecycle (`service/mock.go`, `repository/mock.go`) | table `mocks` | Create, Get, Update, Extend, Delete, ClearLogs, hourly DeleteExpired | every operation is several SQL statements; rows are authorized by id and written by slug; slugs are reused |
| Request log (`repository/log.go`) | table `request_logs`, foreign key with cascade, trigger that keeps 100 rows a mock | Insert, ListByMockID, Clear | entries arrive late; readers look the slug up twice |
| Log writer (`service/log.go`) | a channel of 1024 entries, one goroutine | Submit, Start, write, Shutdown | full channel, silent database, cancellation, close |
| Process (`cmd/server/main.go`) | `rootCtx` | start, signal, two bounded waits, the unbounded one of `pool.Close` | order of the shutdown |
| Mock router (`handler/mock_router.go`, `variant.go`) | none | ServeHTTP: look up, delay, submit, answer | precedence of routes, rules, variants, error rate, sequence |
| Live inspector (`sse/`, `handler/stream.go`, `mock.html`) | subscribers by mock, open streams by address | Subscribe, Publish, Acquire, Release | coalesced signals, the moment before Subscribe, clients that do not read, a mock or a session that goes |
| Rate limiter, sequence counter, caller tracker (`repository/redis.go`, `seq.go`, `callers.go`) | Redis keys; memory as fallback | Allow, Next, Observe | two Redis calls that are one operation; Redis failing |
| Stats (`service/stats.go`) | table `stats`, a cache | Snapshot, BumpAsync | overlapping refreshes |
| Migrations (`repository/migrations.go`) | `schema_migrations` | RunMigrations | crash between a file and its record |
| Configuration of a mock (`service/mock.go` validate, `spam.go`, `payment.go`, `openapi.go`) | none | validate and normalize, refuse, import | later checks rely on what earlier ones rewrote |
| Response templates (`service/template.go`) | the counter behind `{{seq}}` | four passes over a body | what one pass puts in may complete a token for the next |
| Firewall sync (`deploy/cloudflare/cf-ufw-sync.sh`) | firewall rules, a state file | add, delete, record | failure half way |

A request to `/m/<slug>` reads the mock (`MockService.Get`), picks a response,
waits for its delay and submits a log entry. The log writer's goroutine inserts
the row, counts the hit and signals the broker; the broker wakes the inspector
streams of that mock, whose pages fetch the list again. Owners change mocks
over `/api` with the admin token that Create returned once. The sweep and the
statements of all requests meet in Postgres only: there is no lock in the
process.

What makes each part correct:

- lifecycle: a write reaches only the mock it was authorized for; nobody reads
  another's logs; logs go with their mock; expiries stay bounded; expired mocks
  stay dead and are deleted; the cap per address holds;
- log writer: handlers never wait for it; rows keep the order of the entries,
  each at most once; a signalled request is in the table; shutdown drains and ends;
- inspector: what is logged is shown in the end; slots are given back exactly once;
- Redis parts: a window ends; sequence positions neither repeat nor skip; the
  caller warning comes once;
- stats: an answer is never older than the ttl and the slowest query; migrations:
  files are applied in order, each process runs a file once, a deployment that is
  repeated ends with a server that runs;
- router and configuration: what is stored can be served, what is served is what the
  mock says, what is logged is what was sent, the server's headers stay its own.

## Modules

| Module | Models |
|---|---|
| `MockService` | the lifecycle, the readers of request logs, the sweep and the clock |
| `MockRegistry` | what the users of URLs may rely on: one mock at a time at a slug, which changes hands only when it is free; what has ended stays ended; logs go with their mock |
| `LogWriter` | handlers, channel, consumer goroutine and the shutdown of `runServe` |
| `LogSink` | what the log promises: entries stored in order, at most once, lost only from the front |
| `Inspector` | broker, stream limiter, stream handlers, and the page that reads them |
| `Traffic` | rate limit, caller tracker and shared sequence over one Redis that fails |
| `Migrations` | `quickmock migrate`, several times at once, and the start of the server |
| `StatsCache` | the counters of the home page and their cache |
| `MockInput` | validate, spam filter, payment rule: from an input to a row or a refusal |
| `ResponseSelection` | `handler/variant.go`: routes, rules, variants, error rate, sequence, delay |
| `ResponseTemplate` | the passes over a response body |
| `MockRouter` | one mock, edited while concurrent hits go through `ServeHTTP` |
| `OpenAPIImport` | `ParseOpenAPI`, and what a mock answers that has its routes |
| `MC...` | the instances: `MCMockService`, `MCInspector`, `MCTraffic`, `MCParts` (`Migrations`, `StatsCache` and `OpenAPIImport`, which holds `MockRouter`, one at a time) |
| `..._proofs` | theorems about the module of that name |

`OpenAPIImport` extends `MockRouter`, that `ResponseTemplate`, that `ResponseSelection`, that `MockInput`.
The modules meet where the code does: an id that `MockService.Serve` queues is an entry of
`LogWriter`, a row that `LogWriter` publishes is `Inspector.Publish`, the position
a hit of `MockRouter` takes is `Traffic.Position`, the row that `MockService`
reduces to one Boolean is `MockInput.Row`.

### MockService

`mocks` is the table, a set of rows; `logs` the ids with rows in `request_logs`;
`queued` the ids of entries that the log writer has not inserted yet; `now` the
clock. `req[p]` is what one HTTP request holds between two database calls: its
input and what it will still use of the `*model.Mock` it has read. Each handler is
a read action and a write action (`UpdateRead`, `UpdateWrite`, ...), Create is
three (`CreateCount`, `CreateName`, `CreateInsert`), a reader of logs two or
three (`LogsGet`, then `LogsAuthUI` or `LogsAuthAPI`, then `LogsList`). Any other step may
come between. `Abort` ends a request anywhere: a refusal, a database error, the client
gone, the process killed.

Abstractions:

- A statement, or the transaction of `MockRepo.Create`, is one step: Postgres
  makes it atomic. `LogRepo.Clear` is a single statement.
- The configuration of a mock is one Boolean, `logs_public`: the column the
  privacy property reads also stands for all the others that Update and Extend
  write back. Validation of the rest decides only whether the request goes on.
- The admin token is 32 random bytes, kept as a hash; only the mock's
  creator learns it. It is named by the mock's id, so `Authorized` compares ids.
- `time.Now()` of a handler is any moment between its read and its write, so
  `UpdateWrite` and `ExtendWrite` choose it.
- `/logs/export` and the JSON log list authorize and list the same mock:
  `LogsAuthAPI`. The pages of `handler/ui.go` list the mock they fetched
  first: `LogsAuthUI`.
- `Init` has empty tables. Rows without `expires_at` (created before the column
  was always set) are left out. `DefaultTTL =< MaxTTL` is assumed
  (`ConstantsOK`); `config.go` does not check it.
- `now()` is the same for the statements of a transaction and for the lookup of a
  request that runs at the same time.
- An address is never empty here; Create skips the cap for an empty one.

`MockRegistry` is the abstract specification. It has no requests, no clock and no rows: a slug
answers for a mock or does not (`answers`), ids are given out (`taken`), mocks end and wait to be
removed (`ended`), mocks have logs. The refinement maps `answers` to what `MockRepo.BySlug` finds,
`ended` to the rows that the sweep would take. All reads stutter; so do writes that find no row.

### LogWriter

`hit[h]` is where the handler of one request is, `queue` the channel, `consumer`
the goroutine's place in `Start` and `write`, `entry` what it holds, `server`
where `runServe` is: `releasing` is the deferred `pool.Close()`, which waits until no
connection is in use, so the process exits only when no statement hangs. The signal cancels `rootCtx`, which is both the consumer's context and,
by `BaseContext`, the context of every request: a lookup that has not
happened fails, a delay ends at once, a database call under way may still succeed
or fail, and one that starts later fails (`doomed`). The drain uses
`context.Background()`: nothing interrupts it. `select` takes any ready case, so
`Receive` and `SeeCancel` compete. A statement may get no answer (`InsertHangs`,
`CountHangs`): the calls have no deadline of their own.
`LogSink` is the abstract specification; the refinement maps `pending` to the entry that is not
inserted yet followed by the channel, and `stored` to the rows.

### Inspector

A handler is a page and the number of its connection; `at[h]` is where
`LogsStream` is, from the authorization over `Acquire`, the first flush, `Subscribe`, the
loop, to the two deferred calls, which run in reverse order. `buffer` holds the
handlers whose channel of capacity 1 is full, so `Publish` adds to a set: that is
the code's "dropping is lossless". `LogsStream` lifts the write deadline, so a write to a client
that does not read blocks (`Stall`: the greeting, a ping or an event) until the client reads on or TCP gives up
(`Resume`), which nothing makes happen. The page is `mock.html`: `source` the
EventSource (connecting, live, closed for polling, or not started on a locked page), `failures` its errors in a row,
`fetch` and `again` the htmx request under way and the one queued behind it
(`hx-sync="this:queue last"`). A connection may end by its lifetime or
the page's going (`Leave`, `Ended`) or break with data in it (`Broken`).

`allowed` are the pages that `inspectorAuthorized` lets pass; it changes when the owner edits `logs_public` or a
cookie lapses (`Reauthorize`) and when a page opens its session (`Session`). `gone` is the mock deleted or expired.
`LogsPartial` answers with the rows (`ListRows`), with the locked partial or an empty list
(`ListNothing`; it ignores the error of its query), or with 286 when the mock is not found (`ListGone`), after which the page polls no
more (`stopped`). Any other failure of a fetch, the read limit's 429 or a 404 after a database error, changes nothing on the page
(`FetchFails`). `owed` is history: the newest row published to the page's subscription,
forgotten when its signal, event or fetch is lost or answered without the rows.

### Traffic

One request goes through `Allow`, `SetExpiry`, `Observe`, `Flag` and `Position`; a
pipeline of the code is one step, separate calls are separate steps. Every call may be
answered, may fail before Redis sees it, or be executed with the answer lost
(`Outcomes`). `Tick` expires keys, `Restart` loses them all. The HyperLogLog counts
exactly here, as it does for a handful of callers. The histories `grants`, `orphans`,
`reports`, `missed` and `skipped` say what a failure excuses.

### Migrations and StatsCache

`Migrations`: each process goes through bootstrap, and for each file check, execute, record. The
files are transactions that insert their own version, so `Commit` does both;
a crash or a timeout may come anywhere and keeps what is committed. `Serve` is the
`depends_on` of `docker-compose.yml`. `StatsCache`: `Look` takes the snapshot or
starts a refresh, `Query` reads the table, `Store` writes the snapshot; there is no lock in between.

### MockRouter and what it extends

Texts are strings of the instance; constants say what the code's patterns and
conversions make of them (`Trimmed`, `Placeholder`, `Base64`, `Template`, ...).
`valid` is every check of `validate`, `Normal` every default and every trim it writes
back, `Verdict` their order with the two filters, `Row` what is stored. `IsConfig` is the
shape of `model.MockInput`: which fields the structs have and which of them are lists.
Create and Update trim the mock's name and its own header values after the filters have seen
them (`mock.go:234`, `payment.go:176`), so an input with a padded one (`Padded`) is judged
by another text than the one that is stored; `StoredIsNormal` promises the filters' verdict
again only where nothing was padded.
A hit is `Receive` (lookup, preflight, method or route; every error of the lookup is a 404), `Select` (variant, error, sequence, default),
then its delay, during which the client may hang up, `Submit` of the log entry, one
`TakeSeq` for each `{{seq}}` token, and `Respond`. The row it read stays its own
while `Save` changes the mock. `LegacyRows` are rows that the present
`validate` would refuse. A body is the sequence of its pieces; what a token takes from
the request is a text that is parsed again, so a pass that comes later would see tokens in it.
`TemplateConstants` says of the instance's
texts what the pattern `random.pick:[^{}]*` says of all: options are matched when the first pass left no
braces in them. Tokens may stand in tokens, `{{request.query.{{seq}}}}`: such a piece is `Braces`, and when
the first two passes have made text of what is inside, `Reread` gives what the mock and request passes find there. One level is
enough: a pattern matches no braces, what the mock pass puts in has slashes and what the request pass puts in is read by no other, so
braces around such tokens or around other braces stay plain text.
`reply` is what `ServeHTTP` wrote as net/http sends it: 101, 204, 304 and an answer to HEAD have no body (`HasBody`),
although the body is rendered and takes its `{{seq}}` values. Whether the client is still there to read it is not modelled.
`OpenAPIImport` computes schemas' examples by a recursive function of the depth
that is left; `MCParts` submits its routes to `Save` like any other input. It adds no
variable: `ImportedIsReachable` looks at a mock of `MockRouter` that has the routes of one of the
`Documents` and asks `matchRoute` and `pickConfiguredVariant` for each documented response, with the
path that a client would make of the pattern (`Concrete`). Operations after the cap of
`MaxMockRoutes` are not imported, and one whose path an earlier one fits is out of reach;
both exceptions are the code's, and stated. `StatusName` are the names `status-<n>`.

## What TLC checks

| Run | Instance | Shows |
|---|---|---|
| `mocks` | 1 slug, 2 ids, 2 requests, 1 address, time 0..3, lifetimes 1 and 2; 1.4 million states | `TypeOK`, `NoForeignLogs`, `HorizonBounded`, `NoResurrection`, `ExtendWithinLifetime`, `ClearNeedsToken`, `ImplementsRegistry` |
| `mocks_owners` | 3 slugs, 3 ids, 2 requests, time 0..1, owner's operations | `CapOvershootBounded`, `ExpiredEventuallyDeleted` |
| `log_writer` | 3 requests, channel of 1 | `TypeOK`, `SignalledHasRow`, `PanicOnlyAfterTimeout`, `DrainsWhatWasQueued`, `HandlersReturn`, `QueueMoves`, `SignalEnds`, `ImplementsSink` |
| `inspector` | 1 page, 2 connections from 1 address, which may hold 1 of 2 slots, 2 rows, polling after 2 errors; 194 thousand states | `TypeOK`, `SlotsMatchStreams`, `SubsMatchStreams`, `NoLostWakeup`, `OwedIsShown`, `PollingCatchesUp`, `SlotsComeBack` |
| `traffic` | 3 requests, 3 addresses, limit 1, window 2, threshold 2, day 2, time 0..3, 1 failed call, 1 restart | `TypeOK`, `BurstBounded`, `CounterHasHorizon`, `ReportedOnce`, `PositionsExact` |
| `parts` | 2 processes, 3 files, 2 failures; 2 views, ttl 2, queries of 1 tick, 2 bumps, time to 6; 2 hits, 2 writes, 17 inputs of which 2 imports, 4 requests, 1 legacy row | `AppliedInOrder`, `NeverRepeats`, `DeploymentServes`; `AnswerIsRecent`; `StoredIsNormal`, `RepliesAsConfigured`, `BodiesInsideOut`, `ServerOwnsHeaders`, `LoggedIsWritten`, `SequenceCycles`, `ImportedIsReachable` |
| `lifetime`, `slug_changes_hands`, `extend_stale`, `log_writer_drain`, `status_recorded`, `variant_fallback` | the same, smaller | a sentence of the documentation that the code does not keep |

Bounds. One slug is enough for the properties of `mocks`: they speak of one id or one slug,
slugs meet only in the cap, and two requests on one slug are what
interferes. Two ids give a mock and the next owner of its slug; an id is never
issued twice, so the instance ends after two creations. Time 0..3 with lifetimes
up to 2 lets a mock expire, be replaced and be extended. Three slugs and ids with
`MaxMocks` 1 let the cap be passed by one and be tried for a second time. Three
entries and one slot fill the channel, with one entry at the consumer and one
refused. In `inspector` the second connection of a page overlaps the first one's
teardown, which is where slots and subscriptions could go wrong; two rows are enough
for one to come while the list is fetched for the other; the address's cap refuses a stream. Several addresses and
the total cap are left to `SlotsExact`, which is proved for any number of both.
`traffic`
has a window and a day roll over, two callers that cross the threshold together and a
third behind them. `parts` has inputs that are refused by
each kind of check (a rule without its variant, two equal routes, a redirect to another site, a
missing error response, spam, a payment header) and inputs that reach each branch of the router: a padded name, a rule on a null
value, overlapping routes, an error rate with a delay, all token kinds, tokens in tokens that later passes find and that none does, a response without a body, an
informational status and two imported documents: one of recursive schemas, one with
more operations than the cap and two that one path fits. Requests and ids are interchangeable, so `Symmetry` permutes both; it is
not used in the runs with liveness.

Fairness. `DeleteExpired` is weakly fair: `expireWorker` loops for the
life of the process and goes on after an error; it is the only fair step of
`MockService`, since no client has to do anything. In `LogWriter` handlers
whose mock was found go on (their delay is at most 30 seconds), a goroutine that can run
runs, database calls that are not hung return, and the shutdown's waits have timeouts, but for `pool.Close()`, which
ends when no connection is in use. A statement that hangs fails at the cancellation if it runs under the
consumer's context; the drain's do not, and `SignalEnds` excepts them.
Nothing makes a request or a signal come. In `Inspector` the goroutines and the
browser's callbacks that can run do (`StreamFairness`, `PageFairness`). A stream that comes back to its select again and again leaves it
some time, since `lifetime.C` stays ready (strong fairness of `Leave`); one that is stalled depends on its client, and no
fairness is assumed of `Resume`: `SlotsComeBack` and `OwedIsShown` except streams that stall for good.
A page that asks for the list again and again is answered by the database some time (strong fairness of `ListRows` and `ListGone`: the read
limit that refuses it has a window that ends, `CounterHasHorizon`, and Postgres comes back). That assumes nothing of a page without
authorization, for which `ListRows` is not enabled; `PollingCatchesUp` excepts it. Nobody has to log, to open a page, to
break anything. In `Migrations` a process
that can go on does and compose starts the server; that a failed process is
started again is an assumption about whoever deploys, since compose does not
do it (`restart: "no"`); crashes are bounded, so that it is enough. `Traffic` and `MockRouter` have no
liveness. `LogWriter` stops when the process has
exited, and so do the other bounded instances, so deadlock is not checked there; in `MockService` it is.

### Where the documentation and the code disagree

- `LifetimeCapped`: a guide says that no mock lives longer than 30 days from its creation; Update with a
  ttl counts from now and may be repeated. Only Extend keeps the promise
  (`ExtendWithinLifetime`).
- `TokenGuardsMock`: README.md says that editing and deleting require the mock's token;
  the writes go by slug, which may belong to another mock since the check.
- `ExtendPushesExpiry`: Extend may move the expiry back, and the configuration with it, when an
  Update comes between its read and its write.
- `ShutdownDrains`: the comment of `Start` says that Shutdown drains the queue;
  the consumer drains once, at the cancellation, and handlers submit after it.
- `StatusRecorded`: a comment of `ServeHTTP` says that the status recorded is the
  one that is written; `validate` accepts 100 to 199, which net/http sends as
  interim responses (but 101) before a 200. Everything else is recorded as sent
  (`LoggedIsWritten`).
- `UnknownVariantFallsBack`: the documentation page says that an unknown variant name falls back to normal matching;
  `pickConfiguredVariant` skips the rules for it. `RepliesAsConfigured` follows the code there.

Seen while reading, without a run: README.md:118 promises at most 50 active mocks per address, but Create counts
and inserts in two statements, and `CapOvershootBounded` can promise no more than a bound on the overshoot; the comment of `streamLifetime`
says that periodic closes stop zombie connections from squatting slots forever, but a write that blocks has no deadline and keeps
the stream from its lifetime, which is why `SlotsComeBack` excepts it (a proxy in front may close such a connection); the comment in `curlparse.go` speaks of "-d without -X", but an explicit
`-X GET` becomes POST too; a request that is logged between a page's last fetch and its
next `Subscribe` is shown only with a later one.

## What is proved

Every proof rests on the assumption of its module about the constants alone, and
holds for any number of requests, rows, pages, processes and failures.

`MockService_proofs`:

| Theorem | Property |
|---|---|
| `TypeCorrect` | `[]TypeOK` |
| `LogsFollowMock` | `[]LogsHaveMock`, which TLC checks as part of `ImplementsRegistry` |
| `LogsStayPrivate` | `[]NoForeignLogs` |
| `HorizonHolds` | `[]HorizonBounded` |
| `ExtendStaysWithinLifetime` | `ExtendWithinLifetime` |
| `NothingResurrects` | `NoResurrection` |
| `ClearingNeedsToken` | `ClearNeedsToken` |
| `OvershootIsBounded` | `CapOvershootBounded` |
| `ServiceImplementsRegistry` | `ImplementsRegistry` |

None of the invariants is inductive alone. The strengthenings are:

- `TablesOK`: ids and slugs are keys of `mocks`, and every stored id was issued. It rests on Create deleting the
  expired holder of a slug before it inserts, and on Update changing no key.
- `ReadersOK`: the mock a reader fetched first may be gone, but no row with its id ever
  has another slug. So if `inspectorAuthorized` finds the token's mock under the
  slug and the first mock is still stored, they are the same; and if it is not
  stored, `LogsHaveMock` says that it has no logs to list.
- `AgesOK`: expiries in rows and in requests are at most `now + MaxTTL`, and an Extend
  holds a creation time no later than that of any row it may meet under its
  slug. That is why a stale Extend cannot pass the cap of a younger mock either.
- `ClearsOK`: a ClearLogs that goes on holds the id its token belongs to.

The lemmas `RowSteps`, `RowsDescend` and `RequestSteps` say how one step
changes rows and requests, so that each invariant is proved over a few cases
rather than over all actions.

`OvershootIsBounded` is about the cap. The property only
speaks of stored rows; the invariant `CapOK` adds the creations that have
counted and not yet inserted: live mocks of an address and those creations are together at most
`MaxMocks` plus all requests but one. A creation that counts finds fewer than
`MaxMocks`, so even if all requests are past their count the sum holds; one that
inserts leaves the second set as it enters the first; nothing else makes a mock live, since an
UPDATE finds live rows only. Rows are counted by their ids (`CountByIds`, an injection by `TablesOK`).

`ServiceImplementsRegistry` is proved action by action (`RegistryStep`), from `TablesOK`. That a slug has one row
(`OneRow`) is what makes its answer one mock: an insertion finds the slug free and publishes there,
or, when the creation took longer than its mock was to live, adds a mock that has already ended
(`InsertPublishes`); a write by slug configures whichever mock answers there, or ends it, since a new ttl is counted
from a moment before the write (`WriteConfigures`); one tick of the clock may end mocks at several slugs
(`TickEnds`); and because every log refers to a stored row, the logs that the
cascade takes along are exactly those of the rows that leave (`RemainLogs`).

`LogWriter_proofs`:

| Theorem | Property | Strengthening |
|---|---|---|
| `TypeCorrect` | `[]TypeOK` | `Typed`: between `Receive` and the end of `write` the consumer holds an entry |
| `RowBeforeSignal` | `[]SignalledHasRow` | `RowsFirst`: what is being counted or published has its row |
| `NoSendOnClosed` | `[]PanicOnlyAfterTimeout` | `Ordered`: after a close in time no handler is serving; the consumer ends or drains only after the signal |
| `QueuedIsDrained` | `[]DrainsWhatWasQueued` | `Drained`: an entry in the channel, now or at the signal, belongs to a handler that is done and will not submit it again; once the consumer has returned, none of the signal's is there |
| `WriterImplementsSink` | `ImplementsSink` | `SinkStep`: `Receive` and `DrainReceive` move an entry from the channel to the hand and stutter, `Insert` appends, `InsertFails` drops the head |

`Inspector_proofs`: `TypeCorrect`; `SubscriptionsExact` (`SubsMatchStreams`); `SlotsExact` (`SlotsMatchStreams`), by
counting: a step adds a handler to the set of holders or removes one, and the
cardinality theorems of the library move the counts with it; `WakeupsKept`
(`NoLostWakeup`), from `Debts` (nobody is owed a row that does not exist) and `Awake`: as long as a page is owed more than it will show
when its answer is swapped in (`WillShow`), something that makes it fetch is under way (`UnderWay`): the signal at a stream that is
still open, the event that a stalled write holds, an event on the connection, a queued trigger, or the fetch.

`Traffic_proofs`: `TypeCorrect`; `CounterExpires` (`CounterHasHorizon`) from `Keys`: a counter with no
expiry has a request at its EXPIRE or a failed call; `ReportedOnceADay` (`ReportedOnce`) from `Flags`: a
day that is not flagged was never reported, and its crossing is under way; `SequenceExact`
(`PositionsExact`) from `Positions`: positions from memory are below `mem`, those
from Redis and the skipped ones are exactly those below `seq`, and apart.
`BurstsAreBounded` (`BurstBounded`) from `Bursts`: the grants of an address are those of
the key that is there now, which came since its birth and are at most `Limit` and at
most what the counter says, and older ones, of which every window holds at most two
limits and the last window before the birth at most one. A key with an expiry lives for a window
at least, so keys are born a window apart, and a window that reaches over the birth of one
holds at most a limit of its grants and a limit of its predecessor's.

`Migrations_proofs`: `MigrationsTypeCorrect`; `FilesInOrder` (`AppliedInOrder`) from `InStep`: every file before a process's
place is applied; `NoFileTwice` (`NeverRepeats`) from `Remembered`: what a process
has executed is recorded, so its next `Check` passes over it, before or after a restart.

`StatsCache_proofs`: `StatsTypeCorrect`; `AnswersAreRecent` (`AnswerIsRecent`) from `Ages`: a reading is at most
`Slow` old when it is stored and the ttl runs from there.

`MockInput_proofs` is about the operators that check, normalize and store a
configuration, for any texts and any patterns. They are total functions without state, so
there is no invariant; the argument follows the structs:

| Theorem | Says |
|---|---|
| `RowTwice` | `Row(Row(in)) = Row(in)` for every input that passes `validate` |
| `RowPasses` | `valid(Row(in))` |
| `RowIsAnswerable` | each rule of the row leads to exactly one variant, routes can be told apart, statuses can be sent, no header is reserved |
| `RowIsStoredAgain` | the filters let the row pass again if the input had no padded name or header value |

Trimming, filling in a default and cleaning headers are each idempotent (`TrimTwice`,
`FilledTwice`, `CleanTwice`) and spoil no check (`CleanIsValid`, `StatusIs`); variants, rules,
routes, steps and the error response inherit both, list by list (`ResponsesPass`,
`RoutesPass`, `StepsPass`, `ErrorPasses`). A path loses its empty segments by the rank of
those that stay, so that `NonEmptyTwice` needs counting (`RankIsTaken`) and no recursion.
`TextConstants` is assumed of the texts: `strings.TrimSpace` leaves nothing to trim, the
patterns for names, slugs and segments are anchored and admit no space, and what is left of a text has no
control character that the text had not.

`MockRouter_proofs`, for any hits, requests, configurations and rows of earlier releases:

| Theorem | Property | Strengthening |
|---|---|---|
| `StoredStaysNormal` | `[]StoredIsNormal` | `Accepted`: the row is a legacy one, or `Row` of an input whose verdict was "stored" |
| `HitsGetWhatIsConfigured` | `[]RepliesAsConfigured` | `AllConfigured`: from a lookup that found a row on, a hit holds a source that its own row has for its request (`Routed`); from its choice on, the response that was asked for (`Chosen`); and what was answered is that (`Expected`) |
| `HeadersAreTheServers` | `[]ServerOwnsHeaders` | `AllOwned`, over `AllowedIsClean` and the order in which `ReplyHeaders` lays one map over the other |
| `LogIsWritten` | `[]LoggedIsWritten` | `AllLogged`: nothing is logged before the delay is over, and a hit that will write was logged with the status it has |
| `SequenceGivesEachOnce` | `[]SequenceCycles` | `Cycles`: a hit has no position before its choice, and keeps both its position and the row it counts with |
| `BodiesExpandInsideOut` | `[]BodiesInsideOut` | `Shown`: a hit takes values for its own response only, none too many, and answers when no token lacks one |
| `ImportsAreReachable` | `[]ImportedIsReachable` | `StoredIsNormal`, which is itself proved above |

One lemma for each action says what it does to the hit that moves (`ReceiveEnds`,
`SelectEnds`, ..., gathered in `HitStep`), and `Steps` that every step is one of them,
leaves the rest alone, or is `Save`; each invariant is then proved over these. The
row a hit read is its own (`hit[h].m`), which is why no invariant speaks of `mock` and of
a hit's row at once: an edit under way cannot change an answer. That the first rule wins, and the
first route that answers, is about the least index of a set; such an index
exists by the well-founded order of the numbers (`LeastExists`), which takes the place of an
induction. The body is proved place by place: of a piece
that is not braces, and of a token in braces, each of the first two passes changes one kind only, into text that the next
passes over (`FlatRendered`); so after both the piece is what `Completed` says, with the inner tokens first and the `{{seq}}` numbered through pieces and
their insides alike (`PieceCompleted`); what is left are the mock and the request pass, and only the last, which no other follows, puts
several pieces in place of one. That the passes agree with `Expansion` then needs no induction over the body (`RenderedInsideOut`).
`RouterConstants` assumes that inputs and rows have the fields of their structs,
lists being lists, and that no reserved name is padded.

`ImportsAreReachable` follows a document through parse, validate and router
(`NormalIsReachable`). Operation i is stored at its rank among the imported ones
(`ImportsAre`), unchanged but for its path (`ImportedRouteIs`). As the mock passed `validate`,
the stored pattern has no escape and no empty segment, so the router cuts both it and the request's path into
the same segments (`ConcreteFits`); a route before it that answers would be an earlier operation for the path, since
ranks grow (`EarliestAnswers`); without rules only the name decides, and no two statuses share
one (`ImportedAnswers`). `ImportConstants` assumes that documents and paths are lists, that status names differ
and have no space to trim, and that no valid segment has a percent escape, as in `routePathRegexp`.

Only model-checked:

- all liveness (`ExpiredEventuallyDeleted`, `HandlersReturn`, `QueueMoves`, `SignalEnds`,
  `OwedIsShown`, `PollingCatchesUp`, `SlotsComeBack`, `DeploymentServes`): the prover has no rule
  for fairness or `ENABLED`;
- which example `exampleFromSchema` gives for a schema: it recurs over the schemas. The theorem says that what it gives
  is what is served.

## Plan

What is left, in this order: two pages in one instance of `Inspector`; a counter of hits
beside the rows, with the trigger that trims them; the curl tokenizer as an operator over
sequences of characters; the firewall script under a failure between two of its steps.

No RECURSIVE operator is used in a module with theorems or in one it extends.

## Not modelled

- Pages, translations, guides, feeds, galleries, code and syntax highlighting: static
  content and text formatting without state.
- The command line client and the configuration: one request, one read; no shared state.
- Middleware besides the rate limit and the recovered panic: one request at a time.
- The curl importer: a tokenizer of characters, without state.
- The firewall script: it is not part of the program, and its outcome is ufw's.
- What the client sees: `LoggedIsWritten` and `ImportedIsReachable` are about the status `ServeHTTP` writes. A client that leaves
  without a delay, or after `Submit`, is logged with a status it never read, and an imported 1xx other than 101 is
  served as such and goes out as 200 (`StatusRecorded`).
- Requests that the rate limit lets through because Redis failed: `BurstBounded` counts the grants Redis knows of.
- Response keys of an OpenAPI document in YAML that are no strings.
- Empty sets in `Broker.subs`: the model keeps one set of channels.
- Bytes: cuts of names and bodies, lengths of paths, the letter case of
  headers, JSON layout, the texts that faker tokens make up. That Postgres may refuse
  a row that was cut in the middle of a character is `LogWriter.InsertFails`.
- The trigger that trims logs to 100 rows, and rows without `expires_at`.
