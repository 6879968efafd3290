# Formal models of lostark-api-service

The repository answers questions about the game Lost Ark from its open API: a REST server, and a UDP
server behind a KakaoTalk bot, both in front of the same caches in Redis and PostgreSQL. What is hard
about it is not any one request but what happens between them: copies of the same data in three tiers
and two processes, refreshes that race with reads, upstream maintenance every week, connections that
come and go, two services that migrate one database. The modules here model that code, TLC checks them
on small instances, and TLAPS proves what matters most for every instance.

All paths below are under `src/packages/` unless they start with `docs/`.

## Inventory

| Component | State | Operations | Interacts with |
|---|---|---|---|
| Domain cache of news and gamecontents (`data-service/src/cache/domain-cache-manager.ts`, `redis-domain-cache.ts`, `database-domain-cache.ts`) | L1 map per process, Redis keys (L2), `domain_cache` rows (L3) with a soft and a hard limit | `fetchWithFallback`, `forceRefresh`, `invalidate`, `setAllTiers`, hydration | upstream client, both stores, scheduler, REST routes |
| Warm-up (`cache/warmup.ts`) | none of its own | `warmupDomainCaches`: hydrate or fetch each key | domain cache, started once by the REST server's boot |
| Calendar refresh scheduler (`cache/calendar-refresh-scheduler.ts`) | timer, window, stop flag | weekly window of retries, `stop` | `forceRefresh` |
| Armories service, caches and optimizer (`services/armories-service.ts`, `cache/cache-manager.ts`, `armories-cache.ts`, `redis-cache.ts`, `database-cache.ts`, `cache-optimizer.ts`) | the detail of a character in a map, Redis and `character_cache`; `fetchedSections`, `normalizedAt` | full, partial, class-node, refreshing and deleting requests; merge of sections; cleanups | upstream client, both stores, both servers |
| Characters service and armories queue (`services/characters-service.ts`, `cache/characters-cache.ts`, `normalizers/characters-normalizer.ts`, the queue of `armories-service.ts`) | accounts and the account of each character, the queue, its flag and timers | roster requests, change detection, batches | upstream client, armories service |
| Auctions and markets services (`services/auctions-service.ts`, `cache/auctions-cache.ts`, `services/markets-service.ts`) | a map with a TTL | searches | upstream client |
| PostgreSQL client (`shared/src/db/postgres.ts`, `data-service/src/index.ts`) | pool, `isConnected`, shared reconnection, health check timer | boot loop, `ensureConnected`, queries, shutdown | every cache's third tier, migrations |
| Redis client (`shared/src/db/redis.ts`) | `isConnected`; reconnection is the library's | connect, commands | every cache's second tier |
| Upstream client and rate limiter (`clients/api-client.ts`, `armories-client.ts`, `characters-client.ts`) | time stamps of recent requests | `waitForSlot`, `makeRequest` with retries | every service |
| UDP server (`udp-service/src/server.ts`, `routing/`) | bounded queue, workers, timer, socket, running flag | receive, process, reply, start, stop | services, data-service start and stop |
| REST server (`rest-service/src/server.ts`, `index.ts`) | Fastify, the scheduler's handle, background jobs | routes, `initialize`, `start`, `stop` | everything |
| Migrations (`shared/src/db/migrations.ts`) | the schema and the table of records | `migrate` at the start of both processes, `rollback` | PostgreSQL client |
| Normalizers, commands, formatters, contracts, environment schema | none | pure functions | - |

What makes each correct:

- *Domain cache*: nothing is served as fresh beyond a bound, although each tier restarts the age; nothing
  is served stale beyond its hard limit; a failure never costs the stale fallback (ADR-0004); a forced
  refresh wins against older copies in flight; every request is answered whatever fails.
- *Scheduler*: it never dies, doubles, drifts or skips a week; it heals within one pause and two calls of
  upstream's return; after `stop` nothing starts.
- *Armories*: a caller gets the sections it asked for; the profile is never lost; merges do not keep a
  section alive for ever.
- *Rosters and queue*: every new level is queued; nothing queued is forgotten or kept for ever; a reply
  says truly where it comes from. *Searches*: what is answered is no older than the TTL and one call.
- *PostgreSQL client*: one reconnection at a time, nobody waits for one that does not exist; a server
  that comes up is found; a shutdown ends and stays.
- *Upstream client*: the limit of a window; a caller's wait has an end.
- *Servers*: a boot ends whatever the stores do; what is accepted gets its turn and its answer; a signal
  ends the process, except where it waits for a store that is not there; exit code 0 means a whole
  shutdown.
- *Migrations*: schema and records never differ by more than one version; concurrent processes do not
  stop one another for good; a `migrate()` that reports success is complete.

The behaviours that tests hardly reach are listed with their lines as `hazards` in `PROJECT.json`.

## Modules

| Module | What it is |
|---|---|
| `DomainCache`, `DomainCacheProofs` | one key of the domain cache in all processes, with the warm-up and the REST refresh route |
| `CalendarScheduler`, `CalendarSchedulerProofs` | the scheduler, over a `forceRefresh` whose outcome is upstream's during the call |
| `ArmoriesCache`, `ArmoriesCacheProofs` | one character in all processes, with all routes that reach it |
| `PgClient`, `PgClientProofs` | the connection of one process, from boot to shutdown |
| `UdpServer`, `UdpServerProofs` | the process of the bot, from its first connection to its exit |
| `SchemaUpgrade` | abstract: a schema and its ledger move together, one version at a time |
| `Migrations`, `RestServerProofs` | every process that migrates, statement by statement; implements `SchemaUpgrade` |
| `RestServer`, `RestServerProofs` | the process of the REST service composed with `Migrations`, which it extends |
| `UpstreamClient`, `UpstreamProofs` | the limiter and the retries of one client |
| `Roster`, `RosterProofs` | the account cache, change detection and the armories queue of one process |
| `Searches`, `UpstreamProofs` | the auction cache and the market searches of one process |
| `MC...` | symmetry for TLC; the instances are in the `.cfg` files |

### DomainCache

`memory[p]` is the L1 entry of process `p`, `redis` and `db` the shared tiers, `req[r]` an operation in
flight: the continuation of an `async` function between two awaits (`pc`), what it has read (`val`,
`row`), the writes it has issued and not seen settle (`todo`). Each action runs from one await to the
next. A read takes effect when it is issued, and its answer is used in a later step, so other operations
and the other process come between; the writes of a `Promise.allSettled` take effect one by one in any
order; a tier that is disconnected or fails is one more outcome of each access. A payload is the second
at which upstream answered it, so that ages are differences of times. `Crash` restarts a process, which
warms up again if it is in `WarmProcs`. `answer` (what the last step returned) and `refreshed` are
history variables. An await takes at most `OpDelay` or `FetchDelay`: the clock does not pass `due`.

The news keys use the same class with other TTLs, so one key stands for all of them; `getEvents` repeats
the steps of `fetchWithFallback` with TTLs of its own. That the warm-up writes the events key with the
TTLs of notices is not modelled.

### CalendarScheduler

The clock is the Korean time of the week, so that the state space is finite although the scheduler runs
for ever. `resetTimer` is the time left on the timer, `loop` where `runResetWindow` is, `due` the time
left on its sleep or at most on its call, `left` the time left until the window's deadline. Callbacks
run up to `Late` after their time. `forceRefresh` is abstracted to: it takes up to `CallDelay`, succeeds
only if upstream has been up at some time during the call, and fails only if it has been down
(`DomainCache` has the details, among them that `refreshed` does not mean that every tier was replaced).
What upstream is when the call returns does not decide: an attempt that was sent in the outage may fail
after its end, one that was answered may return into the next. `up` changes at any time; `seen` (what
upstream has been during the call) and `upFor` are history variables. `CallDelay` is an assumption:
`ApiClient` has no time limit of its own, only the HTTP library's.

### ArmoriesCache

As in `DomainCache`, with a detail that may hold some sections only: `sent[s]` is when upstream was asked
for section `s`, `None` where it is not in `fetchedSections`. One action per route begins an operation:
`GetCharacterDetailPartial`, `GetCharacterDetail`, `GetClassSpecificNodes`, `RefreshCharacterDetail`,
`DeleteCharacterCache`. `Hit` is what a request does with a fresh detail (return it, or fetch the missing
sections and merge), `Miss` what it does without one. A full request looks into the cache up to three
times, as the route, `getCharacterDetail` and `processCharacterDetail` do. A tier's TTL depends on the
item level and is longer than `CACHE_DB_MAX_AGE_SECONDS`; what may have expired is gone or not yet after
a cleanup, which each tier's own schedule, the `CacheManager`'s and the optimizer's make (`Upkeep`). The
optimizer's hit rates and counts decide which tiers it cleans, and the model takes any of them.

### PgClient

`call[c]` is where the `connect()` that `c` has started is; the boot loop's is its own, that of the
health check and of the queries is shared (`reconnecting`). `Out` counts the connections that are out of
the pool, `leaked` those that stay out: `connect()` does not reach `release()` when `SELECT 1` is
rejected. node-postgres's pool is modelled as it is used (external): at most `MaxConn` out, callers wait
for one, `end()` refuses whoever comes after and resolves when all are back. `transaction` and
`getConnection` have no callers in the packages; they take and give back a connection like `query`.
Migrations are one step that may fail. After the end of the pool nothing is claimed of callers left
waiting for it: the process exits then.

### UdpServer

`main` is where `startUdpService` is, `conn[r]` the promise that `connectWithTimeout` races against its
timer and that goes on when it has lost, `stop[s]` the call of `stop()` that a signal has made. A datagram
is one of five `Kinds`, which is all that the checks in `handleIncomingMessage`, `parseCommand` and
`dispatch` tell apart; `msg[m]` is what has become of it. `Tick` is one callback of the interval up to its
first await, `HandlerEnds` the rest of it. Signals and uncaught errors come at any moment, and the exit
of the process, `exit`, disables everything. What the commands do is their result; how a reply's text is
laid out and its `%` escaped is left out.

### Migrations and SchemaUpgrade

`present` is the set of versions whose effect is in the schema, `ledger` the rows of the table of
records, `mig[p]` the statement process `p` is at, `todo[p]` the set of versions it has left, of which
`Turn` is the next: the lowest upwards, the highest in a rollback, as the list and its `reverse()` are
sorted; `Newest` is what `slice(-steps)` takes. `Needs`, `Drops`
and `HeldBy` are read off the SQL of the six migrations: which objects of other versions it refers to,
which it takes away, and what keeps it from doing so. A version's statements are one transaction and its
record is another statement. A statement may fail although it has taken effect, a process may crash with
one running, and of two processes that commit the same statement at the same time the second may be
refused by the catalogue (`Commits`, `raced`: PostgreSQL checks `IF NOT EXISTS` before it takes the
unique index entry). An error while the records are read is answered as an empty list, as the code does.
No code calls `rollback()`; it is an operator's, with no process migrating.

`SchemaUpgrade` counts: a schema of `applied` versions, a ledger of `recorded` ones, which move by one
and in order. `Migrations!UpgradeSpec` is the refinement, `applied` and `recorded` being cardinalities.
It gives up (`Lost`) when a rollback has begun on a schema that is not fully recorded or was cut short:
after that the code promises nothing, since `rollback` works from the records alone.

### RestServer

It extends `Migrations`: its own call of `migrate()` is that of `Rest`, the other processes migrate
whenever they like. `boot` is where `startRestService` is; the two races of `initializeCacheSystem` end by
the connection or by the timer, and the connection that lost goes on (`postgres`). `jobs` are the
callbacks of `setImmediate`, `req` the requests, `stop[s]` the call of `stop()` a signal has made, `exit`
the exit code.

What a shutdown waits for is modelled on both connections. `redis` says that the client of node-redis is
open: whether it then has its server or seeks it may change at any moment and is decided where it matters,
in `Signal`. While it seeks its server, the QUIT of `stop()` waits in its queue (`queued`), for which no code
has a timer; once `quit()` has been called the client is closed, and the next `quit()` is rejected at once.
The pool's
`end()` waits for every client that is out (`AllBack`): that of the boot's `SELECT 1` (`probing`), a
statement of the migrations (`statement`), the queries of the background jobs and of the requests
(`querying`), and one that `connect()` has leaked after a failed `SELECT 1` (`leaked`), which is never
given back. It refuses the next query, forgets whoever waits for a client (`waiting`), and is rejected
when called a second time. A request's or a job's query may be one that reconnects, and so leak. What
queries read and write is left to the modules of the caches. The libraries' part is marked external in
`PROJECT.json`. The exit takes the memory of the process with it; the other processes go on.

### UpstreamClient

There is no clock: the limiter's stamps are ages that a tick increases and the window cuts off, so the
state space is finite although time goes on. A job is what a service awaits, `call` the requests it makes
at once; `getCharacterPartial` of `n` sections is `n` calls, the ark passive one more whose failure is
swallowed. A call waits for the limiter once and then makes its attempts (`MaxRetries`, or
`RetryAttempts` for the siblings, which have no limiter). `WaitEnds` appends the time *before* the wait,
as the code does. `Older` is the filter of the stamps, a tick later. `ClientSpec` is its specification
(the module is extended together with `Searches`, whose calls it makes). `age`, `sent` (when the calls of
the window sent their first requests, as ages) and `crowded` are history variables.

### Roster

Everything is in the memory of one process. Characters are numbers, an item level a small number. What a
request does after upstream's answer has no await that would let another request in, so it is one step
(`HandleAccount`: compare, store, queue); the answer itself may be slow, so the account compared with was
read before it. The queue is a sequence, kept in the order the code sorts it; `batch` holds the items
being processed, each of which may succeed or fail, `isProcessing` and `timers` are those of
`processQueue`. `since` (the rosters upstream had since a request began) and `announced` are history.

### Searches

A search is its key, a result the time at which upstream was asked for it. `SearchItems` looks and calls,
`SearchAnswers` stores and replies; a market search is a set of calls at once. The two routes for
auctions do the same. `reply` is what the last step answered and `served` the newest result served.

## Runs

Runs with `CHECK_DEADLOCK FALSE` stop because the clock or a bound on the environment stops, or because
the process has exited; the others never stop.

| Run | Question | Result |
|---|---|---|
| `cache_tiers` | every kind of operation, crashes and failing tiers: how old is what is served, does anything but an invalidation or a newer payload cost the stale fallback, is every caller answered? | `Freshness`, `StaleWithinHard`, `LiveRowKept`, `EveryRequestReturns`, `TypeOK` hold |
| `cache_refresh` | can an older copy in flight, in either process, undo a forced refresh for longer than `Lag`? | `RefreshWins` holds |
| `scheduler_week` | alive, aligned, healing, nothing begun after `stop`; does it go on for ever before it? | hold |
| `armories_merge` | does everyone get what it asked for, does the profile stay, how old does a section become through chains of merges? | `Complete`, `HasProfile`, `SectionAge`, `TypeOK` hold |
| `armories_full` | is a full answer full? | no, after another request's partial fetch |
| `pg_life` | one reconnection at a time; is a server found that comes up late or again; does a shutdown end, and stay? | hold |
| `udp_life` | does the bot get to listen whatever the stores do, does what is accepted get its turn and its answer, does exit code 0 mean a whole shutdown? | hold |
| `migrations` | can schema and records drift apart, do concurrent processes stop one another, is success complete? | hold, `UpgradeSpec` among them |
| `rest_life` | does the boot end, and a signal the process; what does exit code 0 cut short; what schema do requests and the warm-up meet while the other service migrates? | `Boots` holds, `ShutdownEnds` except in the three ways to hang that it names, `CleanExit` except after a second signal, `ServedSchema` with the exceptions it names |
| `upstream` | how many calls leave within a window, how long does a caller wait? | `WindowBound` holds as long as no two calls wait side by side, `AnsweredInTime` always |
| `roster` | is every rise queued, nothing forgotten, does the queue drain, is `source: api` true? | hold |
| `searches` | how old is a result, and how far does one step back behind another? | hold |

The violation is a finding in `PROJECT.json` with the line it contradicts.

### Bounds, and why they are enough

- *Processes and requests.* `cache_tiers` has one operation slot and two processes with all kinds of
  operations, `cache_refresh` two slots in two processes: a race in these caches is between one reader
  and one writer. `ArmoriesCache` is checked with one request after the other, and losses
  and cleanups of every tier between them, over a clock long enough for the longest chain of merges. The
  proofs remove these bounds for both modules, and those of the other modules below.
- *TTLs and clock.* `L1 = L2 = soft = 1`, `hard = 2` and five ticks: entries expire, become stale and
  hard-expire, and the longest chain of copies through all tiers, which `FreshBound` counts, fits in.
  `cache_refresh` has a soft limit beyond its clock instead, so that an older row stays servable
  throughout. Redis and table commands take no time in these runs (their steps interleave all the
  same), upstream calls one tick; the proofs hold for every delay.
- *Scheduler.* Four units per day, a reset late on day 3 and a window of 7 units, so that windows cross
  midnight and the reset's own instant, `CallDelay > Interval`, and late callbacks. The week is complete.
- *Armories sections.* Three sections allow two merges after the first fetch, each of which adds one: the
  longest chain that `SectionAge` counts.
- *UDP server.* Three datagrams and a queue of two: the queue runs full, and one handler that never ends
  has others behind it; two signals, the second during the shutdown that the first has begun.
- *PostgreSQL.* Pool 2 and three operations: the pool is exhausted, with callers waiting; three attempts.
- *Migrations.* The six versions of the code, two processes, one statement that fails, one crash and one
  rollback of any number of steps; each combination of the three. `rest_life` has no faults of its own,
  since `migrations` has them, but keeps the race of the two processes.
- *Shutdown.* `rest_life` has one request, which queries, waits for a client or leaks one, and two signals,
  the second at any moment of the shutdown that the first has begun. Its constraint `Apart` gives the second
  signal only where the other process does not migrate, for the size of the run; no action under fairness
  leaves the constraint, so that no liveness counterexample is hidden but those that combine the two.
- *Upstream.* Two jobs of up to two calls and a limit that is reached by one job: calls wait, wake late
  and meet others that begin.
- *Roster.* Two requests, two characters, batches of one: requests overlap, items wait behind a batch;
  a fixed number of changes of upstream's rosters and of requests.
- *Searches.* Three requests, one search and two goods, and a clock past the TTL and one call more: three
  calls overlap, and their answers come in any order.

Symmetry is used in runs without liveness, over requests, processes that are alike, and the sections
other than the profile.

### Fairness, and why the code justifies it

- `DomainCache.FairSpec`: every await resolves. Redis and PostgreSQL commands and upstream calls end
  with an answer or an error, and Node then runs the continuation. (Upstream calls of `ApiClient` have
  no time limit of their own; the HTTP library's, of minutes, ends them.) A pool that leaks have emptied
  does not: without `connectionTimeoutMillis` a query then waits for ever, and `EveryRequestReturns` and
  `Roster`'s `Drains`, whose items query too, hold only outside of that (Observations).
- `CalendarScheduler.FairSpec`: timers and settled promises are run by Node, and time passes. Nothing is
  assumed of upstream.
- `PgClient.FairSpec`: timers fire, the server answers or refuses, the pool serves whoever waits (its
  queue is first in, first out), operations end. Nothing is assumed of the server's being up, except
  where a property's premise says so: `SelfHeals` is conditional on the server's staying up and on a
  pool that leaks have not emptied, `ShutdownEnds` on a server that answers.
- `UdpServer.FairSpec`: the timers of `connectWithTimeout` and of the interval fire and `bind` answers.
  Nothing is assumed of the stores and of the handlers: `EveryCommandAnswered` is conditional on the
  end of the one handler it speaks of.
- `RestServer.FairSpec`: timers fire, a statement that has been sent is answered or its connection breaks,
  handlers end, the event loop runs what is queued, and the pool ends when every client is back. Nothing is
  assumed of the connections: neither that Redis is reached or a queued QUIT sent, nor that the pool serves
  who waits for a client, nor that a leaked client comes back. What a shutdown owes to that, `ShutdownEnds`
  says; each of its three exceptions is needed, TLC finds a counterexample without it.
- `Roster.FairSpec`: items being processed end and timers fire. Nothing is assumed of requests.

## Proofs

Assumptions are those named in the modules: constants are natural numbers (positive where a zero makes
no sense), sets of slots are finite where they are counted, `None` and the names are distinct.

`DomainCacheProofs`: `TypeCorrect`, `FreshnessHolds`, `StaleWithinHardHolds`, `LiveRowKeptHolds`,
`RefreshWinsHolds`. Bounds
on what callers are given are not inductive, since what is served now was read earlier and copied from
elsewhere before; `IInv` bounds the age of a payload wherever it rests (each tier) or travels (each kind
of await, relative to its `due`). The bounds add up along the path from the table to a memory map, which
is where `FreshBound` comes from. `LiveRowKept` follows, because only a write that is due one `OpDelay`
after upstream's answer ever reaches the table.
For `RefreshWins` there is a second invariant, `RInv`, over `IInv`: once a refresh has stored in the table
what it received at `R` (`Wrote`), every payload that is older by more than a command is bounded, stage by
stage (`Since`): the table holds none, one read before may still be on its way to Redis, what is in Redis
expires within `TtlL2`, and a read of it may still reach a map. Each stage's bound is the one before it and
one await or one TTL more; their sum is `Lag`.

`CalendarSchedulerProofs`: `AliveHolds`, `SelfHealsHolds`, `GivesUpLateHolds`, `NothingAfterStopHolds`,
`AlignedHolds`. The strengthening `Waits` relates how long upstream has been back to the time left on the
await: every tick of the one is a tick of the other, and a sleep begins only after a call that met
upstream down, which was then back for no longer than what the call had already taken. One call more may
be under way when the sleep is over, so that `SelfHeals` counts one pause and two calls; with one unit
less TLC finds a counterexample.
`AlignedHolds` needs remainders by constants, of which the solver knows nothing: `DivMod`, `ModUnique` and
`Times` state the few facts that the argument takes.

`PgClientProofs`: `TypeCorrect`, `SingleFlightHolds`, `EndedMeansDisconnectedHolds`. `Shared` says who
may have a call under way; `Ended`, that a pool whose `end()` has resolved has nothing out that could
still answer, which rests on the pool's counting (`NothingOut`); `Bounded` counts what is out through
every step.

`UdpServerProofs`: `TypeCorrect`, `NoneSkippedHolds`, `CleanExitHolds`. `Wired` orders the flags that boot,
timer and `stop` share: the workers run wherever the timer does, and `isRunning` is given up only by a
`stop` that has come to its end.

`ArmoriesCacheProofs`: `TypeCorrect`, `HasProfileHolds`, `CompleteHolds`, `SectionAgeHolds`. `IInv` says of
every detail at rest or in flight that it is sound (`Sound`: it has the profile, and no section is newer
than `normalizedAt`), and of every fetch that it brings what its base lacks (`BringsAll`). `SectionAge` is
about chains of merges of any length; `AInv` measures a chain by what it leaves behind: a merge adds a
section, so a section has outlived at most as many renewals as the detail has other sections (`Kept`).

`RosterProofs`: `NoneForgottenHolds`, `RisesQueuedHolds`, `ReplyFromApiHolds`. The queue's part (`QInv`)
adds that items are in a batch only while the flag is set. The rosters' part needs what a request carries
over its await: the account it read has no level that was not announced (`Announced`), although the cache
has changed since, and its answer is one that upstream had after it began (`Sourced`).

`UpstreamProofs`, of `Searches`: `ReplyAgeHolds`, `StepsBackLittleHolds`. An entry was stored within a call
of its being asked (`StoredInTime`), and nothing served was asked after the entry of its key was stored
(`ServedBefore`):
that is what bounds the step back when a late answer overwrites a newer one.

`UpstreamProofs`, of `UpstreamClient`: `WindowBoundHolds`, `AnsweredInTimeHolds`, both from `ClientInv`. A call
that waited leaves a stamp older than its request, so the limiter's list says less than was sent, and a
bound on the one is none on the other. `Paired` puts the two lists side by side, in their order: a stamp is
at least as old as its own request and no older than the request *before* it, so that when the filter
drops a stamp, at most one request more is still in the window. That order survives a wait only if the
waiter is alone and finds every stamp at least as old as the one it is going to leave, which `Waits` says;
`Aligned` is the two together, as long as no calls wait side by side. The lemmas about `Older`
(`OlderSorted`, `PairedOlder`) count what a filter leaves of a sorted list. For the time of a caller,
`Timely` bounds the age of a job by what each of its calls has behind it: the wait, `a` attempts and the
delays between them, whose sum grows by `RetryDelay * a` each time (`Sums`); the parallel calls do not add
up, because each is bounded by itself.

`RestServerProofs`, of `Migrations`: `RecordedIsPresentHolds`, `OneGetsThroughHolds`, `DoneIsDoneHolds`,
`MigrationsUpgrade`, for any number of processes, faults, crashes and rollbacks (the six versions are the
code's). `MigInv` says that, while the schema can be trusted, records and schema are each the first versions
of the list (`At(n, m)`): a process that migrates has left a tail of the list that begins at most one
version past the records (`Climbing`), one that rolls back is alone and has left the newest ones
(`Descending`). A statement of any process, also one that repeats what another has done, then moves `n` or
`m` by one or not at all, which is also what the refinement asks. `OneGetsThrough` needs to know who will
make the next step: without faults there is always a process that `Leads`, whose version is not recorded yet
and which no other has overtaken in the catalogue, until all is complete (`Driven`).

`RestServerProofs`, of `RestServer`: `CleanExitHolds`, `ServedSchemaHolds`, `RestServerUpgrades`. A call of
`stop()` that is past the pool either has seen its end or has overtaken another call that ends it
(`PastThePool`): with one signal the former. A pool that has ended waits for no statement
(`NothingRuns`). These invariants speak of no migration's progress. `ServedSchemaHolds` adds
to `MigInv` that the boot is in time only when its own call of `migrate()` is over (`Awaited`): whoever leads
then is another process, or the schema is complete. Every other step of the server leaves the schema alone,
so that it implements `SchemaUpgrade` as well.

Only model-checked: liveness, which is out of the prover's reach: `EveryRequestReturns` of `DomainCache`,
`KeepsAttempting` of `CalendarScheduler`, `SelfHeals` and `ShutdownEnds` of `PgClient`, `BootEnds` and
`EveryCommandAnswered` of `UdpServer`, `Boots` and `ShutdownEnds` of `RestServer`, `Drains` of `Roster`. All
safety properties that the passing runs check are theorems.

## Findings and observations

The run that ends in a violation is in the table above; `PROJECT.json` quotes the lines. Other
observations made while modelling, which no run is spent on:

*Toggles and configuration*
- `z.coerce.boolean()` (`shared/src/config/env.ts:72`) turns every non-empty string into true, so that
  `CACHE_GAMECONTENTS_CALENDAR_REFRESH_ENABLED=false` leaves the scheduler enabled, where
  `docs/adr/ADR-0004-calendar-cache-reset-aligned-refresh.md:287` calls it the way to switch it off.
  `DB_HEALTH_CHECK_ENABLED` has the same schema.
- `UdpServerConfig.timeout`, the circuit breaker's settings and `FETCH_RATE_LIMIT...` are never read.

*Upstream client*
- Calls that wait for the limiter side by side all wake at the same time and all go, so that it bounds
  nothing then (`api-client.ts:32-51`); `docs/development/configuration.md:59` and the review checklist
  (`docs/development/workflows/code-review-checklist.md:74`) count on it. `WindowBound` says what is left.
- `checkRateLimit` of `CharactersClient` throws when an answer has used up the quota: a good answer is
  thrown away and asked for again. Every error is retried, those a retry cannot help as well.

*Domain cache*
- `forceRefresh` returns `refreshed` and logs that all tiers were replaced although `setAllTiers` skips
  tiers that are not connected and swallows the errors of the others; the scheduler then closes its window.
- `hydrateUpperFromPayload` gives the Redis key the full L2 TTL whatever the age of the row, though its
  comment (`domain-cache-manager.ts:308`) counts both TTLs from `source_fetched_at`; `FreshBound` counts
  the longer life.
- The REST refresh routes invalidate before they fetch, so in maintenance the fallback is lost to every
  process, which ADR-0004, decision 2, avoids for the scheduler. They reply `X-Cache-Refreshed: true` even
  when what they serve comes from a cache or is stale.
- `events.map(this.normalizeEvent)` (`news-normalizer.ts:139`) loses `this`, so that an event with reward
  items throws at line 117 and the events are never cached.

*Armories*
- `refreshCharacterDetail` deletes the cached detail and then looks into the cache: when the delete of a
  tier failed (logged and swallowed) or another request wrote meanwhile, the caller gets the old detail
  (`armories-service.ts:336-353`).
- `mergeIntoCache` renews `normalizedAt` for sections it did not fetch, so that they outlive what the
  comment of `DB_CACHE_MAX_AGE_MS` (`cache-manager.ts:31`) calls the largest age allowed; `SectionAge`
  is the bound that does hold. `arkPassive.engravingEffects` is computed when a base detail is normalized
  (`armories-normalizer.ts:291-295`) and not again when the engravings are merged later.
- The partial route always replies `X-Cache-Hit: true`.

*Rosters, queue, searches*
- A queued item is served from the cache when the detail is fresh, so a new level may be "processed"
  without a fetch. A failed item goes to the end of the queue without looking for a newer item of the
  same character. A fall of the item level and a character that is gone are not detected, and the latter
  keeps its account. An older answer may overwrite a newer account; a refresh that fails leaves the
  account deleted.
- `searchAuctionsRefresh` (`rest-service/src/server.ts:1277`) serves the five-minute cache as
  `hit: false, source: api`; `docs/contracts/upstream-lostark-api/V9.0.0/api-reference.md:253-255` says
  that it fetches. `cleanupCache` is never called, so that entries that are not looked up again stay.

*PostgreSQL client, migrations, servers*
- When `SELECT 1` fails, `client.release()` (`postgres.ts:60`) is not reached: the connection stays out of
  the pool, and after `DB_CONNECTION_LIMIT` of them every `connect()` waits for ever, although
  `docs/adr/ADR-0005-postgres-connection-retry-self-heal.md:186` promises healing without a restart.
  `SelfHeals` has that exception. A connection that breaks during `SELECT 1` may instead end the process
  by an error event that nobody handles.
- When the boot loop gives up, migrations are not run later, although the client heals. The one of two
  processes whose migration is refused goes on with whatever the other has completed so far.
- `initializePostgres` starts the health check in its `finally` even after `disconnectPostgres`.
- A second signal's `pool.end()` is rejected and swallowed: the process may leave with success while
  statements of the first shutdown still run. `RestServer.stop()` does not stop the calendar scheduler.
- `RestServer.stop()` hangs in three ways, and Fastify then keeps the process: `quit()` (`redis.ts:82`) on a
  client that is connecting or seeking its server waits in the client's queue without a timer; `pool.end()`
  (`postgres.ts:170`) waits for a leaked client; a request that waits for a client when the pool is ended is
  never served, and `fastify.close()` waits for it. A second signal gets past the first two, because its
  own `quit()` and `end()` are rejected at once. `ShutdownEnds` of `RestServer` names the three.
- An error of `socket.send` is only logged (`udp-service/src/server.ts:402-413`): `EveryCommandAnswered`
  counts a reply as sent when the socket takes it.
- The size of the UDP worker pool limits nothing: every tick starts a handler. `sendReply` escapes a `%`
  only where no two hexadecimal digits follow, but the client decodes all of them. The architecture
  document (`docs/architecture/udp-service-kakao-bot.md`) quotes another text for a handler that throws.

## Not modelled, and why

- The Redis client's flag and its reconnection, which is the library's; the models above it take "not
  connected", "fails" and "never answers" as outcomes of every access. `RestServer` has as much of its
  state as a shutdown depends on.
- Errors of `socket.send`.
- What a bot command computes and how it is laid out; the fields of sections, news and auctions:
  sequential conversions of text and records without state (formatters, normalizers, contracts, types).
- Statistics and access counts, on which only log lines and the status routes depend.
- The second TTL of the events key, and operators' calls (`clearByType`, `clear`, `clearCache`).
- The legacy bot under `src/legacy`, which the packages replace; vendored code, documentation tooling, tests.

## Plan

Done: every component with state has a module, and what the passing runs check of safety is proved. What could
be added:

1. A composition: `CalendarScheduler` over `DomainCache`'s refresh, with the abstraction "the outcome is
   what upstream was during the call" shown as a refinement.
2. The events key's second TTL in a variant of `DomainCache`.
3. `UpstreamClient` shown to keep the one promise that `Searches` and `DomainCache` take from it, `CallMax`
   and `FetchDelay`, as a refinement instead of a parameter.
