------------------------------ MODULE RestServer ------------------------------
(***************************************************************************)
(* The process of the REST service (rest-service/src/index.ts, server.ts)  *)
(* from its boot to its exit, with the migrations it runs while another    *)
(* process of the system may be running them too.                          *)
(*                                                                         *)
(* Boot and each call of stop() are async functions: an action runs from   *)
(* one await to the next.  The two races of the boot are each between the  *)
(* connection of a store and a timer; a connection that has lost its race  *)
(* goes on by itself.  The exit of the process disables everything.        *)
(*                                                                         *)
(* stop() waits for both stores without a timer: for the answer to QUIT,   *)
(* and for every client that is out of the pool.  node-redis queues what   *)
(* it is asked while it connects and refuses what comes after quit();      *)
(* node-postgres refuses what comes after end() and never serves those     *)
(* who were waiting for a client by then.                                  *)
(***************************************************************************)
EXTENDS Migrations

CONSTANTS Rest,      \* the process modelled here, one of Procs
          Reqs,      \* slots for requests
          Signals    \* slots for SIGTERM and SIGINT

ASSUME RestAssumption == Rest \in Procs
ASSUME SignalsAssumption == IsFiniteSet(Signals)

VARIABLES
    boot,        \* where startRestService() is
    redis,       \* redisClient is open: connected, or seeking its server
    postgres,    \* where initializePostgres() is; probing: its SELECT 1 has a client
    pool,        \* the pool of pgClient
    leaked,      \* a SELECT 1 has failed: its client is never given back
    statement,   \* pool.end() waits for a statement of the migrations
    inTime,      \* initializePostgres() has won its race
    jobs,        \* the optimizer and the warm-up, which setImmediate() starts
    fastify,
    req,         \* the request in each slot; querying: it has a client, waiting: it needs one
    stop,        \* where the call of stop() is that a signal has made
    exit         \* the exit code, or "none"
pgVars == <<postgres, pool, leaked, statement>>
restVars == <<boot, redis, pgVars, inTime, jobs, fastify, req, stop, exit>>
vars == <<migVars, restVars>>

RestTypeOK ==
    /\ MigTypeOK
    /\ boot \in {"plugins", "redis", "postgres", "listen", "up"}
    /\ redis \in BOOLEAN
    /\ postgres \in {"none", "connecting", "probing", "migrating", "over"}
    /\ pool \in {"open", "ending", "ended"}
    /\ leaked \in BOOLEAN /\ statement \in BOOLEAN
    /\ inTime \in BOOLEAN
    /\ jobs \in {"none", "queued", "begun", "querying"}
    /\ fastify \in {"new", "listening", "closing", "closed"}
    /\ req \in [Reqs -> {"none", "handling", "waiting", "querying"}]
    /\ stop \in [Signals -> {"none", "queued", "quit", "end", "close"}]
    /\ exit \in {"none", "0", "1"}

Init ==
    /\ MigInit
    /\ boot = "plugins" /\ redis = FALSE /\ inTime = FALSE
    /\ postgres = "none" /\ pool = "open" /\ leaked = FALSE /\ statement = FALSE
    /\ jobs = "none"
    /\ fastify = "new"
    /\ req = [r \in Reqs |-> "none"]
    /\ stop = [s \in Signals |-> "none"]
    /\ exit = "none"

Runs == exit = "none"

\* The pool takes no statement any more, and the call of migrate() ends.
Refused == GivesUp(Rest) /\ faults' = faults + 1 /\ UNCHANGED <<present, ledger, clean>>

\* A statement of the migrations may be on its way: the pool is open, or waits for this one.
OnItsWay == pool = "open" \/ statement

\* process.exit(): nothing is awaited any more, a statement on its way included, and the memory of
\* the process is gone.
Exit(code) ==
    /\ exit' = code
    /\ \/ Working(Rest) /\ OnItsWay /\ Dies(Rest)
       \/ Working(Rest) /\ ~OnItsWay /\ Refused
       \/ ~Working(Rest) /\ UNCHANGED migVars
    /\ boot' = "plugins" /\ redis' = FALSE /\ inTime' = FALSE
    /\ postgres' = "none" /\ pool' = "open" /\ leaked' = FALSE /\ statement' = FALSE
    /\ jobs' = "none"
    /\ fastify' = "new"
    /\ req' = [r \in Reqs |-> "none"]
    /\ stop' = [s \in Signals |-> "none"]

-----------------------------------------------------------------------------
(* The boot *)

\* registerPlugins(), registerRoutes(), and the start of the first race; without a Redis URL in
\* development there are no stores and nothing is started in the background.
RegisterPlugins ==
    /\ Runs /\ boot = "plugins"
    /\ \/ boot' = "redis" /\ redis' = TRUE
       \/ boot' = "listen" /\ UNCHANGED redis
    /\ UNCHANGED <<migVars, pgVars, inTime, jobs, fastify, req, stop, exit>>

\* The first race ends by the connection or the timer.
RedisDecided ==
    /\ Runs /\ boot = "redis"
    /\ boot' = "postgres" /\ postgres' = "connecting"
    /\ UNCHANGED <<migVars, redis, pool, leaked, statement, inTime, jobs, fastify, req, stop, exit>>

\* mutant: the timer resolves, as if the stores were there
PostgresDecidedEitherWay ==
    /\ Runs /\ boot = "postgres"
    /\ inTime' = TRUE
    /\ boot' = "listen"
    /\ jobs' = "queued"
    /\ UNCHANGED <<migVars, redis, pgVars, fastify, req, stop, exit>>

\* mutant: Postgres is awaited without a timer
PostgresAwaited ==
    /\ Runs /\ boot = "postgres" /\ postgres = "over"
    /\ inTime' = TRUE
    /\ boot' = "listen"
    /\ jobs' = "queued"
    /\ UNCHANGED <<migVars, redis, pgVars, fastify, req, stop, exit>>

\* The second race ends; the rest of initializeCacheSystem() awaits nothing.
PostgresDecided ==
    /\ Runs /\ boot = "postgres"
    /\ inTime' = (postgres = "over")
    /\ boot' = "listen"
    /\ jobs' = "queued"
    /\ UNCHANGED <<migVars, redis, pgVars, fastify, req, stop, exit>>

\* start(): listen() is refused when stop() has begun to close, as it is when the port is taken.
Listen ==
    /\ Runs /\ boot = "listen" /\ fastify = "new"
    /\ boot' = "up" /\ fastify' = "listening"
    /\ UNCHANGED <<migVars, redis, pgVars, inTime, jobs, req, stop, exit>>

BootFails == Runs /\ boot \in {"plugins", "listen"} /\ Exit("1")

\* The callbacks of setImmediate: cacheOptimizer.startOptimization() and warmupDomainCaches().
RunQueued ==
    /\ Runs /\ jobs = "queued" /\ jobs' = "begun"
    /\ UNCHANGED <<migVars, boot, redis, pgVars, inTime, fastify, req, stop, exit>>

-----------------------------------------------------------------------------
(* The connections.  Postgres is connected by a loop, and migrated.        *)

\* An attempt of connectWithRetry() gets a client for its SELECT 1; or the last one is refused.
PostgresConnects ==
    /\ Runs /\ postgres = "connecting"
    /\ \/ pool = "open" /\ postgres' = "probing"
       \/ postgres' = "over"
    /\ UNCHANGED <<migVars, boot, redis, pool, leaked, statement, inTime, jobs, fastify, req, stop, exit>>

\* SELECT 1 is answered, and migrate() begins; or it fails, for the last time or not.
SelectEnds ==
    /\ Runs /\ postgres = "probing"
    /\ \/ postgres' = "migrating" /\ Migrate(Rest) /\ UNCHANGED leaked
       \/ postgres' \in {"connecting", "over"} /\ leaked' = TRUE /\ UNCHANGED migVars
    /\ UNCHANGED <<boot, redis, pool, statement, inTime, jobs, fastify, req, stop, exit>>

\* One statement of the migrations. The end of the pool waits for the one that is running and
\* refuses the next.
MigrationStep ==
    /\ Runs /\ Working(Rest)
    /\ IF OnItsWay THEN MigStep(Rest) ELSE Refused
    /\ statement' = FALSE
    /\ UNCHANGED <<boot, redis, postgres, pool, leaked, inTime, jobs, fastify, req, stop, exit>>

PostgresInitialized ==
    /\ Runs /\ postgres = "migrating" /\ ~Working(Rest) /\ postgres' = "over"
    /\ UNCHANGED <<migVars, boot, redis, pool, leaked, statement, inTime, jobs, fastify, req, stop, exit>>

\* No client is out of the pool.
AllBack ==
    /\ ~leaked /\ ~statement
    /\ postgres # "probing" /\ jobs # "querying" /\ \A r \in Reqs : req[r] # "querying"

PoolEnds ==
    /\ Runs /\ pool = "ending" /\ AllBack /\ pool' = "ended"
    /\ UNCHANGED <<migVars, boot, redis, postgres, leaked, statement, inTime, jobs, fastify, req, stop, exit>>

-----------------------------------------------------------------------------
(* Who queries: the requests and, in the background, the warm-up, the      *)
(* optimizer and the health check.                                         *)

\* The query ends, or it was the SELECT 1 of a reconnection and its client leaks.
Released == leaked' \in {leaked, TRUE}

JobQueries ==
    /\ Runs /\ jobs = "begun" /\ pool = "open" /\ jobs' = "querying"
    /\ UNCHANGED <<migVars, boot, redis, pgVars, inTime, fastify, req, stop, exit>>

JobQueryEnds ==
    /\ Runs /\ jobs = "querying" /\ jobs' = "begun" /\ Released
    /\ UNCHANGED <<migVars, boot, redis, postgres, pool, statement, inTime, fastify, req, stop, exit>>

Accept(r) ==
    /\ Runs /\ fastify = "listening" /\ req[r] = "none"
    /\ req' = [req EXCEPT ![r] = "handling"]
    /\ UNCHANGED <<migVars, boot, redis, pgVars, inTime, jobs, fastify, stop, exit>>

\* The pool has a client for the request, or none is left and it waits for one.
Queries(r) ==
    /\ Runs /\ req[r] \in {"handling", "waiting"} /\ pool = "open"
    /\ \E q \in {"querying", "waiting"} : req' = [req EXCEPT ![r] = q]
    /\ UNCHANGED <<migVars, boot, redis, pgVars, inTime, jobs, fastify, stop, exit>>

QueryEnds(r) ==
    /\ Runs /\ req[r] = "querying" /\ req' = [req EXCEPT ![r] = "handling"] /\ Released
    /\ UNCHANGED <<migVars, boot, redis, postgres, pool, statement, inTime, jobs, fastify, stop, exit>>

\* Every handler catches what its services throw and answers.
Answer(r) ==
    /\ Runs /\ req[r] = "handling" /\ req' = [req EXCEPT ![r] = "none"]
    /\ UNCHANGED <<migVars, boot, redis, pgVars, inTime, jobs, fastify, stop, exit>>

-----------------------------------------------------------------------------
(* gracefulShutdown(): every signal makes a call of stop() of its own *)

\* stop(), up to its first await: quit() of a client that is not open is rejected at once, which
\* disconnectRedis() swallows; QUIT is sent to a server, or waits in the queue of a client that
\* seeks one, as it may at any moment.
Signal(s) ==
    /\ Runs /\ stop[s] = "none"
    /\ \E q \in {"quit", "queued"} :
          /\ q = "queued" => redis
          /\ stop' = [stop EXCEPT ![s] = q]
    /\ redis' = FALSE
    /\ UNCHANGED <<migVars, boot, pgVars, inTime, jobs, fastify, req, exit>>

\* The attempt to connect that was under way ends: QUIT is sent, or dropped with an error.  There
\* is no other attempt, so that a QUIT which came between two of them stays in the queue (external).
QuitFlushed(s) ==
    /\ Runs /\ stop[s] = "queued"
    /\ stop' = [stop EXCEPT ![s] = "quit"]
    /\ UNCHANGED <<migVars, boot, redis, pgVars, inTime, jobs, fastify, req, exit>>

\* disconnectRedis() has come to its end, and disconnectPostgres() begins: pool.end(), with a
\* statement of the migrations on its way or between two of them. A second end() is rejected at
\* once, which disconnectPostgres() swallows.
RedisQuits(s) ==
    /\ Runs /\ stop[s] = "quit"
    /\ \/ /\ pool = "open" /\ pool' = "ending" /\ stop' = [stop EXCEPT ![s] = "end"]
          /\ statement' \in {b \in BOOLEAN : b => Working(Rest)}
          /\ UNCHANGED fastify
       \/ /\ pool # "open" /\ stop' = [stop EXCEPT ![s] = "close"] /\ UNCHANGED <<pool, statement>>
          /\ fastify' = IF fastify = "closed" THEN fastify ELSE "closing"
    /\ UNCHANGED <<migVars, boot, redis, postgres, leaked, inTime, jobs, req, exit>>

\* mutant: the end of the pool is not awaited
PostgresEndedUnawaited(s) ==
    /\ Runs /\ stop[s] = "end"
    /\ stop' = [stop EXCEPT ![s] = "close"]
    /\ fastify' = IF fastify = "closed" THEN fastify ELSE "closing"
    /\ UNCHANGED <<migVars, boot, redis, pgVars, inTime, jobs, req, exit>>

PostgresEnded(s) ==
    /\ Runs /\ stop[s] = "end" /\ pool = "ended"
    /\ stop' = [stop EXCEPT ![s] = "close"]
    /\ fastify' = IF fastify = "closed" THEN fastify ELSE "closing"
    /\ UNCHANGED <<migVars, boot, redis, pgVars, inTime, jobs, req, exit>>

\* fastify.close() waits for the requests that have been accepted (external).
Closes ==
    /\ Runs /\ fastify = "closing" /\ \A r \in Reqs : req[r] = "none"
    /\ fastify' = "closed"
    /\ UNCHANGED <<migVars, boot, redis, pgVars, inTime, jobs, req, stop, exit>>

\* mutant: a shutdown waits for the boot it has overtaken
ExitsWhenUp(s) == Runs /\ stop[s] = "close" /\ fastify = "closed" /\ boot = "up" /\ Exit("0")

ExitsGracefully(s) == Runs /\ stop[s] = "close" /\ fastify = "closed" /\ Exit("0")

\* handleUncaughtError(): its stop() gets as far as its first await.
UncaughtError == Runs /\ Exit("1")

-----------------------------------------------------------------------------

\* The other processes migrate, roll back and crash as they like.
Others ==
    /\ \/ \E p \in Procs \ {Rest} : Migrate(p) \/ MigStep(p) \/ Crash(p)
       \/ \E p \in Operators \ {Rest} : Rollback(p)
    /\ UNCHANGED restVars

Boot == RegisterPlugins \/ RedisDecided \/ PostgresDecided \/ Listen \/ RunQueued
Stores ==
    \/ PostgresConnects \/ SelectEnds \/ MigrationStep \/ PostgresInitialized
    \/ PoolEnds \/ JobQueries \/ JobQueryEnds
Request(r) == Accept(r) \/ Queries(r) \/ QueryEnds(r) \/ Answer(r)
Stop(s) == RedisQuits(s) \/ PostgresEnded(s) \/ ExitsGracefully(s)

Next ==
    \/ Boot \/ BootFails \/ Stores \/ Closes \/ UncaughtError \/ Others
    \/ \E r \in Reqs : Request(r)
    \/ \E s \in Signals : Signal(s) \/ QuitFlushed(s) \/ Stop(s)

Spec == Init /\ [][Next]_vars

\* Timers fire, a statement that was sent is answered or its connection breaks, handlers end, the
\* event loop runs what is queued. Nothing is assumed of the connections: neither that Redis is
\* reached, nor that a QUIT which is queued is sent, nor that the pool serves who waits.
FairSpec ==
    /\ Spec
    /\ WF_vars(Boot) /\ WF_vars(Closes)
    /\ WF_vars(SelectEnds) /\ WF_vars(MigrationStep) /\ WF_vars(JobQueryEnds) /\ WF_vars(PoolEnds)
    /\ \A r \in Reqs : WF_vars(Answer(r)) /\ WF_vars(QueryEnds(r))
    /\ \A s \in Signals : WF_vars(Stop(s))

-----------------------------------------------------------------------------

\* The boot comes to an end, whatever Redis and Postgres do and however long they take.
Boots == <>(boot = "up" \/ exit # "none")

\* A signal ends the process, whatever state the boot, the migrations and the requests are in. Its
\* stop() hangs in three ways only: its QUIT has met a Redis client that seeks its server, a client of
\* the pool has leaked, or a request was waiting for a client when the pool was ended.
ShutdownEnds ==
    \A s \in Signals :
        stop[s] # "none" ~> \/ exit # "none"
                            \/ stop[s] = "queued"
                            \/ stop[s] = "end" /\ leaked
                            \/ stop[s] = "close" /\ \E r \in Reqs : req[r] = "waiting"

\* Exit code 0 cuts no request short, and, unless a second signal came during the shutdown, no
\* statement either: a migration of this process is then left between two statements.
CleanExit ==
    [][exit = "none" /\ exit' = "0" =>
         /\ \A r \in Reqs : req[r] = "none"
         /\ Cardinality({s \in Signals : stop[s] # "none"}) = 1 =>
               pool = "ended" /\ UNCHANGED <<present, ledger>>]_vars

\* When Postgres has been in time, the warm-up and the requests find a schema that is complete, or
\* that the process which stopped this one's migration is still completing.
ServedSchema ==
    /\ inTime /\ (jobs \in {"begun", "querying"} \/ boot = "up") /\ mig[Rest] # "idle"
    /\ faults = 0 /\ crashes = 0 /\ rollbacks = 0
    => present = Versions \/ \E p \in Procs \ {Rest} : Working(p)
=============================================================================
