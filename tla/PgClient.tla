------------------------------ MODULE PgClient ------------------------------
(***************************************************************************)
(* The life of the PostgreSQL connection of a process (ADR-0005):          *)
(* PgClient (packages/shared/src/db/postgres.ts), started and stopped by   *)
(* initializePostgres and disconnectPostgres                               *)
(* (packages/data-service/src/index.ts).                                   *)
(*                                                                         *)
(* connect() is called by the boot loop, by the health check and by any    *)
(* query that finds the client disconnected; the last two share one call.  *)
(* A call takes a connection out of the pool, runs SELECT 1 and gives it   *)
(* back.  The pool (node-postgres) is modelled as it is used: it hands out *)
(* MaxConn connections at most, keeps callers waiting when none is left,   *)
(* refuses who comes after end(), and resolves end() when all connections  *)
(* have been given back.  A process ends after disconnectPostgres: nothing *)
(* is claimed of callers that a pool which has ended leaves waiting.       *)
(***************************************************************************)
EXTENDS Integers, FiniteSets

CONSTANTS
    Op,           \* slots for query, execute and transaction
    MaxConn,      \* DB_CONNECTION_LIMIT
    MaxAttempts,  \* DB_CONNECT_RETRY_MAX_ATTEMPTS
    None

ASSUME PoolAssumption == {MaxConn, MaxAttempts} \subseteq Nat \ {0} /\ IsFiniteSet(Op)
ASSUME NameAssumption ==
    /\ {"boot", "timer"} \cap Op = {}
    /\ None \notin {"boot", "timer"} \cup Op

VARIABLES
    up,           \* the server accepts connections and answers
    isConnected,
    boot,         \* where initializePostgres is
    attempt,      \* of connectWithRetry
    call,         \* call[c]: where the connect() is that c has started
    reconnecting, \* who started the call that ensureConnected shares
    timer,        \* healthCheckTimer is set
    op,           \* op[o]: where the operation is
    leaked,       \* connections that were taken out and never given back
    pool          \* open, ending or ended

vars == <<up, isConnected, boot, attempt, call, reconnecting, timer, op, leaked, pool>>
-----------------------------------------------------------------------------
Callers == {"boot", "timer"} \cup Op

\* Connections that are out of the pool.
Out == Cardinality({c \in Callers : call[c] = "select"})
       + Cardinality({o \in Op : op[o] = "run"}) + leaked

Init ==
    /\ up \in BOOLEAN
    /\ isConnected = FALSE
    /\ boot = "connect" /\ attempt = 1
    /\ call = [c \in Callers |-> IF c = "boot" THEN "acquire" ELSE "none"]
    /\ reconnecting = None
    /\ timer = FALSE
    /\ op = [o \in Op |-> "idle"]
    /\ leaked = 0
    /\ pool = "open"
-----------------------------------------------------------------------------
(* ensureConnected and connect.                                            *)

\* mutant: every caller starts a connect() of its own
ShareOwnCall(c) ==
    /\ reconnecting' = c
    /\ call' = [call EXCEPT ![c] = "acquire"]

\* The first caller starts connect(), the others await the call it has started.
ShareCall(c) ==
    \/ reconnecting # None /\ UNCHANGED <<reconnecting, call>>
    \/ reconnecting = None /\ reconnecting' = c /\ call' = [call EXCEPT ![c] = "acquire"]

\* connect() of c resolves or rejects.  Operations that await the shared call go on, or
\* fail with "PostgreSQL not connected".
Settled(c, ok, next) ==
    /\ isConnected' = ok
    /\ call' = [call EXCEPT ![c] = "none"]
    /\ IF c = "boot"
       THEN next /\ UNCHANGED <<reconnecting, op>>
       ELSE /\ reconnecting' = None
            /\ op' = [o \in Op |-> IF op[o] # "wait" THEN op[o]
                                   ELSE IF ok THEN "acquire" ELSE "idle"]
            /\ UNCHANGED <<boot, attempt>>

BootConnected == boot' = "migrate" /\ UNCHANGED attempt

\* connectWithRetry: sleep and try again, or give up.
BootFails == boot' = IF attempt >= MaxAttempts THEN "over" ELSE "sleep"

\* The pool hands out a connection, or begins to open one that end() will wait for;
\* SELECT 1 is sent.
ConnectAcquires(c) ==
    /\ call[c] = "acquire" /\ pool = "open" /\ up /\ Out < MaxConn
    /\ call' = [call EXCEPT ![c] = "select"]
    /\ UNCHANGED <<up, isConnected, boot, attempt, reconnecting, timer, op, leaked, pool>>

\* The server refuses, or the pool has been ended.
ConnectIsRefused(c) ==
    /\ call[c] = "acquire"
    /\ pool # "open" \/ (~up /\ Out < MaxConn)
    /\ Settled(c, FALSE, BootFails /\ UNCHANGED attempt)
    /\ UNCHANGED <<up, timer, leaked, pool>>

SelectAnswers(c) ==
    /\ call[c] = "select" /\ up
    /\ Settled(c, TRUE, BootConnected)
    /\ UNCHANGED <<up, timer, leaked, pool>>

\* client.release() is not reached.
SelectFails(c) ==
    /\ call[c] = "select" /\ ~up
    /\ Settled(c, FALSE, BootFails /\ UNCHANGED attempt)
    /\ leaked' = leaked + 1
    /\ UNCHANGED <<up, timer, pool>>
-----------------------------------------------------------------------------
(* initializePostgres.                                                     *)

BootSleeps ==
    /\ boot = "sleep"
    /\ boot' = "connect" /\ attempt' = attempt + 1
    /\ call' = [call EXCEPT !["boot"] = "acquire"]
    /\ UNCHANGED <<up, isConnected, reconnecting, timer, op, leaked, pool>>

\* migrationManager.migrate(), which may fail.
BootMigrates ==
    /\ boot = "migrate"
    /\ boot' = "over"
    /\ UNCHANGED <<up, isConnected, attempt, call, reconnecting, timer, op, leaked, pool>>

\* mutant: the health check is started after a successful connection only
BootEndsByLuck ==
    /\ boot = "over"
    /\ boot' = "done" /\ timer' = isConnected
    /\ UNCHANGED <<up, isConnected, attempt, call, reconnecting, op, leaked, pool>>

\* finally: startHealthCheck(), whatever happened, and whether or not stop() was called.
BootEnds ==
    /\ boot = "over"
    /\ boot' = "done" /\ timer' = TRUE
    /\ UNCHANGED <<up, isConnected, attempt, call, reconnecting, op, leaked, pool>>

\* The interval of the health check.  While the client is connected, or a call is under
\* way, it does nothing.
HealthCheck ==
    /\ timer /\ ~isConnected /\ reconnecting = None
    /\ ShareCall("timer")
    /\ UNCHANGED <<up, isConnected, boot, attempt, timer, op, leaked, pool>>
-----------------------------------------------------------------------------
(* query, execute and transaction.                                         *)

StartOp(o) ==
    /\ op[o] = "idle"
    /\ \/ isConnected /\ op' = [op EXCEPT ![o] = "acquire"] /\ UNCHANGED <<reconnecting, call>>
       \/ ~isConnected /\ op' = [op EXCEPT ![o] = "wait"] /\ ShareCall(o)
    /\ UNCHANGED <<up, isConnected, boot, attempt, timer, leaked, pool>>

OpAcquires(o) ==
    /\ op[o] = "acquire" /\ pool = "open" /\ up /\ Out < MaxConn
    /\ op' = [op EXCEPT ![o] = "run"]
    /\ UNCHANGED <<up, isConnected, boot, attempt, call, reconnecting, timer, leaked, pool>>

\* mutant: the finally that gives the connection back is lost
OpEndsKeepingClient(o) ==
    /\ \/ op[o] = "acquire" /\ (pool # "open" \/ (~up /\ Out < MaxConn)) /\ UNCHANGED leaked
       \/ op[o] = "run" /\ leaked' = leaked + 1
    /\ op' = [op EXCEPT ![o] = "idle"]
    /\ UNCHANGED <<up, isConnected, boot, attempt, call, reconnecting, timer, pool>>

\* The pool refuses, or the statements, or the transaction, end with or without an error
\* and the connection is given back; isConnected is not touched.
OpEnds(o) ==
    /\ \/ op[o] = "acquire" /\ (pool # "open" \/ (~up /\ Out < MaxConn))
       \/ op[o] = "run"
    /\ op' = [op EXCEPT ![o] = "idle"]
    /\ UNCHANGED <<up, isConnected, boot, attempt, call, reconnecting, timer, leaked, pool>>
-----------------------------------------------------------------------------
(* disconnectPostgres, and the server.                                     *)

\* stopHealthCheck(), then pool.end().
Disconnect ==
    /\ pool = "open"
    /\ timer' = FALSE /\ pool' = "ending"
    /\ UNCHANGED <<up, isConnected, boot, attempt, call, reconnecting, op, leaked>>

\* mutant: nothing is left to do when the pool has ended
PoolEndsQuietly ==
    /\ pool = "ending" /\ Out = 0
    /\ pool' = "ended"
    /\ UNCHANGED <<up, isConnected, boot, attempt, call, reconnecting, timer, op, leaked>>

PoolEnds ==
    /\ pool = "ending" /\ Out = 0
    /\ pool' = "ended" /\ isConnected' = FALSE
    /\ UNCHANGED <<up, boot, attempt, call, reconnecting, timer, op, leaked>>

ServerChanges ==
    /\ up' = ~up
    /\ UNCHANGED <<isConnected, boot, attempt, call, reconnecting, timer, op, leaked, pool>>

Connecting(c) ==
    ConnectAcquires(c) \/ ConnectIsRefused(c) \/ SelectAnswers(c) \/ SelectFails(c)

Booting == BootSleeps \/ BootMigrates \/ BootEnds

Operating(o) == OpAcquires(o) \/ OpEnds(o)

Next ==
    \/ \E c \in Callers : Connecting(c)
    \/ Booting \/ HealthCheck \/ Disconnect \/ PoolEnds \/ ServerChanges
    \/ \E o \in Op : StartOp(o) \/ Operating(o)

Spec == Init /\ [][Next]_vars

\* Timers fire, the server or its absence answers, the pool serves who waits.
FairSpec ==
    /\ Spec
    /\ WF_vars(Booting) /\ WF_vars(HealthCheck) /\ WF_vars(PoolEnds)
    /\ \A c \in Callers : WF_vars(Connecting(c))
    /\ \A o \in Op : WF_vars(Operating(o))
-----------------------------------------------------------------------------
(* Properties.                                                             *)

TypeOK ==
    /\ up \in BOOLEAN /\ isConnected \in BOOLEAN /\ timer \in BOOLEAN
    /\ boot \in {"connect", "sleep", "migrate", "over", "done"}
    /\ attempt \in 1 .. MaxAttempts
    /\ call \in [Callers -> {"none", "acquire", "select"}]
    /\ reconnecting \in Callers \cup {None}
    /\ op \in [Op -> {"idle", "wait", "acquire", "run"}]
    /\ leaked \in 0 .. MaxConn
    /\ pool \in {"open", "ending", "ended"}

\* ADR-0005, decision 3: queries and the health check never have more than one connect()
\* under way between them, and whoever awaits one awaits a call that will settle.
SingleFlight ==
    /\ {c \in Callers \ {"boot"} : call[c] # "none"} = {reconnecting} \ {None}
    /\ (\E o \in Op : op[o] = "wait") => reconnecting # None

\* After disconnect() has returned, no call that was under way makes the client look
\* connected.
EndedMeansDisconnected == pool = "ended" => ~isConnected

\* ADR-0005: a server that comes up, late or again, is found without a restart, unless
\* leaks have emptied the pool.
SelfHeals ==
    [](pool = "open") /\ <>[]up /\ [](leaked < MaxConn) => <>[]isConnected

\* While the server answers, whatever boot, queries and health check are doing, every
\* connection comes back and a shutdown comes to its end.
ShutdownEnds == []up => [](pool = "ending" => <>(pool = "ended"))
=============================================================================
