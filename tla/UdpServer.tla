----------------------------- MODULE UdpServer -----------------------------
(***************************************************************************)
(* The process of the Kakao bot: UdpServer with its queue and worker pool  *)
(* (packages/udp-service/src/server.ts), the router it dispatches to       *)
(* (routing/), and the process around it (index.ts), from the first        *)
(* connection to process.exit.                                             *)
(*                                                                         *)
(* A timer takes one datagram out of the queue per tick and starts its     *)
(* handler, without waiting for the handlers before it: any number of them *)
(* run at a time, and each one answers through the socket when it ends.    *)
(* Signals come at any time, during the boot and during a shutdown, too.   *)
(* A step runs from one await to the next: nothing else gets in between.   *)
(***************************************************************************)
EXTENDS Integers, Sequences

CONSTANTS
    Msg,       \* the datagrams that may arrive
    Signal,    \* calls of gracefulShutdown: SIGTERM and SIGINT, once or again
    QueueSize,
    PoolSize   \* UDP_GATEWAY_WORKER_POOL_SIZE

ASSUME SizeAssumption == {QueueSize, PoolSize} \subseteq Nat \ {0}

VARIABLES
    main,       \* where startUdpService is
    conn,       \* conn[r]: initializeRedis() and initializePostgres()
    socket,
    isRunning,
    ticking,    \* processingInterval is set
    workers,    \* isRunning of all workers
    worker,     \* currentWorkerIndex
    queue,
    kind,       \* kind[m]: what m turned out to be
    msg,        \* msg[m]: what became of m
    stop,       \* stop[s]: where the call of stop() is that s has made
    exit        \* the exit code of the process, or "none"

vars == <<main, conn, socket, isRunning, ticking, workers, worker, queue, kind, msg, stop, exit>>
process == <<main, conn, socket, isRunning, ticking, workers, stop, exit>>
-----------------------------------------------------------------------------
Stores == {"redis", "postgres"}

\* What a datagram may hold: something too large, or that is no envelope of an event
\* "message"; chat without the prefix; an unknown or a disabled command; a command with
\* too few arguments; a command.
Kinds == {"invalid", "chat", "unknown", "short", "command"}

Init ==
    /\ main = "redis"
    /\ conn = [r \in Stores |-> IF r = "redis" THEN "pending" ELSE "none"]
    /\ socket = "new"
    /\ isRunning = FALSE /\ ticking = FALSE /\ workers = FALSE
    /\ worker = 0
    /\ queue = << >>
    /\ kind = [m \in Msg |-> "none"]
    /\ msg = [m \in Msg |-> "unsent"]
    /\ stop = [s \in Signal |-> "none"]
    /\ exit = "none"
-----------------------------------------------------------------------------
(* startUdpService: initialize, then start.                                *)

\* initializeRedis() or initializePostgres() returns, with or without a connection; also
\* when nobody waits for it any more.
ConnectSettles(r) ==
    /\ exit = "none" /\ conn[r] = "pending"
    /\ \E c \in {"open", "failed"} : conn' = [conn EXCEPT ![r] = c]
    /\ UNCHANGED <<main, socket, isRunning, ticking, workers, worker, queue, kind, msg, stop, exit>>

\* mutant: the connections are awaited without a time limit
Awaited(r) == main = r /\ conn[r] # "pending"

\* connectWithTimeout: the connection is settled, or five seconds have passed.
Raced(r) == main = r

RedisDone ==
    /\ exit = "none" /\ Raced("redis")
    /\ main' = "postgres"
    /\ conn' = [conn EXCEPT !["postgres"] = "pending"]
    /\ UNCHANGED <<socket, isRunning, ticking, workers, worker, queue, kind, msg, stop, exit>>

\* mutant: the workers are left to start() of the server, which does not start them
PostgresDoneWithoutWorkers ==
    /\ exit = "none" /\ Raced("postgres")
    /\ main' = "bind" /\ socket' = "binding"
    /\ UNCHANGED <<conn, isRunning, ticking, workers, worker, queue, kind, msg, stop, exit>>

\* The workers start, the socket's handlers are set, and start() calls bind().
PostgresDone ==
    /\ exit = "none" /\ Raced("postgres")
    /\ main' = "bind" /\ socket' = "binding" /\ workers' = TRUE
    /\ UNCHANGED <<conn, isRunning, ticking, worker, queue, kind, msg, stop, exit>>

Bound ==
    /\ exit = "none" /\ main = "bind"
    /\ main' = "up" /\ socket' = "bound"
    /\ isRunning' = TRUE /\ ticking' = TRUE
    /\ UNCHANGED <<conn, workers, worker, queue, kind, msg, stop, exit>>

\* start() throws, startUdpService leaves the process.
BindFails ==
    /\ exit = "none" /\ main = "bind"
    /\ exit' = "1"
    /\ UNCHANGED <<main, conn, socket, isRunning, ticking, workers, worker, queue, kind, msg, stop>>
-----------------------------------------------------------------------------
(* Datagrams.                                                              *)

\* handleIncomingMessage and LockFreeQueue.enqueue.
Arrive(m) ==
    /\ exit = "none" /\ socket = "bound" /\ msg[m] = "unsent"
    /\ \E k \in Kinds :
        /\ kind' = [kind EXCEPT ![m] = k]
        /\ \/ /\ k = "invalid" \/ Len(queue) >= QueueSize
              /\ msg' = [msg EXCEPT ![m] = "dropped"]
              /\ UNCHANGED queue
           \/ /\ k # "invalid" /\ Len(queue) < QueueSize
              /\ msg' = [msg EXCEPT ![m] = "queued"]
              /\ queue' = Append(queue, m)
    /\ UNCHANGED <<worker, process>>

\* sendReply: a closed socket throws, and the reply is lost.
Sent == IF socket = "bound" THEN "answered" ELSE "lost"

\* WorkerPool.getNextWorker.
NextWorker == worker' = (worker + 1) % PoolSize

\* UdpWorker.processEnvelope, parseCommand and dispatch, up to the handler's first await.
Dispatch(m) ==
    msg' = [msg EXCEPT ![m] =
            CASE ~workers -> "skipped"
              [] workers /\ kind[m] = "short" -> Sent
              [] workers /\ kind[m] = "command" -> "handling"
              [] OTHER -> "ignored"]

Tick ==
    /\ exit = "none" /\ ticking /\ queue # << >>
    /\ queue' = Tail(queue)
    /\ NextWorker
    /\ Dispatch(Head(queue))
    /\ UNCHANGED <<kind, process>>

\* mutant: dispatch lets the error out, and the tick logs it
HandlerEndsUnmasked(m) ==
    /\ exit = "none" /\ msg[m] = "handling"
    /\ \E result \in {"text", "null", "error"} :
        msg' = [msg EXCEPT ![m] = CASE result = "text" -> Sent
                                    [] result = "null" -> "ignored"
                                    [] result = "error" -> "lost"]
    /\ UNCHANGED <<worker, queue, kind, process>>

\* The handler returns a text, which is sent, or null, or throws, which dispatch turns
\* into a text.
HandlerEnds(m) ==
    /\ exit = "none" /\ msg[m] = "handling"
    /\ \E result \in {"text", "null", "error"} :
        msg' = [msg EXCEPT ![m] = IF result = "null" THEN "ignored" ELSE Sent]
    /\ UNCHANGED <<worker, queue, kind, process>>
-----------------------------------------------------------------------------
(* gracefulShutdown and stop.                                              *)

\* mutant: isRunning is cleared at the beginning of stop()
BeginStopCleared(s) ==
    /\ socket' = "closed" /\ ticking' = FALSE /\ workers' = FALSE /\ isRunning' = FALSE
    /\ stop' = [stop EXCEPT ![s] = "redis"]

\* stop() up to its first await: the timer, the workers, the socket.
BeginStop(s) ==
    /\ socket' = "closed" /\ ticking' = FALSE /\ workers' = FALSE
    /\ stop' = [stop EXCEPT ![s] = "redis"]
    /\ UNCHANGED isRunning

\* A server that is not running, or not yet, is left at once; one that a call before this
\* one has closed cannot be closed again, and the process is left with an error.
SignalArrives(s) ==
    /\ exit = "none" /\ stop[s] = "none"
    /\ \/ ~isRunning /\ exit' = "0" /\ UNCHANGED <<socket, ticking, workers, isRunning, stop>>
       \/ isRunning /\ socket = "closed" /\ exit' = "1"
          /\ UNCHANGED <<socket, ticking, workers, isRunning, stop>>
       \/ isRunning /\ socket # "closed" /\ BeginStop(s) /\ UNCHANGED exit
    /\ UNCHANGED <<main, conn, worker, queue, kind, msg>>

\* disconnectRedis() returns; it has logged and swallowed its errors.
RedisDisconnects(s) ==
    /\ exit = "none" /\ stop[s] = "redis"
    /\ stop' = [stop EXCEPT ![s] = "postgres"]
    /\ conn' \in {conn, [conn EXCEPT !["redis"] = "closed"]}
    /\ UNCHANGED <<main, socket, isRunning, ticking, workers, worker, queue, kind, msg, exit>>

\* disconnectPostgres() returns, stop() has ended and the process is left.
PostgresDisconnects(s) ==
    /\ exit = "none" /\ stop[s] = "postgres"
    /\ stop' = [stop EXCEPT ![s] = "done"]
    /\ conn' \in {conn, [conn EXCEPT !["postgres"] = "closed"]}
    /\ isRunning' = FALSE /\ exit' = "0"
    /\ UNCHANGED <<main, socket, ticking, workers, worker, queue, kind, msg>>

\* handleUncaughtError, handleUnhandledRejection: stop() is called and not awaited.
Uncaught ==
    /\ exit = "none"
    /\ exit' = "1"
    /\ IF isRunning
       THEN socket' = "closed" /\ ticking' = FALSE /\ workers' = FALSE
       ELSE UNCHANGED <<socket, ticking, workers>>
    /\ UNCHANGED <<main, conn, isRunning, worker, queue, kind, msg, stop>>

Booting == RedisDone \/ PostgresDone \/ Bound \/ BindFails

Next ==
    \/ \E r \in Stores : ConnectSettles(r)
    \/ Booting \/ Tick \/ Uncaught
    \/ \E m \in Msg : Arrive(m) \/ HandlerEnds(m)
    \/ \E s \in Signal : SignalArrives(s) \/ RedisDisconnects(s) \/ PostgresDisconnects(s)

Spec == Init /\ [][Next]_vars

\* The timers fire and bind() answers.  Nothing is assumed of the connections, of the
\* handlers, or of what they wait for.
FairSpec == Spec /\ WF_vars(Booting) /\ WF_vars(Tick)
-----------------------------------------------------------------------------
(* Properties.                                                             *)

TypeOK ==
    /\ main \in Stores \cup {"bind", "up"}
    /\ conn \in [Stores -> {"none", "pending", "open", "failed", "closed"}]
    /\ socket \in {"new", "binding", "bound", "closed"}
    /\ isRunning \in BOOLEAN /\ ticking \in BOOLEAN /\ workers \in BOOLEAN
    /\ worker \in 0 .. PoolSize - 1
    /\ queue \in Seq(Msg) /\ Len(queue) <= QueueSize
    /\ kind \in [Msg -> Kinds \cup {"none"}]
    /\ msg \in [Msg -> {"unsent", "dropped", "queued", "skipped", "ignored", "handling",
                        "answered", "lost"}]
    /\ stop \in [Signal -> {"none", "redis", "postgres", "done"}]
    /\ exit \in {"none", "0", "1"}

\* A worker that is not running throws away what it is given: the boot and stop() are
\* ordered so that no datagram ever gets to one.
NoneSkipped == \A m \in Msg : msg[m] # "skipped"

\* Exit code 0 of a server that had been listening: stop() has come to its end, both
\* disconnections have returned; a second signal meanwhile does not claim that.
CleanExit == exit = "0" /\ socket \in {"bound", "closed"} => \E s \in Signal : stop[s] = "done"

Over == socket = "closed" \/ exit # "none"

\* Whether or not Redis and PostgreSQL can be reached, the server gets to listen, or the
\* process is left.
BootEnds == <>(main = "up" \/ exit # "none")

\* A command that was accepted, and whose handler ends, is answered, an error included,
\* unless the handler wants no answer or the server is stopped.
EveryCommandAnswered ==
    \A m \in Msg :
        (msg[m] = "handling" ~> msg[m] # "handling") =>
            (msg[m] = "queued" /\ kind[m] \in {"short", "command"}
                ~> msg[m] = "answered" \/ (kind[m] = "command" /\ msg[m] = "ignored") \/ Over)
=============================================================================
