-------------------------- MODULE UdpServerProofs --------------------------
(* What holds of the bot's process for every number of datagrams, signals  *)
(* and workers, and every size of the queue.                               *)
EXTENDS UdpServer, SequenceTheorems, TLAPS

\* The boot starts the workers before the socket can receive and the timer can fire,
\* stop() clears the timer with them, and isRunning, once set, is cleared by the end of a
\* stop() only.
Wired ==
    /\ ticking => workers
    /\ main = "bind" => workers
    /\ isRunning \/ socket \in {"bound", "closed"} => main = "up"
    /\ main = "up" => isRunning \/ \E s \in Signal : stop[s] = "done"

IInv == TypeOK /\ Wired /\ NoneSkipped /\ CleanExit
-----------------------------------------------------------------------------
LEMMA InitHolds == Init => IInv
<1>. SUFFICES ASSUME Init PROVE IInv
  OBVIOUS
<1>1. queue \in Seq(Msg) /\ Len(queue) = 0
  BY DEF Init
<1>2. TypeOK
  <2>1. worker \in 0 .. PoolSize - 1 /\ Len(queue) <= QueueSize
    BY <1>1, SizeAssumption DEF Init
  <2>2. conn \in [Stores -> {"none", "pending", "open", "failed", "closed"}]
    BY DEF Init, Stores
  <2>. QED BY <1>1, <2>1, <2>2 DEF Init, TypeOK, Stores
<1>3. Wired /\ NoneSkipped /\ CleanExit
  BY DEF Init, Wired, NoneSkipped, CleanExit
<1>. QED BY <1>2, <1>3 DEF IInv

LEMMA BootingHolds == ASSUME IInv, Booting PROVE IInv'
<1>1. CASE RedisDone
  BY <1>1 DEF RedisDone, Raced, IInv, TypeOK, Wired, NoneSkipped, CleanExit, Stores
<1>2. CASE PostgresDone
  BY <1>2 DEF PostgresDone, Raced, IInv, TypeOK, Wired, NoneSkipped, CleanExit, Stores
<1>3. CASE Bound
  BY <1>3 DEF Bound, IInv, TypeOK, Wired, NoneSkipped, CleanExit, Stores
<1>4. CASE BindFails
  BY <1>4 DEF BindFails, IInv, TypeOK, Wired, NoneSkipped, CleanExit
<1>. QED BY <1>1, <1>2, <1>3, <1>4 DEF Booting

LEMMA ArriveHolds == ASSUME IInv, NEW m \in Msg, Arrive(m) PROVE IInv'
<1>1. PICK k \in Kinds :
        /\ kind' = [kind EXCEPT ![m] = k]
        /\ \/ msg' = [msg EXCEPT ![m] = "dropped"] /\ UNCHANGED queue
           \/ /\ Len(queue) < QueueSize
              /\ msg' = [msg EXCEPT ![m] = "queued"]
              /\ queue' = Append(queue, m)
  BY DEF Arrive
<1>2. queue' \in Seq(Msg) /\ Len(queue') <= QueueSize
  BY <1>1, SizeAssumption DEF IInv, TypeOK
<1>3. UNCHANGED <<worker, process>>
  BY DEF Arrive
<1>4. TypeOK'
  BY <1>1, <1>2, <1>3 DEF IInv, TypeOK, process
<1>5. NoneSkipped'
  BY <1>1 DEF IInv, TypeOK, NoneSkipped
<1>. QED BY <1>3, <1>4, <1>5 DEF IInv, Wired, CleanExit, process

LEMMA TickHolds == ASSUME IInv, Tick PROVE IInv'
<1>. DEFINE m == Head(queue)
<1>1. m \in Msg /\ queue' \in Seq(Msg) /\ Len(queue') <= QueueSize
  BY SizeAssumption DEF IInv, TypeOK, Tick
<1>2. worker' \in 0 .. PoolSize - 1
  BY SizeAssumption DEF IInv, TypeOK, Tick, NextWorker
<1>3. workers
  BY DEF IInv, Wired, Tick
<1>4. PICK after \in {"answered", "lost", "handling", "ignored"} : msg' = [msg EXCEPT ![m] = after]
  BY <1>3 DEF Tick, Dispatch, Sent
<1>5. UNCHANGED <<kind, process>>
  BY DEF Tick
<1>6. TypeOK'
  BY <1>1, <1>2, <1>4, <1>5 DEF IInv, TypeOK, process
<1>7. NoneSkipped'
  BY <1>1, <1>4 DEF IInv, TypeOK, NoneSkipped
<1>. QED BY <1>5, <1>6, <1>7 DEF IInv, Wired, CleanExit, process

LEMMA HandlerEndsHolds == ASSUME IInv, NEW m \in Msg, HandlerEnds(m) PROVE IInv'
<1>1. PICK after \in {"answered", "lost", "ignored"} : msg' = [msg EXCEPT ![m] = after]
  BY DEF HandlerEnds, Sent
<1>2. UNCHANGED <<worker, queue, kind, process>>
  BY DEF HandlerEnds
<1>. QED BY <1>1, <1>2 DEF IInv, TypeOK, Wired, NoneSkipped, CleanExit, process

LEMMA StoppingHolds ==
    ASSUME IInv, NEW s \in Signal,
           SignalArrives(s) \/ RedisDisconnects(s) \/ PostgresDisconnects(s)
    PROVE  IInv'
<1>1. CASE SignalArrives(s)
  <2>1. CASE ~isRunning /\ exit' = "0" /\ UNCHANGED <<socket, ticking, workers, isRunning, stop>>
    <3>1. UNCHANGED <<main, conn, worker, queue, kind, msg>>
      BY <1>1 DEF SignalArrives
    <3>2. CleanExit'
      BY <2>1 DEF IInv, Wired, CleanExit
    <3>. QED BY <2>1, <3>1, <3>2 DEF IInv, TypeOK, Wired, NoneSkipped
  <2>2. CASE isRunning /\ socket = "closed" /\ exit' = "1"
             /\ UNCHANGED <<socket, ticking, workers, isRunning, stop>>
    BY <1>1, <2>2 DEF SignalArrives, IInv, TypeOK, Wired, NoneSkipped, CleanExit
  <2>3. CASE isRunning /\ BeginStop(s) /\ UNCHANGED exit
    BY <1>1, <2>3 DEF SignalArrives, BeginStop, IInv, TypeOK, Wired, NoneSkipped, CleanExit
  <2>. QED BY <1>1, <2>1, <2>2, <2>3 DEF SignalArrives
<1>2. CASE RedisDisconnects(s)
  <2>1. conn' \in [Stores -> {"none", "pending", "open", "failed", "closed"}]
    BY <1>2 DEF RedisDisconnects, IInv, TypeOK, Stores
  <2>. QED
    BY <1>2, <2>1 DEF RedisDisconnects, IInv, TypeOK, Wired, NoneSkipped, CleanExit
<1>3. CASE PostgresDisconnects(s)
  <2>1. conn' \in [Stores -> {"none", "pending", "open", "failed", "closed"}]
    BY <1>3 DEF PostgresDisconnects, IInv, TypeOK, Stores
  <2>. QED
    BY <1>3, <2>1 DEF PostgresDisconnects, IInv, TypeOK, Wired, NoneSkipped, CleanExit
<1>. QED BY <1>1, <1>2, <1>3

LEMMA NextHolds == IInv /\ [Next]_vars => IInv'
<1>. SUFFICES ASSUME IInv, [Next]_vars PROVE IInv'
  OBVIOUS
<1>1. CASE \E r \in Stores : ConnectSettles(r)
  BY <1>1 DEF ConnectSettles, IInv, TypeOK, Wired, NoneSkipped, CleanExit, Stores
<1>2. CASE Booting
  BY <1>2, BootingHolds
<1>3. CASE Tick
  BY <1>3, TickHolds
<1>4. CASE Uncaught
  BY <1>4 DEF Uncaught, IInv, TypeOK, Wired, NoneSkipped, CleanExit
<1>5. CASE \E m \in Msg : Arrive(m) \/ HandlerEnds(m)
  BY <1>5, ArriveHolds, HandlerEndsHolds
<1>6. CASE \E s \in Signal : SignalArrives(s) \/ RedisDisconnects(s) \/ PostgresDisconnects(s)
  BY <1>6, StoppingHolds
<1>7. CASE UNCHANGED vars
  BY <1>7 DEF vars, IInv, TypeOK, Wired, NoneSkipped, CleanExit
<1>. QED BY <1>1, <1>2, <1>3, <1>4, <1>5, <1>6, <1>7 DEF Next

\* Every variable keeps its type; the queue never holds more than QueueSize datagrams and
\* the index of the next worker is one of a worker.
THEOREM TypeCorrect == Spec => []TypeOK
<1>1. IInv => TypeOK
  BY DEF IInv
<1>. QED BY InitHolds, NextHolds, <1>1, PTL DEF Spec

\* No datagram that was accepted is ever handed to a worker that is not running.
THEOREM NoneSkippedHolds == Spec => []NoneSkipped
<1>1. IInv => NoneSkipped
  BY DEF IInv
<1>. QED BY InitHolds, NextHolds, <1>1, PTL DEF Spec

\* A server that had been listening is left with exit code 0 after a whole stop() only,
\* however many signals arrive.
THEOREM CleanExitHolds == Spec => []CleanExit
<1>1. IInv => CleanExit
  BY DEF IInv
<1>. QED BY InitHolds, NextHolds, <1>1, PTL DEF Spec
=============================================================================
