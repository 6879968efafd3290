--------------------------- MODULE PgClientProofs ---------------------------
(* What holds of the connection for every number of operations, pool size  *)
(* and number of attempts.                                                 *)
EXTENDS PgClient, FiniteSetTheorems, TLAPS

Types ==
    /\ up \in BOOLEAN /\ isConnected \in BOOLEAN /\ timer \in BOOLEAN
    /\ boot \in {"connect", "sleep", "migrate", "over", "done"}
    /\ attempt \in 1 .. MaxAttempts
    /\ boot = "sleep" => attempt < MaxAttempts
    /\ call \in [Callers -> {"none", "acquire", "select"}]
    /\ reconnecting \in Callers \cup {None}
    /\ op \in [Op -> {"idle", "wait", "acquire", "run"}]
    /\ leaked \in Nat
    /\ pool \in {"open", "ending", "ended"}

\* Who is at the door: the boot loop calls connect() on its own account, everyone else
\* through the shared call.
Shared ==
    /\ reconnecting # "boot"
    /\ \A c \in Callers \ {"boot"} : call[c] # "none" <=> c = reconnecting
    /\ \A o \in Op : op[o] = "wait" => reconnecting # None

\* A pool that has ended has nothing out, so nothing can answer any more.
Ended == pool = "ended" => ~isConnected /\ \A c \in Callers : call[c] # "select"

\* The two groups that Out counts.
Selecting == {c \in Callers : call[c] = "select"}
Running == {o \in Op : op[o] = "run"}

IInv == Types /\ Shared /\ Ended
-----------------------------------------------------------------------------
LEMMA Finite == IsFiniteSet(Callers) /\ Callers = {"boot", "timer"} \cup Op
<1>1. IsFiniteSet(Op \cup {"boot"})
  BY FS_AddElement, PoolAssumption
<1>2. IsFiniteSet((Op \cup {"boot"}) \cup {"timer"})
  BY <1>1, FS_AddElement
<1>3. Callers = (Op \cup {"boot"}) \cup {"timer"}
  BY Zenon DEF Callers
<1>. QED BY <1>2, <1>3, Zenon DEF Callers

\* Nothing is out of an idle pool: where Out = 0 no call runs a SELECT 1.
LEMMA NothingOut ==
    ASSUME Types, Out = 0
    PROVE  \A c \in Callers : call[c] # "select"
<1>1. IsFiniteSet(Selecting) /\ IsFiniteSet(Running)
  BY Finite, PoolAssumption, FS_Subset DEF Selecting, Running
<1>2. Cardinality(Selecting) \in Nat /\ Cardinality(Running) \in Nat
  BY <1>1, FS_CardinalityType
<1>3. Cardinality(Selecting) + Cardinality(Running) + leaked = 0
  BY DEF Out, Selecting, Running
<1>4. leaked \in Nat
  BY DEF Types
<1>5. Cardinality(Selecting) = 0
  BY <1>2, <1>3, <1>4, SMT
<1>6. Selecting = {}
  BY <1>1, <1>5, FS_EmptySet
<1>. QED BY <1>6 DEF Selecting

LEMMA InitHolds == Init => IInv
<1>. SUFFICES ASSUME Init PROVE IInv
  OBVIOUS
<1>1. 1 \in 1 .. MaxAttempts
  BY PoolAssumption
<1>2. Types
  BY <1>1 DEF Init, Types
<1>3. Shared
  <2>1. reconnecting = None /\ call = [c \in Callers |-> IF c = "boot" THEN "acquire" ELSE "none"]
        /\ \A o \in Op : op[o] # "wait"
    BY DEF Init
  <2>2. None \notin Callers
    BY NameAssumption DEF Callers
  <2>. QED BY <2>1, <2>2, NameAssumption DEF Shared
<1>4. Ended
  BY DEF Init, Ended
<1>. QED BY <1>2, <1>3, <1>4 DEF IInv
-----------------------------------------------------------------------------
\* Whichever way a connect() settles, the shared call and those who await it agree.
LEMMA SettledHolds ==
    ASSUME IInv, NEW c \in Callers, call[c] # "none", NEW ok \in BOOLEAN,
           Settled(c, ok, IF ok THEN BootConnected ELSE BootFails /\ UNCHANGED attempt),
           pool = "ended" => ~ok, leaked' \in Nat,
           UNCHANGED <<up, timer, pool>>
    PROVE  IInv'
<1>1. CASE c = "boot"
  BY <1>1, PoolAssumption, NameAssumption
  DEF IInv, Types, Shared, Ended, Settled, BootConnected, BootFails, Callers
<1>2. CASE c # "boot"
  <2>1. c = reconnecting
    BY <1>2 DEF IInv, Shared
  <2>2. Types'
    BY <1>2, PoolAssumption, NameAssumption DEF IInv, Types, Settled, Callers
  <2>3. Shared'
    BY <1>2, <2>1, NameAssumption DEF IInv, Types, Shared, Settled, Callers
  <2>4. Ended'
    BY <1>2 DEF IInv, Types, Ended, Settled
  <2>. QED BY <2>2, <2>3, <2>4 DEF IInv
<1>. QED BY <1>1, <1>2

LEMMA ConnectingHolds ==
    ASSUME IInv, NEW c \in Callers, Connecting(c)
    PROVE  IInv'
<1>1. CASE ConnectAcquires(c)
  BY <1>1 DEF IInv, Types, Shared, Ended, ConnectAcquires
<1>2. CASE ConnectIsRefused(c)
  BY <1>2, SettledHolds DEF ConnectIsRefused, IInv, Types
<1>3. CASE SelectAnswers(c)
  BY <1>3, SettledHolds DEF SelectAnswers, IInv, Types, Ended
<1>4. CASE SelectFails(c)
  <2>1. leaked' \in Nat
    BY <1>4 DEF SelectFails, IInv, Types
  <2>2. call[c] # "none" /\ Settled(c, FALSE, BootFails /\ UNCHANGED attempt)
        /\ UNCHANGED <<up, timer, pool>>
    BY <1>4 DEF SelectFails
  <2>. QED BY <2>1, <2>2, SettledHolds
<1>. QED BY <1>1, <1>2, <1>3, <1>4 DEF Connecting

LEMMA BootingHolds == ASSUME IInv, Booting PROVE IInv'
<1>1. CASE BootSleeps
  BY <1>1, NameAssumption, PoolAssumption DEF IInv, Types, Shared, Ended, BootSleeps, Callers
<1>2. CASE BootMigrates
  BY <1>2 DEF IInv, Types, Shared, Ended, BootMigrates
<1>3. CASE BootEnds
  BY <1>3 DEF IInv, Types, Shared, Ended, BootEnds
<1>. QED BY <1>1, <1>2, <1>3 DEF Booting

\* Joining the shared call, by the health check or by an operation.
LEMMA ShareHolds ==
    ASSUME IInv, NEW c \in Callers \ {"boot"}, ShareCall(c)
    PROVE  /\ call' \in [Callers -> {"none", "acquire", "select"}]
           /\ reconnecting' \in Callers
           /\ reconnecting' # "boot"
           /\ \A d \in Callers \ {"boot"} : call'[d] # "none" <=> d = reconnecting'
           /\ (\E d \in Callers : call'[d] = "select") => \E d \in Callers : call[d] = "select"
  BY NameAssumption DEF IInv, Types, Shared, ShareCall, Callers

LEMMA HealthCheckHolds == ASSUME IInv, HealthCheck PROVE IInv'
<1>1. "timer" \in Callers \ {"boot"} /\ ShareCall("timer")
  BY DEF Callers, HealthCheck
<1>2. reconnecting' # None
  BY <1>1, ShareHolds, NameAssumption DEF Callers
<1>. QED BY <1>1, <1>2, ShareHolds DEF IInv, Types, Shared, Ended, HealthCheck

LEMMA OpHolds ==
    ASSUME IInv, NEW o \in Op, StartOp(o) \/ Operating(o)
    PROVE  IInv'
<1>1. CASE StartOp(o)
  <2>1. CASE isConnected
    BY <1>1, <2>1 DEF StartOp, IInv, Types, Shared, Ended
  <2>2. CASE ~isConnected
    <3>1. o \in Callers \ {"boot"} /\ ShareCall(o)
      BY <1>1, <2>2, NameAssumption DEF StartOp, Callers
    <3>2. reconnecting' # None
      BY <3>1, ShareHolds, NameAssumption DEF Callers
    <3>. QED BY <1>1, <2>2, <3>1, <3>2, ShareHolds DEF StartOp, IInv, Types, Shared, Ended
  <2>. QED BY <2>1, <2>2 DEF IInv, Types
<1>2. CASE OpAcquires(o)
  BY <1>2 DEF IInv, Types, Shared, Ended, OpAcquires
<1>3. CASE OpEnds(o)
  BY <1>3 DEF IInv, Types, Shared, Ended, OpEnds
<1>. QED BY <1>1, <1>2, <1>3 DEF Operating

LEMMA StopHolds == ASSUME IInv, Disconnect \/ PoolEnds \/ ServerChanges PROVE IInv'
<1>1. CASE Disconnect
  BY <1>1 DEF IInv, Types, Shared, Ended, Disconnect
<1>2. CASE PoolEnds
  BY <1>2, NothingOut DEF IInv, Types, Shared, Ended, PoolEnds
<1>3. CASE ServerChanges
  BY <1>3 DEF IInv, Types, Shared, Ended, ServerChanges
<1>. QED BY <1>1, <1>2, <1>3

\* The shared call, its waiters and the end of the pool stay in step in every interleaving.
THEOREM Inductive == Spec => []IInv
<1>1. IInv /\ [Next]_vars => IInv'
  <2>. SUFFICES ASSUME IInv, [Next]_vars PROVE IInv'
    OBVIOUS
  <2>1. CASE \E c \in Callers : Connecting(c)
    BY <2>1, ConnectingHolds
  <2>2. CASE Booting
    BY <2>2, BootingHolds
  <2>3. CASE HealthCheck
    BY <2>3, HealthCheckHolds
  <2>4. CASE Disconnect \/ PoolEnds \/ ServerChanges
    BY <2>4, StopHolds
  <2>5. CASE \E o \in Op : StartOp(o) \/ Operating(o)
    BY <2>5, OpHolds
  <2>6. CASE UNCHANGED vars
    BY <2>6 DEF IInv, Types, Shared, Ended, vars
  <2>. QED BY <2>1, <2>2, <2>3, <2>4, <2>5, <2>6 DEF Next
<1>. QED BY <1>1, InitHolds, PTL DEF Spec

\* Queries and the health check have one connect() under way at most, and nobody awaits a
\* call that does not exist (postgres.ts, ensureConnected).
THEOREM SingleFlightHolds == Spec => []SingleFlight
<1>1. IInv => SingleFlight
  <2>. SUFFICES ASSUME IInv PROVE SingleFlight
    OBVIOUS
  <2>1. ASSUME NEW c \in Callers \ {"boot"}
        PROVE  c # None /\ (call[c] # "none" <=> c = reconnecting)
    BY NameAssumption DEF IInv, Shared, Callers
  <2>2. reconnecting # None => reconnecting \in Callers \ {"boot"}
    BY DEF IInv, Types, Shared
  <2>3. {c \in Callers \ {"boot"} : call[c] # "none"} = {reconnecting} \ {None}
    BY <2>1, <2>2
  <2>. QED BY <2>3 DEF IInv, Shared, SingleFlight
<1>. QED BY <1>1, Inductive, PTL

\* No connect() that was under way when disconnect() was called makes the client look
\* connected afterwards (postgres.ts, connect and disconnect).
THEOREM EndedMeansDisconnectedHolds == Spec => []EndedMeansDisconnected
<1>1. IInv => EndedMeansDisconnected
  BY DEF IInv, Ended, EndedMeansDisconnected
<1>. QED BY <1>1, Inductive, PTL
-----------------------------------------------------------------------------
(* The pool is never asked for more than it has.                           *)

Bounded == Cardinality(Selecting) + Cardinality(Running) + leaked <= MaxConn

LEMMA Counted ==
    ASSUME IInv
    PROVE  /\ IsFiniteSet(Selecting) /\ IsFiniteSet(Running)
           /\ Cardinality(Selecting) \in Nat /\ Cardinality(Running) \in Nat
           /\ leaked \in Nat
           /\ Out = Cardinality(Selecting) + Cardinality(Running) + leaked
<1>1. IsFiniteSet(Selecting) /\ IsFiniteSet(Running)
  BY Finite, PoolAssumption, FS_Subset DEF Selecting, Running
<1>. QED BY <1>1, FS_CardinalityType DEF IInv, Types, Out, Selecting, Running

\* A step that takes nothing out of the pool.
LEMMA NoMoreOut ==
    ASSUME IInv, Bounded, Selecting' \subseteq Selecting, Running' \subseteq Running,
           leaked' = leaked
    PROVE  Bounded'
<1>1. /\ IsFiniteSet(Selecting') /\ Cardinality(Selecting') <= Cardinality(Selecting)
      /\ IsFiniteSet(Running') /\ Cardinality(Running') <= Cardinality(Running)
  BY Counted, FS_Subset
<1>2. Cardinality(Selecting') \in Nat /\ Cardinality(Running') \in Nat
  BY <1>1, FS_CardinalityType
<1>3. MaxConn \in Nat
  BY PoolAssumption
<1>. QED BY <1>1, <1>2, <1>3, Counted, SMT DEF Bounded

\* connect() that resolves or rejects gives its connection back, or leaks it.
LEMMA SettledOut ==
    ASSUME IInv, NEW c \in Callers, NEW ok \in BOOLEAN,
           Settled(c, ok, IF ok THEN BootConnected ELSE BootFails /\ UNCHANGED attempt)
    PROVE  Selecting' = Selecting \ {c} /\ Running' = Running
  BY DEF IInv, Types, Settled, Selecting, Running

LEMMA ConnectingBounded ==
    ASSUME IInv, Bounded, NEW c \in Callers, Connecting(c)
    PROVE  Bounded'
<1>. USE DEF IInv, Types
<1>0. MaxConn \in Nat
  BY PoolAssumption
<1>1. CASE ConnectAcquires(c)
  <2>1. Selecting' = Selecting \cup {c} /\ c \notin Selecting /\ Running' = Running
        /\ leaked' = leaked /\ Out < MaxConn
    BY <1>1 DEF ConnectAcquires, Selecting, Running
  <2>2. Cardinality(Selecting') = Cardinality(Selecting) + 1
    BY <2>1, Counted, FS_AddElement
  <2>. QED BY <1>0, <2>1, <2>2, Counted, SMT DEF Bounded
<1>2. CASE ConnectIsRefused(c)
  BY <1>2, SettledOut, NoMoreOut DEF ConnectIsRefused
<1>3. CASE SelectAnswers(c)
  BY <1>3, SettledOut, NoMoreOut DEF SelectAnswers
<1>4. CASE SelectFails(c)
  <2>1. Selecting' = Selecting \ {c} /\ c \in Selecting /\ Running' = Running
        /\ leaked' = leaked + 1
    BY <1>4, SettledOut DEF SelectFails, Selecting
  <2>2. Cardinality(Selecting') = Cardinality(Selecting) - 1
    BY <2>1, Counted, FS_RemoveElement
  <2>. QED BY <1>0, <2>1, <2>2, Counted, SMT DEF Bounded
<1>. QED BY <1>1, <1>2, <1>3, <1>4 DEF Connecting

LEMMA OpBounded ==
    ASSUME IInv, Bounded, NEW o \in Op, StartOp(o) \/ Operating(o)
    PROVE  Bounded'
<1>. USE DEF IInv, Types
<1>0. MaxConn \in Nat
  BY PoolAssumption
<1>1. CASE StartOp(o)
  <2>1. Selecting' \subseteq Selecting /\ Running' \subseteq Running /\ leaked' = leaked
    BY <1>1 DEF StartOp, ShareCall, Selecting, Running
  <2>. QED BY <2>1, NoMoreOut
<1>2. CASE OpAcquires(o)
  <2>1. Running' = Running \cup {o} /\ o \notin Running /\ Selecting' = Selecting
        /\ leaked' = leaked /\ Out < MaxConn
    BY <1>2 DEF OpAcquires, Selecting, Running
  <2>2. Cardinality(Running') = Cardinality(Running) + 1
    BY <2>1, Counted, FS_AddElement
  <2>. QED BY <1>0, <2>1, <2>2, Counted, SMT DEF Bounded
<1>3. CASE OpEnds(o)
  <2>1. Selecting' \subseteq Selecting /\ Running' \subseteq Running /\ leaked' = leaked
    BY <1>3 DEF OpEnds, Selecting, Running
  <2>. QED BY <2>1, NoMoreOut
<1>. QED BY <1>1, <1>2, <1>3 DEF Operating

LEMMA RestBounded ==
    ASSUME IInv, Bounded,
           Booting \/ HealthCheck \/ Disconnect \/ PoolEnds \/ ServerChanges \/ UNCHANGED vars
    PROVE  Bounded'
<1>1. Selecting' \subseteq Selecting
  BY DEF IInv, Types, Booting, BootSleeps, BootMigrates, BootEnds, HealthCheck, ShareCall,
         Disconnect, PoolEnds, ServerChanges, vars, Selecting
<1>2. Running' = Running /\ leaked' = leaked
  BY DEF Booting, BootSleeps, BootMigrates, BootEnds, HealthCheck,
         Disconnect, PoolEnds, ServerChanges, vars, Running
<1>. QED BY <1>1, <1>2, NoMoreOut

\* Whatever leaks, what is out of the pool stays within DB_CONNECTION_LIMIT, and the boot
\* loop within its attempts (postgres.ts, connect and connectWithRetry).
THEOREM TypeCorrect == Spec => []TypeOK
<1>1. Init => Bounded
  <2>. SUFFICES ASSUME Init PROVE Bounded
    OBVIOUS
  <2>1. Selecting = {} /\ Running = {} /\ leaked = 0
    BY DEF Init, Selecting, Running
  <2>. QED BY <2>1, FS_EmptySet, PoolAssumption DEF Bounded
<1>2. IInv /\ Bounded /\ [Next]_vars => Bounded'
  BY ConnectingBounded, OpBounded, RestBounded DEF Next
<1>3. IInv /\ Bounded => TypeOK
  <2>. SUFFICES ASSUME IInv, Bounded PROVE TypeOK
    OBVIOUS
  <2>1. leaked \in 0 .. MaxConn
    BY Counted, PoolAssumption, SMT DEF Bounded
  <2>. QED BY <2>1 DEF IInv, Types, TypeOK
<1>. QED BY <1>1, <1>2, <1>3, Inductive, PTL DEF Spec
=============================================================================
