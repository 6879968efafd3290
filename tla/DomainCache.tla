---------------------------- MODULE DomainCache ----------------------------
(***************************************************************************)
(* The three-tier stale-while-revalidate cache of one domain key           *)
(* (packages/data-service/src/cache/domain-cache-manager.ts): a memory map *)
(* per process (L1), Redis (L2) and the domain_cache table (L3), both      *)
(* shared by the REST and the UDP process, in front of the upstream API.   *)
(*                                                                         *)
(* Every await of the code is a step boundary: operations of one process   *)
(* and of several processes interleave there.  A read takes effect when it *)
(* is issued and its answer is used in a later step; a write takes effect  *)
(* in a step of its own, in any order with the other writes of its         *)
(* Promise.allSettled.  A tier may be disconnected or fail at any access.  *)
(*                                                                         *)
(* A payload is identified by the second at which it was received from     *)
(* upstream, so now - payload is the age of what a caller is given.        *)
(***************************************************************************)
EXTENDS Integers

CONSTANTS
    Proc,        \* processes with a DomainCacheManager of their own
    WarmProcs,   \* those that run warmupDomainCaches when they start
    Req,         \* slots for operations in flight
    Traffic,     \* kinds of operations that are started
    TtlL1, TtlL2, TtlSoft, TtlHard,  \* CacheTierTtl, in seconds
    OpDelay,     \* longest time one Redis or PostgreSQL command takes
    FetchDelay,  \* longest time one upstream call takes, retries included
    MaxTime,     \* bound on the clock
    None         \* null: no entry, no row, no answer

ASSUME ProcAssumption == WarmProcs \subseteq Proc
ASSUME TrafficAssumption == Traffic \subseteq {"get", "renew", "refresh", "warm"}
ASSUME TimeAssumption ==
    /\ {TtlL1, TtlL2, TtlSoft, TtlHard} \subseteq Nat \ {0}
    /\ {OpDelay, FetchDelay, MaxTime} \subseteq Nat

VARIABLES
    now,       \* the clock (Date.now(), NOW() and the Redis TTL clock agree)
    memory,    \* L1: memory[p] is process p's entry for the key
    redis,     \* L2
    db,        \* L3
    req,       \* the operations in flight
    answer,    \* history: what the last step returned to a caller, if it did
    boot,      \* processes whose warm-up has not started yet
    refreshed  \* history: newest payload of a forceRefresh that replaced every tier

vars == <<now, memory, redis, db, req, answer, boot, refreshed>>
-----------------------------------------------------------------------------
Tiers == {"redis", "db"}

MemoryEntry == [payload : Nat, normalizedAt : Nat]
RedisEntry  == [payload : Nat, expiresAt : Nat]
Row == [payload : Nat, softExpiresAt : Nat, hardExpiresAt : Nat, sourceFetchedAt : Nat]

\* get: fetchWithFallback.  renew: the REST refresh routes, invalidate then get.
\* refresh: forceRefresh.  warm: prefetchOne.
Ops == {"get", "renew", "refresh", "warm"}

FreshSources == {"memory", "redis", "database", "api"}
DataOutcomes == FreshSources \cup {"database-stale"}
Outcomes == DataOutcomes \cup
    {"unavailable", "error", "refreshed", "maintenance-skip", "hydrated", "fetched", "failed"}

ASSUME NoneAssumption == None \notin Int /\ None \notin Proc \cup Row \cup Outcomes

Request == [
    pc    : {"idle", "redis.get", "db.getRow", "fetch", "set", "del"},
    op    : Ops \cup {None},
    proc  : Proc \cup {None},
    val   : Nat \cup {None},   \* answer of redis.get; stale row kept for the fetch; payload set
    row   : Row \cup {None},   \* answer of db.getRow
    todo  : SUBSET Tiers,      \* writes or deletes issued and not yet settled
    wrote : SUBSET Tiers,      \* writes of a refresh that succeeded
    out   : Outcomes \cup {None},
    due   : Nat ]              \* latest time at which the pending await resolves

\* What a caller is told: the payload with its source, or why there is none (a route
\* replies 503 for unavailable and 500 for error).
Answer == [out : DataOutcomes, val : Nat]
          \cup [out : Outcomes \ DataOutcomes, val : Nat \cup {None}]

Idle == [pc |-> "idle", op |-> None, proc |-> None, val |-> None, row |-> None,
         todo |-> {}, wrote |-> {}, out |-> None, due |-> 0]

Init ==
    /\ now = 0
    /\ memory = [p \in Proc |-> None]
    /\ redis = None
    /\ db = None
    /\ req = [r \in Req |-> Idle]
    /\ answer = None
    /\ boot = WarmProcs
    /\ refreshed = None
-----------------------------------------------------------------------------
(* What each tier answers now.                                             *)

MemoryFreshForever(p) == memory[p] # None   \* mutant: the L1 age test is lost

MemoryFresh(p) == memory[p] # None /\ now - memory[p].normalizedAt <= TtlL1

RedisGet == IF redis # None THEN redis.payload ELSE None

GetRowUnfiltered == db   \* mutant: WHERE hard_expires_at > NOW() is lost

GetRow == IF db # None /\ now < db.hardExpiresAt THEN db ELSE None

\* mutant: the soft limit is set from the hard TTL
RowForSoftAsHard(payload) ==
    [payload |-> payload, sourceFetchedAt |-> payload,
     softExpiresAt |-> payload + TtlHard, hardExpiresAt |-> payload + TtlHard]

RowFor(payload) ==
    [payload |-> payload, sourceFetchedAt |-> payload,
     softExpiresAt |-> payload + TtlSoft, hardExpiresAt |-> payload + TtlHard]

(* Continuations of a request q: the states it may be left in at its next  *)
(* await.  A tier that is not connected is skipped; an access that fails   *)
(* answers None.                                                           *)

Fetching(q, stale) ==
    [q EXCEPT !.pc = "fetch", !.val = stale, !.row = None, !.due = now + FetchDelay]

Setting(q, out, payload, tiers) ==
    [q EXCEPT !.pc = "set", !.out = out, !.val = payload, !.row = None,
              !.todo = tiers, !.due = now + OpDelay]

\* invalidate: the commands to the tiers that are connected.
Invalidating(q, tiers) == [q EXCEPT !.pc = "del", !.todo = tiers, !.due = now + OpDelay]

AskDb(q) ==
    { [q EXCEPT !.pc = "db.getRow", !.val = None, !.row = row, !.due = now + OpDelay] :
        row \in {GetRow, None} }

AfterRedisMiss(q) == AskDb(q) \cup {Fetching(q, None)}

AfterMemoryMiss(q) ==
    { [q EXCEPT !.pc = "redis.get", !.val = val, !.due = now + OpDelay] :
        val \in {RedisGet, None} }
    \cup AfterRedisMiss(q)

Becomes(r, q) ==
    /\ req' = [req EXCEPT ![r] = q]
    /\ answer' = None

Answers(r, out, val) ==
    /\ req' = [req EXCEPT ![r] = Idle]
    /\ answer' = [out |-> out, val |-> val]

Upsert(p, payload, normalizedAt) ==
    memory' = [memory EXCEPT ![p] = [payload |-> payload, normalizedAt |-> normalizedAt]]
-----------------------------------------------------------------------------
(* fetchWithFallback.                                                      *)

\* Step 1, synchronous: an L1 hit answers at once; an expired entry is dropped.
LookUp(r, q) ==
    \/ /\ MemoryFresh(q.proc)
       /\ Answers(r, "memory", memory[q.proc].payload)
       /\ UNCHANGED memory
    \/ /\ ~MemoryFresh(q.proc)
       /\ memory' = [memory EXCEPT ![q.proc] = None]
       /\ \E q2 \in AfterMemoryMiss(q) : Becomes(r, q2)

StartGet(r, p) ==
    /\ req[r].pc = "idle"
    /\ LookUp(r, [Idle EXCEPT !.op = "get", !.proc = p])
    /\ UNCHANGED <<now, redis, db, boot, refreshed>>

\* Step 2: a Redis hit restarts the L1 age from now.
RedisAnswers(r) ==
    LET q == req[r] IN
    /\ q.pc = "redis.get"
    /\ \/ /\ q.val # None
          /\ Upsert(q.proc, q.val, now)
          /\ Answers(r, "redis", q.val)
       \/ /\ q.val = None
          /\ \E q2 \in AfterRedisMiss(q) : Becomes(r, q2)
          /\ UNCHANGED memory
    /\ UNCHANGED <<now, redis, db, boot, refreshed>>

\* Step 3: a soft-fresh row is copied to L1 and L2 (syncToUpper) and served; a
\* soft-expired one is kept as the fallback of the upstream call.
DbAnswers(r) ==
    LET q == req[r] row == req[r].row IN
    /\ q.pc = "db.getRow" /\ q.op # "warm"
    /\ \/ /\ row # None /\ row.softExpiresAt > now
          /\ Upsert(q.proc, row.payload, now)
          /\ \E tiers \in SUBSET {"redis"} :
                Becomes(r, Setting(q, "database", row.payload, tiers))
       \/ /\ row # None /\ row.softExpiresAt <= now
          /\ Becomes(r, Fetching(q, row.payload))
          /\ UNCHANGED memory
       \/ /\ row = None
          /\ Becomes(r, Fetching(q, None))
          /\ UNCHANGED memory
    /\ UNCHANGED <<now, redis, db, boot, refreshed>>

SuccessOf(op) == CASE op = "refresh" -> "refreshed"
                   [] op = "warm"    -> "fetched"
                   [] OTHER          -> "api"

\* Step 4, and the success branch of forceRefresh and prefetchOne: setAllTiers.
FetchSucceeds(r) ==
    LET q == req[r] IN
    /\ q.pc = "fetch"
    /\ Upsert(q.proc, now, now)
    /\ \E tiers \in SUBSET Tiers : Becomes(r, Setting(q, SuccessOf(q.op), now, tiers))
    /\ UNCHANGED <<now, redis, db, boot, refreshed>>

\* mutant: the fallback is served without looking whether there is one
MaintenanceAnswerUnchecked(r, q) ==
    CASE q.op = "refresh" -> Answers(r, "maintenance-skip", None)
      [] q.op = "warm"    -> Answers(r, "failed", None)
      [] OTHER            -> Answers(r, "database-stale", q.val)

MaintenanceAnswer(r, q) ==
    CASE q.op = "refresh" -> Answers(r, "maintenance-skip", None)
      [] q.op = "warm"    -> Answers(r, "failed", None)
      [] OTHER            -> IF q.val # None THEN Answers(r, "database-stale", q.val)
                                             ELSE Answers(r, "unavailable", None)

\* Step 5: an upstream failure that isMaintenanceError recognises.
FetchInMaintenance(r) ==
    /\ req[r].pc = "fetch"
    /\ MaintenanceAnswer(r, req[r])
    /\ UNCHANGED <<now, memory, redis, db, boot, refreshed>>

\* Any other failure is propagated (get) or reported (refresh, warm).
FetchErrs(r) ==
    LET q == req[r] IN
    /\ q.pc = "fetch"
    /\ Answers(r, IF q.op = "warm" THEN "failed" ELSE "error", None)
    /\ UNCHANGED <<now, memory, redis, db, boot, refreshed>>
-----------------------------------------------------------------------------
(* forceRefresh, invalidate and prefetchOne.                               *)

\* mutant: the design ADR-0004 rejected, invalidate first and then fetch
StartRefreshByInvalidating(r, p) ==
    /\ req[r].pc = "idle"
    /\ memory' = [memory EXCEPT ![p] = None]
    /\ redis' = None
    /\ db' = None
    /\ Becomes(r, Fetching([Idle EXCEPT !.op = "refresh", !.proc = p], None))
    /\ UNCHANGED <<now, boot, refreshed>>

StartRefresh(r, p) ==
    /\ req[r].pc = "idle"
    /\ Becomes(r, Fetching([Idle EXCEPT !.op = "refresh", !.proc = p], None))
    /\ UNCHANGED <<now, memory, redis, db, boot, refreshed>>

\* The REST refresh routes: L1 loses the entry at once, then they go on with a get.
StartRenew(r, p) ==
    /\ req[r].pc = "idle"
    /\ memory' = [memory EXCEPT ![p] = None]
    /\ \E tiers \in SUBSET Tiers :
          Becomes(r, Invalidating([Idle EXCEPT !.op = "renew", !.proc = p], tiers))
    /\ UNCHANGED <<now, redis, db, boot, refreshed>>

\* Skipped, for good, when PostgreSQL is not connected at that moment.
StartWarmup(r, p) ==
    /\ req[r].pc = "idle" /\ p \in boot
    /\ boot' = boot \ {p}
    /\ \/ \E q \in AskDb([Idle EXCEPT !.op = "warm", !.proc = p]) : Becomes(r, q)
       \/ UNCHANGED req /\ answer' = None
    /\ UNCHANGED <<now, memory, redis, db, refreshed>>

\* A row, soft-fresh or not, is hydrated: L1 keeps its age, L2 gets a full TTL.
WarmupAnswers(r) ==
    LET q == req[r] row == req[r].row IN
    /\ q.pc = "db.getRow" /\ q.op = "warm"
    /\ \/ /\ row # None
          /\ Upsert(q.proc, row.payload, row.sourceFetchedAt)
          /\ \E tiers \in SUBSET {"redis"} :
                Becomes(r, Setting(q, "hydrated", row.payload, tiers))
       \/ /\ row = None
          /\ Becomes(r, Fetching(q, None))
          /\ UNCHANGED memory
    /\ UNCHANGED <<now, redis, db, boot, refreshed>>
-----------------------------------------------------------------------------
(* The commands issued to the shared tiers, and their completion.          *)

Settled(r, tier, ok) ==
    Becomes(r, [req[r] EXCEPT !.todo = @ \ {tier},
                              !.wrote = IF ok /\ req[r].out = "refreshed"
                                        THEN @ \cup {tier} ELSE @])

\* SET key value EX TtlL2: the age of the payload plays no part.
SetRedis(r) ==
    /\ req[r].pc = "set" /\ "redis" \in req[r].todo
    /\ redis' = [payload |-> req[r].val, expiresAt |-> now + TtlL2]
    /\ Settled(r, "redis", TRUE)
    /\ UNCHANGED <<now, memory, db, boot, refreshed>>

\* mutant: ON CONFLICT DO NOTHING
SetDbIfAbsent(r) ==
    /\ req[r].pc = "set" /\ "db" \in req[r].todo
    /\ db' = IF db = None THEN RowFor(req[r].val) ELSE db
    /\ Settled(r, "db", TRUE)
    /\ UNCHANGED <<now, memory, redis, boot, refreshed>>

SetDb(r) ==
    /\ req[r].pc = "set" /\ "db" \in req[r].todo
    /\ db' = RowFor(req[r].val)
    /\ Settled(r, "db", TRUE)
    /\ UNCHANGED <<now, memory, redis, boot, refreshed>>

DelRedis(r) ==
    /\ req[r].pc = "del" /\ "redis" \in req[r].todo
    /\ redis' = None
    /\ Settled(r, "redis", TRUE)
    /\ UNCHANGED <<now, memory, db, boot, refreshed>>

DelDb(r) ==
    /\ req[r].pc = "del" /\ "db" \in req[r].todo
    /\ db' = None
    /\ Settled(r, "db", TRUE)
    /\ UNCHANGED <<now, memory, redis, boot, refreshed>>

\* Errors are logged and swallowed: the operation goes on as if it had worked.
TierFails(r) ==
    /\ req[r].pc \in {"set", "del"}
    /\ \E tier \in req[r].todo : Settled(r, tier, FALSE)
    /\ UNCHANGED <<now, memory, redis, db, boot, refreshed>>

ReplacedAll(q) == q.out = "refreshed" /\ q.wrote = Tiers

\* mutant: waits for writes that succeed, not for writes that settle
FinishSetWhenWritten(r) ==
    LET q == req[r] IN
    /\ q.pc = "set" /\ q.wrote = Tiers
    /\ Answers(r, q.out, q.val)
    /\ refreshed' = refreshed
    /\ UNCHANGED <<now, memory, redis, db, boot>>

\* Promise.allSettled of a write resolves.
FinishSet(r) ==
    LET q == req[r] IN
    /\ q.pc = "set" /\ q.todo = {}
    /\ Answers(r, q.out, q.val)
    /\ refreshed' = IF ReplacedAll(q) /\ (refreshed = None \/ refreshed < q.val)
                    THEN q.val ELSE refreshed
    /\ UNCHANGED <<now, memory, redis, db, boot>>

\* Promise.allSettled of invalidate resolves.
FinishDel(r) ==
    LET q == req[r] IN
    /\ q.pc = "del" /\ q.todo = {}
    /\ LookUp(r, q)
    /\ UNCHANGED <<now, redis, db, boot, refreshed>>

-----------------------------------------------------------------------------
(* The environment.                                                        *)

\* enforceMemoryCap, when entries of other keys fill the map.
Evict(p) ==
    /\ memory' = [memory EXCEPT ![p] = None]
    /\ answer' = None
    /\ UNCHANGED <<now, redis, db, req, boot, refreshed>>

\* Redis loses the key: restart without persistence, or eviction.
RedisLosesKey ==
    /\ redis' = None
    /\ answer' = None
    /\ UNCHANGED <<now, memory, db, req, boot, refreshed>>

\* DatabaseDomainCache.cleanup, every hour.
Cleanup ==
    /\ db # None /\ db.hardExpiresAt <= now
    /\ db' = None
    /\ answer' = None
    /\ UNCHANGED <<now, memory, redis, req, boot, refreshed>>

\* A process dies with its memory and its operations, and starts again.
Crash(p) ==
    /\ memory' = [memory EXCEPT ![p] = None]
    /\ req' = [r \in Req |-> IF req[r].proc = p THEN Idle ELSE req[r]]
    /\ answer' = None
    /\ boot' = boot \cup (WarmProcs \cap {p})
    /\ UNCHANGED <<now, redis, db, refreshed>>

\* Time passes while no pending await is overdue; Redis drops the key at its TTL.
Tick ==
    /\ now < MaxTime
    /\ \A r \in Req : req[r].pc # "idle" => now < req[r].due
    /\ now' = now + 1
    /\ redis' = IF redis # None /\ redis.expiresAt <= now' THEN None ELSE redis
    /\ answer' = None
    /\ UNCHANGED <<memory, db, req, boot, refreshed>>

Start(r) == \E p \in Proc :
    \/ "get" \in Traffic /\ StartGet(r, p)
    \/ "refresh" \in Traffic /\ StartRefresh(r, p)
    \/ "renew" \in Traffic /\ StartRenew(r, p)
    \/ "warm" \in Traffic /\ StartWarmup(r, p)

\* Events have an implementation of the same steps of their own, with their TTLs.
Continue(r) ==
    \/ RedisAnswers(r) \/ DbAnswers(r) \/ WarmupAnswers(r)
    \/ FetchSucceeds(r) \/ FetchInMaintenance(r) \/ FetchErrs(r)
    \/ SetRedis(r) \/ SetDb(r) \/ DelRedis(r) \/ DelDb(r) \/ TierFails(r)
    \/ FinishSet(r) \/ FinishDel(r)

Environment == RedisLosesKey \/ Cleanup \/ Tick \/ \E p \in Proc : Evict(p) \/ Crash(p)

Next == Environment \/ \E r \in Req : Start(r) \/ Continue(r)

Spec == Init /\ [][Next]_vars

\* Redis and PostgreSQL answer or fail, fetch resolves or rejects: an operation that
\* has started goes on.  Nobody has to start one.
FairSpec == Spec /\ \A r \in Req : WF_vars(Continue(r))
-----------------------------------------------------------------------------
(* Properties.                                                             *)

\* Types, and what an answer carries: an outcome with data has a payload.
TypeOK ==
    /\ now \in Nat
    /\ memory \in [Proc -> MemoryEntry \cup {None}]
    /\ redis \in RedisEntry \cup {None}
    /\ db \in Row \cup {None}
    /\ req \in [Req -> Request]
    /\ answer \in Answer \cup {None}
    /\ boot \in SUBSET WarmProcs
    /\ refreshed \in Nat \cup {None}

Served(sources) == answer # None /\ answer.out \in sources

\* The oldest payload that is ever written to Redis: a soft-fresh row copied by a
\* get or, where processes warm up, any row that has not hard-expired.
OldestSync == IF WarmProcs = {} \/ TtlSoft > TtlHard + OpDelay
              THEN TtlSoft + OpDelay ELSE TtlHard + 2 * OpDelay

\* Each tier restarts the age when it takes a payload over from the next one, so
\* the TTLs add up.
FreshBound == OldestSync + TtlL2 + OpDelay + TtlL1

\* A payload served with stale: false is never older than FreshBound, whatever the
\* interleaving of gets, refreshes, invalidations, warm-ups and crashes.
Freshness == Served(FreshSources) => now - answer.val <= FreshBound

\* A payload served with stale: true (database-stale) is past its soft limit and was
\* within its hard limit when the row was read, one upstream call earlier.
StaleWithinHard ==
    Served({"database-stale"}) =>
        now - answer.val \in TtlSoft .. (TtlHard + OpDelay + FetchDelay)

\* The stale fallback survives every failure (ADR-0004, decision 2): a row that has
\* not hard-expired leaves the table only by an invalidation, and is replaced only
\* by a payload received at most one command earlier.
LiveRowKept ==
    [][ GetRow # None /\ db' # db =>
          \/ db' # None /\ now - db'.payload <= OpDelay
          \/ \E r \in Req : req[r].pc = "del" /\ "db" \in req[r].todo ]_vars

\* How long a get, a sync or a warm-up that read the tiers before a refresh can keep
\* older payloads in circulation: one read, its sync to Redis, and the L2 and L1 TTLs.
Lag == 4 * OpDelay + TtlL2 + TtlL1

\* A forceRefresh that replaced every tier wins: from Lag seconds later on, no process
\* serves as fresh a payload older than the refresh (but for one received while
\* its own writes were on their way), although soft-fresh older copies were in flight.
RefreshWins ==
    Served(FreshSources) /\ refreshed # None /\ now > refreshed + Lag
        => answer.val >= refreshed - OpDelay

\* Every operation comes back to its caller, whichever tiers fail on the way.
EveryRequestReturns == \A r \in Req : req[r].pc # "idle" ~> req[r].pc = "idle"
=============================================================================
