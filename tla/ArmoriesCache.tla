--------------------------- MODULE ArmoriesCache ---------------------------
(***************************************************************************)
(* The cached detail of one character: ArmoriesService                     *)
(* (packages/data-service/src/services/armories-service.ts) over           *)
(* CacheManager (cache/cache-manager.ts), with a memory map per process,   *)
(* Redis and the character_cache table.                                    *)
(*                                                                         *)
(* A detail may hold some sections only; a request for others fetches what *)
(* is missing and merges it into the detail it read.  Every tier judges a  *)
(* detail by metadata.normalizedAt, which a merge renews.                  *)
(*                                                                         *)
(* As in DomainCache an await of Redis, PostgreSQL or upstream is a step   *)
(* boundary, a read takes effect when it is issued, a write in a step of   *)
(* its own.  A tier that is not connected answers like one that fails.     *)
(* The memory map is awaited, too, but answers within the same turn.       *)
(***************************************************************************)
EXTENDS Integers, FiniteSets

CONSTANTS
    Proc,       \* processes: REST, UDP
    Req,        \* slots for operations in flight
    Traffic,    \* kinds of operations that are started
    Section,    \* FULL_SECTIONS
    Profile,    \* the section every fetch must have
    MaxAge,     \* CACHE_DB_MAX_AGE_SECONDS
    OpDelay,    \* longest time one access to Redis or PostgreSQL takes
    FetchDelay, \* longest time the parallel upstream calls of a fetch take
    MaxTime,    \* bound on the clock
    None

ASSUME SectionAssumption == IsFiniteSet(Section) /\ Profile \in Section
ASSUME TrafficAssumption ==
    Traffic \subseteq {"partial", "full", "nodes", "refresh", "delete"}
ASSUME TimeAssumption == {MaxAge, OpDelay, FetchDelay, MaxTime} \subseteq Nat

\* normalizedAt, and when the upstream call of each section fetched was sent; the
\* others are normalized to empty lists and are not in fetchedSections.
Detail == [normalizedAt : Nat, sent : [Section -> Nat \cup {None}]]

ASSUME NoneAssumption == None \notin Int /\ None \notin Detail /\ None \notin Proc

VARIABLES
    now,
    memory, redis, db,  \* the detail each tier holds
    req,                \* the operations in flight
    answer              \* history: what the last step returned to a caller, if it did

vars == <<now, memory, redis, db, req, answer>>
-----------------------------------------------------------------------------
Tiers == {"redis", "db"}

\* The routes of a character: GET, GET with sections, its class nodes, POST refresh,
\* DELETE of its cache.
Ops == {"partial", "full", "nodes", "refresh", "delete"}

Request == [
    pc    : {"idle", "redis.get", "redis.del", "db.get", "redis.sync", "fetch", "set", "del"},
    op    : Ops \cup {None},
    proc  : Proc \cup {None},
    want  : SUBSET Section,         \* the sections the caller asked for
    again : 0 .. 2,                 \* lookups of a full that are still to come
    val   : Detail \cup {None},     \* what the read answered; the base of a merge; the result
    miss  : SUBSET Section,         \* the sections being fetched
    todo  : SUBSET Tiers,           \* writes or deletes issued and not yet settled
    due   : Nat ]                   \* latest time at which the pending await resolves

Answer == [op : Ops, want : SUBSET Section, val : Detail \cup {None}]

Idle == [pc |-> "idle", op |-> None, proc |-> None, want |-> {}, again |-> 0, val |-> None,
         miss |-> {}, todo |-> {}, due |-> 0]

Init ==
    /\ now = 0
    /\ memory = [p \in Proc |-> None]
    /\ redis = None /\ db = None
    /\ req = [r \in Req |-> Idle]
    /\ answer = None
-----------------------------------------------------------------------------
Fetched(d) == {s \in Section : d.sent[s] # None}

\* cacheAgeMs(detail) <= DB_CACHE_MAX_AGE_MS
Fresh(d) == d # None /\ now - d.normalizedAt <= MaxAge

\* normalizeCharacterDetail, of a fetch without a base: what was not fetched is empty.
Normalized(miss, sent) ==
    [normalizedAt |-> now, sent |-> [s \in Section |-> IF s \in miss THEN sent ELSE None]]

\* mutant: the metadata of the base is kept as it is
MergedKeepingMetadata(d, miss, sent) ==
    [d EXCEPT !.sent = [s \in Section |-> IF s \in miss THEN sent ELSE @[s]]]

\* mergeIntoCache: what the base has of the other sections is kept.
Merged(d, miss, sent) ==
    [normalizedAt |-> now, sent |-> [s \in Section |-> IF s \in miss THEN sent ELSE d.sent[s]]]

\* pickSections: the sections asked for, with the metadata.
Picked(want, d) ==
    [d EXCEPT !.sent = [s \in Section |-> IF s \in want THEN @[s] ELSE None]]

\* mutant: fetchedSections is not looked at
MissingAll(want, d) == want

Missing(want, d) == want \ Fetched(d)

\* mutant: the profile is fetched when it is asked for only
FirstFetchAsAsked(q) == IF q.op = "partial" THEN q.want ELSE Section

\* The sections fetched when no tier has the character.
FirstFetch(q) == IF q.op = "partial" THEN q.want \cup {Profile} ELSE Section

(* Continuations of an operation q, up to its next await.                  *)

\* A tier answers what it holds, or nothing when it fails or is not connected.
Read(q, tier, held) ==
    { [q EXCEPT !.pc = tier, !.val = val, !.due = now + OpDelay] : val \in {held, None} }

Fetching(q, base, miss) ==
    [q EXCEPT !.pc = "fetch", !.val = base, !.miss = miss, !.due = now + FetchDelay]

Deleting(q, tiers) ==
    [q EXCEPT !.pc = "del", !.val = None, !.todo = tiers, !.due = now + OpDelay]

Becomes(r, q) ==
    /\ req' = [req EXCEPT ![r] = q]
    /\ answer' = None

\* The reply.  The class nodes are refused for a class or a level that has none.
Answers(r, q, d) ==
    /\ req' = [req EXCEPT ![r] = Idle]
    /\ \E val \in IF q.op = "partial" /\ d # None THEN {Picked(q.want, d)}
                  ELSE IF q.op = "nodes" THEN {d, None} ELSE {d} :
          answer' = [op |-> q.op, want |-> q.want, val |-> val]
-----------------------------------------------------------------------------
(* getCharacterDetail of the CacheManager, and what its callers do next.   *)

Remember(q, d) == memory' = [memory EXCEPT ![q.proc] = d]

\* mutant: what the cache holds is good enough
HitAsCached(r, q, d) == Answers(r, q, d)

\* A fresh detail was found.  A partial request completes it unless it has all it asked
\* for; if the profile were missing, all tiers would be cleared first.
Hit(r, q, d) ==
    LET miss == IF q.op = "partial" THEN Missing(q.want, d) ELSE {} IN
    \/ miss = {} /\ Answers(r, q, d)
    \/ miss # {} /\ Becomes(r, IF Profile \in miss THEN Deleting(q, Tiers)
                                                   ELSE Fetching(q, d, miss))

\* A detail in memory that is too old is dropped.
LookUp(r, q) ==
    \/ /\ Fresh(memory[q.proc])
       /\ Hit(r, q, memory[q.proc])
       /\ UNCHANGED memory
    \/ /\ ~Fresh(memory[q.proc])
       /\ Remember(q, None)
       /\ \E q2 \in Read(q, "redis.get", redis) : Becomes(r, q2)

\* No tier has a fresh detail.
Miss(r, q) ==
    \/ /\ q.again > 0
       /\ LookUp(r, [q EXCEPT !.again = @ - 1, !.val = None])
    \/ /\ q.again = 0
       /\ Becomes(r, Fetching(q, None, FirstFetch(q)))
       /\ UNCHANGED memory

GetCharacterDetailPartial(r, p, want) ==
    /\ req[r].pc = "idle"
    /\ LookUp(r, [Idle EXCEPT !.op = "partial", !.proc = p, !.want = want])
    /\ UNCHANGED <<now, redis, db>>

\* The route looks into the cache, then calls getCharacterDetail of the service, which
\* looks and then calls processCharacterDetail, which looks again.
GetCharacterDetail(r, p) ==
    /\ req[r].pc = "idle"
    /\ LookUp(r, [Idle EXCEPT !.op = "full", !.proc = p, !.want = Section, !.again = 2])
    /\ UNCHANGED <<now, redis, db>>

\* This route begins with the service.
GetClassSpecificNodes(r, p) ==
    /\ req[r].pc = "idle"
    /\ LookUp(r, [Idle EXCEPT !.op = "nodes", !.proc = p, !.want = Section, !.again = 1])
    /\ UNCHANGED <<now, redis, db>>

\* deleteCharacterDetail of the CacheManager, in the tiers that are connected.
DeletesDetail(r, q) ==
    /\ Remember(q, None)
    /\ \E tiers \in SUBSET Tiers : Becomes(r, Deleting(q, tiers))

RefreshCharacterDetail(r, p) ==
    /\ req[r].pc = "idle"
    /\ DeletesDetail(r, [Idle EXCEPT !.op = "refresh", !.proc = p, !.want = Section])
    /\ UNCHANGED <<now, redis, db>>

DeleteCharacterCache(r, p) ==
    /\ req[r].pc = "idle"
    /\ DeletesDetail(r, [Idle EXCEPT !.op = "delete", !.proc = p])
    /\ UNCHANGED <<now, redis, db>>

RedisAnswers(r) ==
    LET q == req[r] IN
    /\ q.pc = "redis.get"
    /\ \/ q.val = None /\ (\E q2 \in Read(q, "db.get", db) : Becomes(r, q2)) /\ UNCHANGED memory
       \/ Fresh(q.val) /\ Remember(q, q.val) /\ Hit(r, q, q.val)
       \/ /\ q.val # None /\ ~Fresh(q.val)
          /\ Becomes(r, [q EXCEPT !.pc = "redis.del", !.val = None, !.due = now + OpDelay])
          /\ UNCHANGED memory
    /\ UNCHANGED <<now, redis, db>>

\* The key of a detail that was too old is deleted, whatever it holds by now; if that
\* fails the table is not asked.
RedisDropsStale(r) ==
    LET q == req[r] IN
    /\ q.pc = "redis.del"
    /\ \/ /\ redis' = None
          /\ \E q2 \in Read(q, "db.get", db) : Becomes(r, q2)
          /\ UNCHANGED memory
       \/ UNCHANGED redis /\ Miss(r, q)
    /\ UNCHANGED <<now, db>>

DbAnswers(r) ==
    LET q == req[r] IN
    /\ q.pc = "db.get"
    /\ \/ /\ Fresh(q.val)
          /\ Remember(q, q.val)
          /\ Becomes(r, [q EXCEPT !.pc = "redis.sync", !.due = now + OpDelay])
       \/ ~Fresh(q.val) /\ Miss(r, q)
    /\ UNCHANGED <<now, redis, db>>

\* syncToUpperCacheLayers
RedisSyncs(r) ==
    LET q == req[r] IN
    /\ q.pc = "redis.sync"
    /\ redis' \in {q.val, redis}
    /\ Hit(r, q, q.val)
    /\ UNCHANGED <<now, memory, db>>
-----------------------------------------------------------------------------
(* Fetches, and the writes and deletes of the shared tiers.                *)

\* Every section answered: setCharacterDetail, the memory map at once.
FetchSucceeds(r) ==
    LET q == req[r]
        sent == q.due - FetchDelay
        d == IF q.val = None THEN Normalized(q.miss, sent) ELSE Merged(q.val, q.miss, sent) IN
    /\ q.pc = "fetch"
    /\ Remember(q, d)
    /\ \E tiers \in SUBSET Tiers :
          Becomes(r, [q EXCEPT !.pc = "set", !.val = d, !.miss = {}, !.todo = tiers,
                               !.due = now + OpDelay])
    /\ UNCHANGED <<now, redis, db>>

\* One section failed, or there is no such character.
FetchFails(r) ==
    /\ req[r].pc = "fetch"
    /\ Answers(r, req[r], None)
    /\ UNCHANGED <<now, memory, redis, db>>

Settled(r, tier) == Becomes(r, [req[r] EXCEPT !.todo = @ \ {tier}])

\* A set or a delete of one tier takes effect.
Written(q) == IF q.pc = "set" THEN q.val ELSE None

WriteRedis(r) ==
    /\ "redis" \in req[r].todo
    /\ redis' = Written(req[r])
    /\ Settled(r, "redis")
    /\ UNCHANGED <<now, memory, db>>

WriteDb(r) ==
    /\ "db" \in req[r].todo
    /\ db' = Written(req[r])
    /\ Settled(r, "db")
    /\ UNCHANGED <<now, memory, redis>>

\* Its failure is logged and swallowed.
WriteFails(r) ==
    /\ \E tier \in req[r].todo : Settled(r, tier)
    /\ UNCHANGED <<now, memory, redis, db>>

FinishSet(r) ==
    LET q == req[r] IN
    /\ q.pc = "set" /\ q.todo = {}
    /\ Answers(r, q, q.val)
    /\ UNCHANGED <<now, memory, redis, db>>

\* A refresh goes on with processCharacterDetail, which looks into the cache.  For a
\* partial request, whose delete includes the memory map, HasProfile says that this is
\* never reached.
FinishDel(r) ==
    LET q == req[r] IN
    /\ q.pc = "del" /\ q.todo = {}
    /\ \/ q.op = "partial" /\ Becomes(r, Fetching(q, None, FirstFetch(q))) /\ Remember(q, None)
       \/ q.op = "refresh" /\ LookUp(r, q)
       \/ q.op = "delete" /\ Answers(r, q, None) /\ UNCHANGED memory
    /\ UNCHANGED <<now, redis, db>>
-----------------------------------------------------------------------------
(* The environment.                                                        *)

\* What may have expired: a TTL depends on the item level, which is not modelled.
Expired(d) == {d, None}

\* Redis does so by itself, 15 to 30 minutes after the write.
RedisExpires ==
    /\ redis' \in Expired(redis)
    /\ answer' = None
    /\ UNCHANGED <<now, memory, db, req>>

\* 5 to 15 minutes after it was written.
OptimizeMemoryCache(p, needed) ==
    memory' \in { [memory EXCEPT ![p] = d] : d \in IF needed THEN Expired(memory[p]) ELSE {memory[p]} }

\* A row lives 30 days.
OptimizeDatabaseCache(needed) == db' \in IF needed THEN Expired(db) ELSE {db}

\* A cleanup of the CacheManager, every 15 minutes: each tier, Redis for its statistics only.
Cleanup(p) == OptimizeMemoryCache(p, TRUE) /\ OptimizeDatabaseCache(TRUE) /\ UNCHANGED redis

\* Every 5 minutes, and on POST /cache/optimize: the tiers whose hit rate is too low or
\* that hold too many entries; of neither does the model keep count.
PerformOptimization(p) ==
    /\ \E needed \in SUBSET {"memory", "db"} :
          OptimizeMemoryCache(p, "memory" \in needed) /\ OptimizeDatabaseCache("db" \in needed)
    /\ UNCHANGED redis

Crash(p) ==
    /\ memory' = [memory EXCEPT ![p] = None]
    /\ req' = [r \in Req |-> IF req[r].proc = p THEN Idle ELSE req[r]]
    /\ answer' = None
    /\ UNCHANGED <<now, redis, db>>

Tick ==
    /\ now < MaxTime
    /\ \A r \in Req : req[r].pc # "idle" => now < req[r].due
    /\ now' = now + 1
    /\ answer' = None
    /\ UNCHANGED <<memory, redis, db, req>>

Start(r) == \E p \in Proc :
    \/ "partial" \in Traffic /\ \E want \in SUBSET Section : GetCharacterDetailPartial(r, p, want)
    \/ "full" \in Traffic /\ GetCharacterDetail(r, p)
    \/ "nodes" \in Traffic /\ GetClassSpecificNodes(r, p)
    \/ "refresh" \in Traffic /\ RefreshCharacterDetail(r, p)
    \/ "delete" \in Traffic /\ DeleteCharacterCache(r, p)

Continue(r) ==
    \/ RedisAnswers(r) \/ RedisDropsStale(r) \/ DbAnswers(r) \/ RedisSyncs(r)
    \/ FetchSucceeds(r) \/ FetchFails(r)
    \/ WriteRedis(r) \/ WriteDb(r) \/ WriteFails(r) \/ FinishSet(r) \/ FinishDel(r)

Upkeep(p) ==
    /\ Cleanup(p) \/ PerformOptimization(p)
    /\ answer' = None
    /\ UNCHANGED <<now, req>>

Environment == RedisExpires \/ Tick \/ \E p \in Proc : Crash(p) \/ Upkeep(p)

Next == Environment \/ \E r \in Req : Start(r) \/ Continue(r)

Spec == Init /\ [][Next]_vars
-----------------------------------------------------------------------------
(* Properties.                                                             *)

\* The details that any tier or any operation may hand on.
Held == ({memory[p] : p \in Proc} \cup {redis, db} \cup {req[r].val : r \in Req}) \ {None}

\* Types; and no section is newer than the time its detail claims.
TypeOK ==
    /\ now \in Nat
    /\ memory \in [Proc -> Detail \cup {None}]
    /\ redis \in Detail \cup {None}
    /\ db \in Detail \cup {None}
    /\ req \in [Req -> Request]
    /\ answer \in Answer \cup {None}
    /\ \A d \in Held : \A s \in Fetched(d) : d.sent[s] <= d.normalizedAt /\ d.normalizedAt <= now

\* "Theoretically this does not happen" (the profile-miss guard): no interleaving of
\* partial fetches, full fetches and deletes puts a detail without a profile into a tier.
HasProfile == \A d \in Held : Profile \in Fetched(d)

Served == answer # None /\ answer.val # None

\* A partial request is given every section it asked for, be it from two details that
\* were fetched at different times and by different processes.
Complete == Served /\ answer.op = "partial" => answer.want \subseteq Fetched(answer.val)

\* How much older than normalizedAt one more merge can make a section.
Renewal == MaxAge + OpDelay + FetchDelay

\* What a merge keeps ages on although normalizedAt is renewed; but a merge adds a
\* section, and details that other requests overwrite are no older than that, so that a
\* section is served at most Cardinality(Section) - 1 renewals past the limit.
SectionAge ==
    Served => \A s \in Fetched(answer.val) :
        now - answer.val.sent[s] <= Cardinality(Section) * Renewal
-----------------------------------------------------------------------------
(* What the code's comments and documentation say and it does not do.      *)

\* Details with sections that were never fetched are not served as if these were empty
\* (verification-strategies.md: "fixed at the root" by fetchedSections and the merge).
FullIsFull == Served /\ answer.op = "full" => Fetched(answer.val) = Section
=============================================================================
