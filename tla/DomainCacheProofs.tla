------------------------- MODULE DomainCacheProofs -------------------------
(***************************************************************************)
(* Proofs about DomainCache, for every number of processes and operations  *)
(* in flight and every choice of the TTLs and delays.                      *)
(*                                                                         *)
(* The bounds on what callers are given are not inductive: they hold       *)
(* because of how old a payload may be wherever it rests or travels.  IInv *)
(* states that age for each tier and for each kind of pending await.       *)
(* RInv, further down, does so for the copies older than a forced refresh. *)
(***************************************************************************)
EXTENDS DomainCache, TLAPS

\* A pending request, at time t.  An await of age-bounded data is due at most one
\* delay after the data was read.
ReqInv(q, t) ==
    /\ q \in Request
    /\ q.pc # "idle" => q.proc \in Proc /\ q.op \in Ops /\ t <= q.due
    /\ q.pc # "idle" /\ q.op = "warm" => WarmProcs # {}
    /\ q.pc = "redis.get" /\ q.val # None => q.due - q.val <= OldestSync + TtlL2 + OpDelay
    /\ q.pc = "db.getRow" /\ q.row # None =>
         /\ q.row = RowFor(q.row.payload)
         /\ q.row.payload <= t
         /\ q.due - q.row.payload <= TtlHard + OpDelay
    /\ q.pc = "fetch" /\ q.val # None =>
         /\ t - q.val >= TtlSoft
         /\ q.due - q.val <= TtlHard + OpDelay + FetchDelay
    /\ q.pc = "set" =>
         /\ q.val \in Nat /\ q.val <= t
         /\ q.out \in Outcomes \ {"database-stale", "memory", "redis"}
         /\ q.due - q.val <= OldestSync
         /\ "db" \in q.todo => q.due - q.val <= OpDelay

MemoryInv(e, t) ==
    e # None => /\ e.normalizedAt <= t
                /\ e.normalizedAt - e.payload <= OldestSync + TtlL2 + OpDelay

RedisInv(e, t) ==
    e # None => t < e.expiresAt /\ e.expiresAt - e.payload <= OldestSync + TtlL2

DbInv(row, t) == row # None => row = RowFor(row.payload) /\ row.payload <= t

TiersInv ==
    /\ memory \in [Proc -> MemoryEntry \cup {None}]
    /\ \A p \in Proc : MemoryInv(memory[p], now)
    /\ redis \in RedisEntry \cup {None}
    /\ RedisInv(redis, now)
    /\ db \in Row \cup {None}
    /\ DbInv(db, now)

IInv ==
    /\ now \in Nat
    /\ TiersInv
    /\ req \in [Req -> Request]
    /\ \A r \in Req : ReqInv(req[r], now)
    /\ answer \in Answer \cup {None}
    /\ Freshness
    /\ StaleWithinHard
    /\ boot \in SUBSET WarmProcs
    /\ refreshed \in Nat \cup {None}

\* A request that may go on to any await: what its caller fixed.
Caller(q) ==
    /\ q \in Request
    /\ q.proc \in Proc /\ q.op \in Ops
    /\ q.op = "warm" => WarmProcs # {}

\* An answer that may be given now.
AnswerInv(out, val) ==
    /\ [out |-> out, val |-> val] \in Answer
    /\ out \in FreshSources => now - val <= FreshBound
    /\ out = "database-stale" => now - val \in TtlSoft .. (TtlHard + OpDelay + FetchDelay)
-----------------------------------------------------------------------------
(* Arithmetic of the bounds.                                               *)

\* The constants are naturals, and a payload written to every tier at the second it
\* was received, or read soft-fresh, is no older than OldestSync when it is written.
LEMMA Bounds ==
    /\ TtlL1 \in Nat /\ TtlL2 \in Nat /\ TtlSoft \in Nat /\ TtlHard \in Nat
    /\ OpDelay \in Nat /\ FetchDelay \in Nat
    /\ TtlL2 > 0
    /\ OldestSync \in Nat /\ FreshBound \in Nat
    /\ OpDelay <= OldestSync
    /\ FreshBound = OldestSync + TtlL2 + OpDelay + TtlL1
  BY TimeAssumption DEF OldestSync, FreshBound

\* Soft-fresh row: the sync is due within OldestSync of its payload.
LEMMA SyncBound ==
    ASSUME NEW age \in Int, age < TtlSoft, age <= TtlHard + OpDelay
    PROVE  age + OpDelay <= OldestSync
  BY TimeAssumption DEF OldestSync

\* Hydrated row: only processes that warm up hydrate.
LEMMA HydrateBound ==
    ASSUME NEW age \in Int, age <= TtlHard + OpDelay, WarmProcs # {}
    PROVE  age + OpDelay <= OldestSync
  BY TimeAssumption DEF OldestSync
-----------------------------------------------------------------------------
(* Every continuation of a request satisfies ReqInv.                       *)

LEMMA IdleInv == ASSUME now \in Nat PROVE ReqInv(Idle, now)
  BY NoneAssumption DEF ReqInv, Idle, Request, Outcomes, Ops, Tiers

\* The caller of a pending request.
LEMMA PendingCaller ==
    ASSUME NEW q, ReqInv(q, now), q.pc # "idle"
    PROVE  Caller(q)
  BY DEF ReqInv, Caller

LEMMA FetchingInv ==
    ASSUME now \in Nat, NEW q, Caller(q), NEW stale \in Nat \cup {None},
           stale # None => now - stale >= TtlSoft /\ now - stale <= TtlHard + OpDelay
    PROVE  ReqInv(Fetching(q, stale), now)
<1> DEFINE q2 == Fetching(q, stale)
<1>1. now + FetchDelay \in Nat /\ q \in Request
  BY Bounds DEF Caller
<1>2. /\ q2 \in Request
      /\ q2.pc = "fetch" /\ q2.val = stale /\ q2.due = now + FetchDelay
      /\ q2.op = q.op /\ q2.proc = q.proc
  BY <1>1 DEF Fetching, Request
<1> HIDE DEF q2
<1>3. ReqInv(q2, now)
  BY <1>2, Bounds DEF ReqInv, Caller
<1> QED
  BY <1>3 DEF q2

LEMMA SettingInv ==
    ASSUME now \in Nat, NEW q, Caller(q), NEW payload \in Nat, NEW tiers \in SUBSET Tiers,
           NEW out \in {"database", "api", "refreshed", "hydrated", "fetched"},
           payload <= now, now + OpDelay - payload <= OldestSync,
           "db" \in tiers => payload = now
    PROVE  ReqInv(Setting(q, out, payload, tiers), now)
<1> DEFINE q2 == Setting(q, out, payload, tiers)
<1>1. now + OpDelay \in Nat /\ q \in Request
  BY Bounds DEF Caller
<1>2. out \in Outcomes \ {"database-stale", "memory", "redis"}
  BY DEF Outcomes, DataOutcomes, FreshSources
<1>3. /\ q2 \in Request
      /\ q2.pc = "set" /\ q2.val = payload /\ q2.due = now + OpDelay
      /\ q2.todo = tiers /\ q2.out = out
      /\ q2.op = q.op /\ q2.proc = q.proc
  BY <1>1, <1>2 DEF Setting, Request
<1> HIDE DEF q2
<1>4. ReqInv(q2, now)
  BY <1>2, <1>3, Bounds DEF ReqInv, Caller
<1> QED
  BY <1>4 DEF q2

LEMMA AskDbInv ==
    ASSUME IInv, NEW q, Caller(q), NEW q2 \in AskDb(q)
    PROVE  ReqInv(q2, now)
<1>1. PICK row \in {GetRow, None} :
        q2 = [q EXCEPT !.pc = "db.getRow", !.val = None, !.row = row, !.due = now + OpDelay]
  BY DEF AskDb
<1>2. row \in Row \cup {None}
  BY <1>1 DEF GetRow, IInv, TiersInv
<1>3. row # None => row = RowFor(row.payload) /\ row.payload <= now /\ now < row.hardExpiresAt
  BY <1>1 DEF GetRow, IInv, TiersInv, DbInv
<1>4. row # None => row.payload \in Nat /\ now < row.payload + TtlHard
  BY <1>2, <1>3 DEF Row, RowFor
<1>5. now \in Nat /\ now + OpDelay \in Nat /\ q \in Request
  BY Bounds DEF IInv, Caller
<1>6. /\ q2 \in Request
      /\ q2.pc = "db.getRow" /\ q2.row = row /\ q2.due = now + OpDelay
      /\ q2.op = q.op /\ q2.proc = q.proc
  BY <1>1, <1>2, <1>5 DEF Request
<1> QED
  BY <1>3, <1>4, <1>5, <1>6, Bounds DEF ReqInv, Caller

LEMMA AfterRedisMissInv ==
    ASSUME IInv, NEW q, Caller(q), NEW q2 \in AfterRedisMiss(q)
    PROVE  ReqInv(q2, now)
  BY AskDbInv, FetchingInv DEF AfterRedisMiss, IInv

LEMMA AfterMemoryMissInv ==
    ASSUME IInv, NEW q, Caller(q), NEW q2 \in AfterMemoryMiss(q)
    PROVE  ReqInv(q2, now)
<1>1. CASE q2 \in AfterRedisMiss(q)
  BY <1>1, AfterRedisMissInv
<1>2. ASSUME NEW val \in {RedisGet, None},
             q2 = [q EXCEPT !.pc = "redis.get", !.val = val, !.due = now + OpDelay]
      PROVE  ReqInv(q2, now)
  <2>1. /\ val \in Nat \cup {None}
        /\ val # None => now - val <= OldestSync + TtlL2
    <3>1. CASE redis = None
      BY <3>1 DEF RedisGet
    <3>2. CASE redis # None
      BY <3>2, Bounds DEF RedisGet, IInv, TiersInv, RedisInv, RedisEntry
    <3> QED BY <3>1, <3>2
  <2>2. now \in Nat /\ now + OpDelay \in Nat /\ q \in Request
    BY Bounds DEF IInv, Caller
  <2>3. /\ q2 \in Request
        /\ q2.pc = "redis.get" /\ q2.val = val /\ q2.due = now + OpDelay
        /\ q2.op = q.op /\ q2.proc = q.proc
    BY <1>2, <2>1, <2>2 DEF Request
  <2> QED
    BY <2>1, <2>2, <2>3, Bounds DEF ReqInv, Caller
<1> QED
  BY <1>1, <1>2 DEF AfterMemoryMiss

\* A command that settles leaves fewer of them to wait for.
LEMMA SettledInv ==
    ASSUME IInv, NEW r \in Req, req[r].pc \in {"set", "del"},
           NEW tier \in Tiers, NEW ok \in BOOLEAN, Settled(r, tier, ok)
    PROVE  \E q : Becomes(r, q) /\ ReqInv(q, now)
<1> DEFINE q == req[r]
           wrote == IF ok /\ q.out = "refreshed" THEN q.wrote \cup {tier} ELSE q.wrote
           q2 == [q EXCEPT !.todo = q.todo \ {tier}, !.wrote = wrote]
<1>1. q \in Request /\ ReqInv(q, now)
  BY DEF IInv
<1>2. Becomes(r, q2)
  BY DEF Settled
<1>3. q.todo \ {tier} \in SUBSET Tiers /\ wrote \in SUBSET Tiers
  BY <1>1 DEF Request
<1> HIDE DEF wrote
<1>4. /\ q2 \in Request
      /\ q2.pc = q.pc /\ q2.val = q.val /\ q2.due = q.due /\ q2.out = q.out
      /\ q2.todo = q.todo \ {tier} /\ q2.op = q.op /\ q2.proc = q.proc
  BY <1>1, <1>3 DEF Request
<1> HIDE DEF q2, q
<1>5. q.pc \in {"set", "del"}
  BY DEF q
<1>6. ReqInv(q2, now)
  BY <1>1, <1>4, <1>5 DEF ReqInv
<1> QED
  BY <1>2, <1>6
-----------------------------------------------------------------------------
(* How the tiers change.                                                   *)

\* An upsert of a payload no older than what Redis may hold.
LEMMA UpsertTiers ==
    ASSUME IInv, NEW p \in Proc, NEW payload \in Nat, NEW normalizedAt \in Nat,
           normalizedAt <= now,
           normalizedAt - payload <= OldestSync + TtlL2 + OpDelay,
           Upsert(p, payload, normalizedAt), UNCHANGED <<now, redis, db>>
    PROVE  TiersInv'
<1> DEFINE e == [payload |-> payload, normalizedAt |-> normalizedAt]
<1>1. memory' = [memory EXCEPT ![p] = e] /\ memory \in [Proc -> MemoryEntry \cup {None}]
  BY DEF Upsert, IInv, TiersInv
<1>2. e \in MemoryEntry /\ MemoryInv(e, now)
  BY DEF MemoryEntry, MemoryInv
<1> HIDE DEF e
<1>3. memory' \in [Proc -> MemoryEntry \cup {None}]
  BY <1>1, <1>2
<1>4. \A x \in Proc : MemoryInv(memory'[x], now)
  BY <1>1, <1>2 DEF IInv, TiersInv
<1> QED
  BY <1>3, <1>4 DEF IInv, TiersInv

\* Dropping the entry of one process.
LEMMA EvictTiers ==
    ASSUME IInv, NEW p \in Proc, memory' = [memory EXCEPT ![p] = None],
           UNCHANGED <<now, redis, db>>
    PROVE  TiersInv'
<1>1. memory' \in [Proc -> MemoryEntry \cup {None}]
  BY DEF IInv, TiersInv
<1>2. \A x \in Proc : MemoryInv(memory'[x], now)
  BY DEF IInv, TiersInv, MemoryInv
<1> QED
  BY <1>1, <1>2 DEF IInv, TiersInv

LEMMA SameTiers ==
    ASSUME IInv, UNCHANGED <<now, memory, redis, db>>
    PROVE  TiersInv'
  BY DEF IInv, TiersInv
-----------------------------------------------------------------------------
(* How a step treats its request and its caller.                           *)

\* A step that answers nobody and leaves every request in a good state.
LEMMA SilentKeeps ==
    ASSUME IInv, now' \in Nat, TiersInv', answer' = None, req' \in [Req -> Request],
           \A r \in Req : ReqInv(req'[r], now'),
           boot' \in SUBSET WarmProcs, refreshed' = refreshed
    PROVE  IInv'
  BY DEF IInv, Freshness, StaleWithinHard, Served

LEMMA BecomesKeeps ==
    ASSUME IInv, now' = now, TiersInv', NEW r \in Req, NEW q, ReqInv(q, now),
           Becomes(r, q), boot' \in SUBSET WarmProcs, refreshed' = refreshed
    PROVE  IInv'
<1>1. req' = [req EXCEPT ![r] = q] /\ answer' = None
  BY DEF Becomes
<1>2. now \in Nat /\ req \in [Req -> Request] /\ (\A x \in Req : ReqInv(req[x], now))
  BY DEF IInv
<1>3. q \in Request
  BY DEF ReqInv
<1>4. req' \in [Req -> Request] /\ \A x \in Req : ReqInv(req'[x], now)
  BY <1>1, <1>2, <1>3
<1> QED
  BY <1>1, <1>2, <1>4, SilentKeeps

\* A step that answers the caller of r.
LEMMA AnswersKeeps ==
    ASSUME IInv, now' = now, TiersInv', NEW r \in Req, NEW out, NEW val,
           AnswerInv(out, val), Answers(r, out, val),
           boot' = boot, refreshed' \in Nat \cup {None}
    PROVE  IInv'
<1>1. req' = [req EXCEPT ![r] = Idle] /\ answer' = [out |-> out, val |-> val]
  BY DEF Answers
<1>2. now \in Nat /\ req \in [Req -> Request] /\ (\A x \in Req : ReqInv(req[x], now))
  BY DEF IInv
<1>3. ReqInv(Idle, now)
  BY <1>2, IdleInv
<1>4. Idle \in Request
  BY <1>3 DEF ReqInv
<1>5. req' \in [Req -> Request] /\ \A x \in Req : ReqInv(req'[x], now)
  BY <1>1, <1>2, <1>3, <1>4
<1>6. answer' \in Answer /\ answer'.out = out /\ answer'.val = val
  BY <1>1 DEF AnswerInv
<1>7. Freshness' /\ StaleWithinHard'
  BY <1>6 DEF AnswerInv, Freshness, StaleWithinHard, Served
<1> QED
  BY <1>2, <1>5, <1>6, <1>7 DEF IInv

\* An outcome without a time stamp the bounds speak of.
LEMMA DatalessAnswer ==
    ASSUME NEW out \in Outcomes \ DataOutcomes, NEW val \in Nat \cup {None}
    PROVE  AnswerInv(out, val)
  BY DEF AnswerInv, Answer, DataOutcomes

\* A payload served as fresh.
LEMMA FreshAnswer ==
    ASSUME NEW out \in FreshSources, NEW val \in Nat, now - val <= FreshBound
    PROVE  AnswerInv(out, val)
  BY DEF AnswerInv, Answer, DataOutcomes, FreshSources
-----------------------------------------------------------------------------
(* One lemma per operation: it preserves IInv.                             *)

LEMMA LookUpKeeps ==
    ASSUME IInv, NEW r \in Req, NEW q, Caller(q), LookUp(r, q),
           UNCHANGED <<now, redis, db, boot, refreshed>>
    PROVE  IInv'
<1> DEFINE p == q.proc
<1>1. p \in Proc
  BY DEF Caller
<1>2. CASE MemoryFresh(p) /\ Answers(r, "memory", memory[p].payload) /\ UNCHANGED memory
  <2> DEFINE e == memory[p]
  <2>1. e \in MemoryEntry /\ now - e.normalizedAt <= TtlL1 /\ MemoryInv(e, now) /\ e # None
    BY <1>1, <1>2 DEF MemoryFresh, IInv, TiersInv
  <2>2. e.payload \in Nat /\ e.normalizedAt \in Nat /\ now \in Nat
    BY <2>1 DEF MemoryEntry, IInv
  <2>3. now - e.payload <= FreshBound
    BY <2>1, <2>2, Bounds DEF MemoryInv
  <2>4. AnswerInv("memory", e.payload)
    BY <2>2, <2>3, FreshAnswer DEF FreshSources
  <2>5. TiersInv'
    BY <1>2, SameTiers
  <2> QED
    BY <1>2, <2>4, <2>5, AnswersKeeps DEF IInv
<1>3. ASSUME memory' = [memory EXCEPT ![p] = None],
             NEW q2 \in AfterMemoryMiss(q), Becomes(r, q2)
      PROVE  IInv'
  <2>1. TiersInv'
    BY <1>1, <1>3, EvictTiers
  <2>2. ReqInv(q2, now)
    BY AfterMemoryMissInv
  <2> QED
    BY <1>3, <2>1, <2>2, BecomesKeeps DEF IInv
<1> QED
  BY <1>2, <1>3 DEF LookUp

LEMMA StartGetKeeps ==
    ASSUME IInv, NEW r \in Req, NEW p \in Proc, StartGet(r, p)
    PROVE  IInv'
<1> DEFINE q == [Idle EXCEPT !.op = "get", !.proc = p]
<1>1. Caller(q)
  BY NoneAssumption DEF Caller, Request, Idle, Ops
<1>2. LookUp(r, q) /\ UNCHANGED <<now, redis, db, boot, refreshed>>
  BY DEF StartGet
<1> HIDE DEF q
<1> QED
  BY <1>1, <1>2, LookUpKeeps

LEMMA StartRefreshKeeps ==
    ASSUME IInv, NEW r \in Req, NEW p \in Proc, StartRefresh(r, p)
    PROVE  IInv'
<1> DEFINE q == [Idle EXCEPT !.op = "refresh", !.proc = p]
<1>1. Caller(q)
  BY NoneAssumption DEF Caller, Request, Idle, Ops
<1>2. Becomes(r, Fetching(q, None)) /\ UNCHANGED <<now, memory, redis, db, boot, refreshed>>
  BY DEF StartRefresh
<1> HIDE DEF q
<1>3. ReqInv(Fetching(q, None), now)
  BY <1>1, FetchingInv DEF IInv
<1>4. TiersInv'
  BY <1>2, SameTiers
<1> QED
  BY <1>2, <1>3, <1>4, BecomesKeeps DEF IInv

LEMMA StartRenewKeeps ==
    ASSUME IInv, NEW r \in Req, NEW p \in Proc, StartRenew(r, p)
    PROVE  IInv'
<1>1. PICK tiers \in SUBSET Tiers :
        Becomes(r, Invalidating([Idle EXCEPT !.op = "renew", !.proc = p], tiers))
  BY DEF StartRenew
<1> DEFINE q == Invalidating([Idle EXCEPT !.op = "renew", !.proc = p], tiers)
<1>2. now \in Nat /\ now + OpDelay \in Nat
  BY Bounds DEF IInv
<1>3. /\ q \in Request
      /\ q.pc = "del" /\ q.op = "renew" /\ q.proc = p /\ q.due = now + OpDelay
  BY <1>2, NoneAssumption DEF Invalidating, Request, Idle, Ops
<1> HIDE DEF q
<1>4. ReqInv(q, now)
  BY <1>2, <1>3, Bounds DEF ReqInv, Ops
<1>5. TiersInv'
  BY EvictTiers DEF StartRenew
<1>6. Becomes(r, q) /\ UNCHANGED <<now, boot, refreshed>>
  BY <1>1 DEF q, StartRenew
<1> QED
  BY <1>4, <1>5, <1>6, BecomesKeeps DEF IInv

LEMMA StartWarmupKeeps ==
    ASSUME IInv, NEW r \in Req, NEW p \in Proc, StartWarmup(r, p)
    PROVE  IInv'
<1> DEFINE q == [Idle EXCEPT !.op = "warm", !.proc = p]
<1>1. /\ p \in WarmProcs /\ boot' \in SUBSET WarmProcs
      /\ UNCHANGED <<now, memory, redis, db, refreshed>>
  BY DEF StartWarmup, IInv
<1>2. TiersInv'
  BY <1>1, SameTiers
<1>3. CASE \E q2 \in AskDb(q) : Becomes(r, q2)
  <2>1. Caller(q)
    BY <1>1, NoneAssumption DEF Caller, Request, Idle, Ops
  <2> HIDE DEF q
  <2>2. PICK q2 \in AskDb(q) : Becomes(r, q2)
    BY <1>3
  <2>3. ReqInv(q2, now)
    BY <2>1, AskDbInv
  <2> QED
    BY <1>1, <1>2, <2>2, <2>3, BecomesKeeps
<1>4. CASE UNCHANGED req /\ answer' = None
  <2>1. now' \in Nat /\ req' \in [Req -> Request] /\ \A x \in Req : ReqInv(req'[x], now')
    BY <1>1, <1>4 DEF IInv
  <2> QED
    BY <1>1, <1>2, <1>4, <2>1, SilentKeeps
<1> QED
  BY <1>3, <1>4 DEF StartWarmup

LEMMA RedisAnswersKeeps ==
    ASSUME IInv, NEW r \in Req, RedisAnswers(r)
    PROVE  IInv'
<1> DEFINE q == req[r]
<1>1. /\ q.pc = "redis.get" /\ ReqInv(q, now) /\ now \in Nat /\ q \in Request
      /\ UNCHANGED <<now, redis, db, boot, refreshed>>
  BY DEF RedisAnswers, IInv
<1>2. Caller(q)
  BY <1>1, PendingCaller
<1>3. q.proc \in Proc
  BY <1>2 DEF Caller
<1>4. CASE q.val # None /\ Upsert(q.proc, q.val, now) /\ Answers(r, "redis", q.val)
  <2>1. /\ q.val \in Nat /\ q.due \in Nat /\ now <= q.due
        /\ q.due - q.val <= OldestSync + TtlL2 + OpDelay
    BY <1>1, <1>4 DEF ReqInv, Request
  <2>2. /\ now - q.val <= OldestSync + TtlL2 + OpDelay
        /\ now - q.val <= FreshBound
    BY <1>1, <2>1, Bounds
  <2>3. TiersInv'
    BY <1>1, <1>3, <1>4, <2>1, <2>2, UpsertTiers
  <2>4. AnswerInv("redis", q.val)
    BY <2>1, <2>2, FreshAnswer DEF FreshSources
  <2> QED
    BY <1>1, <1>4, <2>3, <2>4, AnswersKeeps DEF IInv
<1>5. CASE UNCHANGED memory /\ \E q2 \in AfterRedisMiss(q) : Becomes(r, q2)
  <2>1. PICK q2 \in AfterRedisMiss(q) : Becomes(r, q2)
    BY <1>5
  <2>2. ReqInv(q2, now)
    BY <1>2, AfterRedisMissInv
  <2>3. TiersInv'
    BY <1>1, <1>5, SameTiers
  <2> QED
    BY <1>1, <2>1, <2>2, <2>3, BecomesKeeps DEF IInv
<1> QED
  BY <1>4, <1>5 DEF RedisAnswers

\* What a pending db.getRow may be about to use.
LEMMA RowRead ==
    ASSUME now \in Nat, NEW q, ReqInv(q, now), q.pc = "db.getRow", q.row # None
    PROVE  /\ q.row.payload \in Nat /\ q.row.payload <= now
           /\ now - q.row.payload <= TtlHard + OpDelay
           /\ q.row.softExpiresAt = q.row.payload + TtlSoft
           /\ q.row.sourceFetchedAt = q.row.payload
<1>1. q.row \in Row /\ q.row = RowFor(q.row.payload) /\ q.row.payload <= now
  BY DEF ReqInv, Request
<1>2. now <= q.due /\ q.due \in Nat /\ q.due - q.row.payload <= TtlHard + OpDelay
  BY DEF ReqInv, Request
<1>3. q.row.payload \in Nat
  BY <1>1 DEF Row
<1>4. /\ q.row.softExpiresAt = q.row.payload + TtlSoft
      /\ q.row.sourceFetchedAt = q.row.payload
  BY <1>1 DEF RowFor
<1> QED
  BY <1>1, <1>2, <1>3, <1>4, Bounds

LEMMA DbAnswersKeeps ==
    ASSUME IInv, NEW r \in Req, DbAnswers(r)
    PROVE  IInv'
<1> DEFINE q == req[r]
           age == now - q.row.payload
<1>1. /\ q.pc = "db.getRow" /\ ReqInv(q, now) /\ now \in Nat
      /\ UNCHANGED <<now, redis, db, boot, refreshed>>
  BY DEF DbAnswers, IInv
<1>2. Caller(q) /\ q.proc \in Proc
  BY <1>1, PendingCaller DEF Caller
<1>3. ASSUME q.row # None, q.row.softExpiresAt > now,
             Upsert(q.proc, q.row.payload, now),
             NEW tiers \in SUBSET {"redis"},
             Becomes(r, Setting(q, "database", q.row.payload, tiers))
      PROVE  IInv'
  <2>1. /\ q.row.payload \in Nat /\ q.row.payload <= now
        /\ age \in Int /\ age < TtlSoft /\ age <= TtlHard + OpDelay
    BY <1>1, <1>3, RowRead, Bounds
  <2>2. age + OpDelay <= OldestSync
    BY <2>1, SyncBound
  <2>3. /\ now + OpDelay - q.row.payload <= OldestSync
        /\ now - q.row.payload <= OldestSync + TtlL2 + OpDelay
    BY <1>1, <2>1, <2>2, Bounds
  <2>4. TiersInv'
    BY <1>1, <1>2, <1>3, <2>1, <2>3, UpsertTiers
  <2>5. tiers \in SUBSET Tiers /\ "db" \notin tiers
    BY DEF Tiers
  <2>6. ReqInv(Setting(q, "database", q.row.payload, tiers), now)
    BY <1>1, <1>2, <2>1, <2>3, <2>5, SettingInv
  <2> QED
    BY <1>1, <1>3, <2>4, <2>6, BecomesKeeps DEF IInv
<1>4. ASSUME NEW stale \in Nat \cup {None}, UNCHANGED memory, Becomes(r, Fetching(q, stale)),
             stale # None => now - stale >= TtlSoft /\ now - stale <= TtlHard + OpDelay
      PROVE  IInv'
  <2>1. ReqInv(Fetching(q, stale), now)
    BY <1>1, <1>2, <1>4, FetchingInv
  <2>2. TiersInv'
    BY <1>1, <1>4, SameTiers
  <2> QED
    BY <1>1, <1>4, <2>1, <2>2, BecomesKeeps DEF IInv
<1>5. CASE /\ q.row # None /\ q.row.softExpiresAt <= now
           /\ Becomes(r, Fetching(q, q.row.payload)) /\ UNCHANGED memory
  <2>1. /\ q.row.payload \in Nat
        /\ now - q.row.payload >= TtlSoft /\ now - q.row.payload <= TtlHard + OpDelay
    BY <1>1, <1>5, RowRead, Bounds
  <2> QED
    BY <1>4, <1>5, <2>1
<1>6. CASE q.row = None /\ Becomes(r, Fetching(q, None)) /\ UNCHANGED memory
  BY <1>4, <1>6
<1> QED
  BY <1>3, <1>5, <1>6 DEF DbAnswers

LEMMA WarmupAnswersKeeps ==
    ASSUME IInv, NEW r \in Req, WarmupAnswers(r)
    PROVE  IInv'
<1> DEFINE q == req[r]
           age == now - q.row.payload
<1>1. /\ q.pc = "db.getRow" /\ q.op = "warm" /\ ReqInv(q, now) /\ now \in Nat
      /\ UNCHANGED <<now, redis, db, boot, refreshed>>
  BY DEF WarmupAnswers, IInv
<1>2. Caller(q) /\ q.proc \in Proc /\ WarmProcs # {}
  BY <1>1, PendingCaller DEF Caller
<1>3. ASSUME q.row # None, Upsert(q.proc, q.row.payload, q.row.sourceFetchedAt),
             NEW tiers \in SUBSET {"redis"},
             Becomes(r, Setting(q, "hydrated", q.row.payload, tiers))
      PROVE  IInv'
  <2>1. /\ q.row.payload \in Nat /\ q.row.payload <= now
        /\ q.row.sourceFetchedAt = q.row.payload
        /\ age \in Int /\ age <= TtlHard + OpDelay
    BY <1>1, <1>3, RowRead, Bounds
  <2>2. age + OpDelay <= OldestSync
    BY <1>2, <2>1, HydrateBound
  <2>3. /\ now + OpDelay - q.row.payload <= OldestSync
        /\ q.row.sourceFetchedAt - q.row.payload <= OldestSync + TtlL2 + OpDelay
    BY <1>1, <2>1, <2>2, Bounds
  <2>4. TiersInv'
    BY <1>1, <1>2, <1>3, <2>1, <2>3, UpsertTiers
  <2>5. tiers \in SUBSET Tiers /\ "db" \notin tiers
    BY DEF Tiers
  <2>6. ReqInv(Setting(q, "hydrated", q.row.payload, tiers), now)
    BY <1>1, <1>2, <2>1, <2>3, <2>5, SettingInv
  <2> QED
    BY <1>1, <1>3, <2>4, <2>6, BecomesKeeps DEF IInv
<1>4. CASE Becomes(r, Fetching(q, None)) /\ UNCHANGED memory
  <2>1. ReqInv(Fetching(q, None), now)
    BY <1>1, <1>2, FetchingInv
  <2>2. TiersInv'
    BY <1>1, <1>4, SameTiers
  <2> QED
    BY <1>1, <1>4, <2>1, <2>2, BecomesKeeps DEF IInv
<1> QED
  BY <1>3, <1>4 DEF WarmupAnswers

LEMMA FetchSucceedsKeeps ==
    ASSUME IInv, NEW r \in Req, FetchSucceeds(r)
    PROVE  IInv'
<1> DEFINE q == req[r]
<1>1. /\ q.pc = "fetch" /\ ReqInv(q, now) /\ now \in Nat /\ Upsert(q.proc, now, now)
      /\ UNCHANGED <<now, redis, db, boot, refreshed>>
  BY DEF FetchSucceeds, IInv
<1>2. Caller(q) /\ q.proc \in Proc
  BY <1>1, PendingCaller DEF Caller
<1>3. PICK tiers \in SUBSET Tiers : Becomes(r, Setting(q, SuccessOf(q.op), now, tiers))
  BY DEF FetchSucceeds
<1>4. SuccessOf(q.op) \in {"database", "api", "refreshed", "hydrated", "fetched"}
  BY DEF SuccessOf
<1>5. TiersInv'
  BY <1>1, <1>2, UpsertTiers, Bounds
<1>6. now + OpDelay - now <= OldestSync
  BY <1>1, Bounds
<1>7. ReqInv(Setting(q, SuccessOf(q.op), now, tiers), now)
  BY <1>1, <1>2, <1>4, <1>6, SettingInv
<1> QED
  BY <1>1, <1>3, <1>5, <1>7, BecomesKeeps DEF IInv

LEMMA FetchFailsKeeps ==
    ASSUME IInv, NEW r \in Req, FetchInMaintenance(r) \/ FetchErrs(r)
    PROVE  IInv'
<1> DEFINE q == req[r]
<1>1. /\ q.pc = "fetch" /\ ReqInv(q, now) /\ now \in Nat /\ q \in Request
      /\ UNCHANGED <<now, memory, redis, db, boot, refreshed>>
  BY DEF FetchInMaintenance, FetchErrs, IInv
<1>2. TiersInv'
  BY <1>1, SameTiers
<1>3. ASSUME NEW out \in {"maintenance-skip", "failed", "unavailable", "error"},
             Answers(r, out, None)
      PROVE  IInv'
  <2>1. AnswerInv(out, None)
    BY DatalessAnswer DEF Outcomes, DataOutcomes, FreshSources
  <2> QED
    BY <1>1, <1>2, <1>3, <2>1, AnswersKeeps DEF IInv
<1>4. CASE q.val # None /\ Answers(r, "database-stale", q.val)
  <2>1. /\ q.val \in Nat /\ q.due \in Nat /\ now <= q.due
        /\ now - q.val >= TtlSoft /\ q.due - q.val <= TtlHard + OpDelay + FetchDelay
    BY <1>1, <1>4 DEF ReqInv, Request
  <2>2. now - q.val \in TtlSoft .. (TtlHard + OpDelay + FetchDelay)
    BY <1>1, <2>1, Bounds
  <2>3. AnswerInv("database-stale", q.val)
    BY <2>1, <2>2 DEF AnswerInv, Answer, DataOutcomes, FreshSources
  <2> QED
    BY <1>1, <1>2, <1>4, <2>3, AnswersKeeps DEF IInv
<1>5. CASE FetchInMaintenance(r)
  BY <1>3, <1>4, <1>5 DEF FetchInMaintenance, MaintenanceAnswer
<1>6. CASE FetchErrs(r)
  BY <1>3, <1>6 DEF FetchErrs
<1> QED
  BY <1>5, <1>6

\* A step that settles one command and leaves the tiers in a good state.
LEMMA SettlesKeeps ==
    ASSUME IInv, NEW r \in Req, req[r].pc \in {"set", "del"}, NEW tier \in Tiers,
           NEW ok \in BOOLEAN, Settled(r, tier, ok), TiersInv',
           UNCHANGED <<now, boot, refreshed>>
    PROVE  IInv'
<1>1. PICK q : Becomes(r, q) /\ ReqInv(q, now)
  BY SettledInv
<1> QED
  BY <1>1, BecomesKeeps DEF IInv

\* The tiers after a write or a delete of Redis.
LEMMA RedisTiers ==
    ASSUME IInv, UNCHANGED <<now, memory, db>>, redis' \in RedisEntry \cup {None},
           RedisInv(redis', now)
    PROVE  TiersInv'
  BY DEF IInv, TiersInv

\* The tiers after a write or a delete of the table's row.
LEMMA DbTiers ==
    ASSUME IInv, UNCHANGED <<now, memory, redis>>, db' \in Row \cup {None}, DbInv(db', now)
    PROVE  TiersInv'
  BY DEF IInv, TiersInv

\* What a pending write may be about to store.
LEMMA PayloadWritten ==
    ASSUME now \in Nat, NEW q, ReqInv(q, now), q.pc = "set"
    PROVE  /\ q.val \in Nat /\ q.val <= now
           /\ now - q.val <= OldestSync
           /\ "db" \in q.todo => now - q.val <= OpDelay
<1>1. /\ q.val \in Nat /\ q.val <= now /\ now <= q.due /\ q.due \in Nat
      /\ q.due - q.val <= OldestSync
      /\ "db" \in q.todo => q.due - q.val <= OpDelay
  BY DEF ReqInv, Request
<1> QED
  BY <1>1, Bounds

LEMMA SetRedisKeeps ==
    ASSUME IInv, NEW r \in Req, SetRedis(r)
    PROVE  IInv'
<1> DEFINE q == req[r]
           e == [payload |-> q.val, expiresAt |-> now + TtlL2]
<1>1. /\ q.pc = "set" /\ ReqInv(q, now) /\ now \in Nat /\ redis' = e
      /\ Settled(r, "redis", TRUE) /\ UNCHANGED <<now, memory, db, boot, refreshed>>
  BY DEF SetRedis, IInv
<1>2. q.val \in Nat /\ q.val <= now /\ now - q.val <= OldestSync
  BY <1>1, PayloadWritten
<1>3. e \in RedisEntry
  BY <1>1, <1>2, Bounds DEF RedisEntry
<1>4. e.expiresAt = now + TtlL2 /\ e.payload = q.val
  OBVIOUS
<1>5. RedisInv(e, now)
  BY <1>1, <1>2, <1>4, Bounds DEF RedisInv
<1>6. TiersInv'
  BY <1>1, <1>3, <1>5, RedisTiers
<1> QED
  BY <1>1, <1>6, SettlesKeeps DEF Tiers

LEMMA SetDbKeeps ==
    ASSUME IInv, NEW r \in Req, SetDb(r)
    PROVE  IInv'
<1> DEFINE q == req[r]
<1>1. /\ q.pc = "set" /\ ReqInv(q, now) /\ now \in Nat /\ db' = RowFor(q.val)
      /\ Settled(r, "db", TRUE) /\ UNCHANGED <<now, memory, redis, boot, refreshed>>
  BY DEF SetDb, IInv
<1>2. q.val \in Nat /\ q.val <= now
  BY <1>1, PayloadWritten
<1>3. RowFor(q.val) \in Row /\ RowFor(q.val).payload = q.val
  BY <1>2, Bounds DEF RowFor, Row
<1>4. DbInv(RowFor(q.val), now)
  BY <1>2, <1>3 DEF DbInv
<1>5. TiersInv'
  BY <1>1, <1>3, <1>4, DbTiers
<1> QED
  BY <1>1, <1>5, SettlesKeeps DEF Tiers

LEMMA DelRedisKeeps ==
    ASSUME IInv, NEW r \in Req, DelRedis(r)
    PROVE  IInv'
<1>1. TiersInv'
  BY RedisTiers DEF DelRedis, RedisInv
<1> QED
  BY <1>1, SettlesKeeps DEF DelRedis, Tiers

LEMMA DelDbKeeps ==
    ASSUME IInv, NEW r \in Req, DelDb(r)
    PROVE  IInv'
<1>1. TiersInv'
  BY DbTiers DEF DelDb, DbInv
<1> QED
  BY <1>1, SettlesKeeps DEF DelDb, Tiers

LEMMA TierFailsKeeps ==
    ASSUME IInv, NEW r \in Req, TierFails(r)
    PROVE  IInv'
<1>1. PICK tier \in req[r].todo : Settled(r, tier, FALSE)
  BY DEF TierFails
<1>2. tier \in Tiers
  BY <1>1 DEF IInv, Request
<1>3. TiersInv'
  BY SameTiers DEF TierFails
<1> QED
  BY <1>1, <1>2, <1>3, SettlesKeeps DEF TierFails

LEMMA FinishSetKeeps ==
    ASSUME IInv, NEW r \in Req, FinishSet(r)
    PROVE  IInv'
<1> DEFINE q == req[r]
<1>1. /\ q.pc = "set" /\ ReqInv(q, now) /\ now \in Nat
      /\ Answers(r, q.out, q.val) /\ UNCHANGED <<now, memory, redis, db, boot>>
  BY DEF FinishSet, IInv
<1>2. /\ q.val \in Nat /\ now - q.val <= FreshBound
      /\ q.out \in Outcomes \ {"database-stale", "memory", "redis"}
  BY <1>1, PayloadWritten, Bounds DEF ReqInv
<1>3. AnswerInv(q.out, q.val)
  <2>1. CASE q.out \in FreshSources
    BY <1>2, <2>1, FreshAnswer
  <2>2. CASE q.out \notin FreshSources
    BY <1>2, <2>2, DatalessAnswer DEF DataOutcomes
  <2> QED BY <2>1, <2>2
<1>4. refreshed' \in Nat \cup {None}
  BY <1>2 DEF FinishSet, IInv
<1>5. TiersInv'
  BY <1>1, SameTiers
<1> QED
  BY <1>1, <1>3, <1>4, <1>5, AnswersKeeps

LEMMA FinishDelKeeps ==
    ASSUME IInv, NEW r \in Req, FinishDel(r)
    PROVE  IInv'
<1>1. Caller(req[r])
  BY PendingCaller DEF FinishDel, IInv
<1> QED
  BY <1>1, LookUpKeeps DEF FinishDel

LEMMA EnvironmentKeeps ==
    ASSUME IInv, \/ RedisLosesKey \/ Cleanup \/ \E p \in Proc : Evict(p)
    PROVE  IInv'
<1>1. UNCHANGED <<now, req, boot, refreshed>> /\ answer' = None
  BY DEF RedisLosesKey, Cleanup, Evict
<1>2. TiersInv'
  <2>1. CASE RedisLosesKey
    BY <2>1, RedisTiers DEF RedisLosesKey, RedisInv
  <2>2. CASE Cleanup
    BY <2>2, DbTiers DEF Cleanup, DbInv
  <2>3. ASSUME NEW p \in Proc, Evict(p) PROVE TiersInv'
    BY <2>3, EvictTiers DEF Evict
  <2> QED BY <2>1, <2>2, <2>3
<1>3. now' \in Nat /\ req' \in [Req -> Request] /\ \A x \in Req : ReqInv(req'[x], now')
  BY <1>1 DEF IInv
<1>4. boot' \in SUBSET WarmProcs
  BY <1>1 DEF IInv
<1> QED
  BY <1>1, <1>2, <1>3, <1>4, SilentKeeps

LEMMA CrashKeeps ==
    ASSUME IInv, NEW p \in Proc, Crash(p)
    PROVE  IInv'
<1>1. /\ now' = now /\ now \in Nat /\ answer' = None /\ refreshed' = refreshed
      /\ req' = [r \in Req |-> IF req[r].proc = p THEN Idle ELSE req[r]]
      /\ \A x \in Req : ReqInv(req[x], now)
  BY DEF Crash, IInv
<1>2. TiersInv'
  BY EvictTiers DEF Crash
<1>3. \A x \in Req : ReqInv(req'[x], now)
  BY <1>1, IdleInv
<1>4. req' \in [Req -> Request]
  BY <1>1, <1>3 DEF ReqInv
<1>5. boot' \in SUBSET WarmProcs
  BY DEF Crash, IInv
<1> QED
  BY <1>1, <1>2, <1>3, <1>4, <1>5, SilentKeeps

\* The awaits are not overdue yet, and Redis has dropped what expired.
LEMMA TickKeeps ==
    ASSUME IInv, Tick
    PROVE  IInv'
<1>1. /\ now \in Nat /\ now' = now + 1 /\ now' \in Nat
      /\ UNCHANGED <<memory, db, req, boot, refreshed>> /\ answer' = None
  BY DEF Tick, IInv
<1>2. ASSUME NEW x \in Req PROVE ReqInv(req'[x], now')
  <2> DEFINE q == req[x]
  <2>1. ReqInv(q, now) /\ (q.pc # "idle" => now < q.due) /\ q \in Request
    BY DEF Tick, IInv
  <2> HIDE DEF q
  <2>2. q.due \in Nat /\ q.val \in Nat \cup {None}
    BY <2>1 DEF Request
  <2>3. q.pc = "db.getRow" /\ q.row # None => q.row.payload \in Nat
    BY <2>1 DEF Request, Row
  <2>4. ReqInv(q, now')
    BY <1>1, <2>1, <2>2, <2>3, Bounds DEF ReqInv
  <2> QED
    BY <1>1, <2>4 DEF q
<1>3. TiersInv'
  <2>1. ASSUME NEW p \in Proc PROVE MemoryInv(memory'[p], now')
    <3>1. memory[p] \in MemoryEntry \cup {None} /\ MemoryInv(memory[p], now)
      BY DEF IInv, TiersInv
    <3> QED
      BY <1>1, <3>1 DEF MemoryInv, MemoryEntry
  <2>2. redis' \in RedisEntry \cup {None} /\ RedisInv(redis', now')
    <3>1. redis \in RedisEntry \cup {None} /\ RedisInv(redis, now)
      BY DEF IInv, TiersInv
    <3>2. redis' = IF redis # None /\ redis.expiresAt <= now' THEN None ELSE redis
      BY DEF Tick
    <3> QED
      BY <1>1, <3>1, <3>2 DEF RedisInv, RedisEntry
  <2>3. db' \in Row \cup {None} /\ DbInv(db', now')
    <3>1. db \in Row \cup {None} /\ DbInv(db, now)
      BY DEF IInv, TiersInv
    <3> QED
      BY <1>1, <3>1 DEF DbInv, Row
  <2> QED
    BY <1>1, <2>1, <2>2, <2>3 DEF IInv, TiersInv
<1>4. req' \in [Req -> Request] /\ boot' \in SUBSET WarmProcs
  BY <1>1 DEF IInv
<1> QED
  BY <1>1, <1>2, <1>3, <1>4, SilentKeeps
-----------------------------------------------------------------------------
(* The theorems.                                                           *)

LEMMA InitIInv == Init => IInv
<1> SUFFICES ASSUME Init PROVE IInv
  OBVIOUS
<1>1. now = 0 /\ memory = [p \in Proc |-> None] /\ redis = None /\ db = None
  BY DEF Init
<1>2. TiersInv
  BY <1>1 DEF TiersInv, MemoryInv, RedisInv, DbInv
<1>3. now \in Nat /\ answer = None /\ boot = WarmProcs /\ refreshed = None
      /\ req = [r \in Req |-> Idle]
  BY DEF Init
<1>4. \A r \in Req : ReqInv(req[r], now)
  BY <1>3, IdleInv
<1>5. req \in [Req -> Request]
  BY <1>3, <1>4 DEF ReqInv
<1> QED
  BY <1>2, <1>3, <1>4, <1>5 DEF IInv, Freshness, StaleWithinHard, Served

LEMMA NextIInv == IInv /\ [Next]_vars => IInv'
<1> SUFFICES ASSUME IInv, [Next]_vars PROVE IInv'
  OBVIOUS
<1>1. CASE Environment
  BY <1>1, EnvironmentKeeps, CrashKeeps, TickKeeps DEF Environment
<1>2. ASSUME NEW r \in Req, Start(r) PROVE IInv'
  BY <1>2, StartGetKeeps, StartRefreshKeeps, StartRenewKeeps, StartWarmupKeeps DEF Start
<1>3. ASSUME NEW r \in Req, Continue(r) PROVE IInv'
  <2>1. CASE RedisAnswers(r) \/ DbAnswers(r) \/ WarmupAnswers(r)
    BY <2>1, RedisAnswersKeeps, DbAnswersKeeps, WarmupAnswersKeeps
  <2>2. CASE FetchSucceeds(r) \/ FetchInMaintenance(r) \/ FetchErrs(r)
    BY <2>2, FetchSucceedsKeeps, FetchFailsKeeps
  <2>3. CASE SetRedis(r) \/ SetDb(r) \/ DelRedis(r) \/ DelDb(r) \/ TierFails(r)
    BY <2>3, SetRedisKeeps, SetDbKeeps, DelRedisKeeps, DelDbKeeps, TierFailsKeeps
  <2>4. CASE FinishSet(r) \/ FinishDel(r)
    BY <2>4, FinishSetKeeps, FinishDelKeeps
  <2> QED
    BY <1>3, <2>1, <2>2, <2>3, <2>4 DEF Continue
<1>4. CASE UNCHANGED vars
  <2>1. UNCHANGED <<now, memory, redis, db, req, answer, boot, refreshed>>
    BY <1>4 DEF vars
  <2> QED
    BY <2>1 DEF IInv, TiersInv, Freshness, StaleWithinHard, Served
<1> QED
  BY <1>1, <1>2, <1>3, <1>4 DEF Next

\* IInv is an invariant of the specification.
THEOREM Inductive == Spec => []IInv
  BY InitIInv, NextIInv, PTL DEF Spec

\* The tiers, the requests and the answers keep their types in every interleaving:
\* no outcome that carries data is returned without a payload.
THEOREM TypeCorrect == Spec => []TypeOK
<1>1. IInv => TypeOK
  BY DEF IInv, TiersInv, TypeOK
<1> QED
  BY <1>1, Inductive, PTL

\* What fetchWithFallback serves as not stale is never older than FreshBound, for any
\* number of processes and operations and any TTLs and delays.
THEOREM FreshnessHolds == Spec => []Freshness
<1>1. IInv => Freshness
  BY DEF IInv
<1> QED
  BY <1>1, Inductive, PTL

\* What fetchWithFallback serves as stale is past its soft limit, and was within its
\* hard limit when it was read.
THEOREM StaleWithinHardHolds == Spec => []StaleWithinHard
<1>1. IInv => StaleWithinHard
  BY DEF IInv
<1> QED
  BY <1>1, Inductive, PTL

\* A row within its hard limit is only ever replaced by a newer payload, unless a
\* REST refresh route invalidates it: no failure and no race loses the fallback.
THEOREM LiveRowKeptHolds == Spec => LiveRowKept
<1> DEFINE Kept == GetRow # None /\ db' # db =>
                     \/ db' # None /\ now - db'.payload <= OpDelay
                     \/ \E r \in Req : req[r].pc = "del" /\ "db" \in req[r].todo
<1>1. ASSUME IInv, [Next]_vars PROVE [Kept]_vars
  <2> SUFFICES ASSUME GetRow # None, db' # db, Next
               PROVE  \/ db' # None /\ now - db'.payload <= OpDelay
                      \/ \E r \in Req : req[r].pc = "del" /\ "db" \in req[r].todo
    BY <1>1 DEF vars
  <2>1. ~Environment
    <3>1. ~Cleanup
      <4>1. db \in Row /\ now \in Nat /\ now < db.hardExpiresAt
        BY <1>1 DEF GetRow, IInv, TiersInv
      <4> QED
        BY <4>1 DEF Cleanup, Row
    <3> QED
      BY <3>1 DEF Environment, RedisLosesKey, Tick, Evict, Crash
  <2>2. PICK r \in Req : SetDb(r) \/ DelDb(r)
    <3>1. PICK r \in Req : Start(r) \/ Continue(r)
      BY <2>1 DEF Next
    <3>2. ~Start(r)
      BY DEF Start, StartGet, StartRefresh, StartRenew, StartWarmup
    <3> QED
      BY <3>1, <3>2 DEF Continue, RedisAnswers, DbAnswers, WarmupAnswers, FetchSucceeds,
         FetchInMaintenance, FetchErrs, SetRedis, DelRedis, TierFails, FinishSet, FinishDel
  <2>3. CASE SetDb(r)
    <3>1. /\ now \in Nat /\ ReqInv(req[r], now) /\ req[r].pc = "set" /\ "db" \in req[r].todo
          /\ db' = RowFor(req[r].val)
      BY <1>1, <2>3 DEF SetDb, IInv
    <3>2. now - req[r].val <= OpDelay /\ req[r].val \in Nat
      BY <3>1, PayloadWritten
    <3>3. RowFor(req[r].val).payload = req[r].val /\ RowFor(req[r].val) \in Row
      BY <3>2, Bounds DEF RowFor, Row
    <3>4. db' # None
      BY <3>1, <3>3, NoneAssumption
    <3> QED
      BY <3>1, <3>2, <3>3, <3>4
  <2>4. CASE DelDb(r)
    BY <2>4 DEF DelDb
  <2> QED
    BY <2>2, <2>3, <2>4
<1> QED
  BY <1>1, Inductive, PTL DEF Spec, LiveRowKept
-----------------------------------------------------------------------------
(* A forced refresh that has reached the table wins.                       *)

\* The request has stored the payload R of a forced refresh in the table.
Replaced(q, R) == q.pc = "set" /\ q.out = "refreshed" /\ "db" \in q.wrote /\ q.val = R

\* A forced refresh that received R has stored it in the table, and maybe come back.
Wrote(R) == refreshed = R \/ \E r \in Req : Replaced(req[r], R)

Older(payload, R) == payload < R - OpDelay

\* How long an older payload may still travel, by the await it travels with: each
\* stage of the way from the table to a memory map adds its own delay or TTL.
SinceReq(q, R) ==
    /\ q.pc = "db.getRow" /\ q.row # None /\ Older(q.row.payload, R) => q.due <= R + 2 * OpDelay
    /\ q.pc = "set" /\ Older(q.val, R) => q.due <= R + 3 * OpDelay
    /\ q.pc = "redis.get" /\ q.val # None /\ Older(q.val, R) => q.due <= R + 4 * OpDelay + TtlL2

\* How long it may still rest in each tier: in the table not at all.
SinceMemory(e, R) ==
    e # None /\ Older(e.payload, R) => e.normalizedAt <= R + 4 * OpDelay + TtlL2
SinceRedis(e, R) ==
    e # None /\ Older(e.payload, R) => e.expiresAt <= R + 3 * OpDelay + TtlL2
SinceDb(row, R) == row # None => ~Older(row.payload, R)

SinceTiers(R) == /\ \A p \in Proc : SinceMemory(memory[p], R)
                 /\ SinceRedis(redis, R)
                 /\ SinceDb(db, R)

Since(R) == R <= now /\ SinceTiers(R) /\ \A r \in Req : SinceReq(req[r], R)

\* An await of a tier ends within its delay; only a pending write is a refresh's.
AwaitInv(q, t) ==
    /\ q.pc \in {"redis.get", "db.getRow", "set"} => q.due <= t + OpDelay
    /\ q.pc # "set" => q.wrote = {} /\ q.out = None

RInv ==
    /\ \A r \in Req : AwaitInv(req[r], now)
    /\ redis # None => redis.expiresAt <= now + TtlL2
    /\ \A R \in Nat : Wrote(R) => Since(R)
    /\ RefreshWins
-----------------------------------------------------------------------------
(* The parts of RInv and its use.                                          *)

LEMMA IdleAwait == /\ AwaitInv(Idle, now)
                   /\ \A R : SinceReq(Idle, R)
                   /\ Idle.pc = "idle"
  BY DEF AwaitInv, SinceReq, Idle

\* What RInv says of one request and one refresh.
LEMMA RInvOf ==
    ASSUME IInv, RInv, NEW r \in Req
    PROVE  /\ AwaitInv(req[r], now) /\ ReqInv(req[r], now) /\ req[r] \in Request
           /\ \A R \in Nat : Wrote(R) => R <= now /\ SinceTiers(R) /\ SinceReq(req[r], R)
  BY DEF RInv, IInv, Since

\* A step that neither stores a refresh nor answers a caller: it is enough to look at
\* the request and the tiers that it changes.
LEMMA BecomesSince ==
    ASSUME IInv, RInv, NEW r \in Req, NEW q, AwaitInv(q, now), Becomes(r, q),
           now' = now, refreshed' = refreshed,
           redis' # None => redis'.expiresAt <= now + TtlL2,
           \A R \in Nat : Replaced(q, R) => Wrote(R),
           \A R \in Nat : Wrote(R) => SinceReq(q, R) /\ SinceTiers(R)'
    PROVE  RInv'
<1>1. req' = [req EXCEPT ![r] = q] /\ answer' = None /\ req \in [Req -> Request]
  BY DEF Becomes, IInv
<1>2. \A x \in Req : req'[x] = IF x = r THEN q ELSE req[x]
  BY <1>1
<1>3. \A x \in Req : AwaitInv(req'[x], now')
  BY <1>2 DEF RInv
<1>4. ASSUME NEW R \in Nat, Wrote(R)' PROVE Since(R)'
  <2>1. Wrote(R)
    <3>1. CASE refreshed' = R
      BY <3>1 DEF Wrote
    <3>2. CASE \E x \in Req : Replaced(req'[x], R)
      BY <1>2, <3>2 DEF Wrote
    <3> QED BY <1>4, <3>1, <3>2 DEF Wrote
  <2>2. Since(R) /\ SinceReq(q, R) /\ SinceTiers(R)'
    BY <2>1 DEF RInv
  <2>3. \A x \in Req : SinceReq(req'[x], R)
    BY <1>2, <2>2 DEF Since
  <2> QED
    BY <2>2, <2>3 DEF Since
<1>5. RefreshWins'
  BY <1>1 DEF RefreshWins, Served
<1> QED
  BY <1>3, <1>4, <1>5 DEF RInv

\* A step that answers the caller of r.
LEMMA AnswersSince ==
    ASSUME IInv, RInv, NEW r \in Req, NEW out, NEW val, Answers(r, out, val),
           now' = now, redis' = redis,
           \A R \in Nat : refreshed' = R => Wrote(R),
           \A R \in Nat : Wrote(R) => SinceTiers(R)',
           \A R \in Nat : Wrote(R) /\ out \in FreshSources /\ now > R + Lag
                             => val >= R - OpDelay,
           refreshed' \in Nat \cup {None}
    PROVE  RInv'
<1>1. /\ req' = [req EXCEPT ![r] = Idle] /\ answer' = [out |-> out, val |-> val]
      /\ req \in [Req -> Request]
  BY DEF Answers, IInv
<1>2. \A x \in Req : req'[x] = IF x = r THEN Idle ELSE req[x]
  BY <1>1
<1>3. \A x \in Req : AwaitInv(req'[x], now')
  BY <1>2, IdleAwait DEF RInv
<1>4. ASSUME NEW R \in Nat, Wrote(R)' PROVE Wrote(R) /\ Since(R)'
  <2>1. Wrote(R)
    <3>1. CASE refreshed' = R
      BY <3>1
    <3>2. CASE \E x \in Req : Replaced(req'[x], R)
      BY <1>2, <3>2, IdleAwait DEF Wrote, Replaced
    <3> QED BY <1>4, <3>1, <3>2 DEF Wrote
  <2>2. Since(R) /\ SinceTiers(R)'
    BY <2>1 DEF RInv
  <2>3. \A x \in Req : SinceReq(req'[x], R)
    BY <1>2, <2>2, IdleAwait DEF Since
  <2> QED
    BY <2>1, <2>2, <2>3 DEF Since
<1>5. RefreshWins'
  <2>1. answer'.out = out /\ answer'.val = val
    BY <1>1
  <2>2. SUFFICES ASSUME out \in FreshSources, refreshed' # None, now > refreshed' + Lag
                 PROVE  val >= refreshed' - OpDelay
    BY <2>1 DEF RefreshWins, Served
  <2>3. refreshed' \in Nat /\ Wrote(refreshed')
    BY <2>2
  <2> QED
    BY <2>2, <2>3
<1>6. \A R \in Nat : Wrote(R)' => Since(R)'
  BY <1>4
<1>7. redis' # None => redis'.expiresAt <= now' + TtlL2
  BY DEF RInv
<1> QED
  BY <1>3, <1>5, <1>6, <1>7 DEF RInv

\* A step that leaves the tiers as they are or drops an entry.
LEMMA DropsSince ==
    ASSUME IInv, NEW R \in Nat, SinceTiers(R), redis' \in {redis, None}, db' \in {db, None},
           \A p \in Proc : memory'[p] \in {memory[p], None}
    PROVE  SinceTiers(R)'
  BY DEF SinceTiers, SinceMemory, SinceRedis, SinceDb

\* An upsert by p of a payload that may still be where it comes from.
LEMMA UpsertSince ==
    ASSUME IInv, NEW R \in Nat, SinceTiers(R), NEW p \in Proc, NEW payload, NEW at,
           Upsert(p, payload, at), UNCHANGED <<redis, db>>,
           Older(payload, R) => at <= R + 4 * OpDelay + TtlL2
    PROVE  SinceTiers(R)'
<1>1. \A x \in Proc : memory'[x] = IF x = p THEN [payload |-> payload, normalizedAt |-> at]
                                            ELSE memory[x]
  BY DEF Upsert, IInv, TiersInv
<1>2. \A x \in Proc : SinceMemory(memory'[x], R)
  BY <1>1 DEF SinceTiers, SinceMemory
<1> QED
  BY <1>2 DEF SinceTiers

\* What lag and delays add up to.
LEMMA LagBounds ==
    /\ OpDelay \in Nat /\ TtlL1 \in Nat /\ TtlL2 \in Nat
    /\ Lag = 4 * OpDelay + TtlL2 + TtlL1
  BY TimeAssumption DEF Lag
-----------------------------------------------------------------------------
(* What a request goes on with.                                            *)

\* The next await of a request that has nothing stored.
LEMMA NotReplaced ==
    ASSUME NEW q, q.pc # "set" \/ q.wrote = {}
    PROVE  \A R : ~Replaced(q, R)
  BY DEF Replaced

LEMMA FetchingSince ==
    ASSUME NEW q, Caller(q), q.wrote = {}, q.out = None, NEW stale \in Nat \cup {None}
    PROVE  LET q2 == Fetching(q, stale) IN
           AwaitInv(q2, now) /\ (\A R : SinceReq(q2, R)) /\ \A R : ~Replaced(q2, R)
<1> DEFINE q2 == Fetching(q, stale)
<1>1. q2.pc = "fetch" /\ q2.wrote = {} /\ q2.out = None
  BY DEF Fetching, Caller, Request
<1> HIDE DEF q2
<1>2. AwaitInv(q2, now) /\ (\A R : SinceReq(q2, R)) /\ \A R : ~Replaced(q2, R)
  BY <1>1, NotReplaced DEF AwaitInv, SinceReq
<1> QED
  BY <1>2 DEF q2

LEMMA SettingSince ==
    ASSUME now \in Nat, NEW q, Caller(q), q.wrote = {}, NEW out, NEW payload \in Nat,
           NEW tiers \in SUBSET Tiers
    PROVE  LET q2 == Setting(q, out, payload, tiers) IN
           /\ AwaitInv(q2, now)
           /\ \A R : ~Replaced(q2, R)
           /\ \A R \in Nat : (Older(payload, R) => now <= R + 2 * OpDelay) => SinceReq(q2, R)
<1> DEFINE q2 == Setting(q, out, payload, tiers)
<1>1. q2.pc = "set" /\ q2.wrote = {} /\ q2.val = payload /\ q2.due = now + OpDelay
  BY DEF Setting, Caller, Request
<1> HIDE DEF q2
<1>2. AwaitInv(q2, now) /\ \A R : ~Replaced(q2, R)
  BY <1>1, NotReplaced, LagBounds DEF AwaitInv
<1>3. \A R \in Nat : (Older(payload, R) => now <= R + 2 * OpDelay) => SinceReq(q2, R)
  BY <1>1, LagBounds DEF SinceReq
<1> QED
  BY <1>2, <1>3 DEF q2

LEMMA AskDbSince ==
    ASSUME IInv, RInv, NEW q, Caller(q), q.wrote = {}, q.out = None, NEW q2 \in AskDb(q)
    PROVE  /\ AwaitInv(q2, now) /\ \A R : ~Replaced(q2, R)
           /\ \A R \in Nat : Wrote(R) => SinceReq(q2, R)
<1>1. PICK row \in {GetRow, None} :
        q2 = [q EXCEPT !.pc = "db.getRow", !.val = None, !.row = row, !.due = now + OpDelay]
  BY DEF AskDb
<1>2. /\ q2.pc = "db.getRow" /\ q2.row = row /\ q2.due = now + OpDelay
      /\ q2.wrote = {} /\ q2.out = None
  BY <1>1 DEF Caller, Request
<1>3. now \in Nat
  BY DEF IInv
<1>4. AwaitInv(q2, now) /\ \A R : ~Replaced(q2, R)
  BY <1>2, <1>3, NotReplaced, LagBounds DEF AwaitInv
<1>5. ASSUME NEW R \in Nat, Wrote(R) PROVE SinceReq(q2, R)
  <2>1. SinceDb(db, R)
    BY <1>5 DEF RInv, Since, SinceTiers
  <2>2. row # None => row = db
    BY <1>1 DEF GetRow
  <2>3. row # None => ~Older(row.payload, R)
    BY <2>1, <2>2 DEF SinceDb
  <2> QED
    BY <1>2, <2>3 DEF SinceReq
<1> QED
  BY <1>4, <1>5

LEMMA AfterRedisMissSince ==
    ASSUME IInv, RInv, NEW q, Caller(q), q.wrote = {}, q.out = None,
           NEW q2 \in AfterRedisMiss(q)
    PROVE  /\ AwaitInv(q2, now) /\ \A R : ~Replaced(q2, R)
           /\ \A R \in Nat : Wrote(R) => SinceReq(q2, R)
<1>1. CASE q2 \in AskDb(q)
  BY <1>1, AskDbSince
<1>2. CASE q2 = Fetching(q, None)
  BY <1>2, FetchingSince
<1> QED
  BY <1>1, <1>2 DEF AfterRedisMiss

\* What Redis holds expires within its TTL, and its answer comes within a delay.
LEMMA AfterMemoryMissSince ==
    ASSUME IInv, RInv, NEW q, Caller(q), q.wrote = {}, q.out = None,
           NEW q2 \in AfterMemoryMiss(q)
    PROVE  /\ AwaitInv(q2, now) /\ \A R : ~Replaced(q2, R)
           /\ \A R \in Nat : Wrote(R) => SinceReq(q2, R)
<1>1. CASE q2 \in AfterRedisMiss(q)
  BY <1>1, AfterRedisMissSince
<1>2. ASSUME NEW val \in {RedisGet, None},
             q2 = [q EXCEPT !.pc = "redis.get", !.val = val, !.due = now + OpDelay]
      PROVE  /\ AwaitInv(q2, now) /\ \A R : ~Replaced(q2, R)
             /\ \A R \in Nat : Wrote(R) => SinceReq(q2, R)
  <2>1. /\ q2.pc = "redis.get" /\ q2.val = val /\ q2.due = now + OpDelay
        /\ q2.wrote = {} /\ q2.out = None
    BY <1>2 DEF Caller, Request
  <2>2. now \in Nat
    BY DEF IInv
  <2>3. AwaitInv(q2, now) /\ \A R : ~Replaced(q2, R)
    BY <2>1, <2>2, NotReplaced, LagBounds DEF AwaitInv
  <2>4. ASSUME NEW R \in Nat, Wrote(R), val # None, Older(val, R)
        PROVE  now + OpDelay <= R + 4 * OpDelay + TtlL2
    <3>1. redis # None /\ val = redis.payload
      BY <1>2, <2>4 DEF RedisGet
    <3>2. SinceRedis(redis, R)
      BY <2>4 DEF RInv, Since, SinceTiers
    <3>3. redis.expiresAt \in Nat /\ now < redis.expiresAt
      BY <3>1 DEF IInv, TiersInv, RedisInv, RedisEntry
    <3>4. redis.expiresAt <= R + 3 * OpDelay + TtlL2
      BY <2>4, <3>1, <3>2 DEF SinceRedis
    <3> QED
      BY <2>2, <3>3, <3>4, LagBounds
  <2>5. \A R \in Nat : Wrote(R) => SinceReq(q2, R)
    BY <2>1, <2>4 DEF SinceReq
  <2> QED
    BY <2>3, <2>5
<1> QED
  BY <1>1, <1>2 DEF AfterMemoryMiss
-----------------------------------------------------------------------------
(* One lemma per operation: it preserves RInv.                             *)

\* An L1 hit is at most TtlL1 after the upsert; a miss goes on to the next tier.
LEMMA LookUpSince ==
    ASSUME IInv, RInv, NEW r \in Req, NEW q, Caller(q), q.wrote = {}, q.out = None,
           LookUp(r, q), UNCHANGED <<now, redis, db, boot, refreshed>>
    PROVE  RInv'
<1> DEFINE p == q.proc
<1>1. p \in Proc
  BY DEF Caller
<1>2. CASE MemoryFresh(p) /\ Answers(r, "memory", memory[p].payload) /\ UNCHANGED memory
  <2> DEFINE e == memory[p]
  <2>1. /\ e # None /\ now - e.normalizedAt <= TtlL1
        /\ e.normalizedAt \in Nat /\ e.payload \in Nat /\ now \in Nat
    BY <1>1, <1>2 DEF MemoryFresh, MemoryEntry, IInv, TiersInv
  <2>2. ASSUME NEW R \in Nat, Wrote(R), now > R + Lag PROVE e.payload >= R - OpDelay
    <3>1. SinceMemory(e, R)
      BY <1>1, <2>2 DEF RInv, Since, SinceTiers
    <3>2. SUFFICES ASSUME Older(e.payload, R) PROVE FALSE
      BY <2>1, LagBounds DEF Older
    <3>3. e.normalizedAt <= R + 4 * OpDelay + TtlL2
      BY <2>1, <3>1, <3>2 DEF SinceMemory
    <3> QED
      BY <2>1, <2>2, <3>3, LagBounds
  <2>3. \A R \in Nat : Wrote(R) => SinceTiers(R)'
    BY <1>2, DropsSince DEF RInv, Since
  <2>4. refreshed' \in Nat \cup {None}
    BY DEF IInv
  <2> QED
    BY <1>2, <2>2, <2>3, <2>4, AnswersSince DEF Wrote
<1>3. ASSUME memory' = [memory EXCEPT ![p] = None],
             NEW q2 \in AfterMemoryMiss(q), Becomes(r, q2)
      PROVE  RInv'
  <2>1. /\ AwaitInv(q2, now) /\ \A R : ~Replaced(q2, R)
        /\ \A R \in Nat : Wrote(R) => SinceReq(q2, R)
    BY AfterMemoryMissSince
  <2>2. \A x \in Proc : memory'[x] \in {memory[x], None}
    BY <1>1, <1>3 DEF IInv, TiersInv
  <2>3. \A R \in Nat : Wrote(R) => SinceTiers(R)'
    BY <2>2, DropsSince DEF RInv, Since
  <2> QED
    BY <1>3, <2>1, <2>3, BecomesSince DEF RInv
<1> QED
  BY <1>2, <1>3 DEF LookUp

LEMMA StartSince ==
    ASSUME IInv, RInv, NEW r \in Req, Start(r)
    PROVE  RInv'
<1>1. PICK p \in Proc : StartGet(r, p) \/ StartRefresh(r, p) \/ StartRenew(r, p)
                        \/ StartWarmup(r, p)
  BY DEF Start
<1>2. ASSUME NEW op \in Ops, op = "warm" => WarmProcs # {}
      PROVE  LET q == [Idle EXCEPT !.op = op, !.proc = p]
             IN  Caller(q) /\ q.wrote = {} /\ q.out = None
  <2> DEFINE q == [Idle EXCEPT !.op = op, !.proc = p]
  <2>1. Idle \in Request
    BY IdleInv DEF ReqInv, IInv
  <2>2. q \in Request /\ q.op = op /\ q.proc = p /\ q.wrote = {} /\ q.out = None
    BY <2>1 DEF Request, Idle
  <2> HIDE DEF q
  <2>3. Caller(q)
    BY <1>2, <2>2 DEF Caller
  <2> QED
    BY <2>2, <2>3 DEF q
<1>3. CASE StartGet(r, p)
  <2> DEFINE q == [Idle EXCEPT !.op = "get", !.proc = p]
  <2>1. Caller(q) /\ q.wrote = {} /\ q.out = None
    BY <1>2 DEF Ops
  <2>2. LookUp(r, q) /\ UNCHANGED <<now, redis, db, boot, refreshed>>
    BY <1>3 DEF StartGet
  <2> HIDE DEF q
  <2> QED
    BY <2>1, <2>2, LookUpSince
<1>4. CASE StartRefresh(r, p)
  <2> DEFINE q == [Idle EXCEPT !.op = "refresh", !.proc = p]
             q2 == Fetching(q, None)
  <2>1. Caller(q) /\ q.wrote = {} /\ q.out = None
    BY <1>2 DEF Ops
  <2>2. Becomes(r, q2) /\ UNCHANGED <<now, memory, redis, db, boot, refreshed>>
    BY <1>4 DEF StartRefresh
  <2> HIDE DEF q
  <2>3. AwaitInv(q2, now) /\ (\A R : SinceReq(q2, R)) /\ \A R : ~Replaced(q2, R)
    BY <2>1, FetchingSince
  <2> HIDE DEF q2
  <2>4. \A R \in Nat : Wrote(R) => SinceTiers(R)'
    BY <2>2, DropsSince DEF RInv, Since
  <2> QED
    BY <2>2, <2>3, <2>4, BecomesSince DEF RInv
<1>5. CASE StartRenew(r, p)
  <2>1. PICK tiers \in SUBSET Tiers :
          Becomes(r, Invalidating([Idle EXCEPT !.op = "renew", !.proc = p], tiers))
    BY <1>5 DEF StartRenew
  <2> DEFINE q == [Idle EXCEPT !.op = "renew", !.proc = p]
             q2 == Invalidating(q, tiers)
  <2>2. Caller(q) /\ q.wrote = {} /\ q.out = None
    BY <1>2 DEF Ops
  <2>3. Becomes(r, q2)
    BY <2>1
  <2> HIDE DEF q
  <2>4. q2.pc = "del" /\ q2.wrote = {} /\ q2.out = None
    BY <2>2 DEF Invalidating, Caller, Request
  <2> HIDE DEF q2
  <2>5. AwaitInv(q2, now) /\ (\A R : SinceReq(q2, R)) /\ \A R : ~Replaced(q2, R)
    BY <2>4, NotReplaced DEF AwaitInv, SinceReq
  <2>6. /\ \A x \in Proc : memory'[x] \in {memory[x], None}
        /\ UNCHANGED <<now, redis, db, boot, refreshed>>
    BY <1>5 DEF StartRenew, IInv, TiersInv
  <2>7. \A R \in Nat : Wrote(R) => SinceTiers(R)'
    BY <2>6, DropsSince DEF RInv, Since
  <2> QED
    BY <2>3, <2>5, <2>6, <2>7, BecomesSince DEF RInv
<1>6. CASE StartWarmup(r, p)
  <2> DEFINE q == [Idle EXCEPT !.op = "warm", !.proc = p]
  <2>1. p \in WarmProcs /\ UNCHANGED <<now, memory, redis, db, refreshed>>
    BY <1>6 DEF StartWarmup, IInv
  <2>2. Caller(q) /\ q.wrote = {} /\ q.out = None
    BY <1>2, <2>1 DEF Ops
  <2>3. \A R \in Nat : Wrote(R) => SinceTiers(R)'
    BY <2>1, DropsSince DEF RInv, Since
  <2>4. CASE \E q2 \in AskDb(q) : Becomes(r, q2)
    <3> HIDE DEF q
    <3>1. PICK q2 \in AskDb(q) : Becomes(r, q2)
      BY <2>4
    <3>2. /\ AwaitInv(q2, now) /\ \A R : ~Replaced(q2, R)
          /\ \A R \in Nat : Wrote(R) => SinceReq(q2, R)
      BY <2>2, AskDbSince
    <3> QED
      BY <2>1, <2>3, <3>1, <3>2, BecomesSince DEF RInv
  <2>5. CASE UNCHANGED req /\ answer' = None
    <3>1. \A R \in Nat : Wrote(R)' => Since(R)'
      BY <2>1, <2>3, <2>5 DEF RInv, Since, Wrote
    <3> QED
      BY <2>1, <2>5, <3>1 DEF RInv, RefreshWins, Served
  <2> QED
    BY <1>6, <2>4, <2>5 DEF StartWarmup
<1> QED
  BY <1>1, <1>3, <1>4, <1>5, <1>6

LEMMA RedisAnswersSince ==
    ASSUME IInv, RInv, NEW r \in Req, RedisAnswers(r)
    PROVE  RInv'
<1> DEFINE q == req[r]
<1>1. /\ q.pc = "redis.get" /\ ReqInv(q, now) /\ now \in Nat /\ q \in Request
      /\ AwaitInv(q, now) /\ UNCHANGED <<now, redis, db, boot, refreshed>>
      /\ \A R \in Nat : Wrote(R) => SinceTiers(R) /\ SinceReq(q, R)
  BY RInvOf DEF RedisAnswers, IInv
<1>2. Caller(q) /\ q.proc \in Proc /\ q.wrote = {} /\ q.out = None
  BY <1>1, PendingCaller DEF Caller, AwaitInv
<1>3. CASE q.val # None /\ Upsert(q.proc, q.val, now) /\ Answers(r, "redis", q.val)
  <2>1. q.val \in Nat /\ q.due \in Nat /\ now <= q.due
    BY <1>1, <1>3 DEF ReqInv, Request
  <2>2. ASSUME NEW R \in Nat, Wrote(R), Older(q.val, R) PROVE now <= R + 4 * OpDelay + TtlL2
    <3>1. q.due <= R + 4 * OpDelay + TtlL2
      BY <1>1, <1>3, <2>2 DEF SinceReq
    <3> QED
      BY <1>1, <2>1, <3>1, LagBounds
  <2>3. \A R \in Nat : Wrote(R) => SinceTiers(R)'
    BY <1>1, <1>2, <1>3, <2>2, UpsertSince
  <2>4. ASSUME NEW R \in Nat, Wrote(R), now > R + Lag PROVE q.val >= R - OpDelay
    BY <1>1, <2>1, <2>2, <2>4, LagBounds DEF Older
  <2>5. refreshed' \in Nat \cup {None}
    BY <1>1 DEF IInv
  <2> QED
    BY <1>1, <1>3, <2>3, <2>4, <2>5, AnswersSince DEF Wrote
<1>4. CASE UNCHANGED memory /\ \E q2 \in AfterRedisMiss(q) : Becomes(r, q2)
  <2>1. PICK q2 \in AfterRedisMiss(q) : Becomes(r, q2)
    BY <1>4
  <2> HIDE DEF q
  <2>2. /\ AwaitInv(q2, now) /\ \A R : ~Replaced(q2, R)
        /\ \A R \in Nat : Wrote(R) => SinceReq(q2, R)
    BY <1>2, AfterRedisMissSince
  <2>3. \A R \in Nat : Wrote(R) => SinceTiers(R)'
    BY <1>1, <1>4, DropsSince
  <2> QED
    BY <1>1, <2>1, <2>2, <2>3, BecomesSince DEF RInv
<1> QED
  BY <1>3, <1>4 DEF RedisAnswers

\* A row in flight, copied upwards by a get or by the warm-up.
LEMMA RowCopiedSince ==
    ASSUME IInv, RInv, NEW r \in Req, req[r].pc = "db.getRow", req[r].row # None,
           NEW at \in Nat, at <= now, NEW out, NEW tiers \in SUBSET Tiers,
           Upsert(req[r].proc, req[r].row.payload, at),
           Becomes(r, Setting(req[r], out, req[r].row.payload, tiers)),
           UNCHANGED <<now, redis, db, boot, refreshed>>
    PROVE  RInv'
<1> DEFINE q == req[r]
           q2 == Setting(q, out, q.row.payload, tiers)
<1>1. /\ ReqInv(q, now) /\ now \in Nat /\ q \in Request /\ AwaitInv(q, now)
      /\ \A R \in Nat : Wrote(R) => SinceTiers(R) /\ SinceReq(q, R)
  BY RInvOf DEF IInv
<1>2. Caller(q) /\ q.proc \in Proc /\ q.wrote = {}
  BY <1>1, PendingCaller DEF Caller, AwaitInv
<1>3. q.row.payload \in Nat /\ q.due \in Nat /\ now <= q.due
  BY <1>1 DEF ReqInv, Request, Row
<1>4. ASSUME NEW R \in Nat, Wrote(R), Older(q.row.payload, R) PROVE now <= R + 2 * OpDelay
  <2>1. q.due <= R + 2 * OpDelay
    BY <1>1, <1>4 DEF SinceReq
  <2> QED
    BY <1>1, <1>3, <2>1, LagBounds
<1>5. \A R \in Nat : Wrote(R) => SinceTiers(R)'
  <2>1. ASSUME NEW R \in Nat, Wrote(R), Older(q.row.payload, R)
        PROVE  at <= R + 4 * OpDelay + TtlL2
    BY <1>1, <1>4, <2>1, LagBounds
  <2> QED
    BY <1>1, <1>2, <2>1, UpsertSince
<1>6. Becomes(r, q2)
  OBVIOUS
<1>7. /\ AwaitInv(q2, now) /\ \A R : ~Replaced(q2, R)
      /\ \A R \in Nat : Wrote(R) => SinceReq(q2, R)
  BY <1>1, <1>2, <1>3, <1>4, SettingSince
<1> HIDE DEF q2
<1> QED
  BY <1>5, <1>6, <1>7, BecomesSince DEF RInv

\* No row, or one that is kept for the upstream call.
LEMMA FetchesSince ==
    ASSUME IInv, RInv, NEW r \in Req, req[r].pc = "db.getRow",
           NEW stale \in Nat \cup {None}, Becomes(r, Fetching(req[r], stale)),
           UNCHANGED <<now, memory, redis, db, boot, refreshed>>
    PROVE  RInv'
<1> DEFINE q == req[r]
           q2 == Fetching(q, stale)
<1>1. ReqInv(q, now) /\ AwaitInv(q, now)
  BY RInvOf
<1>2. Caller(q) /\ q.wrote = {} /\ q.out = None
  BY <1>1, PendingCaller DEF AwaitInv
<1>3. AwaitInv(q2, now) /\ (\A R : SinceReq(q2, R)) /\ \A R : ~Replaced(q2, R)
  BY <1>2, FetchingSince
<1> HIDE DEF q2
<1>4. \A R \in Nat : Wrote(R) => SinceTiers(R)'
  BY DropsSince DEF RInv, Since
<1> QED
  BY <1>3, <1>4, BecomesSince DEF q2, RInv

LEMMA RowAnswersSince ==
    ASSUME IInv, RInv, NEW r \in Req, DbAnswers(r) \/ WarmupAnswers(r)
    PROVE  RInv'
<1> DEFINE q == req[r]
<1>1. /\ q.pc = "db.getRow" /\ now \in Nat /\ q \in Request /\ ReqInv(q, now)
      /\ UNCHANGED <<now, redis, db, boot, refreshed>>
  BY DEF DbAnswers, WarmupAnswers, IInv
<1>2. q.row # None => /\ q.row = RowFor(q.row.payload)
                      /\ q.row.payload \in Nat /\ q.row.payload <= now
  BY <1>1 DEF ReqInv, Request, Row
<1>3. q.row # None => q.row.sourceFetchedAt = q.row.payload
  BY <1>2 DEF RowFor
<1>4. ASSUME NEW stale \in Nat \cup {None}, Becomes(r, Fetching(q, stale)), UNCHANGED memory
      PROVE  RInv'
  BY <1>1, <1>4, FetchesSince
<1>5. CASE DbAnswers(r)
  <2>1. ASSUME q.row # None, Upsert(q.proc, q.row.payload, now),
               NEW tiers \in SUBSET {"redis"},
               Becomes(r, Setting(q, "database", q.row.payload, tiers))
        PROVE  RInv'
    <3>1. tiers \in SUBSET Tiers
      BY DEF Tiers
    <3> QED
      BY <1>1, <2>1, <3>1, RowCopiedSince
  <2> QED
    BY <1>2, <1>4, <1>5, <2>1 DEF DbAnswers
<1>6. CASE WarmupAnswers(r)
  <2>1. ASSUME q.row # None, Upsert(q.proc, q.row.payload, q.row.sourceFetchedAt),
               NEW tiers \in SUBSET {"redis"},
               Becomes(r, Setting(q, "hydrated", q.row.payload, tiers))
        PROVE  RInv'
    <3>1. tiers \in SUBSET Tiers
      BY DEF Tiers
    <3>2. Upsert(q.proc, q.row.payload, q.row.payload)
      BY <1>3, <2>1
    <3> QED
      BY <1>1, <1>2, <2>1, <3>1, <3>2, RowCopiedSince
  <2> QED
    BY <1>4, <1>6, <2>1 DEF WarmupAnswers
<1> QED
  BY <1>5, <1>6

\* What upstream answers now is newer than any refresh before.
LEMMA FetchSucceedsSince ==
    ASSUME IInv, RInv, NEW r \in Req, FetchSucceeds(r)
    PROVE  RInv'
<1> DEFINE q == req[r]
<1>1. /\ q.pc = "fetch" /\ ReqInv(q, now) /\ now \in Nat /\ AwaitInv(q, now)
      /\ Upsert(q.proc, now, now) /\ UNCHANGED <<now, redis, db, boot, refreshed>>
      /\ \A R \in Nat : Wrote(R) => R <= now /\ SinceTiers(R)
  BY RInvOf DEF FetchSucceeds, IInv
<1>2. Caller(q) /\ q.proc \in Proc /\ q.wrote = {}
  BY <1>1, PendingCaller DEF Caller, AwaitInv
<1>3. PICK tiers \in SUBSET Tiers : Becomes(r, Setting(q, SuccessOf(q.op), now, tiers))
  BY DEF FetchSucceeds
<1> DEFINE q2 == Setting(q, SuccessOf(q.op), now, tiers)
<1>4. \A R \in Nat : Wrote(R) => ~Older(now, R)
  BY <1>1, LagBounds DEF Older
<1>5. /\ AwaitInv(q2, now) /\ \A R : ~Replaced(q2, R)
      /\ \A R \in Nat : Wrote(R) => SinceReq(q2, R)
  BY <1>1, <1>2, <1>4, SettingSince
<1>6. Becomes(r, q2)
  BY <1>3
<1> HIDE DEF q2
<1>7. \A R \in Nat : Wrote(R) => SinceTiers(R)'
  BY <1>1, <1>2, <1>4, UpsertSince
<1> QED
  BY <1>1, <1>5, <1>6, <1>7, BecomesSince DEF RInv

LEMMA FetchFailsSince ==
    ASSUME IInv, RInv, NEW r \in Req, FetchInMaintenance(r) \/ FetchErrs(r)
    PROVE  RInv'
<1>1. UNCHANGED <<now, memory, redis, db, boot, refreshed>>
  BY DEF FetchInMaintenance, FetchErrs
<1>2. PICK out, val : Answers(r, out, val) /\ out \notin FreshSources
  BY DEF FetchInMaintenance, MaintenanceAnswer, FetchErrs, FreshSources
<1>3. \A R \in Nat : Wrote(R) => SinceTiers(R)'
  BY <1>1, DropsSince DEF RInv, Since
<1>4. refreshed' \in Nat \cup {None}
  BY <1>1 DEF IInv
<1> QED
  BY <1>1, <1>2, <1>3, <1>4, AnswersSince DEF Wrote

\* A command that settles changes neither what is stored nor when it is due, and only a
\* row that has been written makes a refresh one that has reached the table.
LEMMA SettledSince ==
    ASSUME IInv, RInv, NEW r \in Req, req[r].pc \in {"set", "del"}, NEW tier \in Tiers,
           NEW ok \in BOOLEAN, Settled(r, tier, ok), UNCHANGED <<now, refreshed>>,
           ~ok \/ tier # "db" \/ req[r].pc = "del",
           redis' # None => redis'.expiresAt <= now + TtlL2,
           \A R \in Nat : Wrote(R) => SinceTiers(R)'
    PROVE  RInv'
<1> DEFINE q == req[r]
           wrote == IF ok /\ q.out = "refreshed" THEN q.wrote \cup {tier} ELSE q.wrote
           q2 == [q EXCEPT !.todo = q.todo \ {tier}, !.wrote = wrote]
<1>1. /\ q \in Request /\ AwaitInv(q, now)
      /\ \A R \in Nat : Wrote(R) => SinceReq(q, R)
  BY RInvOf
<1>2. Becomes(r, q2)
  BY DEF Settled
<1>3. q.pc = "del" => wrote = q.wrote
  BY <1>1, NoneAssumption DEF AwaitInv, Outcomes
<1>4. "db" \in wrote => "db" \in q.wrote
  BY <1>3
<1> HIDE DEF wrote
<1>5. /\ q2.pc = q.pc /\ q2.val = q.val /\ q2.due = q.due /\ q2.out = q.out
      /\ q2.wrote = wrote /\ q2.row = q.row
  BY <1>1 DEF Request
<1> HIDE DEF q2
<1>6. AwaitInv(q2, now)
  BY <1>1, <1>3, <1>5 DEF AwaitInv
<1>7. \A R \in Nat : Wrote(R) => SinceReq(q2, R)
  BY <1>1, <1>5 DEF SinceReq
<1>8. \A R \in Nat : Replaced(q2, R) => Wrote(R)
  BY <1>4, <1>5 DEF Replaced, Wrote
<1> QED
  BY <1>2, <1>6, <1>7, <1>8, BecomesSince

\* A pending write of an older payload is due soon enough for the copy to expire in time.
LEMMA SetRedisSince ==
    ASSUME IInv, RInv, NEW r \in Req, SetRedis(r)
    PROVE  RInv'
<1> DEFINE q == req[r]
           e == [payload |-> q.val, expiresAt |-> now + TtlL2]
<1>1. /\ q.pc = "set" /\ ReqInv(q, now) /\ now \in Nat /\ redis' = e
      /\ Settled(r, "redis", TRUE) /\ UNCHANGED <<now, memory, db, boot, refreshed>>
      /\ \A R \in Nat : Wrote(R) => SinceTiers(R) /\ SinceReq(q, R)
  BY RInvOf DEF SetRedis, IInv
<1>2. q.val \in Nat /\ q.due \in Nat /\ now <= q.due
  BY <1>1 DEF ReqInv, Request
<1>3. ASSUME NEW R \in Nat, Wrote(R), Older(q.val, R)
      PROVE  now + TtlL2 <= R + 3 * OpDelay + TtlL2
  <2>1. q.due <= R + 3 * OpDelay
    BY <1>1, <1>3 DEF SinceReq
  <2> QED
    BY <1>1, <1>2, <2>1, LagBounds
<1>4. e.payload = q.val /\ e.expiresAt = now + TtlL2
  OBVIOUS
<1> HIDE DEF e
<1>5. ASSUME NEW R \in Nat, Wrote(R) PROVE SinceTiers(R)'
  <2>1. SinceRedis(e, R)
    BY <1>3, <1>4, <1>5 DEF SinceRedis
  <2> QED
    BY <1>1, <1>5, <2>1 DEF SinceTiers
<1>6. e.expiresAt <= now + TtlL2
  BY <1>1, <1>4, LagBounds
<1> QED
  BY <1>1, <1>5, <1>6, SettledSince DEF Tiers

\* The write that makes the refresh one that has reached the table: whatever was read
\* before is due one delay from now, and now is at most one after the refresh.
LEMMA SetDbSince ==
    ASSUME IInv, RInv, NEW r \in Req, SetDb(r)
    PROVE  RInv'
<1> DEFINE q == req[r]
           wrote == IF q.out = "refreshed" THEN q.wrote \cup {"db"} ELSE q.wrote
           q2 == [q EXCEPT !.todo = q.todo \ {"db"}, !.wrote = wrote]
<1>1. /\ q.pc = "set" /\ "db" \in q.todo /\ ReqInv(q, now) /\ now \in Nat /\ q \in Request
      /\ db' = RowFor(q.val) /\ Settled(r, "db", TRUE) /\ AwaitInv(q, now)
      /\ UNCHANGED <<now, memory, redis, boot, refreshed>>
      /\ \A R \in Nat : Wrote(R) => R <= now /\ SinceTiers(R) /\ SinceReq(q, R)
  BY RInvOf DEF SetDb, IInv
<1>2. q.val \in Nat /\ q.due \in Nat /\ now <= q.due /\ q.due - q.val <= OpDelay /\ q.val <= now
  BY <1>1 DEF ReqInv, Request
<1>3. req' = [req EXCEPT ![r] = q2] /\ answer' = None /\ req \in [Req -> Request]
  BY <1>1 DEF Settled, Becomes, IInv
<1> HIDE DEF wrote
<1>4. /\ q2.pc = q.pc /\ q2.val = q.val /\ q2.due = q.due /\ q2.out = q.out
      /\ q2.wrote = wrote /\ q2.row = q.row
  BY <1>1 DEF Request
<1> HIDE DEF q2
<1>5. \A x \in Req : req'[x] = IF x = r THEN q2 ELSE req[x]
  BY <1>3
<1>6. AwaitInv(q2, now)
  BY <1>1, <1>4 DEF AwaitInv
<1>7. \A x \in Req : AwaitInv(req'[x], now')
  BY <1>1, <1>5, <1>6 DEF RInv
<1>8. db'.payload = q.val /\ db' # None
  <2>1. RowFor(q.val) \in Row
    BY <1>2, Bounds DEF RowFor, Row
  <2> QED
    BY <1>1, <2>1, NoneAssumption DEF RowFor
<1>9. ASSUME NEW R \in Nat, Wrote(R)' PROVE Since(R)'
  <2>1. Wrote(R) \/ R = q.val
    <3>1. CASE refreshed' = R
      BY <1>1, <3>1 DEF Wrote
    <3>2. CASE \E x \in Req : Replaced(req'[x], R)
      BY <1>4, <1>5, <3>2 DEF Wrote, Replaced
    <3> QED BY <1>9, <3>1, <3>2 DEF Wrote
  <2>2. (R <= now /\ now <= R + OpDelay) \/ Wrote(R)
    BY <1>1, <1>2, <2>1, LagBounds
  <2>3. R <= now
    BY <1>1, <2>2
  <2>4. ~Older(q.val, R)
    BY <1>1, <1>2, <2>3, LagBounds DEF Older
  <2>5. SinceDb(db', R)
    BY <1>8, <2>4 DEF SinceDb
  <2>6. CASE Wrote(R)
    <3>1. SinceTiers(R) /\ \A x \in Req : SinceReq(req[x], R)
      BY <2>6 DEF RInv, Since
    <3>2. SinceTiers(R)'
      BY <1>1, <2>5, <3>1 DEF SinceTiers
    <3>3. SinceReq(q2, R)
      BY <1>1, <1>4, <2>6 DEF SinceReq
    <3> QED
      BY <1>1, <1>5, <2>3, <3>1, <3>2, <3>3 DEF Since
  <2>7. CASE R <= now /\ now <= R + OpDelay
    <3>1. ASSUME NEW x \in Req PROVE SinceReq(req'[x], R)
      <4>1. AwaitInv(req'[x], now) /\ req'[x].due \in Nat
        <5>1. q2.due \in Nat
          BY <1>2, <1>4
        <5>2. req[x] \in Request
          BY <1>3
        <5> QED
          BY <1>1, <1>5, <1>7, <5>1, <5>2 DEF Request
      <4> QED
        BY <1>1, <2>7, <4>1, LagBounds DEF AwaitInv, SinceReq
    <3>2. ASSUME NEW p \in Proc PROVE SinceMemory(memory'[p], R)
      <4>1. memory[p] # None => memory[p].normalizedAt \in Nat /\ memory[p].normalizedAt <= now
        BY DEF IInv, TiersInv, MemoryInv, MemoryEntry
      <4> QED
        BY <1>1, <2>7, <4>1, LagBounds DEF SinceMemory
    <3>3. SinceRedis(redis', R)
      <4>1. redis # None => redis.expiresAt \in Nat /\ redis.expiresAt <= now + TtlL2
        BY DEF IInv, TiersInv, RedisEntry, RInv
      <4> QED
        BY <1>1, <2>7, <4>1, LagBounds DEF SinceRedis
    <3> QED
      BY <1>1, <2>3, <2>5, <3>1, <3>2, <3>3 DEF Since, SinceTiers
  <2> QED
    BY <2>2, <2>6, <2>7
<1>10. RefreshWins'
  BY <1>3 DEF RefreshWins, Served
<1>11. redis' # None => redis'.expiresAt <= now' + TtlL2
  BY <1>1 DEF RInv
<1> QED
  BY <1>7, <1>9, <1>10, <1>11 DEF RInv

LEMMA SettlesSince ==
    ASSUME IInv, RInv, NEW r \in Req, DelRedis(r) \/ DelDb(r) \/ TierFails(r)
    PROVE  RInv'
<1>1. /\ req[r].pc \in {"set", "del"} /\ UNCHANGED <<now, memory, refreshed>>
      /\ redis' \in {redis, None} /\ db' \in {db, None}
  BY DEF DelRedis, DelDb, TierFails
<1>2. \A R \in Nat : Wrote(R) => SinceTiers(R)'
  BY <1>1, DropsSince DEF RInv, Since
<1>3. redis' # None => redis'.expiresAt <= now + TtlL2
  BY <1>1 DEF RInv
<1>4. CASE DelRedis(r) \/ DelDb(r)
  BY <1>1, <1>2, <1>3, <1>4, SettledSince DEF DelRedis, DelDb, Tiers
<1>5. CASE TierFails(r)
  <2>1. PICK tier \in req[r].todo : Settled(r, tier, FALSE)
    BY <1>5 DEF TierFails
  <2>2. tier \in Tiers
    BY <2>1 DEF IInv, Request
  <2> QED
    BY <1>1, <1>2, <1>3, <2>1, <2>2, SettledSince
<1> QED
  BY <1>4, <1>5

LEMMA FinishSetSince ==
    ASSUME IInv, RInv, NEW r \in Req, FinishSet(r)
    PROVE  RInv'
<1> DEFINE q == req[r]
<1>1. /\ q.pc = "set" /\ ReqInv(q, now) /\ now \in Nat /\ AwaitInv(q, now)
      /\ Answers(r, q.out, q.val) /\ UNCHANGED <<now, memory, redis, db, boot>>
      /\ \A R \in Nat : Wrote(R) => SinceReq(q, R)
  BY RInvOf DEF FinishSet, IInv
<1>2. q.val \in Nat /\ q.due \in Nat /\ now <= q.due
  BY <1>1 DEF ReqInv, Request
<1>3. \A R \in Nat : refreshed' = R => Wrote(R)
  BY <1>1 DEF FinishSet, ReplacedAll, Replaced, Wrote, Tiers
<1>4. ASSUME NEW R \in Nat, Wrote(R), now > R + Lag PROVE q.val >= R - OpDelay
  <2>1. SUFFICES ASSUME Older(q.val, R) PROVE FALSE
    BY <1>2, LagBounds DEF Older
  <2>2. q.due <= R + 3 * OpDelay
    BY <1>1, <1>4, <2>1 DEF SinceReq
  <2> QED
    BY <1>1, <1>2, <1>4, <2>2, LagBounds
<1>5. refreshed' \in Nat \cup {None}
  BY <1>2 DEF FinishSet, IInv
<1>6. \A R \in Nat : Wrote(R) => SinceTiers(R)'
  BY <1>1, DropsSince DEF RInv, Since
<1> QED
  BY <1>1, <1>3, <1>4, <1>5, <1>6, AnswersSince

LEMMA FinishDelSince ==
    ASSUME IInv, RInv, NEW r \in Req, FinishDel(r)
    PROVE  RInv'
<1>1. /\ req[r].pc = "del" /\ LookUp(r, req[r]) /\ UNCHANGED <<now, redis, db, boot, refreshed>>
      /\ ReqInv(req[r], now) /\ AwaitInv(req[r], now)
  BY RInvOf DEF FinishDel
<1>2. Caller(req[r]) /\ req[r].wrote = {} /\ req[r].out = None
  BY <1>1, PendingCaller DEF AwaitInv
<1> QED
  BY <1>1, <1>2, LookUpSince

\* A step of the environment: whatever is still there was there before.
LEMMA EnvironmentSince ==
    ASSUME IInv, RInv, Environment
    PROVE  RInv'
<1>1. /\ now \in Nat /\ now' \in {now, now + 1} /\ answer' = None /\ refreshed' = refreshed
      /\ redis' \in {redis, None} /\ db' \in {db, None}
      /\ req \in [Req -> Request] /\ memory \in [Proc -> MemoryEntry \cup {None}]
  BY DEF Environment, RedisLosesKey, Cleanup, Tick, Evict, Crash, IInv, TiersInv
<1>2. \A p \in Proc : memory'[p] \in {memory[p], None}
  BY <1>1 DEF Environment, RedisLosesKey, Cleanup, Tick, Evict, Crash
<1>3. \A x \in Req : req'[x] \in {req[x], Idle}
  BY <1>1 DEF Environment, RedisLosesKey, Cleanup, Tick, Evict, Crash
<1>4. ASSUME NEW x \in Req PROVE AwaitInv(req'[x], now')
  <2>1. AwaitInv(req[x], now) /\ req[x].due \in Nat
    BY <1>1 DEF RInv, Request
  <2>2. AwaitInv(req[x], now')
    BY <1>1, <2>1, LagBounds DEF AwaitInv
  <2>3. AwaitInv(Idle, now')
    BY DEF AwaitInv, Idle
  <2> QED
    BY <1>3, <2>2, <2>3
<1>5. redis' # None => redis'.expiresAt <= now' + TtlL2
  <2>1. redis # None => redis.expiresAt \in Nat /\ redis.expiresAt <= now + TtlL2
    BY DEF IInv, TiersInv, RedisEntry, RInv
  <2> QED
    BY <1>1, <2>1, LagBounds
<1>6. ASSUME NEW R \in Nat, Wrote(R)' PROVE Since(R)'
  <2>1. Wrote(R)
    <3>1. CASE refreshed' = R
      BY <1>1, <3>1 DEF Wrote
    <3>2. CASE \E x \in Req : Replaced(req'[x], R)
      BY <1>3, <3>2, IdleAwait DEF Wrote, Replaced
    <3> QED BY <1>6, <3>1, <3>2 DEF Wrote
  <2>2. R <= now /\ SinceTiers(R) /\ \A x \in Req : SinceReq(req[x], R)
    BY <2>1 DEF RInv, Since
  <2>3. SinceTiers(R)'
    BY <1>1, <1>2, <2>2, DropsSince
  <2>4. \A x \in Req : SinceReq(req'[x], R)
    BY <1>3, <2>2, IdleAwait
  <2>5. R <= now'
    BY <1>1, <2>2
  <2> QED
    BY <2>3, <2>4, <2>5 DEF Since
<1>7. RefreshWins'
  BY <1>1 DEF RefreshWins, Served
<1> QED
  BY <1>4, <1>5, <1>6, <1>7 DEF RInv

LEMMA InitRInv == Init => RInv
<1> SUFFICES ASSUME Init PROVE RInv
  OBVIOUS
<1>1. /\ refreshed = None /\ answer = None /\ redis = None
      /\ \A r \in Req : req[r] = Idle
  BY DEF Init
<1>2. \A R \in Nat : ~Wrote(R)
  BY <1>1, IdleAwait, NoneAssumption DEF Wrote, Replaced
<1> QED
  BY <1>1, <1>2, IdleAwait DEF RInv, RefreshWins, Served

LEMMA NextRInv == IInv /\ RInv /\ [Next]_vars => RInv'
<1> SUFFICES ASSUME IInv, RInv, [Next]_vars PROVE RInv'
  OBVIOUS
<1>1. ASSUME NEW r \in Req, Continue(r) PROVE RInv'
  <2>1. CASE RedisAnswers(r) \/ DbAnswers(r) \/ WarmupAnswers(r)
    BY <2>1, RedisAnswersSince, RowAnswersSince
  <2>2. CASE FetchSucceeds(r) \/ FetchInMaintenance(r) \/ FetchErrs(r)
    BY <2>2, FetchSucceedsSince, FetchFailsSince
  <2>3. CASE SetRedis(r) \/ SetDb(r) \/ DelRedis(r) \/ DelDb(r) \/ TierFails(r)
    BY <2>3, SetRedisSince, SetDbSince, SettlesSince
  <2>4. CASE FinishSet(r) \/ FinishDel(r)
    BY <2>4, FinishSetSince, FinishDelSince
  <2> QED
    BY <1>1, <2>1, <2>2, <2>3, <2>4 DEF Continue
<1>2. CASE UNCHANGED vars
  <2>1. UNCHANGED <<now, memory, redis, db, req, answer, boot, refreshed>>
    BY <1>2 DEF vars
  <2> QED
    BY <2>1 DEF RInv, Wrote, Since, SinceTiers, RefreshWins, Served
<1> QED
  BY <1>1, <1>2, EnvironmentSince, StartSince DEF Next

\* A forceRefresh that replaced every tier wins over every older copy, in flight or at
\* rest in any process, once the delays and TTLs on its way (Lag) are over.
THEOREM RefreshWinsHolds == Spec => []RefreshWins
<1>1. RInv => RefreshWins
  BY DEF RInv
<1> QED
  BY <1>1, Inductive, InitRInv, NextRInv, PTL DEF Spec
=============================================================================
