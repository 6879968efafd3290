--------------------------- MODULE ArmoriesCacheProofs ---------------------------
(* What the tiers hold of a character, for every set of sections, number   *)
(* of processes and operations in flight, and all durations: IInv about    *)
(* what a detail has, and AInv, further down, about how old its parts are. *)
EXTENDS ArmoriesCache, FiniteSetTheorems, TLAPS

\* A detail that a tier may hold or an operation hand on.
Sound(d) ==
    d # None =>
        /\ d \in Detail /\ Profile \in Fetched(d) /\ d.normalizedAt <= now
        /\ \A s \in Fetched(d) : d.sent[s] <= d.normalizedAt

TiersSound ==
    /\ memory \in [Proc -> Detail \cup {None}] /\ \A p \in Proc : Sound(memory[p])
    /\ Sound(redis) /\ Sound(db)

\* Together with what its base has, a fetch brings the profile and all that was asked for.
BringsAll(q) ==
    /\ q.val = None => Profile \in q.miss
    /\ q.op = "partial" => q.want \subseteq q.miss \cup (IF q.val = None THEN {} ELSE Fetched(q.val))

ReqSound(q) ==
    /\ q \in Request /\ Sound(q.val)
    /\ q.pc # "idle" => q.op \in Ops /\ q.proc \in Proc
    /\ q.pc = "redis.sync" => q.val # None
    /\ q.pc \notin {"set", "del"} => q.todo = {}
    /\ q.pc = "fetch" => /\ q.due - FetchDelay \in Nat /\ q.due - FetchDelay <= now
                         /\ BringsAll(q)
    /\ q.pc = "set" => q.val # None /\ (q.op = "partial" => q.want \subseteq Fetched(q.val))

IInv ==
    /\ now \in Nat
    /\ TiersSound
    /\ req \in [Req -> Request] /\ \A r \in Req : ReqSound(req[r])
    /\ answer \in Answer \cup {None} /\ Complete

\* An operation between two awaits, with nothing under way.
Active(q) == q \in Request /\ q.op \in Ops /\ q.proc \in Proc /\ q.todo = {}
-----------------------------------------------------------------------------
LEMMA NatAssumption == MaxAge \in Nat /\ OpDelay \in Nat /\ FetchDelay \in Nat
BY TimeAssumption

LEMMA IdleIsSound == Idle \in Request /\ ReqSound(Idle) /\ Idle.todo = {} /\ Idle.op = None
BY DEF Idle, Request, ReqSound, Sound

LEMMA InitHolds == Init => IInv
<1>. SUFFICES ASSUME Init PROVE IInv
  OBVIOUS
<1>1. TiersSound
  BY DEF Init, TiersSound, Sound
<1>. QED BY <1>1, IdleIsSound DEF Init, IInv, Complete, Served

LEMMA NoneIsSound == Sound(None)
BY DEF Sound

\* Time passes, or an operation does something else: what was sound is.
LEMMA SoundStays ==
    ASSUME now \in Nat, now' \in Nat, now <= now', NEW d, Sound(d) PROVE Sound(d)'
BY DEF Sound, Fetched, Detail

LEMMA ReqSoundStays ==
    ASSUME now \in Nat, now' \in Nat, now <= now', NEW q, ReqSound(q) PROVE ReqSound(q)'
<1>1. Sound(q.val)'
  BY SoundStays DEF ReqSound
<1>. QED BY <1>1, NatAssumption DEF ReqSound, BringsAll, Fetched

LEMMA BecomesHolds ==
    ASSUME IInv, NEW r \in Req, NEW q, ReqSound(q), Becomes(r, q), UNCHANGED now, TiersSound'
    PROVE  IInv'
<1>1. now \in Nat /\ now' = now /\ now' \in Nat /\ now <= now'
  BY DEF IInv
<1>2. q \in Request /\ req' = [req EXCEPT ![r] = q] /\ answer' = None
  BY DEF Becomes, ReqSound
<1>3. \A s \in Req : ReqSound(req'[s])
  BY <1>2 DEF IInv
<1>4. \A s \in Req : ReqSound(req[s])'
  BY <1>1, <1>3 DEF ReqSound, Sound, BringsAll, Fetched
<1>. QED BY <1>1, <1>2, <1>4 DEF IInv, Complete, Served

LEMMA AnswersHolds ==
    ASSUME IInv, NEW r \in Req, NEW q \in Request, q.op \in Ops, NEW d, Sound(d),
           q.op = "partial" /\ d # None => q.want \subseteq Fetched(d),
           Answers(r, q, d), UNCHANGED now, TiersSound'
    PROVE  IInv'
<1>1. now \in Nat /\ now' = now /\ now' \in Nat /\ now <= now'
  BY DEF IInv
<1>2. req' = [req EXCEPT ![r] = Idle]
  BY DEF Answers
<1>3. \A s \in Req : ReqSound(req'[s])
  BY <1>2, IdleIsSound DEF IInv
<1>4. \A s \in Req : ReqSound(req[s])'
  BY <1>1, <1>3 DEF ReqSound, Sound, BringsAll, Fetched
<1>5. PICK val \in {None, d, Picked(q.want, d)} :
        /\ answer' = [op |-> q.op, want |-> q.want, val |-> val]
        /\ d = None => val = None
        /\ q.op = "partial" /\ d # None => val = Picked(q.want, d)
  <2>1. CASE d = None
    <3>1. answer' = [op |-> q.op, want |-> q.want, val |-> None]
      BY <2>1 DEF Answers
    <3>. QED BY <2>1, <3>1
  <2>2. CASE d # None /\ q.op = "partial"
    <3>1. answer' = [op |-> q.op, want |-> q.want, val |-> Picked(q.want, d)]
      BY <2>2 DEF Answers
    <3>. QED BY <2>2, <3>1
  <2>3. CASE d # None /\ q.op = "nodes"
    BY <2>3 DEF Answers
  <2>4. CASE d # None /\ q.op \notin {"partial", "nodes"}
    BY <2>4 DEF Answers
  <2>. QED BY <2>1, <2>2, <2>3, <2>4
<1>6. d # None => /\ d \in Detail /\ Picked(q.want, d) \in Detail
                  /\ Fetched(Picked(q.want, d)) = q.want \cap Fetched(d)
  BY DEF Sound, Detail, Picked, Fetched, Request
<1>7. answer' \in Answer
  BY <1>5, <1>6 DEF Answer, Request
<1>8. Complete'
  <2>. SUFFICES ASSUME answer'.val # None, answer'.op = "partial"
                PROVE  answer'.want \subseteq Fetched(answer'.val)
    BY DEF Complete, Served, Fetched
  <2>1. val = Picked(q.want, d) /\ d # None
    BY <1>5
  <2>. QED BY <1>5, <1>6, <2>1
<1>. QED BY <1>1, <1>2, <1>4, <1>7, <1>8, IdleIsSound DEF IInv

(* The continuations of an operation *)

LEMMA ReadIsSound ==
    ASSUME now \in Nat, NEW q, Active(q), NEW tier \in {"redis.get", "db.get"}, NEW held, Sound(held),
           NEW q2 \in Read(q, tier, held)
    PROVE  ReqSound(q2)
<1>1. PICK val \in {held, None} : q2 = [q EXCEPT !.pc = tier, !.val = val, !.due = now + OpDelay]
  BY DEF Read
<1>2. Sound(val) /\ val \in Detail \cup {None} /\ now + OpDelay \in Nat
  BY NatAssumption DEF Sound
<1>3. q2 \in Request
  BY <1>1, <1>2 DEF Active, Request
<1>4. q2.pc = tier /\ q2.val = val /\ q2.op = q.op /\ q2.proc = q.proc /\ q2.todo = q.todo
  BY <1>1 DEF Active, Request
<1>. QED BY <1>2, <1>3, <1>4 DEF ReqSound, Active

LEMMA FetchingIsSound ==
    ASSUME now \in Nat, NEW q, Active(q), NEW base, Sound(base), NEW miss \in SUBSET Section,
           base = None => Profile \in miss,
           q.op = "partial" => q.want \subseteq miss \cup (IF base = None THEN {} ELSE Fetched(base))
    PROVE  ReqSound(Fetching(q, base, miss))
<1>. DEFINE q2 == Fetching(q, base, miss)
<1>1. base \in Detail \cup {None} /\ now + FetchDelay \in Nat
      /\ (now + FetchDelay) - FetchDelay = now
  BY NatAssumption DEF Sound
<1>2. q2 \in Request
  BY <1>1 DEF Active, Request, Fetching
<1>3. /\ q2.pc = "fetch" /\ q2.val = base /\ q2.miss = miss /\ q2.due = now + FetchDelay
      /\ q2.op = q.op /\ q2.proc = q.proc /\ q2.want = q.want /\ q2.todo = q.todo
  BY DEF Active, Request, Fetching
<1>. HIDE DEF q2
<1>4. ReqSound(q2)
  BY <1>1, <1>2, <1>3 DEF ReqSound, BringsAll, Active
<1>. QED BY <1>4 DEF q2

LEMMA DeletingIsSound ==
    ASSUME now \in Nat, NEW q, Active(q), NEW tiers \in SUBSET Tiers
    PROVE  ReqSound(Deleting(q, tiers))
<1>. DEFINE q2 == Deleting(q, tiers)
<1>1. q2 \in Request
  <2>1. now + OpDelay \in Nat
    BY NatAssumption
  <2>. QED BY <2>1 DEF Active, Request, Deleting
<1>2. q2.pc = "del" /\ q2.val = None /\ q2.op = q.op /\ q2.proc = q.proc
  BY DEF Active, Request, Deleting
<1>. HIDE DEF q2
<1>3. ReqSound(q2)
  BY <1>1, <1>2, NoneIsSound DEF ReqSound, Active
<1>. QED BY <1>3 DEF q2

LEMMA HitHolds ==
    ASSUME IInv, NEW r \in Req, NEW q, Active(q), NEW d, d # None, Sound(d), Hit(r, q, d),
           UNCHANGED now, TiersSound'
    PROVE  IInv'
<1>. DEFINE miss == IF q.op = "partial" THEN Missing(q.want, d) ELSE {}
<1>1. now \in Nat /\ q \in Request /\ q.op \in Ops
  BY DEF IInv, Active
<1>2. miss \in SUBSET Section /\ (q.op = "partial" => q.want \subseteq miss \cup Fetched(d))
  BY <1>1 DEF Missing, Request
<1>3. CASE miss = {} /\ Answers(r, q, d)
  BY <1>1, <1>2, <1>3, AnswersHolds
<1>4. CASE Profile \in miss /\ Becomes(r, Deleting(q, Tiers))
  BY <1>1, <1>4, DeletingIsSound, BecomesHolds
<1>5. CASE Becomes(r, Fetching(q, d, miss))
  BY <1>1, <1>2, <1>5, FetchingIsSound, BecomesHolds
<1>. QED BY <1>3, <1>4, <1>5 DEF Hit

LEMMA RememberHolds ==
    ASSUME IInv, NEW q, q.proc \in Proc, NEW d, Sound(d), Remember(q, d), UNCHANGED <<now, redis, db>>
    PROVE  TiersSound'
<1>1. memory' = [memory EXCEPT ![q.proc] = d] /\ d \in Detail \cup {None}
  BY DEF Remember, Sound
<1>2. \A p \in Proc : Sound(memory'[p])
  BY <1>1 DEF IInv, TiersSound
<1>. QED BY <1>1, <1>2 DEF IInv, TiersSound, Sound, Fetched

LEMMA LookUpHolds ==
    ASSUME IInv, NEW r \in Req, NEW q, Active(q), LookUp(r, q), UNCHANGED <<now, redis, db>>
    PROVE  IInv'
<1>1. now \in Nat /\ q.proc \in Proc /\ Sound(memory[q.proc]) /\ Sound(redis)
  BY DEF IInv, Active, TiersSound
<1>2. CASE Fresh(memory[q.proc]) /\ Hit(r, q, memory[q.proc]) /\ UNCHANGED memory
  <2>1. TiersSound'
    BY <1>2 DEF IInv, TiersSound, Sound, Fetched
  <2>. QED BY <1>1, <1>2, <2>1, HitHolds DEF Fresh
<1>3. CASE Remember(q, None) /\ \E q2 \in Read(q, "redis.get", redis) : Becomes(r, q2)
  <2>1. TiersSound'
    BY <1>1, <1>3, NoneIsSound, RememberHolds
  <2>. QED BY <1>1, <1>3, <2>1, ReadIsSound, BecomesHolds
<1>. QED BY <1>2, <1>3 DEF LookUp

LEMMA MissHolds ==
    ASSUME IInv, NEW r \in Req, NEW q, Active(q), Miss(r, q), UNCHANGED <<now, redis, db>>
    PROVE  IInv'
<1>1. CASE q.again > 0 /\ LookUp(r, [q EXCEPT !.again = @ - 1, !.val = None])
  <2>. DEFINE q2 == [q EXCEPT !.again = @ - 1, !.val = None]
  <2>0. q.again - 1 \in 0 .. 2
    BY <1>1 DEF Active, Request
  <2>1. Active(q2) /\ LookUp(r, q2)
    BY <1>1, <2>0 DEF Active, Request
  <2>. HIDE DEF q2
  <2>. QED BY <2>1, LookUpHolds
<1>2. CASE Becomes(r, Fetching(q, None, FirstFetch(q))) /\ UNCHANGED memory
  <2>1. /\ FirstFetch(q) \in SUBSET Section /\ Profile \in FirstFetch(q)
        /\ q.op = "partial" => q.want \subseteq FirstFetch(q)
    BY SectionAssumption DEF FirstFetch, Active, Request
  <2>2. TiersSound'
    BY <1>2 DEF IInv, TiersSound, Sound, Fetched
  <2>3. now \in Nat
    BY DEF IInv
  <2>. QED BY <1>2, <2>1, <2>2, <2>3, NoneIsSound, FetchingIsSound, BecomesHolds
<1>. QED BY <1>1, <1>2 DEF Miss
-----------------------------------------------------------------------------
(* One lemma per group of actions *)

\* A route begins with a lookup or with the deletion of the detail.
LEMMA StartIsActive ==
    ASSUME IInv, NEW r \in Req, Start(r)
    PROVE  /\ UNCHANGED <<now, redis, db>>
           /\ \E q : Active(q) /\ (LookUp(r, q) \/ DeletesDetail(r, q))
<1>. PICK p \in Proc :
        \/ \E want \in SUBSET Section : GetCharacterDetailPartial(r, p, want)
        \/ GetCharacterDetail(r, p) \/ GetClassSpecificNodes(r, p)
        \/ RefreshCharacterDetail(r, p) \/ DeleteCharacterCache(r, p)
  BY DEF Start
<1>1. Idle \in Request /\ Idle.todo = {}
  BY IdleIsSound
<1>2. ASSUME NEW want \in SUBSET Section, GetCharacterDetailPartial(r, p, want)
      PROVE  \E q : Active(q) /\ LookUp(r, q)
  <2>. DEFINE q == [Idle EXCEPT !.op = "partial", !.proc = p, !.want = want]
  <2>1. Active(q) /\ LookUp(r, q)
    BY <1>1, <1>2 DEF Active, Request, Ops, GetCharacterDetailPartial
  <2>. HIDE DEF q
  <2>. QED BY <2>1
<1>3. ASSUME GetCharacterDetail(r, p) PROVE \E q : Active(q) /\ LookUp(r, q)
  <2>. DEFINE q1 == [Idle EXCEPT !.op = "full", !.proc = p, !.want = Section]
              q == [Idle EXCEPT !.op = "full", !.proc = p, !.want = Section, !.again = 2]
  <2>1. Active(q1)
    BY <1>1 DEF Active, Request, Ops
  <2>2. q = [q1 EXCEPT !.again = 2] /\ 2 \in 0 .. 2
    BY <1>1 DEF Request
  <2>3. LookUp(r, q)
    BY <1>3 DEF GetCharacterDetail
  <2>. HIDE DEF q1, q
  <2>4. Active(q)
    BY <2>1, <2>2 DEF Active, Request
  <2>. QED BY <2>3, <2>4
<1>4. ASSUME GetClassSpecificNodes(r, p) PROVE \E q : Active(q) /\ LookUp(r, q)
  <2>. DEFINE q1 == [Idle EXCEPT !.op = "nodes", !.proc = p, !.want = Section]
              q == [Idle EXCEPT !.op = "nodes", !.proc = p, !.want = Section, !.again = 1]
  <2>1. Active(q1)
    BY <1>1 DEF Active, Request, Ops
  <2>2. q = [q1 EXCEPT !.again = 1] /\ 1 \in 0 .. 2
    BY <1>1 DEF Request
  <2>3. LookUp(r, q)
    BY <1>4 DEF GetClassSpecificNodes
  <2>. HIDE DEF q1, q
  <2>4. Active(q)
    BY <2>1, <2>2 DEF Active, Request
  <2>. QED BY <2>3, <2>4
<1>5. ASSUME RefreshCharacterDetail(r, p) PROVE \E q : Active(q) /\ DeletesDetail(r, q)
  <2>. DEFINE q == [Idle EXCEPT !.op = "refresh", !.proc = p, !.want = Section]
  <2>1. Active(q) /\ DeletesDetail(r, q)
    BY <1>1, <1>5 DEF Active, Request, Ops, RefreshCharacterDetail
  <2>. HIDE DEF q
  <2>. QED BY <2>1
<1>6. ASSUME DeleteCharacterCache(r, p) PROVE \E q : Active(q) /\ DeletesDetail(r, q)
  <2>. DEFINE q == [Idle EXCEPT !.op = "delete", !.proc = p]
  <2>1. Active(q) /\ DeletesDetail(r, q)
    BY <1>1, <1>6 DEF Active, Request, Ops, DeleteCharacterCache
  <2>. HIDE DEF q
  <2>. QED BY <2>1
<1>7. UNCHANGED <<now, redis, db>>
  BY DEF GetCharacterDetailPartial, GetCharacterDetail, GetClassSpecificNodes,
         RefreshCharacterDetail, DeleteCharacterCache
<1>. QED BY <1>2, <1>3, <1>4, <1>5, <1>6, <1>7

LEMMA StartHolds == ASSUME IInv, NEW r \in Req, Start(r) PROVE IInv'
<1>1. UNCHANGED <<now, redis, db>> /\ now \in Nat
  BY StartIsActive DEF IInv
<1>2. PICK q : Active(q) /\ (LookUp(r, q) \/ DeletesDetail(r, q))
  BY StartIsActive
<1>3. CASE LookUp(r, q)
  BY <1>1, <1>2, <1>3, LookUpHolds
<1>4. CASE DeletesDetail(r, q)
  <2>1. TiersSound'
    BY <1>1, <1>2, <1>4, NoneIsSound, RememberHolds DEF DeletesDetail, Active
  <2>. QED BY <1>1, <1>2, <1>4, <2>1, DeletingIsSound, BecomesHolds DEF DeletesDetail
<1>. QED BY <1>2, <1>3, <1>4

LEMMA RequestIsActive ==
    ASSUME IInv, NEW r \in Req, req[r].pc # "idle", req[r].todo = {}
    PROVE  /\ Active(req[r]) /\ ReqSound(req[r]) /\ Sound(req[r].val) /\ req[r].proc \in Proc
           /\ now \in Nat
BY DEF IInv, Active, ReqSound

LEMMA TiersStay == ASSUME IInv, UNCHANGED <<now, memory, redis, db>> PROVE TiersSound'
BY DEF IInv, TiersSound, Sound, Fetched

LEMMA RedisAnswersHolds == ASSUME IInv, NEW r \in Req, RedisAnswers(r) PROVE IInv'
<1>. DEFINE q == req[r]
<1>1. q.pc = "redis.get" /\ q.todo = {} /\ UNCHANGED <<now, redis, db>>
  BY DEF RedisAnswers, IInv, ReqSound
<1>2. Active(q) /\ Sound(q.val) /\ q.proc \in Proc /\ now \in Nat /\ Sound(db)
  BY <1>1, RequestIsActive DEF IInv, TiersSound
<1>3. CASE (\E q2 \in Read(q, "db.get", db) : Becomes(r, q2)) /\ UNCHANGED memory
  BY <1>1, <1>2, <1>3, TiersStay, ReadIsSound, BecomesHolds
<1>4. CASE Fresh(q.val) /\ Remember(q, q.val) /\ Hit(r, q, q.val)
  <2>1. TiersSound'
    BY <1>1, <1>2, <1>4, RememberHolds
  <2>. QED BY <1>1, <1>2, <1>4, <2>1, HitHolds DEF Fresh
<1>5. CASE /\ Becomes(r, [q EXCEPT !.pc = "redis.del", !.val = None, !.due = now + OpDelay])
           /\ UNCHANGED memory
  <2>. DEFINE q2 == [q EXCEPT !.pc = "redis.del", !.val = None, !.due = now + OpDelay]
  <2>1. now + OpDelay \in Nat
    BY <1>2, NatAssumption
  <2>2. q2 \in Request
    BY <1>2, <2>1 DEF Active, Request
  <2>3. q2.pc = "redis.del" /\ q2.val = None /\ q2.op = q.op /\ q2.proc = q.proc /\ q2.todo = q.todo
    BY <1>2 DEF Active, Request
  <2>4. Becomes(r, q2)
    BY <1>5
  <2>. HIDE DEF q2
  <2>5. ReqSound(q2)
    BY <1>2, <2>2, <2>3, NoneIsSound DEF ReqSound, Active
  <2>. QED BY <1>1, <1>5, <2>4, <2>5, TiersStay, BecomesHolds
<1>. QED BY <1>3, <1>4, <1>5 DEF RedisAnswers

LEMMA RedisDropsStaleHolds == ASSUME IInv, NEW r \in Req, RedisDropsStale(r) PROVE IInv'
<1>. DEFINE q == req[r]
<1>1. q.pc = "redis.del" /\ q.todo = {} /\ UNCHANGED <<now, db>>
  BY DEF RedisDropsStale, IInv, ReqSound
<1>2. Active(q) /\ now \in Nat /\ Sound(db)
  BY <1>1, RequestIsActive DEF IInv, TiersSound
<1>3. CASE redis' = None /\ (\E q2 \in Read(q, "db.get", db) : Becomes(r, q2)) /\ UNCHANGED memory
  <2>1. TiersSound'
    BY <1>1, <1>3 DEF IInv, TiersSound, Sound, Fetched
  <2>. QED BY <1>1, <1>2, <1>3, <2>1, ReadIsSound, BecomesHolds
<1>4. CASE UNCHANGED redis /\ Miss(r, q)
  BY <1>1, <1>2, <1>4, MissHolds
<1>. QED BY <1>3, <1>4 DEF RedisDropsStale

LEMMA DbAnswersHolds == ASSUME IInv, NEW r \in Req, DbAnswers(r) PROVE IInv'
<1>. DEFINE q == req[r]
<1>1. q.pc = "db.get" /\ q.todo = {} /\ UNCHANGED <<now, redis, db>>
  BY DEF DbAnswers, IInv, ReqSound
<1>2. Active(q) /\ Sound(q.val) /\ q.proc \in Proc /\ now \in Nat
  BY <1>1, RequestIsActive
<1>3. CASE /\ Fresh(q.val) /\ Remember(q, q.val)
           /\ Becomes(r, [q EXCEPT !.pc = "redis.sync", !.due = now + OpDelay])
  <2>. DEFINE q2 == [q EXCEPT !.pc = "redis.sync", !.due = now + OpDelay]
  <2>1. now + OpDelay \in Nat
    BY <1>2, NatAssumption
  <2>2. q2 \in Request
    BY <1>2, <2>1 DEF Active, Request
  <2>3. q2.pc = "redis.sync" /\ q2.val = q.val /\ q2.op = q.op /\ q2.proc = q.proc /\ q2.todo = q.todo
    BY <1>2 DEF Active, Request
  <2>4. Becomes(r, q2)
    BY <1>3
  <2>5. q.val # None
    BY <1>3 DEF Fresh
  <2>6. TiersSound'
    BY <1>1, <1>2, <1>3, RememberHolds
  <2>. HIDE DEF q2
  <2>7. ReqSound(q2)
    BY <1>2, <2>2, <2>3, <2>5 DEF ReqSound, Active
  <2>. QED BY <1>1, <2>4, <2>6, <2>7, BecomesHolds
<1>4. CASE Miss(r, q)
  BY <1>1, <1>2, <1>4, MissHolds
<1>. QED BY <1>3, <1>4 DEF DbAnswers

LEMMA RedisSyncsHolds == ASSUME IInv, NEW r \in Req, RedisSyncs(r) PROVE IInv'
<1>. DEFINE q == req[r]
<1>1. q.pc = "redis.sync" /\ q.todo = {} /\ q.val # None /\ UNCHANGED <<now, memory, db>>
      /\ redis' \in {q.val, redis} /\ Hit(r, q, q.val)
  BY DEF RedisSyncs, IInv, ReqSound
<1>2. Active(q) /\ Sound(q.val)
  BY <1>1, RequestIsActive
<1>3. TiersSound'
  BY <1>1, <1>2 DEF IInv, TiersSound, Sound, Fetched
<1>. QED BY <1>1, <1>2, <1>3, HitHolds

\* What a fetch makes: the profile is in it, fetched now or before, and so is what was asked for.
LEMMA FetchedIsSound ==
    ASSUME IInv, NEW q, ReqSound(q), q.pc = "fetch",
           NEW d, d = IF q.val = None THEN Normalized(q.miss, q.due - FetchDelay)
                                      ELSE Merged(q.val, q.miss, q.due - FetchDelay)
    PROVE  /\ Sound(d) /\ d # None /\ d \in Detail
           /\ q.op = "partial" => q.want \subseteq Fetched(d)
<1>. DEFINE sent == q.due - FetchDelay
<1>1. sent \in Nat /\ sent <= now /\ now \in Nat /\ sent # None
  BY NoneAssumption DEF ReqSound, IInv
<1>2. q.miss \in SUBSET Section /\ q.want \in SUBSET Section
  BY DEF ReqSound, Request
<1>. HIDE DEF sent
<1>3. CASE q.val = None
  <2>1. d = [normalizedAt |-> now, sent |-> [s \in Section |-> IF s \in q.miss THEN sent ELSE None]]
    BY <1>3 DEF Normalized, sent
  <2>2. d \in Detail
    BY <1>1, <2>1 DEF Detail
  <2>3. Fetched(d) = q.miss
    BY <1>1, <1>2, <2>1 DEF Fetched
  <2>4. Profile \in Fetched(d) /\ (q.op = "partial" => q.want \subseteq Fetched(d))
    BY <1>3, <2>3 DEF ReqSound, BringsAll
  <2>5. d.normalizedAt = now /\ \A s \in Fetched(d) : d.sent[s] = sent
    BY <1>2, <2>1, <2>3
  <2>6. d # None
    BY <2>2, NoneAssumption
  <2>7. Sound(d)
    BY <1>1, <2>2, <2>4, <2>5 DEF Sound
  <2>. QED BY <2>2, <2>4, <2>6, <2>7
<1>4. CASE q.val # None
  <2>1. d = [normalizedAt |-> now,
             sent |-> [s \in Section |-> IF s \in q.miss THEN sent ELSE q.val.sent[s]]]
    BY <1>4 DEF Merged, sent
  <2>2. /\ q.val \in Detail /\ Profile \in Fetched(q.val) /\ q.val.normalizedAt <= now
        /\ \A s \in Fetched(q.val) : q.val.sent[s] <= q.val.normalizedAt
    BY <1>4 DEF ReqSound, Sound
  <2>3. d \in Detail
    BY <1>1, <2>1, <2>2 DEF Detail
  <2>4. Fetched(d) = q.miss \cup Fetched(q.val)
    BY <1>1, <1>2, <2>1 DEF Fetched
  <2>5. ASSUME NEW s \in Fetched(d) PROVE d.sent[s] <= d.normalizedAt
    <3>1. s \in Section /\ d.normalizedAt = now
          /\ d.sent[s] = IF s \in q.miss THEN sent ELSE q.val.sent[s]
      BY <2>1 DEF Fetched
    <3>2. CASE s \in q.miss
      BY <1>1, <3>1, <3>2
    <3>3. CASE s \notin q.miss
      <4>1. s \in Fetched(q.val) /\ q.val.sent[s] \in Nat /\ q.val.normalizedAt \in Nat
        BY <2>2, <2>4, <3>1, <3>3 DEF Fetched, Detail
      <4>. QED BY <1>1, <2>2, <3>1, <3>3, <4>1
    <3>. QED BY <3>2, <3>3
  <2>6. d.normalizedAt <= now /\ d # None
    BY <1>1, <2>1, <2>3, NoneAssumption
  <2>. QED BY <1>4, <2>2, <2>3, <2>4, <2>5, <2>6 DEF Sound, ReqSound, BringsAll
<1>. QED BY <1>3, <1>4

LEMMA FetchSucceedsHolds == ASSUME IInv, NEW r \in Req, FetchSucceeds(r) PROVE IInv'
<1>. DEFINE q == req[r]
            d == IF q.val = None THEN Normalized(q.miss, q.due - FetchDelay)
                                 ELSE Merged(q.val, q.miss, q.due - FetchDelay)
<1>1. q.pc = "fetch" /\ q.todo = {} /\ UNCHANGED <<now, redis, db>> /\ Remember(q, d)
  BY DEF FetchSucceeds, IInv, ReqSound
<1>2. PICK tiers \in SUBSET Tiers :
         Becomes(r, [q EXCEPT !.pc = "set", !.val = d, !.miss = {}, !.todo = tiers,
                              !.due = now + OpDelay])
  BY DEF FetchSucceeds
<1>. DEFINE q2 == [q EXCEPT !.pc = "set", !.val = d, !.miss = {}, !.todo = tiers,
                            !.due = now + OpDelay]
<1>3. Active(q) /\ ReqSound(q) /\ now \in Nat /\ now + OpDelay \in Nat
  BY <1>1, NatAssumption, RequestIsActive
<1>4. /\ Sound(d) /\ d # None /\ d \in Detail
      /\ q.op = "partial" => q.want \subseteq Fetched(d)
  BY <1>1, <1>3, FetchedIsSound
<1>. HIDE DEF d
<1>5. q2 \in Request
  BY <1>3, <1>4 DEF Active, Request
<1>6. q2.pc = "set" /\ q2.val = d /\ q2.op = q.op /\ q2.proc = q.proc /\ q2.want = q.want
  BY <1>3 DEF Active, Request
<1>7. TiersSound'
  BY <1>1, <1>3, <1>4, RememberHolds DEF Active
<1>8. Becomes(r, q2)
  BY <1>2
<1>. HIDE DEF q2
<1>9. ReqSound(q2)
  BY <1>3, <1>4, <1>5, <1>6 DEF ReqSound, Active
<1>. QED BY <1>1, <1>7, <1>8, <1>9, BecomesHolds

LEMMA RepliesHold == ASSUME IInv, NEW r \in Req, FetchFails(r) \/ FinishSet(r) PROVE IInv'
<1>1. CASE FetchFails(r)
  <2>1. Active(req[r]) /\ UNCHANGED <<now, memory, redis, db>> /\ Answers(r, req[r], None)
    BY <1>1, RequestIsActive DEF FetchFails, IInv, ReqSound
  <2>. QED BY <2>1, TiersStay, NoneIsSound, AnswersHolds DEF Active
<1>2. CASE FinishSet(r)
  <2>1. /\ Active(req[r]) /\ UNCHANGED <<now, memory, redis, db>> /\ Answers(r, req[r], req[r].val)
        /\ Sound(req[r].val) /\ ReqSound(req[r]) /\ req[r].pc = "set"
    BY <1>2, RequestIsActive DEF FinishSet
  <2>2. req[r].op = "partial" => req[r].want \subseteq Fetched(req[r].val)
    BY <2>1 DEF ReqSound
  <2>. QED BY <2>1, <2>2, TiersStay, AnswersHolds DEF Active
<1>. QED BY <1>1, <1>2

LEMMA WriteHolds ==
    ASSUME IInv, NEW r \in Req, WriteRedis(r) \/ WriteDb(r) \/ WriteFails(r) PROVE IInv'
<1>. DEFINE q == req[r]
<1>1. PICK tier \in q.todo : Settled(r, tier)
  BY DEF WriteRedis, WriteDb, WriteFails
<1>. DEFINE q2 == [q EXCEPT !.todo = @ \ {tier}]
<1>2. q \in Request /\ ReqSound(q) /\ q.pc \in {"set", "del"} /\ Becomes(r, q2)
  BY <1>1 DEF IInv, ReqSound, Settled
<1>3. q2 \in Request
  BY <1>2 DEF Request
<1>4. q2.pc = q.pc /\ q2.val = q.val /\ q2.op = q.op /\ q2.proc = q.proc /\ q2.want = q.want
  BY <1>2 DEF Request
<1>. HIDE DEF q2
<1>5. ReqSound(q2)
  BY <1>2, <1>3, <1>4 DEF ReqSound
<1>6. Sound(Written(q)) /\ UNCHANGED <<now, memory>>
      /\ redis' \in {redis, Written(q)} /\ db' \in {db, Written(q)}
  BY <1>2, NoneIsSound DEF WriteRedis, WriteDb, WriteFails, Written, ReqSound
<1>. HIDE DEF q
<1>7. TiersSound'
  BY <1>6 DEF IInv, TiersSound, Sound, Fetched
<1>. QED BY <1>2, <1>5, <1>6, <1>7, BecomesHolds

LEMMA FinishDelHolds == ASSUME IInv, NEW r \in Req, FinishDel(r) PROVE IInv'
<1>. DEFINE q == req[r]
<1>1. q.pc = "del" /\ q.todo = {} /\ UNCHANGED <<now, redis, db>>
  BY DEF FinishDel
<1>2. Active(q) /\ now \in Nat /\ q \in Request /\ q.op \in Ops /\ q.proc \in Proc
  BY <1>1, RequestIsActive DEF Active
<1>3. CASE /\ q.op = "partial" /\ Becomes(r, Fetching(q, None, FirstFetch(q)))
           /\ Remember(q, None)
  <2>1. /\ FirstFetch(q) \in SUBSET Section /\ Profile \in FirstFetch(q)
        /\ q.want \subseteq FirstFetch(q)
    BY <1>2, <1>3, SectionAssumption DEF FirstFetch, Request
  <2>2. ReqSound(Fetching(q, None, FirstFetch(q)))
    BY <1>2, <2>1, NoneIsSound, FetchingIsSound
  <2>3. TiersSound'
    BY <1>1, <1>2, <1>3, NoneIsSound, RememberHolds
  <2>. QED BY <1>1, <1>3, <2>2, <2>3, BecomesHolds
<1>4. CASE q.op = "refresh" /\ LookUp(r, q)
  BY <1>1, <1>2, <1>4, LookUpHolds
<1>5. CASE q.op = "delete" /\ Answers(r, q, None) /\ UNCHANGED memory
  BY <1>1, <1>2, <1>5, TiersStay, NoneIsSound, AnswersHolds
<1>. QED BY <1>3, <1>4, <1>5 DEF FinishDel

LEMMA EnvironmentHolds == ASSUME IInv, Environment PROVE IInv'
<1>1. now \in Nat /\ now' \in Nat /\ now <= now' /\ answer' = None
      /\ req' \in [Req -> Request]
      /\ \A r \in Req : req'[r] \in {req[r], Idle}
  BY IdleIsSound DEF Environment, RedisExpires, Tick, Crash, Upkeep, IInv
<1>2. /\ \A p \in Proc : memory'[p] \in {memory[p], None}
      /\ memory' \in [Proc -> Detail \cup {None}]
      /\ redis' \in {redis, None} /\ db' \in {db, None}
  BY DEF Environment, RedisExpires, Tick, Crash, Upkeep, Cleanup, PerformOptimization,
         OptimizeMemoryCache, OptimizeDatabaseCache, Expired, IInv, TiersSound
<1>3. \A r \in Req : ReqSound(req'[r])
  BY <1>1, IdleIsSound DEF IInv
<1>4. \A p \in Proc : Sound(memory'[p])
  BY <1>2, NoneIsSound DEF IInv, TiersSound
<1>5. Sound(redis') /\ Sound(db')
  BY <1>2, NoneIsSound DEF IInv, TiersSound
<1>6. TiersSound'
  BY <1>1, <1>2, <1>4, <1>5 DEF TiersSound, Sound, Fetched, Detail
<1>7. \A r \in Req : ReqSound(req[r])'
  <2>. SUFFICES ASSUME NEW r \in Req PROVE ReqSound(req[r])'
    OBVIOUS
  <2>1. ReqSound(req'[r]) /\ req'[r] \in Request
    BY <1>1, <1>3
  <2>2. Sound(req[r].val)'
    BY <1>1, <2>1 DEF ReqSound, Sound, Fetched, Detail
  <2>. QED BY <1>1, <2>1, <2>2, NatAssumption DEF ReqSound, BringsAll, Fetched
<1>8. Complete' /\ answer' \in Answer \cup {None}
  BY <1>1 DEF Complete, Served
<1>9. now' \in Nat /\ req' \in [Req -> Request]
  BY <1>1
<1>. QED BY <1>6, <1>7, <1>8, <1>9 DEF IInv

LEMMA NextHolds == IInv /\ [Next]_vars => IInv'
<1>. SUFFICES ASSUME IInv, [Next]_vars PROVE IInv'
  OBVIOUS
<1>1. CASE UNCHANGED vars
  BY <1>1 DEF vars, IInv, TiersSound, ReqSound, BringsAll, Sound, Fetched, Complete, Served
<1>2. CASE \E r \in Req : Start(r) \/ Continue(r)
  BY <1>2, StartHolds, RedisAnswersHolds, RedisDropsStaleHolds, DbAnswersHolds, RedisSyncsHolds,
     FetchSucceedsHolds, RepliesHold, WriteHolds, FinishDelHolds DEF Continue
<1>. QED BY <1>1, <1>2, EnvironmentHolds DEF Next

\* Every variable keeps its type, and no section of a detail is newer than its normalizedAt says.
THEOREM TypeCorrect == Spec => []TypeOK
<1>1. IInv => TypeOK
  <2>. SUFFICES ASSUME IInv PROVE TypeOK
    OBVIOUS
  <2>1. ASSUME NEW d \in Held PROVE d # None /\ Sound(d)
    BY DEF Held, IInv, TiersSound, ReqSound
  <2>2. redis \in Detail \cup {None} /\ db \in Detail \cup {None}
    BY DEF IInv, TiersSound, Sound
  <2>. QED BY <2>1, <2>2 DEF IInv, TypeOK, TiersSound, Sound
<1>. QED BY InitHolds, NextHolds, <1>1, PTL DEF Spec

\* No interleaving of fetches, merges, deletes and failing tiers puts a detail without a profile
\* into a tier or into the hands of an operation.
THEOREM HasProfileHolds == Spec => []HasProfile
<1>1. IInv => HasProfile
  BY DEF IInv, HasProfile, Held, TiersSound, Sound, ReqSound
<1>. QED BY InitHolds, NextHolds, <1>1, PTL DEF Spec

\* A partial request that is answered is given every section it asked for.
THEOREM CompleteHolds == Spec => []Complete
<1>1. IInv => Complete
  BY DEF IInv
<1>. QED BY InitHolds, NextHolds, <1>1, PTL DEF Spec
-----------------------------------------------------------------------------
(* How old a section is.                                                   *)

\* Each section of a detail has outlived at most as many renewals of normalizedAt as
\* there are sections besides one, since every merge added one.
Kept(d) ==
    d # None => \A s \in Fetched(d) :
        d.normalizedAt - d.sent[s] <= FetchDelay + (Cardinality(Fetched(d)) - 1) * Renewal

\* A merge ends within one renewal of what its base claims, and adds to it.
Ages(q, t) ==
    /\ Kept(q.val)
    /\ q.pc # "idle" => t <= q.due
    /\ q.pc = "redis.sync" => q.due - q.val.normalizedAt <= MaxAge + OpDelay
    /\ q.pc = "set" => q.due - q.val.normalizedAt <= OpDelay
    /\ q.pc = "fetch" /\ q.val # None =>
         /\ q.miss # {} /\ q.miss \cap Fetched(q.val) = {}
         /\ q.due - q.val.normalizedAt <= Renewal

TiersKept == (\A p \in Proc : Kept(memory[p])) /\ Kept(redis) /\ Kept(db)

AInv == TiersKept /\ (\A r \in Req : Ages(req[r], now)) /\ SectionAge
-----------------------------------------------------------------------------
LEMMA RenewalAssumption == Renewal \in Nat /\ Renewal = MaxAge + OpDelay + FetchDelay
BY NatAssumption DEF Renewal

\* One section more is worth one renewal more.
LEMMA Renewals ==
    ASSUME NEW m \in Nat, NEW n \in Nat
    PROVE  /\ m <= n => m * Renewal <= n * Renewal
           /\ m < n => m * Renewal + Renewal <= n * Renewal
           /\ (n - 1) * Renewal = n * Renewal - Renewal
<1>1. ASSUME NEW k \in Nat PROVE k * Renewal \in Nat
  BY RenewalAssumption
<1>2. ASSUME m <= n PROVE m * Renewal <= n * Renewal
  <2>1. n - m \in Nat /\ n * Renewal = m * Renewal + (n - m) * Renewal
    BY <1>2, RenewalAssumption
  <2>. QED BY <1>1, <2>1
<1>3. ASSUME m < n PROVE m * Renewal + Renewal <= n * Renewal
  <2>1. n - m - 1 \in Nat /\ n * Renewal = m * Renewal + Renewal + (n - m - 1) * Renewal
    BY <1>3, RenewalAssumption
  <2>2. (n - m - 1) * Renewal \in Nat
    BY <1>1, <2>1
  <2>3. m * Renewal \in Nat /\ n * Renewal \in Nat /\ Renewal \in Nat
    BY <1>1, RenewalAssumption
  <2>. HIDE DEF Renewal
  <2>. QED BY <2>1, <2>2, <2>3
<1>4. (n - 1) * Renewal = n * Renewal - Renewal
  BY RenewalAssumption
<1>. QED BY <1>2, <1>3, <1>4

\* The sections of a detail can be counted, and the profile is one of them.
LEMMA FetchedCount ==
    ASSUME NEW d
    PROVE  /\ IsFiniteSet(Fetched(d)) /\ Cardinality(Fetched(d)) \in Nat
           /\ Cardinality(Fetched(d)) <= Cardinality(Section) /\ Cardinality(Section) \in Nat
           /\ Profile \in Fetched(d) => Cardinality(Fetched(d)) >= 1
<1>1. Fetched(d) \in SUBSET Section
  BY DEF Fetched
<1>2. IsFiniteSet(Fetched(d)) /\ Cardinality(Fetched(d)) <= Cardinality(Section)
  BY <1>1, SectionAssumption, FS_Subset
<1>3. Cardinality(Fetched(d)) \in Nat /\ Cardinality(Section) \in Nat
  BY <1>2, SectionAssumption, FS_CardinalityType
<1>4. ASSUME Profile \in Fetched(d) PROVE Cardinality(Fetched(d)) >= 1
  <2>1. Cardinality(Fetched(d)) # 0
    BY <1>2, <1>4, FS_EmptySet
  <2>. QED BY <1>3, <2>1
<1>. QED BY <1>2, <1>3, <1>4

\* A proper superset has more elements.
LEMMA MoreElements ==
    ASSUME NEW S, NEW T, IsFiniteSet(S), IsFiniteSet(T), S \subseteq T, S # T
    PROVE  Cardinality(S) < Cardinality(T)
<1>1. S \in SUBSET T
  OBVIOUS
<1>2. Cardinality(S) <= Cardinality(T) /\ Cardinality(S) # Cardinality(T)
  BY <1>1, FS_Subset
<1>3. Cardinality(S) \in Nat /\ Cardinality(T) \in Nat
  BY FS_CardinalityType
<1>. QED BY <1>2, <1>3

LEMMA NoneIsKept == Kept(None)
BY DEF Kept

LEMMA IdleAges == Ages(Idle, now)
BY NoneIsKept DEF Ages, Idle

LEMMA BecomesAges ==
    ASSUME IInv, AInv, NEW r \in Req, NEW q, Ages(q, now), Becomes(r, q), UNCHANGED now, TiersKept'
    PROVE  AInv'
<1>1. req' = [req EXCEPT ![r] = q] /\ answer' = None /\ req \in [Req -> Request]
  BY DEF Becomes, IInv
<1>2. \A x \in Req : req'[x] = IF x = r THEN q ELSE req[x]
  BY <1>1
<1>3. \A x \in Req : Ages(req'[x], now')
  BY <1>2 DEF AInv
<1>. QED BY <1>1, <1>3 DEF AInv, SectionAge, Served

\* An answer is at most one access after the detail was fresh.
LEMMA AnswersAges ==
    ASSUME IInv, AInv, NEW r \in Req, NEW q \in Request, NEW d, Sound(d), Kept(d),
           d # None => now - d.normalizedAt <= MaxAge + OpDelay,
           Answers(r, q, d), UNCHANGED now, TiersKept'
    PROVE  AInv'
<1>1. req' = [req EXCEPT ![r] = Idle] /\ req \in [Req -> Request] /\ now \in Nat
  BY DEF Answers, IInv
<1>2. \A x \in Req : req'[x] = IF x = r THEN Idle ELSE req[x]
  BY <1>1
<1>3. \A x \in Req : Ages(req'[x], now')
  BY <1>2, IdleAges DEF AInv
<1>4. answer'.val \in {None, d, Picked(q.want, d)} /\ (d = None => answer'.val = None)
  <2>1. CASE d = None
    <3>1. answer' = [op |-> q.op, want |-> q.want, val |-> None]
      BY <2>1 DEF Answers
    <3>. QED BY <2>1, <3>1
  <2>2. CASE d # None /\ q.op = "partial"
    <3>1. answer' = [op |-> q.op, want |-> q.want, val |-> Picked(q.want, d)]
      BY <2>2 DEF Answers
    <3>. QED BY <2>2, <3>1
  <2>3. CASE d # None /\ q.op = "nodes"
    BY <2>3 DEF Answers
  <2>4. CASE d # None /\ q.op \notin {"partial", "nodes"}
    BY <2>4 DEF Answers
  <2>. QED BY <2>1, <2>2, <2>3, <2>4
<1>5. ASSUME d # None, NEW s \in Fetched(d)
      PROVE  now - d.sent[s] <= Cardinality(Section) * Renewal
  <2>. DEFINE c == Cardinality(Fetched(d))
              n == Cardinality(Section)
  <2>1. c \in Nat /\ n \in Nat /\ c <= n /\ c >= 1
    BY <1>5, FetchedCount DEF Sound
  <2>2. d.normalizedAt \in Nat /\ d.sent[s] \in Nat
    BY <1>5 DEF Sound, Fetched, Detail
  <2>3. d.normalizedAt - d.sent[s] <= FetchDelay + (c - 1) * Renewal
    BY <1>5 DEF Kept
  <2>4. now - d.normalizedAt <= MaxAge + OpDelay
    BY <1>5
  <2>. HIDE DEF c, n
  <2>5. (c - 1) * Renewal = c * Renewal - Renewal /\ c * Renewal <= n * Renewal
    BY <2>1, Renewals
  <2>6. c * Renewal \in Int /\ n * Renewal \in Int
    BY <2>1, RenewalAssumption
  <2>7. now - d.sent[s] <= n * Renewal
    BY <1>1, <2>2, <2>3, <2>4, <2>5, <2>6, RenewalAssumption, NatAssumption
  <2>. QED BY <2>7 DEF n
<1>6. SectionAge'
  <2>. SUFFICES ASSUME answer'.val # None, NEW s \in Fetched(answer'.val)
                PROVE  now - answer'.val.sent[s] <= Cardinality(Section) * Renewal
    BY DEF SectionAge, Served, Fetched
  <2>1. d # None
    BY <1>4
  <2>2. CASE answer'.val = d
    BY <1>5, <2>1, <2>2
  <2>3. CASE answer'.val = Picked(q.want, d)
    <3>1. s \in Fetched(d) /\ answer'.val.sent[s] = d.sent[s]
      BY <2>1, <2>3 DEF Picked, Fetched, Sound, Detail
    <3>. QED BY <1>5, <2>1, <3>1
  <2>. QED BY <1>4, <2>1, <2>2, <2>3
<1>. QED BY <1>3, <1>6 DEF AInv

(* The continuations of an operation *)

LEMMA ReadAges ==
    ASSUME now \in Nat, NEW q, Active(q), NEW tier \in {"redis.get", "db.get"}, NEW held, Kept(held),
           NEW q2 \in Read(q, tier, held)
    PROVE  Ages(q2, now)
<1>1. PICK val \in {held, None} : q2 = [q EXCEPT !.pc = tier, !.val = val, !.due = now + OpDelay]
  BY DEF Read
<1>2. q2.pc = tier /\ q2.val = val /\ q2.due = now + OpDelay
  BY <1>1 DEF Active, Request
<1>3. now <= now + OpDelay
  BY NatAssumption
<1>. QED BY <1>1, <1>2, <1>3, NoneIsKept DEF Ages

LEMMA FetchingAges ==
    ASSUME now \in Nat, NEW q, Active(q), NEW base, Kept(base), NEW miss \in SUBSET Section,
           base # None => /\ miss # {} /\ miss \cap Fetched(base) = {}
                          /\ base.normalizedAt \in Nat
                          /\ now - base.normalizedAt <= MaxAge + OpDelay
    PROVE  Ages(Fetching(q, base, miss), now)
<1>. DEFINE q2 == Fetching(q, base, miss)
<1>1. q2.pc = "fetch" /\ q2.val = base /\ q2.miss = miss /\ q2.due = now + FetchDelay
  BY DEF Active, Request, Fetching
<1>. HIDE DEF q2
<1>2. now <= now + FetchDelay
  BY NatAssumption
<1>3. base # None => now + FetchDelay - base.normalizedAt <= Renewal
  BY NatAssumption, RenewalAssumption
<1>4. Kept(q2.val)
  BY <1>1
<1>5. q2.val # None => /\ q2.miss # {} /\ q2.miss \cap Fetched(q2.val) = {}
                       /\ q2.due - q2.val.normalizedAt <= Renewal
  <2>1. q2.val # None => q2.miss # {} /\ q2.miss \cap Fetched(q2.val) = {}
    BY <1>1, Zenon
  <2>2. ASSUME q2.val # None PROVE q2.due - q2.val.normalizedAt <= Renewal
    <3>1. q2.due = now + FetchDelay /\ q2.val.normalizedAt = base.normalizedAt
      BY <1>1
    <3>2. now + FetchDelay - base.normalizedAt <= Renewal
      BY <1>1, <1>3, <2>2
    <3>. QED BY <1>1, <2>2, <3>1, <3>2, NatAssumption
  <2>. QED BY <2>1, <2>2
<1>6. Ages(q2, now)
  BY <1>1, <1>2, <1>4, <1>5 DEF Ages
<1>. QED BY <1>6 DEF q2

LEMMA DeletingAges ==
    ASSUME now \in Nat, NEW q, Active(q), NEW tiers \in SUBSET Tiers
    PROVE  Ages(Deleting(q, tiers), now)
<1>. DEFINE q2 == Deleting(q, tiers)
<1>1. q2.pc = "del" /\ q2.val = None /\ q2.due = now + OpDelay
  BY DEF Active, Request, Deleting
<1>. HIDE DEF q2
<1>2. now <= now + OpDelay
  BY NatAssumption
<1>3. Ages(q2, now)
  BY <1>1, <1>2, NoneIsKept DEF Ages
<1>. QED BY <1>3 DEF q2

LEMMA HitAges ==
    ASSUME IInv, AInv, NEW r \in Req, NEW q, Active(q), NEW d, d # None, Sound(d), Kept(d),
           now - d.normalizedAt <= MaxAge + OpDelay, Hit(r, q, d), UNCHANGED now, TiersKept'
    PROVE  AInv'
<1>. DEFINE miss == IF q.op = "partial" THEN Missing(q.want, d) ELSE {}
<1>1. now \in Nat /\ q \in Request /\ d.normalizedAt \in Nat
  BY DEF IInv, Active, Sound, Detail
<1>2. miss \in SUBSET Section /\ miss \cap Fetched(d) = {}
  BY <1>1 DEF Missing, Request
<1>3. CASE miss = {} /\ Answers(r, q, d)
  BY <1>1, <1>3, AnswersAges
<1>4. CASE miss # {} /\ Becomes(r, Deleting(q, Tiers))
  BY <1>1, <1>4, DeletingAges, BecomesAges
<1>5. CASE miss # {} /\ Becomes(r, Fetching(q, d, miss))
  BY <1>1, <1>2, <1>5, FetchingAges, BecomesAges
<1>. QED BY <1>3, <1>4, <1>5 DEF Hit

LEMMA RememberAges ==
    ASSUME IInv, AInv, NEW q, NEW d, Kept(d), Remember(q, d), UNCHANGED <<redis, db>>
    PROVE  TiersKept'
<1>1. \A p \in Proc : memory'[p] \in {memory[p], d}
  BY DEF Remember, IInv, TiersSound
<1>. QED BY <1>1 DEF AInv, TiersKept

LEMMA LookUpAges ==
    ASSUME IInv, AInv, NEW r \in Req, NEW q, Active(q), LookUp(r, q), UNCHANGED <<now, redis, db>>
    PROVE  AInv'
<1>1. now \in Nat /\ q.proc \in Proc /\ Sound(memory[q.proc])
      /\ Kept(memory[q.proc]) /\ Kept(redis)
  BY DEF IInv, Active, TiersSound, AInv, TiersKept
<1>2. CASE Fresh(memory[q.proc]) /\ Hit(r, q, memory[q.proc]) /\ UNCHANGED memory
  <2>. DEFINE d == memory[q.proc]
  <2>1. TiersKept'
    BY <1>2 DEF AInv, TiersKept
  <2>2. d # None /\ d.normalizedAt \in Nat /\ now - d.normalizedAt <= MaxAge
    BY <1>1, <1>2 DEF Fresh, Sound, Detail
  <2>3. now - d.normalizedAt <= MaxAge + OpDelay
    BY <1>1, <2>2, NatAssumption
  <2>. QED BY <1>1, <1>2, <2>1, <2>2, <2>3, HitAges
<1>3. CASE Remember(q, None) /\ \E q2 \in Read(q, "redis.get", redis) : Becomes(r, q2)
  <2>1. TiersKept'
    BY <1>3, NoneIsKept, RememberAges
  <2>. QED BY <1>1, <1>3, <2>1, ReadAges, BecomesAges
<1>. QED BY <1>2, <1>3 DEF LookUp

LEMMA MissAges ==
    ASSUME IInv, AInv, NEW r \in Req, NEW q, Active(q), Miss(r, q), UNCHANGED <<now, redis, db>>
    PROVE  AInv'
<1>1. CASE q.again > 0 /\ LookUp(r, [q EXCEPT !.again = @ - 1, !.val = None])
  <2>. DEFINE q2 == [q EXCEPT !.again = @ - 1, !.val = None]
  <2>0. q.again - 1 \in 0 .. 2
    BY <1>1 DEF Active, Request
  <2>1. Active(q2) /\ LookUp(r, q2)
    BY <1>1, <2>0 DEF Active, Request
  <2>. HIDE DEF q2
  <2>. QED BY <2>1, LookUpAges
<1>2. CASE Becomes(r, Fetching(q, None, FirstFetch(q))) /\ UNCHANGED memory
  <2>1. FirstFetch(q) \in SUBSET Section
    BY SectionAssumption DEF FirstFetch, Active, Request
  <2>2. TiersKept' /\ now \in Nat
    BY <1>2 DEF IInv, AInv, TiersKept
  <2>3. Ages(Fetching(q, None, FirstFetch(q)), now)
    BY <2>1, <2>2, NoneIsKept, FetchingAges
  <2>. QED BY <1>2, <2>2, <2>3, BecomesAges
<1>. QED BY <1>1, <1>2 DEF Miss
-----------------------------------------------------------------------------
(* One lemma per group of actions *)

LEMMA StartAges == ASSUME IInv, AInv, NEW r \in Req, Start(r) PROVE AInv'
<1>1. UNCHANGED <<now, redis, db>> /\ now \in Nat
  BY StartIsActive DEF IInv
<1>2. PICK q : Active(q) /\ (LookUp(r, q) \/ DeletesDetail(r, q))
  BY StartIsActive
<1>3. CASE LookUp(r, q)
  BY <1>1, <1>2, <1>3, LookUpAges
<1>4. CASE DeletesDetail(r, q)
  <2>1. TiersKept'
    BY <1>1, <1>4, NoneIsKept, RememberAges DEF DeletesDetail
  <2>. QED BY <1>1, <1>2, <1>4, <2>1, DeletingAges, BecomesAges DEF DeletesDetail
<1>. QED BY <1>2, <1>3, <1>4

\* What is known of a request that goes on.
LEMMA RequestAges ==
    ASSUME IInv, AInv, NEW r \in Req, req[r].pc # "idle", req[r].todo = {}
    PROVE  /\ Active(req[r]) /\ ReqSound(req[r]) /\ Sound(req[r].val) /\ Ages(req[r], now)
           /\ Kept(req[r].val) /\ now \in Nat /\ now <= req[r].due /\ req[r].due \in Nat
           /\ req[r].val # None => req[r].val.normalizedAt \in Nat
<1>1. Active(req[r]) /\ ReqSound(req[r]) /\ Sound(req[r].val) /\ now \in Nat
  BY RequestIsActive
<1>2. Ages(req[r], now) /\ req[r].due \in Nat
  BY <1>1 DEF AInv, Active, Request
<1>3. req[r].val # None => req[r].val.normalizedAt \in Nat
  BY <1>1 DEF Sound, Detail
<1>. QED BY <1>1, <1>2, <1>3 DEF Ages

LEMMA TiersKeptStay == ASSUME AInv, UNCHANGED <<memory, redis, db>> PROVE TiersKept'
BY DEF AInv, TiersKept

LEMMA RedisAnswersAges == ASSUME IInv, AInv, NEW r \in Req, RedisAnswers(r) PROVE AInv'
<1>. DEFINE q == req[r]
<1>1. q.pc = "redis.get" /\ q.todo = {} /\ UNCHANGED <<now, redis, db>>
  BY DEF RedisAnswers, IInv, ReqSound
<1>2. Active(q) /\ Sound(q.val) /\ Kept(q.val) /\ now \in Nat /\ Kept(db)
      /\ (q.val # None => q.val.normalizedAt \in Nat)
  BY <1>1, RequestAges DEF AInv, TiersKept
<1>3. CASE (\E q2 \in Read(q, "db.get", db) : Becomes(r, q2)) /\ UNCHANGED memory
  BY <1>1, <1>2, <1>3, TiersKeptStay, ReadAges, BecomesAges
<1>4. CASE Fresh(q.val) /\ Remember(q, q.val) /\ Hit(r, q, q.val)
  <2>1. TiersKept'
    BY <1>1, <1>2, <1>4, RememberAges
  <2>2. q.val # None /\ now - q.val.normalizedAt <= MaxAge + OpDelay
    BY <1>2, <1>4, NatAssumption DEF Fresh
  <2>. QED BY <1>1, <1>2, <1>4, <2>1, <2>2, HitAges
<1>5. CASE /\ Becomes(r, [q EXCEPT !.pc = "redis.del", !.val = None, !.due = now + OpDelay])
           /\ UNCHANGED memory
  <2>. DEFINE q2 == [q EXCEPT !.pc = "redis.del", !.val = None, !.due = now + OpDelay]
  <2>1. q2.pc = "redis.del" /\ q2.val = None /\ q2.due = now + OpDelay
    BY <1>2 DEF Active, Request
  <2>2. Becomes(r, q2) /\ now <= now + OpDelay
    BY <1>2, <1>5, NatAssumption
  <2>. HIDE DEF q2
  <2>3. Ages(q2, now)
    BY <2>1, <2>2, NoneIsKept DEF Ages
  <2>. QED BY <1>1, <1>5, <2>2, <2>3, TiersKeptStay, BecomesAges
<1>. QED BY <1>3, <1>4, <1>5 DEF RedisAnswers

LEMMA RedisDropsStaleAges == ASSUME IInv, AInv, NEW r \in Req, RedisDropsStale(r) PROVE AInv'
<1>. DEFINE q == req[r]
<1>1. q.pc = "redis.del" /\ q.todo = {} /\ UNCHANGED <<now, db>>
  BY DEF RedisDropsStale, IInv, ReqSound
<1>2. Active(q) /\ now \in Nat /\ Kept(db)
  BY <1>1, RequestAges DEF AInv, TiersKept
<1>3. CASE redis' = None /\ (\E q2 \in Read(q, "db.get", db) : Becomes(r, q2)) /\ UNCHANGED memory
  <2>1. TiersKept'
    BY <1>1, <1>3, NoneIsKept DEF AInv, TiersKept
  <2>. QED BY <1>1, <1>2, <1>3, <2>1, ReadAges, BecomesAges
<1>4. CASE UNCHANGED redis /\ Miss(r, q)
  BY <1>1, <1>2, <1>4, MissAges
<1>. QED BY <1>3, <1>4 DEF RedisDropsStale

LEMMA DbAnswersAges == ASSUME IInv, AInv, NEW r \in Req, DbAnswers(r) PROVE AInv'
<1>. DEFINE q == req[r]
<1>1. q.pc = "db.get" /\ q.todo = {} /\ UNCHANGED <<now, redis, db>>
  BY DEF DbAnswers, IInv, ReqSound
<1>2. Active(q) /\ Kept(q.val) /\ now \in Nat /\ (q.val # None => q.val.normalizedAt \in Nat)
  BY <1>1, RequestAges
<1>3. CASE /\ Fresh(q.val) /\ Remember(q, q.val)
           /\ Becomes(r, [q EXCEPT !.pc = "redis.sync", !.due = now + OpDelay])
  <2>. DEFINE q2 == [q EXCEPT !.pc = "redis.sync", !.due = now + OpDelay]
  <2>1. q2.pc = "redis.sync" /\ q2.val = q.val /\ q2.due = now + OpDelay
    BY <1>2 DEF Active, Request
  <2>2. Becomes(r, q2)
    BY <1>3
  <2>3. TiersKept'
    BY <1>1, <1>2, <1>3, RememberAges
  <2>4. now <= now + OpDelay /\ now + OpDelay - q.val.normalizedAt <= MaxAge + OpDelay
    BY <1>2, <1>3, NatAssumption DEF Fresh
  <2>. HIDE DEF q2
  <2>5. Kept(q2.val) /\ now <= q2.due /\ q2.due - q2.val.normalizedAt <= MaxAge + OpDelay
    <3>1. q2.val.normalizedAt = q.val.normalizedAt
      BY <2>1
    <3>2. q.val # None
      BY <1>3 DEF Fresh
    <3>. QED BY <1>2, <2>1, <2>4, <3>1, <3>2, NatAssumption
  <2>6. Ages(q2, now)
    BY <2>1, <2>5 DEF Ages
  <2>. QED BY <1>1, <2>2, <2>3, <2>6, BecomesAges
<1>4. CASE Miss(r, q)
  BY <1>1, <1>2, <1>4, MissAges
<1>. QED BY <1>3, <1>4 DEF DbAnswers

LEMMA RedisSyncsAges == ASSUME IInv, AInv, NEW r \in Req, RedisSyncs(r) PROVE AInv'
<1>. DEFINE q == req[r]
<1>1. q.pc = "redis.sync" /\ q.todo = {} /\ q.val # None /\ UNCHANGED <<now, memory, db>>
      /\ redis' \in {q.val, redis} /\ Hit(r, q, q.val)
  BY DEF RedisSyncs, IInv, ReqSound
<1>2. /\ Active(q) /\ Sound(q.val) /\ Kept(q.val) /\ Ages(q, now) /\ now \in Nat
      /\ now <= q.due /\ q.due \in Nat /\ q.val.normalizedAt \in Nat
  BY <1>1, RequestAges
<1>3. TiersKept'
  BY <1>1, <1>2 DEF AInv, TiersKept
<1>4. q.due - q.val.normalizedAt <= MaxAge + OpDelay
  BY <1>1, <1>2 DEF Ages
<1>5. now - q.val.normalizedAt <= MaxAge + OpDelay
  BY <1>2, <1>4, NatAssumption
<1>. QED BY <1>1, <1>2, <1>3, <1>5, HitAges

\* A first fetch is as old as it took; a merge has at least one section more than its base.
LEMMA FetchedIsKept ==
    ASSUME IInv, NEW q, ReqSound(q), Ages(q, now), q.pc = "fetch",
           NEW d, d = IF q.val = None THEN Normalized(q.miss, q.due - FetchDelay)
                                      ELSE Merged(q.val, q.miss, q.due - FetchDelay)
    PROVE  Kept(d) /\ d.normalizedAt = now
<1>. DEFINE sent == q.due - FetchDelay
            base == Fetched(q.val)
            c == Cardinality(Fetched(d))
<1>1. /\ sent \in Nat /\ sent <= now /\ now \in Nat /\ sent # None /\ q.due \in Nat
      /\ now - sent <= FetchDelay /\ q.miss \in SUBSET Section
  BY NoneAssumption, NatAssumption DEF ReqSound, IInv, Ages, Request
<1>2. /\ d.normalizedAt = now
      /\ \A s \in Section : d.sent[s] = IF s \in q.miss THEN sent
                                        ELSE IF q.val = None THEN None ELSE q.val.sent[s]
  BY DEF Normalized, Merged
<1>3. Sound(d) /\ d # None
  BY FetchedIsSound
<1>4. c \in Nat /\ c >= 1 /\ c * Renewal \in Nat /\ (c - 1) * Renewal \in Nat
  <2>1. c \in Nat /\ c >= 1
    BY <1>3, FetchedCount DEF Sound
  <2>. HIDE DEF c
  <2>2. c - 1 \in Nat
    BY <2>1
  <2>. QED BY <2>1, <2>2, RenewalAssumption
<1>. HIDE DEF sent
<1>5. ASSUME NEW s \in Fetched(d) PROVE d.normalizedAt - d.sent[s] <= FetchDelay + (c - 1) * Renewal
  <2>. HIDE DEF c
  <2>1. CASE s \in q.miss
    <3>1. d.sent[s] = sent
      BY <1>2, <2>1 DEF Fetched
    <3>. QED BY <1>1, <1>2, <1>4, <3>1, NatAssumption
  <2>2. CASE s \notin q.miss
    <3>1. q.val # None /\ s \in base /\ d.sent[s] = q.val.sent[s]
      BY <1>2, <2>2 DEF Fetched
    <3>2. /\ q.val.normalizedAt \in Nat /\ q.val.sent[s] \in Nat
          /\ q.due - q.val.normalizedAt <= Renewal
          /\ q.miss # {} /\ q.miss \cap base = {}
          /\ q.val.normalizedAt - q.val.sent[s] <= FetchDelay + (Cardinality(base) - 1) * Renewal
      <4>1. q.val \in Detail /\ Kept(q.val)
        BY <3>1 DEF ReqSound, Sound, Ages
      <4>. QED BY <3>1, <4>1 DEF Ages, Kept, Detail, Fetched
    <3>3. Cardinality(base) \in Nat /\ Cardinality(base) < c
      <4>1. IsFiniteSet(base) /\ Cardinality(base) \in Nat /\ IsFiniteSet(Fetched(d))
        BY FetchedCount
      <4>2. base \subseteq Fetched(d) /\ base # Fetched(d)
        <5>1. \A x \in base : x \in Section /\ x \notin q.miss /\ q.val.sent[x] # None
          BY <3>2 DEF Fetched
        <5>2. base \subseteq Fetched(d)
          BY <1>2, <3>1, <5>1 DEF Fetched
        <5>3. PICK x \in q.miss : x \notin base
          BY <3>2
        <5>4. x \in Fetched(d)
          BY <1>1, <1>2, <5>3 DEF Fetched
        <5>. QED BY <5>2, <5>3, <5>4
      <4>. QED BY <4>1, <4>2, MoreElements DEF c
    <3>. DEFINE b == Cardinality(base)
    <3>. HIDE DEF b, base
    <3>4. /\ b * Renewal + Renewal <= c * Renewal
          /\ (b - 1) * Renewal = b * Renewal - Renewal
          /\ (c - 1) * Renewal = c * Renewal - Renewal
      BY <1>4, <3>3, Renewals DEF b
    <3>5. b * Renewal \in Int /\ c * Renewal \in Int
      BY <1>4, <3>3, RenewalAssumption DEF b
    <3>6. now - q.val.normalizedAt <= Renewal
      BY <1>1, <3>2, RenewalAssumption DEF Ages
    <3>7. q.val.normalizedAt - q.val.sent[s] <= FetchDelay + (b - 1) * Renewal
      BY <3>2 DEF b
    <3>8. now - q.val.sent[s] <= FetchDelay + (c - 1) * Renewal
      BY <1>1, <3>2, <3>4, <3>5, <3>6, <3>7, NatAssumption, RenewalAssumption
    <3>. QED BY <1>2, <3>1, <3>8
  <2>. QED BY <2>1, <2>2
<1>. QED BY <1>2, <1>5 DEF Kept

LEMMA FetchSucceedsAges == ASSUME IInv, AInv, NEW r \in Req, FetchSucceeds(r) PROVE AInv'
<1>. DEFINE q == req[r]
            d == IF q.val = None THEN Normalized(q.miss, q.due - FetchDelay)
                                 ELSE Merged(q.val, q.miss, q.due - FetchDelay)
<1>1. q.pc = "fetch" /\ q.todo = {} /\ UNCHANGED <<now, redis, db>> /\ Remember(q, d)
  BY DEF FetchSucceeds, IInv, ReqSound
<1>2. PICK tiers \in SUBSET Tiers :
         Becomes(r, [q EXCEPT !.pc = "set", !.val = d, !.miss = {}, !.todo = tiers,
                              !.due = now + OpDelay])
  BY DEF FetchSucceeds
<1>. DEFINE q2 == [q EXCEPT !.pc = "set", !.val = d, !.miss = {}, !.todo = tiers,
                            !.due = now + OpDelay]
<1>3. Active(q) /\ ReqSound(q) /\ Ages(q, now) /\ now \in Nat
  BY <1>1, RequestAges
<1>4. Kept(d) /\ d.normalizedAt = now
  BY <1>1, <1>3, FetchedIsKept
<1>. HIDE DEF d
<1>5. q2.pc = "set" /\ q2.val = d /\ q2.due = now + OpDelay
  BY <1>3 DEF Active, Request
<1>6. TiersKept'
  BY <1>1, <1>4, RememberAges
<1>7. Becomes(r, q2)
  BY <1>2
<1>. HIDE DEF q2
<1>8. now <= now + OpDelay /\ now + OpDelay - now <= OpDelay
  BY <1>3, NatAssumption
<1>9. Kept(q2.val) /\ now <= q2.due /\ q2.due - q2.val.normalizedAt <= OpDelay
  <2>1. q2.val.normalizedAt = now
    BY <1>4, <1>5
  <2>. QED BY <1>3, <1>4, <1>5, <1>8, <2>1, NatAssumption
<1>10. Ages(q2, now)
  BY <1>5, <1>9 DEF Ages
<1>. QED BY <1>1, <1>6, <1>7, <1>10, BecomesAges

LEMMA RepliesAge == ASSUME IInv, AInv, NEW r \in Req, FetchFails(r) \/ FinishSet(r) PROVE AInv'
<1>1. CASE FetchFails(r)
  <2>1. req[r] \in Request /\ UNCHANGED <<now, memory, redis, db>> /\ Answers(r, req[r], None)
    BY <1>1 DEF FetchFails, IInv
  <2>. QED BY <2>1, TiersKeptStay, NoneIsSound, NoneIsKept, AnswersAges
<1>2. CASE FinishSet(r)
  <2>. DEFINE q == req[r]
  <2>1. /\ q.pc = "set" /\ q.todo = {} /\ UNCHANGED <<now, memory, redis, db>>
        /\ Answers(r, q, q.val)
    BY <1>2 DEF FinishSet
  <2>2. /\ q \in Request /\ Sound(q.val) /\ Kept(q.val) /\ Ages(q, now) /\ now \in Nat
        /\ now <= q.due /\ q.due \in Nat /\ (q.val # None => q.val.normalizedAt \in Nat)
    BY <2>1, RequestAges DEF Active
  <2>3. q.due - q.val.normalizedAt <= OpDelay
    BY <2>1, <2>2 DEF Ages
  <2>4. q.val # None => now - q.val.normalizedAt <= MaxAge + OpDelay
    BY <2>2, <2>3, NatAssumption
  <2>. QED BY <2>1, <2>2, <2>4, TiersKeptStay, AnswersAges
<1>. QED BY <1>1, <1>2

LEMMA WriteAges ==
    ASSUME IInv, AInv, NEW r \in Req, WriteRedis(r) \/ WriteDb(r) \/ WriteFails(r) PROVE AInv'
<1>. DEFINE q == req[r]
<1>1. PICK tier \in q.todo : Settled(r, tier)
  BY DEF WriteRedis, WriteDb, WriteFails
<1>. DEFINE q2 == [q EXCEPT !.todo = @ \ {tier}]
<1>2. /\ q \in Request /\ q.pc \in {"set", "del"} /\ Becomes(r, q2) /\ Ages(q, now)
      /\ UNCHANGED now
  BY <1>1 DEF IInv, ReqSound, Settled, AInv, WriteRedis, WriteDb, WriteFails
<1>3. q2.pc = q.pc /\ q2.val = q.val /\ q2.due = q.due
  BY <1>2 DEF Request
<1>. HIDE DEF q2
<1>4. Ages(q2, now)
  BY <1>2, <1>3 DEF Ages
<1>5. Kept(Written(q)) /\ UNCHANGED memory
      /\ redis' \in {redis, Written(q)} /\ db' \in {db, Written(q)}
  BY <1>2, NoneIsKept DEF WriteRedis, WriteDb, WriteFails, Written, Ages
<1>. HIDE DEF q
<1>6. TiersKept'
  BY <1>5 DEF AInv, TiersKept
<1>. QED BY <1>2, <1>4, <1>6, BecomesAges

LEMMA FinishDelAges == ASSUME IInv, AInv, NEW r \in Req, FinishDel(r) PROVE AInv'
<1>. DEFINE q == req[r]
<1>1. q.pc = "del" /\ q.todo = {} /\ UNCHANGED <<now, redis, db>>
  BY DEF FinishDel
<1>2. Active(q) /\ now \in Nat /\ q \in Request
  BY <1>1, RequestIsActive DEF Active
<1>3. CASE /\ q.op = "partial" /\ Becomes(r, Fetching(q, None, FirstFetch(q)))
           /\ Remember(q, None)
  <2>1. FirstFetch(q) \in SUBSET Section
    BY <1>2, SectionAssumption DEF FirstFetch, Request
  <2>2. Ages(Fetching(q, None, FirstFetch(q)), now)
    BY <1>2, <2>1, NoneIsKept, FetchingAges
  <2>3. TiersKept'
    BY <1>1, <1>3, NoneIsKept, RememberAges
  <2>. QED BY <1>1, <1>3, <2>2, <2>3, BecomesAges
<1>4. CASE q.op = "refresh" /\ LookUp(r, q)
  BY <1>1, <1>2, <1>4, LookUpAges
<1>5. CASE q.op = "delete" /\ Answers(r, q, None) /\ UNCHANGED memory
  BY <1>1, <1>2, <1>5, TiersKeptStay, NoneIsSound, NoneIsKept, AnswersAges
<1>. QED BY <1>3, <1>4, <1>5 DEF FinishDel

\* No await is overdue when time passes.
LEMMA EnvironmentAges == ASSUME IInv, AInv, Environment PROVE AInv'
<1>1. /\ now \in Nat /\ answer' = None /\ now' \in Nat
      /\ \A r \in Req : req'[r] \in {req[r], Idle}
  BY DEF Environment, RedisExpires, Tick, Crash, Upkeep, IInv
<1>2. /\ \A p \in Proc : memory'[p] \in {memory[p], None}
      /\ redis' \in {redis, None} /\ db' \in {db, None}
  BY DEF Environment, RedisExpires, Tick, Crash, Upkeep, Cleanup, PerformOptimization,
         OptimizeMemoryCache, OptimizeDatabaseCache, Expired, IInv, TiersSound
<1>3. TiersKept'
  BY <1>2, NoneIsKept DEF AInv, TiersKept
<1>4. ASSUME NEW r \in Req PROVE Ages(req'[r], now')
  <2>1. Ages(req[r], now) /\ req[r].due \in Nat
    BY DEF AInv, IInv, Request
  <2>2. req[r].pc # "idle" => now' <= req[r].due
    <3>1. CASE Tick
      BY <1>1, <2>1, <3>1 DEF Tick
    <3>2. CASE now' = now
      BY <2>1, <3>2 DEF Ages
    <3>. QED BY <3>1, <3>2 DEF Environment, RedisExpires, Crash, Upkeep
  <2>3. Ages(req[r], now')
    BY <2>1, <2>2 DEF Ages
  <2>4. Ages(Idle, now')
    BY NoneIsKept DEF Ages, Idle
  <2>. QED BY <1>1, <2>3, <2>4
<1>. QED BY <1>1, <1>3, <1>4 DEF AInv, SectionAge, Served

LEMMA InitAges == Init => AInv
BY IdleAges, NoneIsKept DEF Init, AInv, TiersKept, SectionAge, Served

LEMMA NextAges == IInv /\ AInv /\ [Next]_vars => AInv'
<1>. SUFFICES ASSUME IInv, AInv, [Next]_vars PROVE AInv'
  OBVIOUS
<1>1. CASE UNCHANGED vars
  BY <1>1 DEF vars, AInv, TiersKept, SectionAge, Served
<1>2. CASE \E r \in Req : Start(r) \/ Continue(r)
  BY <1>2, StartAges, RedisAnswersAges, RedisDropsStaleAges, DbAnswersAges, RedisSyncsAges,
     FetchSucceedsAges, RepliesAge, WriteAges, FinishDelAges DEF Continue
<1>. QED BY <1>1, <1>2, EnvironmentAges DEF Next

\* However merges, overwrites, losses and reads of several processes interleave, no section is
\* served older than one renewal for each section there is.
THEOREM SectionAgeHolds == Spec => []SectionAge
<1>1. AInv => SectionAge
  BY DEF AInv
<1>. QED BY InitHolds, NextHolds, InitAges, NextAges, <1>1, PTL DEF Spec
=============================================================================
