------------------------------ MODULE RosterProofs ------------------------------
(* The queue and the rosters, for every number of characters and requests, *)
(* every size of a batch and whatever else runs between the awaits.        *)
EXTENDS Roster, WellFoundedInduction, TLAPS

-----------------------------------------------------------------------------
(* The queue *)

\* Items are in a batch only while the flag is set.
QInv ==
    /\ timers \in Nat
    /\ batch # <<>> => isProcessing
    /\ NoneForgotten

LEMMA QInitHolds == Init => QInv
BY DEF Init, QInv, NoneForgotten

\* Whoever calls it and whatever the queue holds: what it leaves waiting, a batch comes before.
LEMMA ProcessQueueHolds ==
    ASSUME NEW q, QInv, ProcessQueue(q), timers' \in Nat PROVE QInv'
<1>1. CASE isProcessing \/ q = <<>>
  BY <1>1 DEF ProcessQueue, QInv, NoneForgotten
<1>2. CASE ~(isProcessing \/ q = <<>>)
  BY <1>2 DEF ProcessQueue, QInv, NoneForgotten
<1>. QED BY <1>1, <1>2

LEMMA AddToQueueHolds == ASSUME NEW items, QInv, AddToQueue(items) PROVE QInv'
BY ProcessQueueHolds DEF AddToQueue, QInv

LEMMA QueueNextHolds == ASSUME QInv, QueueNext PROVE QInv'
<1>1. CASE \E i \in DOMAIN batch : Settles(i)
  <2>. PICK i \in DOMAIN batch : Settles(i)
    BY <1>1
  <2>1. batch # <<>>
    OBVIOUS
  <2>2. UNCHANGED <<isProcessing, timers>>
    BY DEF Settles, ItemSucceeds, ItemFails
  <2>. QED BY <2>1, <2>2 DEF QInv, NoneForgotten
<1>2. CASE BatchEnds
  BY <1>2 DEF BatchEnds, QInv, NoneForgotten
<1>3. CASE TimerFires
  <2>1. timers' \in Nat /\ ProcessQueue(queue)
    BY <1>3 DEF TimerFires, QInv
  <2>. QED BY <2>1, ProcessQueueHolds
<1>. QED BY <1>1, <1>2, <1>3 DEF QueueNext

LEMMA QNextHolds == QInv /\ [Next]_vars => QInv'
<1>. SUFFICES ASSUME QInv, [Next]_vars PROVE QInv'
  OBVIOUS
<1>1. CASE UNCHANGED queueVars
  BY <1>1 DEF queueVars, QInv, NoneForgotten
<1>2. CASE QueueNext
  BY <1>2, QueueNextHolds
<1>3. CASE \E r \in Request : SiblingsArrive(r)
  <2>. PICK r \in Request : SiblingsArrive(r)
    BY <1>3
  <2>. PICK items : UNCHANGED queueVars \/ AddToQueue(items)
    BY DEF SiblingsArrive, HandleAccount
  <2>. QED BY <1>1, AddToQueueHolds
<1>4. CASE Next /\ ~QueueNext /\ ~\E r \in Request : SiblingsArrive(r)
  BY <1>1, <1>4 DEF Next, Asks, UpstreamAnswers, SiblingsFail, Expires, UpstreamChanges
<1>. QED BY <1>1, <1>2, <1>3, <1>4 DEF vars

\* No item waits in the queue for the next request to come, whatever fails in the batch before it.
THEOREM NoneForgottenHolds == Spec => []NoneForgotten
<1>1. QInv => NoneForgotten
  BY DEF QInv
<1>. QED BY QInitHolds, QNextHolds, <1>1, PTL DEF Spec

-----------------------------------------------------------------------------
(* The rosters *)

Typed ==
    /\ upstream \in Levels /\ announced \in Levels
    /\ account \in [Char -> Levels] /\ charAccount \in [Char -> Char \cup {0}]
    /\ request \in [Request -> RequestRecord] /\ since \in [Request -> SUBSET Levels]

\* Where the data of a reply comes from.
Sourced ==
    \A r \in Request :
        /\ request[r].pc = "asking" => request[r].char \in Char /\ upstream \in since[r]
        /\ request[r].pc = "answered" =>
              request[r].answer \in since[r] /\ Listed(request[r].answer) # {}

\* What a request has read before its await, an item announced, and it is of an account with an id.
Announced ==
    \A r \in Request :
        /\ request[r].existing # Nobody => request[r].id \in Char
        /\ \A c \in Char : request[r].existing[c] <= announced[c]

IInv == Typed /\ Sourced /\ Announced /\ ReplyFromApi /\ RisesQueued

LEMMA NobodyIsLevels == Nobody \in Levels /\ \A c \in Char : Nobody[c] = 0
BY BoundAssumption DEF Nobody, Levels

LEMMA LevelsAreNumbers ==
    ASSUME NEW roster \in Levels, NEW c \in Char
    PROVE  roster[c] \in 0 .. MaxLevel /\ roster[c] \in Nat
BY BoundAssumption DEF Levels

LEMMA IdleIsRecord == Idle \in RequestRecord
BY NobodyIsLevels DEF Idle, RequestRecord

LEMMA MaxOfTwo ==
    ASSUME NEW a \in 0 .. MaxLevel, NEW b \in 0 .. MaxLevel
    PROVE  Max({a, b}) \in 0 .. MaxLevel /\ Max({a, b}) >= a /\ Max({a, b}) >= b
<1>1. \E x \in {a, b} : \A y \in {a, b} : x >= y
  <2>1. CASE a >= b
    BY <2>1
  <2>2. CASE b >= a
    BY <2>2
  <2>. QED BY <2>1, <2>2, BoundAssumption
<1>2. Max({a, b}) \in {a, b} /\ \A y \in {a, b} : Max({a, b}) >= y
  BY <1>1 DEF Max
<1>. QED BY <1>2

\* The first of the characters an answer lists.
LEMMA FirstIsListed ==
    ASSUME NEW roster, Listed(roster) # {}
    PROVE  Min(Listed(roster)) \in Char
<1>. DEFINE S == Listed(roster)
<1>1. S \subseteq Nat /\ S \subseteq Char
  BY CharAssumption DEF Listed
<1>2. \E x \in S : \A y \in S : ~(<<y, x>> \in OpToRel(<, Nat))
  BY <1>1, NatLessThanWellFounded, WFMin
<1>3. \E x \in S : \A y \in S : x <= y
  <2>1. PICK x \in S : \A y \in S : ~(<<y, x>> \in OpToRel(<, Nat))
    BY <1>2
  <2>2. \A y \in S : ~(y < x)
    BY <1>1, <2>1 DEF OpToRel
  <2>. QED BY <1>1, <2>2
<1>4. Min(S) \in S
  BY <1>3 DEF Min
<1>. QED BY <1>1, <1>4

LEMMA InitHolds == Init => IInv
<1>. SUFFICES ASSUME Init PROVE IInv
  OBVIOUS
<1>1. upstream \in Levels
  BY BoundAssumption DEF Init, Levels
<1>2. Typed
  BY <1>1, NobodyIsLevels, IdleIsRecord DEF Init, Typed
<1>. QED BY <1>2, NobodyIsLevels
         DEF Init, IInv, Sourced, Announced, ReplyFromApi, RisesQueued, Idle

\* A request that has ended or has never been asks for nothing.
LEMMA ReadHolds ==
    ASSUME IInv, NEW c \in Char
    PROVE  /\ GetAccountByCharacter(c) \in Levels
           /\ GetAccountByCharacter(c) # Nobody => charAccount[c] \in Char
           /\ \A d \in Char : GetAccountByCharacter(c)[d] <= announced[d]
<1>1. CASE charAccount[c] = 0
  BY <1>1, NobodyIsLevels, LevelsAreNumbers DEF GetAccountByCharacter, IInv, Typed
<1>2. CASE charAccount[c] # 0
  BY <1>2 DEF GetAccountByCharacter, IInv, Typed, RisesQueued
<1>. QED BY <1>1, <1>2

\* A step that gives one slot a request that is consistent by itself.
LEMMA OneRequestHolds ==
    ASSUME IInv, NEW r \in Request, NEW q \in RequestRecord, NEW rosters \in SUBSET Levels,
           request' = [request EXCEPT ![r] = q], since' = [since EXCEPT ![r] = rosters],
           UNCHANGED <<upstream, cacheVars, announced>>,
           q.pc = "asking" => q.char \in Char /\ upstream \in rosters,
           q.pc = "answered" => q.answer \in rosters /\ Listed(q.answer) # {},
           q.existing # Nobody => q.id \in Char,
           \A c \in Char : q.existing[c] <= announced[c],
           q.pc = "done" /\ ~q.hit => q.data \in rosters
    PROVE  IInv'
<1>1. Typed'
  BY DEF IInv, Typed, cacheVars
<1>2. \A s \in Request : /\ request'[s] = (IF s = r THEN q ELSE request[s])
                         /\ since'[s] = (IF s = r THEN rosters ELSE since[s])
  BY DEF IInv, Typed
<1>3. Sourced'
  BY <1>2 DEF IInv, Sourced
<1>4. Announced'
  BY <1>2 DEF IInv, Announced
<1>5. ReplyFromApi'
  BY <1>2 DEF IInv, ReplyFromApi
<1>. QED BY <1>1, <1>3, <1>4, <1>5 DEF IInv, RisesQueued, cacheVars

LEMMA AskHolds ==
    ASSUME IInv, NEW r \in Request, NEW c \in Char, Ask(r, c), UNCHANGED <<upstream, announced>>
    PROVE  IInv'
<1>. DEFINE q == [Idle EXCEPT !.char = c, !.pc = "asking",
                              !.existing = GetAccountByCharacter(c), !.id = charAccount[c]]
<1>1. request' = [request EXCEPT ![r] = q] /\ since' = [since EXCEPT ![r] = {upstream}]
  BY DEF Ask
<1>2. q \in RequestRecord /\ {upstream} \in SUBSET Levels
  BY ReadHolds, IdleIsRecord DEF RequestRecord, IInv, Typed
<1>3. UNCHANGED cacheVars
  BY DEF Ask
<1>4. /\ q.pc = "asking" /\ q.char = c
      /\ q.existing = GetAccountByCharacter(c) /\ q.id = charAccount[c]
  BY IdleIsRecord DEF RequestRecord
<1>. HIDE DEF q
<1>. QED BY <1>1, <1>2, <1>3, <1>4, ReadHolds, OneRequestHolds

LEMMA HitHolds ==
    ASSUME IInv, NEW r \in Request, NEW c \in Char, GetCharacterHit(r, c),
           UNCHANGED <<upstream, announced>>
    PROVE  IInv'
<1>. DEFINE q == [Idle EXCEPT !.pc = "done", !.hit = TRUE, !.data = GetAccountByCharacter(c)]
<1>1. request' = [request EXCEPT ![r] = q] /\ since' = [since EXCEPT ![r] = {}]
  BY DEF GetCharacterHit
<1>2. q \in RequestRecord
  BY ReadHolds, IdleIsRecord DEF RequestRecord
<1>3. UNCHANGED cacheVars
  BY DEF GetCharacterHit
<1>4. q.pc = "done" /\ q.hit /\ q.existing = Nobody
  BY DEF Idle
<1>5. \A d \in Char : q.existing[d] <= announced[d]
  BY <1>4, NobodyIsLevels, LevelsAreNumbers DEF IInv, Typed
<1>. HIDE DEF q
<1>. QED BY <1>1, <1>2, <1>3, <1>4, <1>5, OneRequestHolds

\* Entries that are deleted leave what is cached announced.
LEMMA DeletedHolds ==
    ASSUME IInv, NEW id \in Char \cup {0}, NEW gone \in SUBSET Char,
           account' = [account EXCEPT ![id] = Nobody] \/ account' = account,
           charAccount' = [d \in Char |-> IF d \in gone THEN 0 ELSE charAccount[d]],
           UNCHANGED <<upstream, request, since, announced>>
    PROVE  IInv'
<1>1. Typed'
  BY NobodyIsLevels DEF IInv, Typed
<1>2. RisesQueued'
  <2>. SUFFICES ASSUME NEW i \in Char, NEW c \in Char PROVE account'[i][c] <= announced[c]
    BY DEF RisesQueued
  <2>1. account'[i] = Nobody \/ account'[i] = account[i]
    BY DEF IInv, Typed
  <2>. QED BY <2>1, NobodyIsLevels, LevelsAreNumbers DEF IInv, Typed, RisesQueued
<1>. QED BY <1>1, <1>2 DEF IInv, Sourced, Announced, ReplyFromApi

LEMMA ExpiresHolds == ASSUME IInv, NEW c \in Char, Expires(c) PROVE IInv'
<1>. DEFINE gone == IF charAccount' = charAccount THEN {} ELSE {c}
<1>1. account' = [account EXCEPT ![c] = Nobody] \/ account' = account
  BY DEF Expires
<1>2. gone \in SUBSET Char
      /\ charAccount' = [d \in Char |-> IF d \in gone THEN 0 ELSE charAccount[d]]
  BY DEF Expires, IInv, Typed
<1>3. UNCHANGED <<upstream, request, since, announced>>
  BY DEF Expires
<1>. QED BY <1>1, <1>2, <1>3, DeletedHolds

LEMMA RefreshHolds ==
    ASSUME IInv, NEW r \in Request, NEW c \in Char, RefreshCharacter(r, c),
           UNCHANGED <<upstream, announced>>
    PROVE  IInv'
<1>. DEFINE q == [Idle EXCEPT !.char = c, !.pc = "asking"]
<1>1. request' = [request EXCEPT ![r] = q] /\ since' = [since EXCEPT ![r] = {upstream}]
  BY DEF RefreshCharacter
<1>2. q \in RequestRecord /\ q.pc = "asking" /\ q.char = c /\ q.existing = Nobody
  BY IdleIsRecord DEF RequestRecord, Idle
<1>. HIDE DEF q
<1>3. /\ account' \in [Char -> Levels] /\ charAccount' \in [Char -> Char \cup {0}]
      /\ \A i, d \in Char : account'[i][d] <= announced[d]
  <2>1. CASE UNCHANGED cacheVars
    BY <2>1 DEF cacheVars, IInv, Typed, RisesQueued
  <2>2. CASE ~UNCHANGED cacheVars
    <3>1. /\ account' = [account EXCEPT ![charAccount[c]] = Nobody]
          /\ charAccount' \in [Char -> Char \cup {0}]
      BY <2>2 DEF RefreshCharacter, DeleteAccountInfo, IInv, Typed
    <3>2. \A i \in Char : account'[i] = Nobody \/ account'[i] = account[i]
      BY <3>1 DEF IInv, Typed
    <3>3. account' \in [Char -> Levels]
      BY <3>1, NobodyIsLevels DEF IInv, Typed
    <3>. QED BY <3>1, <3>2, <3>3, NobodyIsLevels, LevelsAreNumbers DEF IInv, Typed, RisesQueued
  <2>. QED BY <2>1, <2>2
<1>4. Typed'
  BY <1>1, <1>2, <1>3 DEF IInv, Typed
<1>5. \A s \in Request : /\ request'[s] = (IF s = r THEN q ELSE request[s])
                         /\ since'[s] = (IF s = r THEN {upstream} ELSE since[s])
  BY <1>1 DEF IInv, Typed
<1>6. Sourced'
  BY <1>2, <1>5 DEF IInv, RefreshCharacter, Sourced
<1>7. Announced'
  BY <1>2, <1>5, NobodyIsLevels, LevelsAreNumbers DEF IInv, Typed, Announced
<1>8. ReplyFromApi'
  BY <1>2, <1>5 DEF IInv, ReplyFromApi
<1>. QED BY <1>3, <1>4, <1>6, <1>7, <1>8 DEF IInv, RisesQueued

LEMMA AsksHolds == ASSUME IInv, NEW r \in Request, NEW c \in Char, Asks(r, c) PROVE IInv'
<1>1. UNCHANGED <<upstream, announced>>
  BY DEF Asks
<1>. QED BY <1>1, AskHolds, HitHolds, RefreshHolds DEF Asks, GetCharacter

LEMMA UpstreamAnswersHolds == ASSUME IInv, NEW r \in Request, UpstreamAnswers(r) PROVE IInv'
<1>. DEFINE q == [request[r] EXCEPT !.pc = "answered", !.char = 0, !.answer = upstream]
<1>1. /\ request' = [request EXCEPT ![r] = q] /\ since' = [since EXCEPT ![r] = since[r]]
      /\ UNCHANGED <<upstream, cacheVars, announced>>
  BY DEF UpstreamAnswers, IInv, Typed
<1>2. q \in RequestRecord /\ since[r] \in SUBSET Levels
  BY DEF IInv, Typed, RequestRecord
<1>3. upstream \in since[r] /\ Listed(upstream) # {}
  BY DEF UpstreamAnswers, IInv, Sourced, Listed
<1>4. q.pc = "answered" /\ q.answer = upstream /\ q.existing = request[r].existing
      /\ q.id = request[r].id
  BY DEF IInv, Typed, RequestRecord
<1>5. /\ q.existing # Nobody => q.id \in Char
      /\ \A c \in Char : q.existing[c] <= announced[c]
  BY <1>4 DEF IInv, Announced
<1>. HIDE DEF q
<1>. QED BY <1>1, <1>2, <1>3, <1>4, <1>5, OneRequestHolds

LEMMA SiblingsFailHolds == ASSUME IInv, NEW r \in Request, SiblingsFail(r) PROVE IInv'
<1>1. /\ request' = [request EXCEPT ![r] = Idle] /\ since' = [since EXCEPT ![r] = {}]
      /\ UNCHANGED <<upstream, cacheVars, announced>>
  BY DEF SiblingsFail
<1>2. \A c \in Char : Idle.existing[c] <= announced[c]
  BY NobodyIsLevels, LevelsAreNumbers DEF Idle, IInv, Typed
<1>3. Idle.existing = Nobody /\ Idle.pc = "idle"
  BY DEF Idle
<1>. QED BY <1>1, <1>2, <1>3, IdleIsRecord, OneRequestHolds

LEMMA UpstreamChangesHolds ==
    ASSUME IInv, NEW c \in Char, NEW level \in 0 .. MaxLevel, UpstreamChanges(c, level) PROVE IInv'
<1>1. upstream' \in Levels
  BY DEF UpstreamChanges, IInv, Typed, Levels
<1>2. \A r \in Request : /\ since[r] \subseteq since'[r] /\ since'[r] \in SUBSET Levels
                         /\ request[r].pc = "asking" => upstream' \in since'[r]
  BY <1>1 DEF UpstreamChanges, Open, IInv, Typed
<1>3. UNCHANGED <<account, charAccount, request, announced>>
      /\ since' \in [Request -> SUBSET Levels]
  BY <1>1 DEF UpstreamChanges, cacheVars, IInv, Typed
<1>. QED BY <1>1, <1>2, <1>3 DEF IInv, Typed, Sourced, Announced, ReplyFromApi, RisesQueued

\* What an answer changes in the cache is announced with it, or was when the account it was compared
\* with was cached.
LEMMA SiblingsArriveHolds == ASSUME IInv, NEW r \in Request, SiblingsArrive(r) PROVE IInv'
<1>. DEFINE old == request[r].existing
            new == request[r].answer
            priority == DetectChanges(old, new)
            id == IF old = Nobody THEN Min(Listed(new)) ELSE request[r].id
            q == [Idle EXCEPT !.pc = "done", !.data = new]
<1>1. /\ SetAccountInfo(id, new) /\ UNCHANGED <<upstream, since>>
      /\ announced' = [c \in Char |-> IF priority[c] > 0 THEN Max({announced[c], new[c]})
                                      ELSE announced[c]]
  BY DEF SiblingsArrive, HandleAccount
<1>2. request' = [request EXCEPT ![r] = q]
  BY DEF SiblingsArrive
<1>3. new \in Levels /\ old \in Levels /\ new \in since[r] /\ Listed(new) # {}
  BY DEF SiblingsArrive, IInv, Typed, Sourced, RequestRecord
<1>4. id \in Char
  BY <1>3, FirstIsListed DEF IInv, Announced
<1>5. announced' \in Levels
      /\ \A c \in Char : announced[c] <= announced'[c] /\ new[c] <= announced'[c]
  <2>. SUFFICES ASSUME NEW c \in Char
                PROVE  /\ announced'[c] \in 0 .. MaxLevel
                       /\ announced[c] <= announced'[c] /\ new[c] <= announced'[c]
    BY <1>1 DEF Levels
  <2>1. /\ announced[c] \in 0 .. MaxLevel /\ announced[c] \in Nat
        /\ old[c] \in 0 .. MaxLevel /\ old[c] \in Nat /\ new[c] \in 0 .. MaxLevel /\ new[c] \in Nat
        /\ old[c] <= announced[c]
    BY <1>3, LevelsAreNumbers DEF IInv, Typed, Announced
  <2>2. CASE priority[c] > 0
    BY <1>1, <2>1, <2>2, MaxOfTwo
  <2>3. CASE ~(priority[c] > 0)
    <3>1. new[c] = 0 \/ new[c] <= old[c]
      BY <2>1, <2>3 DEF DetectChanges
    <3>2. announced'[c] = announced[c]
      BY <1>1, <2>3
    <3>. QED BY <2>1, <3>1, <3>2
  <2>. QED BY <2>2, <2>3
<1>6. /\ account' = [account EXCEPT ![id] = new] /\ account' \in [Char -> Levels]
      /\ charAccount' \in [Char -> Char \cup {0}]
  BY <1>1, <1>3, <1>4 DEF SetAccountInfo, IInv, Typed
<1>7. q \in RequestRecord /\ q.pc = "done" /\ q.data = new /\ q.existing = Nobody
  BY <1>3, IdleIsRecord DEF RequestRecord, Idle
<1>. HIDE DEF id, priority, q
<1>8. Typed'
  BY <1>1, <1>2, <1>5, <1>6, <1>7 DEF IInv, Typed
<1>9. \A s \in Request : request'[s] = IF s = r THEN q ELSE request[s]
  BY <1>2 DEF IInv, Typed
<1>10. Sourced' /\ ReplyFromApi'
  BY <1>1, <1>3, <1>7, <1>9 DEF IInv, Sourced, ReplyFromApi
<1>11. Announced'
  <2>. SUFFICES ASSUME NEW s \in Request
                PROVE  /\ request'[s].existing # Nobody => request'[s].id \in Char
                       /\ \A c \in Char : request'[s].existing[c] <= announced'[c]
    BY DEF Announced
  <2>1. CASE s = r
    BY <1>5, <1>7, <1>9, <2>1, NobodyIsLevels, LevelsAreNumbers
  <2>2. CASE s # r
    <3>1. \A c \in Char : /\ request[s].existing[c] \in Nat
                          /\ announced[c] \in Nat /\ announced'[c] \in Nat
      BY <1>5, LevelsAreNumbers DEF IInv, Typed, RequestRecord
    <3>. QED BY <1>5, <1>9, <2>2, <3>1 DEF IInv, Announced
  <2>. QED BY <2>1, <2>2
<1>12. RisesQueued'
  <2>. SUFFICES ASSUME NEW i \in Char, NEW c \in Char PROVE account'[i][c] <= announced'[c]
    BY DEF RisesQueued
  <2>1. account[i][c] \in Nat /\ announced[c] \in Nat /\ announced'[c] \in Nat
    BY <1>5, LevelsAreNumbers DEF IInv, Typed
  <2>2. CASE i = id
    BY <1>4, <1>5, <1>6, <2>2 DEF IInv, Typed
  <2>3. CASE i # id
    BY <1>5, <1>6, <2>1, <2>3 DEF IInv, Typed, RisesQueued
  <2>. QED BY <2>2, <2>3
<1>. QED BY <1>8, <1>10, <1>11, <1>12 DEF IInv

LEMMA NextHolds == IInv /\ [Next]_vars => IInv'
<1>. SUFFICES ASSUME IInv, [Next]_vars PROVE IInv'
  OBVIOUS
<1>1. CASE UNCHANGED <<upstream, cacheVars, request, since, announced>>
  BY <1>1 DEF cacheVars, IInv, Typed, Sourced, Announced, ReplyFromApi, RisesQueued
<1>2. CASE QueueNext
  BY <1>1, <1>2 DEF QueueNext, Settles, ItemSucceeds, ItemFails, BatchEnds, TimerFires
<1>3. CASE \E r \in Request :
             (\E c \in Char : Asks(r, c)) \/ UpstreamAnswers(r) \/ SiblingsFail(r) \/ SiblingsArrive(r)
  BY <1>3, AsksHolds, UpstreamAnswersHolds, SiblingsFailHolds, SiblingsArriveHolds
<1>4. CASE \E c \in Char : Expires(c) \/ \E level \in 0 .. MaxLevel : UpstreamChanges(c, level)
  BY <1>4, ExpiresHolds, UpstreamChangesHolds
<1>. QED BY <1>1, <1>2, <1>3, <1>4 DEF Next, vars

\* No item level gets into the cache without an item having been queued for it, whatever other
\* requests do to the account between the read of a request and the answer of the upstream.
THEOREM RisesQueuedHolds == Spec => []RisesQueued
<1>1. IInv => RisesQueued
  BY DEF IInv
<1>. QED BY InitHolds, NextHolds, <1>1, PTL DEF Spec

\* A reply that is said to be the upstream's is a roster the upstream had after the request was made.
THEOREM ReplyFromApiHolds == Spec => []ReplyFromApi
<1>1. IInv => ReplyFromApi
  BY DEF IInv
<1>. QED BY InitHolds, NextHolds, <1>1, PTL DEF Spec
=============================================================================
