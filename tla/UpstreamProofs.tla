----------------------------- MODULE UpstreamProofs -----------------------------
(***************************************************************************)
(* How old a result of a search may be, for every number of requests, keys *)
(* and items, every TTL and every duration of a call; and what the client  *)
(* below sends to the upstream and how long its callers wait, for every    *)
(* number of jobs and calls, every limit, window, delay and time limit.    *)
(***************************************************************************)
EXTENDS Searches, UpstreamClient, FiniteSetTheorems, WellFoundedInduction, TLAPS

LEMMA MaxOfTwo ==
    ASSUME NEW a \in Nat, NEW b \in Nat
    PROVE  Max({a, b}) \in Nat /\ Max({a, b}) \in {a, b} /\ Max({a, b}) >= a /\ Max({a, b}) >= b
<1>1. \E x \in {a, b} : \A y \in {a, b} : x >= y
  <2>1. CASE a >= b
    BY <2>1
  <2>2. CASE b >= a
    BY <2>2
  <2>. QED BY <2>1, <2>2
<1>2. Max({a, b}) \in {a, b} /\ \A y \in {a, b} : Max({a, b}) >= y
  BY <1>1 DEF Max
<1>. QED BY <1>2

-----------------------------------------------------------------------------
(* 1. Searches *)

\* An entry was stored when the call that brought it ended, after it was asked.
StoredInTime ==
    \A k \in Key : cache[k] # None =>
        /\ cache[k].data <= cache[k].timestamp /\ cache[k].timestamp <= now
        /\ cache[k].timestamp <= cache[k].data + CallMax

\* Nothing was served that was asked after the entry of its key was stored.
ServedBefore ==
    \A k \in Key : served[k] # None =>
        served[k] <= now /\ (cache[k] # None => served[k] <= cache[k].timestamp)

\* A call that has not ended is within its time, and a search is one search.
CallsInTime ==
    \A r \in Request : Open(r) =>
        /\ request[r].since <= now /\ now <= request[r].due
        /\ request[r].due = request[r].since + CallMax
        /\ request[r].route = "auctions" => \E k \in Key : request[r].asked = {k}

IInv == TypeOK /\ StoredInTime /\ ServedBefore /\ CallsInTime /\ ReplyAge /\ StepsBackLittle
-----------------------------------------------------------------------------
LEMMA IdleIsRecord == Idle \in RequestRecord /\ Idle.route = None
BY DEF Idle, RequestRecord

LEMMA InitHolds == Init => IInv
BY IdleIsRecord, TimeAssumption
   DEF Init, IInv, TypeOK, StoredInTime, ServedBefore, CallsInTime, Open, ReplyAge,
       StepsBackLittle, Succeeds

\* A result that is served as the newest of its key, at most a call after it was asked, or out of
\* an entry, keeps what the history says.
LEMMA ServesHolds ==
    ASSUME IInv, NEW k \in Key, NEW data \in Nat, Serves(k, data), UNCHANGED now,
           data <= now, now - data <= CallMax + SearchTtl,
           served[k] # None => served[k] <= data + CallMax,
           \A j \in Key : cache'[j] # None =>
               \/ j # k /\ cache'[j] = cache[j]
               \/ /\ j = k /\ cache'[j].timestamp \in Nat /\ data <= cache'[j].timestamp
                  /\ served[j] # None => served[j] <= cache'[j].timestamp
    PROVE  /\ reply' \in Reply /\ served' \in [Key -> Nat \cup {None}]
           /\ ServedBefore' /\ ReplyAge' /\ StepsBackLittle'
<1>1. served \in [Key -> Nat \cup {None}] /\ now \in Nat /\ CallMax \in Nat /\ SearchTtl \in Nat
  BY TimeAssumption DEF IInv, TypeOK
<1>. DEFINE newest == IF served[k] = None THEN data ELSE Max({served[k], data})
<1>2. newest \in Nat /\ data <= newest /\ newest <= data + CallMax /\ newest <= now
      /\ (newest = data \/ (served[k] # None /\ newest = served[k]))
  <2>1. CASE served[k] = None
    BY <1>1, <2>1
  <2>2. CASE served[k] # None
    <3>1. served[k] \in Nat /\ served[k] <= now
      BY <1>1, <2>2 DEF IInv, ServedBefore
    <3>. QED BY <1>1, <2>2, <3>1, MaxOfTwo
  <2>. QED BY <2>1, <2>2
<1>3. served' = [served EXCEPT ![k] = newest]
  BY DEF Serves
<1>. HIDE DEF newest
<1>4. served' \in [Key -> Nat \cup {None}]
  BY <1>1, <1>2, <1>3
<1>5. reply' = [status |-> 200, route |-> "auctions", asked |-> {k}, oldest |-> data]
  BY DEF Serves, Replies
<1>6. reply' \in Reply
  BY <1>5 DEF Reply, Routes
<1>7. ServedBefore'
  <2>. SUFFICES ASSUME NEW j \in Key, served'[j] # None
                PROVE  /\ served'[j] <= now
                       /\ cache'[j] # None => served'[j] <= cache'[j].timestamp
    BY DEF ServedBefore
  <2>1. CASE j = k
    <3>1. served'[k] = newest
      BY <1>1, <1>3
    <3>2. cache'[k] # None => newest <= cache'[k].timestamp
      BY <1>1, <1>2
    <3>. QED BY <1>2, <2>1, <3>1, <3>2
  <2>2. CASE j # k
    <3>1. served'[j] = served[j]
      BY <1>1, <1>3, <2>2
    <3>. QED BY <2>2, <3>1 DEF IInv, ServedBefore
  <2>. QED BY <2>1, <2>2
<1>8. ReplyAge'
  BY <1>1, <1>5 DEF ReplyAge, Succeeds
<1>9. StepsBackLittle'
  <2>1. served'[k] = newest
    BY <1>1, <1>3
  <2>. QED BY <1>1, <1>2, <1>5, <2>1 DEF StepsBackLittle, Succeeds
<1>. QED BY <1>4, <1>6, <1>7, <1>8, <1>9

LEMMA TickHolds == ASSUME IInv, Tick PROVE IInv'
<1>1. now \in Nat /\ now' = now + 1 /\ now' \in 0 .. MaxTime /\ CallMax \in Nat
  BY TimeAssumption DEF IInv, TypeOK, Tick
<1>2. UNCHANGED <<cache, request, served>> /\ reply' = None
  BY DEF Tick
<1>3. TypeOK'
  BY <1>1, <1>2 DEF IInv, TypeOK
<1>4. StoredInTime'
  BY <1>1, <1>2 DEF IInv, TypeOK, StoredInTime, Entry
<1>5. ServedBefore'
  BY <1>1, <1>2 DEF IInv, TypeOK, ServedBefore
<1>6. CallsInTime'
  BY <1>1, <1>2 DEF IInv, TypeOK, CallsInTime, Open, Tick, RequestRecord
<1>. QED BY <1>2, <1>3, <1>4, <1>5, <1>6 DEF IInv, ReplyAge, StepsBackLittle, Succeeds

LEMMA CleanupHolds == ASSUME IInv, NEW k \in Key, Cleanup(k) PROVE IInv'
<1>1. cache' = [cache EXCEPT ![k] = None] /\ reply' = None /\ UNCHANGED <<now, request, served>>
  BY DEF Cleanup
<1>. QED BY <1>1
         DEF IInv, TypeOK, StoredInTime, ServedBefore, CallsInTime, Open, ReplyAge,
             StepsBackLittle, Succeeds

LEMMA CallsHolds ==
    ASSUME IInv, NEW r \in Request, NEW route \in Routes, NEW wanted \in SUBSET (Key \cup Goods),
           Calls(r, route, wanted), UNCHANGED now,
           route = "auctions" => \E k \in Key : wanted = {k}
    PROVE  request' \in [Request -> RequestRecord] /\ CallsInTime'
<1>. DEFINE q == [route |-> route, asked |-> wanted, left |-> wanted, since |-> now,
                  due |-> now + CallMax]
<1>1. now \in Nat /\ CallMax \in Nat
  BY TimeAssumption DEF IInv, TypeOK
<1>2. request' = [request EXCEPT ![r] = q]
  BY DEF Calls
<1>3. q \in RequestRecord
  BY <1>1 DEF RequestRecord
<1>4. request' \in [Request -> RequestRecord]
  BY <1>2, <1>3 DEF IInv, TypeOK
<1>5. CallsInTime'
  BY <1>1, <1>2 DEF IInv, TypeOK, CallsInTime, Open
<1>. QED BY <1>4, <1>5

LEMMA SearchItemsHolds == ASSUME IInv, NEW r \in Request, NEW k \in Key, SearchItems(r, k) PROVE IInv'
<1>1. UNCHANGED now /\ now \in Nat /\ CallMax \in Nat /\ SearchTtl \in Nat
      /\ cache \in [Key -> Entry \cup {None}]
  BY TimeAssumption DEF SearchItems, IInv, TypeOK
<1>2. CASE Found(k) # None /\ Serves(k, Found(k).data) /\ UNCHANGED <<cache, request>>
  <2>1. Found(k) = cache[k] /\ cache[k] # None /\ now - cache[k].timestamp <= SearchTtl
    BY <1>2 DEF Found
  <2>2. cache[k].data \in Nat /\ cache[k].timestamp \in Nat
    BY <1>1, <2>1 DEF Entry
  <2>3. /\ cache[k].data <= cache[k].timestamp /\ cache[k].timestamp <= now
        /\ cache[k].timestamp <= cache[k].data + CallMax
        /\ served[k] # None => served[k] <= cache[k].timestamp
    BY <2>1 DEF IInv, StoredInTime, ServedBefore
  <2>4. served[k] # None => served[k] <= cache[k].data + CallMax
    BY <1>1, <2>2, <2>3 DEF IInv, TypeOK
  <2>5. /\ cache[k].data <= now /\ now - cache[k].data <= CallMax + SearchTtl
    BY <1>1, <2>1, <2>2, <2>3
  <2>6. \A j \in Key : cache'[j] # None =>
               \/ j # k /\ cache'[j] = cache[j]
               \/ /\ j = k /\ cache'[j].timestamp \in Nat /\ cache[k].data <= cache'[j].timestamp
                  /\ served[j] # None => served[j] <= cache'[j].timestamp
    BY <1>2, <2>2, <2>3
  <2>7. /\ reply' \in Reply /\ served' \in [Key -> Nat \cup {None}]
        /\ ServedBefore' /\ ReplyAge' /\ StepsBackLittle'
    BY <1>1, <1>2, <2>1, <2>2, <2>4, <2>5, <2>6, ServesHolds
  <2>8. TypeOK'
    BY <1>1, <1>2, <2>7 DEF IInv, TypeOK
  <2>. QED BY <1>1, <1>2, <2>7, <2>8 DEF IInv, StoredInTime, CallsInTime, Open
<1>3. CASE Found(k) = None /\ cache' = [cache EXCEPT ![k] = None] /\ Calls(r, "auctions", {k})
  <2>1. request' \in [Request -> RequestRecord] /\ CallsInTime'
    BY <1>1, <1>3, CallsHolds DEF Routes
  <2>2. reply' = None /\ UNCHANGED served
    BY <1>3 DEF Calls
  <2>3. TypeOK'
    BY <1>1, <1>3, <2>1, <2>2 DEF IInv, TypeOK
  <2>. QED BY <1>1, <1>3, <2>1, <2>2, <2>3
           DEF IInv, StoredInTime, ServedBefore, ReplyAge, StepsBackLittle, Succeeds
<1>. QED BY <1>2, <1>3 DEF SearchItems

LEMMA SearchAnswersHolds == ASSUME IInv, NEW r \in Request, SearchAnswers(r) PROVE IInv'
<1>. DEFINE since == request[r].since
<1>1. PICK k \in Key : Store(k, since) /\ Serves(k, since)
  <2>1. Open(r) /\ request[r].route = "auctions"
    BY NoneAssumption DEF SearchAnswers, Open
  <2>. QED BY <2>1 DEF SearchAnswers, IInv, CallsInTime
<1>2. since <= now /\ now <= since + CallMax /\ since \in Nat
  BY NoneAssumption DEF SearchAnswers, Open, IInv, CallsInTime, TypeOK, RequestRecord
<1>3. UNCHANGED now /\ now \in Nat /\ CallMax \in Nat /\ SearchTtl \in Nat
      /\ request' = [request EXCEPT ![r] = Idle] /\ cache \in [Key -> Entry \cup {None}]
  BY TimeAssumption DEF SearchAnswers, IInv, TypeOK
<1>4. cache' = [cache EXCEPT ![k] = [data |-> since, timestamp |-> now]]
  BY <1>1 DEF Store
<1>5. served[k] # None => served[k] <= now /\ served[k] \in Nat
  BY DEF IInv, ServedBefore, TypeOK
<1>. HIDE DEF since
<1>6. /\ reply' \in Reply /\ served' \in [Key -> Nat \cup {None}]
      /\ ServedBefore' /\ ReplyAge' /\ StepsBackLittle'
  <2>1. /\ now - since <= CallMax + SearchTtl
        /\ served[k] # None => served[k] <= since + CallMax
    BY <1>2, <1>3, <1>5
  <2>2. \A j \in Key : cache'[j] # None =>
               \/ j # k /\ cache'[j] = cache[j]
               \/ /\ j = k /\ cache'[j].timestamp \in Nat /\ since <= cache'[j].timestamp
                  /\ served[j] # None => served[j] <= cache'[j].timestamp
    BY <1>2, <1>3, <1>4, <1>5
  <2>. QED BY <1>1, <1>2, <1>3, <2>1, <2>2, ServesHolds
<1>7. [data |-> since, timestamp |-> now] \in Entry
  BY <1>2, <1>3 DEF Entry
<1>8. TypeOK'
  BY <1>3, <1>4, <1>6, <1>7, IdleIsRecord DEF IInv, TypeOK
<1>9. StoredInTime'
  BY <1>2, <1>3, <1>4 DEF IInv, StoredInTime
<1>10. CallsInTime'
  BY <1>3, IdleIsRecord DEF IInv, TypeOK, CallsInTime, Open
<1>. QED BY <1>6, <1>8, <1>9, <1>10 DEF IInv

LEMMA GetMarketsHolds ==
    ASSUME IInv, NEW r \in Request, NEW items \in SUBSET Goods, GetMarkets(r, items) PROVE IInv'
<1>1. UNCHANGED <<now, cache, served>> /\ now \in Nat
  BY DEF GetMarkets, Calls, IInv, TypeOK
<1>2. reply' \in Reply \cup {None} /\ (reply' # None => reply'.status = 400)
  BY <1>1 DEF GetMarkets, Calls, Replies, Reply, Routes
<1>3. request' \in [Request -> RequestRecord] /\ CallsInTime'
  <2>1. CASE UNCHANGED request
    BY <1>1, <2>1 DEF IInv, TypeOK, CallsInTime, Open
  <2>2. CASE Calls(r, "market", items)
    BY <1>1, <2>2, CallsHolds DEF Routes
  <2>. QED BY <2>1, <2>2 DEF GetMarkets
<1>. QED BY <1>1, <1>2, <1>3
         DEF IInv, TypeOK, StoredInTime, ServedBefore, ReplyAge, StepsBackLittle, Succeeds

LEMMA MarketAnswersHolds ==
    ASSUME IInv, NEW r \in Request, NEW item \in Goods, MarketAnswers(r, item) PROVE IInv'
<1>. DEFINE left == request[r].left \ {item}
<1>1. /\ UNCHANGED <<now, cache, served>> /\ now \in Nat /\ CallMax \in Nat
      /\ request[r] \in RequestRecord /\ request[r].route = "market"
  BY TimeAssumption DEF MarketAnswers, IInv, TypeOK
<1>2. request[r].since <= now /\ now <= request[r].since + CallMax /\ request[r].since \in Nat
      /\ request[r].asked \in SUBSET (Key \cup Goods)
  BY <1>1, NoneAssumption DEF IInv, CallsInTime, Open, RequestRecord
<1>3. CASE left = {}
  <2>1. /\ request' = [request EXCEPT ![r] = Idle]
        /\ reply' = [status |-> 200, route |-> "market", asked |-> request[r].asked,
                     oldest |-> request[r].since]
    BY <1>3 DEF MarketAnswers, Replies
  <2>2. reply' \in Reply
    BY <1>2, <2>1 DEF Reply, Routes
  <2>3. ReplyAge' /\ StepsBackLittle'
    BY <1>1, <1>2, <2>1 DEF ReplyAge, StepsBackLittle, Succeeds
  <2>4. TypeOK'
    BY <1>1, <2>1, <2>2, IdleIsRecord DEF IInv, TypeOK
  <2>5. CallsInTime'
    BY <1>1, <2>1, IdleIsRecord DEF IInv, TypeOK, CallsInTime, Open
  <2>. QED BY <1>1, <2>3, <2>4, <2>5 DEF IInv, StoredInTime, ServedBefore
<1>4. CASE left # {}
  <2>1. request' = [request EXCEPT ![r].left = left] /\ reply' = None
    BY <1>4 DEF MarketAnswers
  <2>2. request' \in [Request -> RequestRecord]
    BY <1>1, <2>1 DEF IInv, TypeOK, RequestRecord
  <2>3. CallsInTime'
    BY <1>1, <2>1 DEF IInv, TypeOK, CallsInTime, Open, RequestRecord
  <2>. QED BY <1>1, <2>1, <2>2, <2>3
           DEF IInv, TypeOK, StoredInTime, ServedBefore, ReplyAge, StepsBackLittle, Succeeds
<1>. QED BY <1>3, <1>4

LEMMA CallFailsHolds == ASSUME IInv, NEW r \in Request, CallFails(r) PROVE IInv'
<1>1. /\ UNCHANGED <<now, cache, served>> /\ request' = [request EXCEPT ![r] = Idle]
      /\ reply' = [status |-> 500, route |-> request[r].route, asked |-> request[r].asked,
                   oldest |-> now]
  BY DEF CallFails, Replies
<1>2. reply' \in Reply
  BY <1>1 DEF CallFails, Open, IInv, TypeOK, RequestRecord, Reply
<1>. QED BY <1>1, <1>2, IdleIsRecord
         DEF IInv, TypeOK, StoredInTime, ServedBefore, CallsInTime, Open, ReplyAge,
             StepsBackLittle, Succeeds

LEMMA NextHolds == IInv /\ [Next]_vars => IInv'
<1>. SUFFICES ASSUME IInv, [Next]_vars PROVE IInv'
  OBVIOUS
<1>1. CASE UNCHANGED vars
  BY <1>1 DEF vars, IInv, TypeOK, StoredInTime, ServedBefore, CallsInTime, Open, ReplyAge,
              StepsBackLittle, Succeeds
<1>2. CASE Next
  BY <1>2, TickHolds, CleanupHolds, SearchItemsHolds, SearchAnswersHolds, GetMarketsHolds,
     MarketAnswersHolds, CallFailsHolds DEF Next
<1>. QED BY <1>1, <1>2

\* A search replies with a result asked of the upstream at most a TTL and a call ago, and the market
\* with one asked at most a call ago, whatever requests are made side by side.
THEOREM ReplyAgeHolds == Spec => []ReplyAge
<1>1. IInv => ReplyAge
  BY DEF IInv
<1>. QED BY InitHolds, NextHolds, <1>1, PTL DEF Spec

\* No result of a search is older than one served before by more than a call takes, although the
\* answers of searches made side by side are stored in any order.
THEOREM StepsBackLittleHolds == Spec => []StepsBackLittle
<1>1. IInv => StepsBackLittle
  BY DEF IInv
<1>. QED BY InitHolds, NextHolds, <1>1, PTL DEF Spec

-----------------------------------------------------------------------------
(* 2. UpstreamClient *)

-----------------------------------------------------------------------------
(* What the filter leaves of a list of stamps. *)

Sorted(list) == \A i, k \in 1 .. Len(list) : i <= k => list[i] >= list[k]

\* A set of numbers that is not empty has a least one.
LEMMA Least ==
    ASSUME NEW S \in SUBSET Nat, S # {} PROVE \E x \in S : \A y \in S : x <= y
<1>1. PICK x \in S : \A y \in S : ~(<<y, x>> \in OpToRel(<, Nat))
  BY NatLessThanWellFounded, WFMin
<1>2. \A y \in S : ~(y < x)
  BY <1>1 DEF OpToRel
<1>. QED BY <1>2

LEMMA Parameters ==
    /\ Limit \in Nat /\ Limit >= 1 /\ Window \in Nat /\ Window >= 1 /\ Places \in Nat /\ Places >= 1
    /\ FetchMax \in Nat /\ RetryDelay \in Nat /\ RetryAttempts \in Nat
BY LimitAssumption, DelayAssumption

LEMMA Entries ==
    ASSUME NEW list \in Seq(Ages)
    PROVE  /\ Len(list) \in Nat
           /\ \A i \in 1 .. Len(list) : list[i] \in Ages /\ list[i] \in Nat /\ list[i] < Window
<1>1. Len(list) \in Nat /\ \A i \in 1 .. Len(list) : list[i] \in Ages
  OBVIOUS
<1>2. \A a \in Ages : a \in Nat /\ a < Window
  BY Parameters DEF Ages
<1>. QED BY <1>1, <1>2

Upto(K, i) == {k \in K : k <= i}

\* There is a first, a second, ... of a finite set of places.
LEMMA PlaceExists ==
    ASSUME NEW len \in Nat, NEW K, IsFiniteSet(K), \A k \in K : k \in 1 .. len,
           NEW n \in Nat, 1 <= n, n <= Cardinality(K)
    PROVE  \E i \in K : Cardinality(Upto(K, i)) = n
<1>1. \A i : IsFiniteSet(Upto(K, i)) /\ Cardinality(Upto(K, i)) \in Nat
  <2>1. \A i : Upto(K, i) \in SUBSET K
    BY DEF Upto
  <2>. QED BY <2>1, FS_Subset, FS_CardinalityType
<1>2. Cardinality(Upto(K, 0)) = 0
  <2>1. Upto(K, 0) = {}
    BY DEF Upto
  <2>. QED BY <2>1, FS_EmptySet
<1>3. Upto(K, len) = K
  BY DEF Upto
<1>. DEFINE T == {i \in 0 .. len : Cardinality(Upto(K, i)) >= n}
<1>4. len \in T
  BY <1>1, <1>3
<1>5. PICK i \in T : \A j \in T : i <= j
  <2>1. T \in SUBSET Nat
    OBVIOUS
  <2>2. T # {}
    BY <1>4
  <2>. HIDE DEF T
  <2>. QED BY <2>1, <2>2, Least
<1>6. i \in 1 .. len /\ i - 1 \in 0 .. len
  BY <1>2, <1>5
<1>7. Cardinality(Upto(K, i - 1)) < n
  <2>1. i - 1 \notin T
    BY <1>5, <1>6
  <2>. QED BY <1>1, <1>6, <2>1
<1>8. Cardinality(Upto(K, i)) >= n
  BY <1>5
<1>9. \A k \in K : k <= i <=> k <= i - 1 \/ k = i
  BY <1>6
<1>10. CASE i \in K
  <2>1. Upto(K, i) = Upto(K, i - 1) \cup {i}
    BY <1>6, <1>9, <1>10 DEF Upto
  <2>2. i \notin Upto(K, i - 1)
    BY <1>6 DEF Upto
  <2>3. Cardinality(Upto(K, i)) = Cardinality(Upto(K, i - 1)) + 1
    BY <1>1, <2>1, <2>2, FS_AddElement
  <2>4. Cardinality(Upto(K, i)) = n
    BY <1>1, <1>7, <1>8, <2>3
  <2>. QED BY <1>10, <2>4
<1>11. CASE i \notin K
  <2>1. Upto(K, i) = Upto(K, i - 1)
    BY <1>9, <1>11 DEF Upto
  <2>. QED BY <1>1, <1>7, <1>8, <2>1
<1>. QED BY <1>10, <1>11

\* The filter leaves stamps of the window.
LEMMA OlderTyped ==
    ASSUME NEW list \in Seq(Ages) PROVE Older(list) \in Seq(Ages)
<1>. DEFINE kept == {i \in 1 .. Len(list) : list[i] + 1 < Window}
            Place(n) == CHOOSE i \in kept : Cardinality(Upto(kept, i)) = n
<1>1. Older(list) = [n \in 1 .. Cardinality(kept) |-> list[Place(n)] + 1]
  BY DEF Older, Upto
<1>2. \A i \in kept : i \in 1 .. Len(list) /\ list[i] + 1 < Window
  OBVIOUS
<1>3. IsFiniteSet(kept)
  <2>1. IsFiniteSet(1 .. Len(list))
    <3>1. 1 \in Int /\ Len(list) \in Int
      BY Entries
    <3>. QED BY <3>1, FS_Interval
  <2>. QED BY <2>1, FS_Subset
<1>. HIDE DEF kept
<1>4. Cardinality(kept) \in Nat
  BY <1>3, FS_CardinalityType
<1>5. ASSUME NEW n \in 1 .. Cardinality(kept) PROVE Place(n) \in kept
  <2>1. n \in Nat /\ 1 <= n /\ n <= Cardinality(kept)
    BY <1>4
  <2>2. Len(list) \in Nat /\ \A i \in kept : i \in 1 .. Len(list)
    BY <1>2, Entries
  <2>3. \E i \in kept : Cardinality(Upto(kept, i)) = n
    BY <1>3, <2>1, <2>2, PlaceExists
  <2>. QED BY <2>3
<1>. HIDE DEF Place
<1>6. ASSUME NEW n \in 1 .. Cardinality(kept) PROVE list[Place(n)] + 1 \in Ages
  <2>1. Place(n) \in 1 .. Len(list) /\ list[Place(n)] + 1 < Window
    BY <1>2, <1>5
  <2>2. list[Place(n)] \in Nat
    BY <2>1, Entries
  <2>. QED BY <2>1, <2>2, Parameters DEF Ages
<1>. QED BY <1>1, <1>4, <1>6

\* A list in the order of its stamps loses its first ones.
LEMMA OlderSorted ==
    ASSUME NEW list \in Seq(Ages), Sorted(list)
    PROVE  \E r \in 0 .. Len(list) :
              /\ Len(Older(list)) = Len(list) - r
              /\ \A i \in 1 .. r : list[i] + 1 >= Window
              /\ \A i \in 1 .. Len(list) - r :
                    list[r + i] + 1 < Window /\ Older(list)[i] = list[r + i] + 1
<1>. DEFINE len == Len(list)
<1>2. len \in Nat /\ \A i \in 1 .. len : list[i] \in Nat /\ list[i] < Window
  BY Entries
<1>. DEFINE kept == {i \in 1 .. Len(list) : list[i] + 1 < Window}
            Place(n) == CHOOSE i \in kept : Cardinality(Upto(kept, i)) = n
<1>1. Older(list) = [n \in 1 .. Cardinality(kept) |-> list[Place(n)] + 1]
  BY DEF Older, Upto
<1>3. \E r \in 0 .. len : kept = (r + 1) .. len
  <2>1. CASE kept = {}
    <3>1. (len + 1) .. len = {}
      BY <1>2
    <3>. QED BY <1>2, <2>1, <3>1
  <2>2. CASE kept # {}
    <3>1. PICK x \in kept : \A y \in kept : x <= y
      <4>1. kept \in SUBSET Nat
        OBVIOUS
      <4>. QED BY <2>2, <4>1, Least
    <3>2. \A y \in x .. len : y \in kept
      BY <1>2, <3>1, Parameters DEF Sorted
    <3>3. kept = ((x - 1) + 1) .. len /\ x - 1 \in 0 .. len
      BY <1>2, <3>1, <3>2
    <3>. QED BY <3>3
  <2>. QED BY <2>1, <2>2
<1>4. PICK r \in 0 .. len : kept = (r + 1) .. len
  BY <1>3
<1>5. \A i \in 1 .. r : list[i] + 1 >= Window
  <2>1. \A i \in 1 .. r : i \in 1 .. len /\ i \notin kept
    BY <1>2, <1>4
  <2>. QED BY <1>2, <2>1, Parameters
<1>6. \A i \in 1 .. len - r : list[r + i] + 1 < Window
  <2>1. \A i \in 1 .. len - r : r + i \in kept
    BY <1>2, <1>4
  <2>. QED BY <2>1
<1>. HIDE DEF kept
<1>7. Cardinality(kept) = len - r
  <2>1. r + 1 \in Int /\ len \in Int
    BY <1>2
  <2>2. Cardinality((r + 1) .. len) = IF r + 1 > len THEN 0 ELSE len - (r + 1) + 1
    BY <2>1, FS_Interval
  <2>. QED BY <1>2, <1>4, <2>2
<1>8. ASSUME NEW n \in 1 .. len - r PROVE Place(n) = r + n
  <2>1. ASSUME NEW i \in kept PROVE Cardinality(Upto(kept, i)) = i - r
    <3>1. Upto(kept, i) = (r + 1) .. i
      BY <1>2, <1>4 DEF Upto
    <3>2. r + 1 \in Int /\ i \in Int
      BY <1>2, <1>4
    <3>3. Cardinality((r + 1) .. i) = IF r + 1 > i THEN 0 ELSE i - (r + 1) + 1
      BY <3>2, FS_Interval
    <3>. QED BY <1>2, <1>4, <3>1, <3>3
  <2>2. Place(n) = CHOOSE i \in kept : i - r = n
    BY <2>1
  <2>3. r + n \in kept /\ \A i \in kept : i - r = n <=> i = r + n
    BY <1>2, <1>4
  <2>. HIDE DEF kept
  <2>. QED BY <2>2, <2>3
<1>. HIDE DEF kept, Place
<1>9. Len(Older(list)) = len - r /\ \A n \in 1 .. len - r : Older(list)[n] = list[r + n] + 1
  BY <1>1, <1>2, <1>7, <1>8
<1>. QED BY <1>5, <1>6, <1>9
-----------------------------------------------------------------------------
(* Stamps and requests side by side. *)

\* Stamp and request of each call, behind - if the first request has outlived its stamp - by
\* one: a stamp is at least as old as its request, and no older than the request before.
Paired(R, S, behind) ==
    /\ Sorted(R) /\ Sorted(S)
    /\ Len(R) <= Limit /\ Len(S) = Len(R) + behind
    /\ \A k \in 1 .. Len(R) :
          /\ R[k] >= S[k + behind]
          /\ k + behind >= 2 => S[k + behind - 1] >= R[k]

\* more is list with n times a behind it.
Extends(more, list, n, a) ==
    /\ Len(more) = Len(list) + n
    /\ \A i \in 1 .. Len(list) : more[i] = list[i]
    /\ \A i \in Len(list) + 1 .. Len(list) + n : more[i] = a

LEMMA ZerosExtend ==
    ASSUME NEW list \in Seq(Ages), NEW n \in Nat
    PROVE  list \o Zeros(n) \in Seq(Ages) /\ Extends(list \o Zeros(n), list, n, 0)
<1>1. 0 \in Ages
  BY Parameters DEF Ages
<1>2. Zeros(n) \in Seq(Ages) /\ Len(Zeros(n)) = n /\ \A i \in 1 .. n : Zeros(n)[i] = 0
  BY <1>1 DEF Zeros
<1>. QED BY <1>2 DEF Extends

LEMMA AppendExtends ==
    ASSUME NEW list \in Seq(Ages), NEW a \in Ages
    PROVE  Append(list, a) \in Seq(Ages) /\ Extends(Append(list, a), list, 1, a)
BY DEF Extends

\* What goes behind is no older than what is there.
LEMMA SortedExtends ==
    ASSUME NEW list \in Seq(Ages), Sorted(list), NEW a \in Nat, NEW n \in Nat, NEW more,
           Extends(more, list, n, a), \A i \in 1 .. Len(list) : list[i] >= a
    PROVE  Sorted(more)
<1>1. Len(list) \in Nat /\ \A i \in 1 .. Len(list) : list[i] \in Nat
  BY Entries
<1>2. ASSUME NEW i \in 1 .. Len(more), NEW k \in 1 .. Len(more), i <= k PROVE more[i] >= more[k]
  <2>1. CASE k <= Len(list)
    BY <1>1, <1>2, <2>1 DEF Extends, Sorted
  <2>2. CASE k > Len(list)
    <3>1. more[k] = a
      BY <1>1, <1>2, <2>2 DEF Extends
    <3>2. CASE i <= Len(list)
      BY <1>1, <1>2, <3>1, <3>2 DEF Extends
    <3>3. CASE i > Len(list)
      BY <1>1, <1>2, <3>1, <3>3 DEF Extends
    <3>. QED BY <1>1, <1>2, <3>2, <3>3 DEF Extends
  <2>. QED BY <1>1, <1>2, <2>1, <2>2 DEF Extends
<1>. QED BY <1>2 DEF Sorted

\* Calls that find a slot, and the call whose wait is over.
LEMMA PairedExtends ==
    ASSUME NEW R \in Seq(Ages), NEW S \in Seq(Ages), NEW behind \in {0, 1}, Paired(R, S, behind),
           NEW a \in Nat, NEW n \in Nat, n > 1 => a = 0, Len(R) + n <= Limit,
           \A i \in 1 .. Len(R) : R[i] >= a, \A i \in 1 .. Len(S) : S[i] >= a,
           NEW P, NEW Q, Extends(P, R, n, a), Extends(Q, S, n, 0)
    PROVE  Paired(P, Q, behind)
<1>1. /\ Len(R) \in Nat /\ Len(S) \in Nat
      /\ \A i \in 1 .. Len(R) : R[i] \in Nat
      /\ \A i \in 1 .. Len(S) : S[i] \in Nat
  BY Entries
<1>2. Sorted(P) /\ Sorted(Q)
  BY <1>1, SortedExtends DEF Paired
<1>3. Len(P) <= Limit /\ Len(Q) = Len(P) + behind /\ Len(P) = Len(R) + n
      /\ Len(S) = Len(R) + behind
  BY <1>1 DEF Paired, Extends
<1>4. ASSUME NEW k \in 1 .. Len(P)
      PROVE  P[k] >= Q[k + behind] /\ (k + behind >= 2 => Q[k + behind - 1] >= P[k])
  <2>1. CASE k <= Len(R)
    <3>1. k \in 1 .. Len(R) /\ k + behind \in 1 .. Len(S)
          /\ (k + behind >= 2 => k + behind - 1 \in 1 .. Len(S))
      BY <1>1, <1>3, <2>1
    <3>2. P[k] = R[k] /\ Q[k + behind] = S[k + behind]
          /\ (k + behind >= 2 => Q[k + behind - 1] = S[k + behind - 1])
      BY <3>1 DEF Extends
    <3>. QED BY <3>1, <3>2 DEF Paired
  <2>2. CASE k > Len(R)
    <3>1. k \in Len(R) + 1 .. Len(R) + n /\ k + behind \in Len(S) + 1 .. Len(S) + n
      BY <1>1, <1>3, <2>2
    <3>2. P[k] = a /\ Q[k + behind] = 0
      BY <3>1 DEF Extends
    <3>3. CASE k = Len(R) + 1 /\ k + behind >= 2
      <4>1. k + behind - 1 = Len(S) /\ Len(S) \in 1 .. Len(S)
        BY <1>1, <1>3, <3>3
      <4>2. Q[Len(S)] = S[Len(S)] /\ S[Len(S)] >= a
        BY <4>1 DEF Extends
      <4>. QED BY <3>2, <4>1, <4>2
    <3>4. CASE k > Len(R) + 1
      <4>1. a = 0 /\ k + behind - 1 \in Len(S) + 1 .. Len(S) + n
        BY <1>1, <1>3, <3>1, <3>4
      <4>2. Q[k + behind - 1] = 0
        BY <4>1 DEF Extends
      <4>. QED BY <3>2, <4>1, <4>2
    <3>. QED BY <1>1, <2>2, <3>1, <3>2, <3>3, <3>4
  <2>. QED BY <1>1, <1>3, <2>1, <2>2
<1>. QED BY <1>2, <1>3, <1>4 DEF Paired

\* The filter takes as many requests as stamps, or one request less, once.
LEMMA PairedOlder ==
    ASSUME NEW R \in Seq(Ages), NEW S \in Seq(Ages), NEW behind \in {0, 1}, Paired(R, S, behind)
    PROVE  \E b \in {0, 1} : Paired(Older(R), Older(S), b)
<1>. DEFINE P == Older(R)
            Q == Older(S)
<1>1. PICK r \in 0 .. Len(R) :
         /\ Len(P) = Len(R) - r
         /\ \A i \in 1 .. r : R[i] + 1 >= Window
         /\ \A i \in 1 .. Len(R) - r : R[r + i] + 1 < Window /\ P[i] = R[r + i] + 1
  BY OlderSorted DEF Paired
<1>2. PICK s \in 0 .. Len(S) :
         /\ Len(Q) = Len(S) - s
         /\ \A i \in 1 .. s : S[i] + 1 >= Window
         /\ \A i \in 1 .. Len(S) - s : S[s + i] + 1 < Window /\ Q[i] = S[s + i] + 1
  BY OlderSorted DEF Paired
<1>3. /\ Len(R) \in Nat /\ Len(S) \in Nat /\ Limit \in Nat /\ Window \in Nat
      /\ \A i \in 1 .. Len(R) : R[i] \in Nat
      /\ \A i \in 1 .. Len(S) : S[i] \in Nat
  BY Entries, Parameters
<1>. HIDE DEF P, Q
<1>4. /\ Len(R) <= Limit /\ Len(S) = Len(R) + behind
      /\ \A k \in 1 .. Len(R) : R[k] >= S[k + behind]
      /\ \A k \in 1 .. Len(R) : k + behind >= 2 => S[k + behind - 1] >= R[k]
      /\ Sorted(R) /\ Sorted(S)
  BY DEF Paired
<1>5. s <= r + behind
  <2>. SUFFICES ASSUME s > r + behind PROVE FALSE
    BY <1>1, <1>2, <1>3
  <2>1. s - behind \in 1 .. Len(R) /\ s - behind > r /\ s \in 1 .. s
    BY <1>1, <1>2, <1>3, <1>4
  <2>2. S[s] + 1 >= Window
    BY <1>2, <2>1
  <2>6. R[s - behind] >= S[(s - behind) + behind] /\ (s - behind) + behind = s
    BY <1>2, <1>4, <2>1
  <2>3. s - behind - r \in 1 .. Len(R) - r /\ r + (s - behind - r) = s - behind
    BY <1>1, <1>2, <1>3, <2>1
  <2>4. R[s - behind] + 1 < Window
    BY <1>1, <2>3
  <2>5. R[s - behind] \in Nat /\ S[s] \in Nat
    BY <1>2, <1>3, <2>1
  <2>. QED BY <1>3, <2>2, <2>4, <2>5, <2>6
<1>6. r + behind <= s + 1
  <2>. SUFFICES ASSUME r + behind > s + 1 PROVE FALSE
    BY <1>1, <1>2, <1>3
  <2>1. r \in 1 .. Len(R) /\ r \in 1 .. r /\ r + behind >= 2
    BY <1>1, <1>2, <1>3
  <2>2. R[r] + 1 >= Window /\ S[r + behind - 1] >= R[r]
    BY <1>1, <1>4, <2>1
  <2>3. r + behind - 1 - s \in 1 .. Len(S) - s /\ s + (r + behind - 1 - s) = r + behind - 1
        /\ r + behind - 1 \in 1 .. Len(S)
    BY <1>1, <1>2, <1>3, <1>4
  <2>4. S[r + behind - 1] + 1 < Window
    BY <1>2, <2>3
  <2>5. R[r] \in Nat /\ S[r + behind - 1] \in Nat
    BY <1>3, <2>1, <2>3
  <2>. QED BY <1>3, <2>2, <2>4, <2>5
<1>. DEFINE b == r + behind - s
<1>7. b \in {0, 1} /\ Len(Q) = Len(P) + b /\ Len(P) <= Limit
  BY <1>1, <1>2, <1>3, <1>4, <1>5, <1>6
<1>8. Sorted(P)
  <2>1. ASSUME NEW i \in 1 .. Len(P), NEW k \in 1 .. Len(P), i <= k PROVE P[i] >= P[k]
    <3>1. r + i \in 1 .. Len(R) /\ r + k \in 1 .. Len(R) /\ r + i <= r + k
      BY <1>1, <1>3, <2>1
    <3>2. R[r + i] >= R[r + k] /\ R[r + i] \in Nat /\ R[r + k] \in Nat
      BY <1>3, <1>4, <3>1 DEF Sorted
    <3>. QED BY <1>1, <3>2
  <2>. QED BY <2>1 DEF Sorted
<1>9. Sorted(Q)
  <2>1. ASSUME NEW i \in 1 .. Len(Q), NEW k \in 1 .. Len(Q), i <= k PROVE Q[i] >= Q[k]
    <3>1. s + i \in 1 .. Len(S) /\ s + k \in 1 .. Len(S) /\ s + i <= s + k
      BY <1>2, <1>3, <2>1
    <3>2. S[s + i] >= S[s + k] /\ S[s + i] \in Nat /\ S[s + k] \in Nat
      BY <1>3, <1>4, <3>1 DEF Sorted
    <3>. QED BY <1>2, <3>2
  <2>. QED BY <2>1 DEF Sorted
<1>10. ASSUME NEW k \in 1 .. Len(P)
       PROVE  P[k] >= Q[k + b] /\ (k + b >= 2 => Q[k + b - 1] >= P[k])
  <2>1. k \in 1 .. Len(R) - r /\ r + k \in 1 .. Len(R) /\ P[k] = R[r + k] + 1
    BY <1>1, <1>3
  <2>2. k + b \in 1 .. Len(S) - s /\ s + (k + b) = (r + k) + behind
    BY <1>2, <1>3, <1>4, <1>7, <2>1
  <2>3. Q[k + b] = S[(r + k) + behind] + 1 /\ (r + k) + behind \in 1 .. Len(S)
    BY <1>2, <1>3, <1>4, <2>1, <2>2
  <2>4. R[r + k] >= S[(r + k) + behind] /\ R[r + k] \in Nat /\ S[(r + k) + behind] \in Nat
    BY <1>3, <1>4, <2>1, <2>3
  <2>5. ASSUME k + b >= 2 PROVE Q[k + b - 1] >= P[k]
    <3>1. k + b - 1 \in 1 .. Len(S) - s /\ s + (k + b - 1) = (r + k) + behind - 1
          /\ (r + k) + behind - 1 \in 1 .. Len(S) /\ (r + k) + behind >= 2
      BY <1>2, <1>3, <1>4, <1>7, <2>1, <2>2, <2>5
    <3>2. Q[k + b - 1] = S[(r + k) + behind - 1] + 1
      BY <1>2, <3>1
    <3>. DEFINE x == S[(r + k) + behind - 1]
                y == R[r + k]
    <3>3. x >= y /\ x \in Nat /\ y \in Nat
      BY <1>3, <1>4, <2>1, <3>1
    <3>4. Q[k + b - 1] = x + 1 /\ P[k] = y + 1
      BY <2>1, <3>2
    <3>. HIDE DEF x, y
    <3>5. x + 1 >= y + 1
      BY <3>3
    <3>. QED BY <3>4, <3>5
  <2>6. P[k] >= Q[k + b]
    <3>. DEFINE x == R[r + k]
                y == S[(r + k) + behind]
    <3>1. x >= y /\ x \in Nat /\ y \in Nat /\ P[k] = x + 1 /\ Q[k + b] = y + 1
      BY <2>1, <2>3, <2>4
    <3>. HIDE DEF x, y
    <3>2. x + 1 >= y + 1
      BY <3>1
    <3>. QED BY <3>1, <3>2
  <2>. QED BY <2>5, <2>6
<1>. HIDE DEF b
<1>11. Paired(P, Q, b)
  BY <1>7, <1>8, <1>9, <1>10 DEF Paired
<1>. QED BY <1>7, <1>11 DEF P, Q
-----------------------------------------------------------------------------
(* The invariant of the client. *)

\* A call that waits has the limiter full before it, or will when the first stamp of it goes; and
\* whatever is on the lists will be at least as old as the stamp this call is going to leave.
Waits(c) ==
    /\ Len(requests) < Limit \/ (Len(requests) >= 1 /\ requests[1] + call[c].left = Window)
    /\ \A i \in 1 .. Len(requests) : requests[i] + call[c].left >= call[c].waited
    /\ \A i \in 1 .. Len(sent) : sent[i] + call[c].left >= call[c].waited

\* As long as calls have not waited side by side.
Aligned ==
    ~crowded =>
        /\ \E behind \in {0, 1} : Paired(requests, sent, behind)
        /\ \A c \in Call, d \in Call :
              call[c].pc = "waiting" /\ call[d].pc = "waiting" => c = d
        /\ \A c \in Call : call[c].pc = "waiting" => Waits(c)

Share(c) == IF call[c].kind = "siblings" THEN 0 ELSE Window

\* How long a call of an open job may take until it is through with what it does now: its wait,
\* and what its attempts and the delays between them have come to (twice that, for a sum of
\* RetryDelay * 1, RetryDelay * 2, ...).
InTime(c) ==
    LET a == call[c].attempt
        spent == age[c[1]] + call[c].left
    IN  /\ call[c].pc = "waiting" =>
              a = 0 /\ call[c].kind # "siblings" /\ spent = call[c].waited
        /\ call[c].pc = "fetching" =>
              /\ a >= 1 /\ a <= Attempts(c)
              /\ 2 * spent <= 2 * Share(c) + 2 * (a * FetchMax) + RetryDelay * (a * (a - 1))
        /\ call[c].pc = "backoff" =>
              /\ a >= 1 /\ a < Attempts(c)
              /\ 2 * spent <= 2 * Share(c) + 2 * (a * FetchMax) + RetryDelay * (a * (a + 1))

Timely ==
    /\ \A j \in Job : job[j] # "open" => age[j] = 0
    /\ \A j \in Job : job[j] = "open" => \E c \in Of(j) : Busy(c)
    /\ \A c \in Call : Busy(c) /\ job[c[1]] = "open" => InTime(c)

ClientInv == ClientTypeOK /\ Timely /\ Aligned

LEMMA CallParts ==
    ASSUME NEW c \in Call PROVE c[1] \in Job /\ c[2] \in 1 .. Places /\ c = <<c[1], c[2]>>
BY DEF Call

LEMMA NoCallIs ==
    /\ NoCall \in CallRecord /\ NoCall.pc = "done" /\ NoCall.attempt = 0
BY Parameters DEF NoCall, CallRecord, Kinds

\* A call whose state is another one.
LEMMA RecordIs ==
    ASSUME NEW r \in CallRecord, NEW pc \in {"waiting", "fetching", "backoff", "done"},
           NEW left \in Nat, NEW waited \in 0 .. Window, NEW attempt \in Nat
    PROVE  LET q == [r EXCEPT !.pc = pc, !.left = left, !.waited = waited, !.attempt = attempt]
           IN  /\ q \in CallRecord /\ q.pc = pc /\ q.left = left /\ q.waited = waited
               /\ q.attempt = attempt /\ q.kind = r.kind
BY DEF CallRecord

LEMMA FetchingIs ==
    ASSUME NEW r \in CallRecord
    PROVE  /\ Fetching(r) \in CallRecord /\ Fetching(r).pc = "fetching"
           /\ Fetching(r).left = FetchMax /\ Fetching(r).attempt = r.attempt + 1
           /\ Fetching(r).kind = r.kind
<1>1. r.attempt + 1 \in Nat /\ FetchMax \in Nat /\ 0 \in 0 .. Window
  BY Parameters DEF CallRecord
<1>. QED BY <1>1 DEF Fetching, CallRecord

\* A call that begins.
LEMMA BegunIs ==
    ASSUME NEW kind \in Kinds
    PROVE  LET r == [NoCall EXCEPT !.kind = kind]
           IN  r \in CallRecord /\ r.attempt = 0 /\ r.kind = kind
BY Parameters DEF NoCall, CallRecord

LEMMA AttemptsIs ==
    ASSUME NEW c \in Call
    PROVE  /\ Attempts(c) \in Nat
           /\ call[c].kind # "siblings" => Attempts(c) = 3 /\ Share(c) = Window
           /\ call[c].kind = "siblings" => Attempts(c) = RetryAttempts /\ Share(c) = 0
           /\ Share(c) \in Nat
BY Parameters DEF Attempts, Share, MaxRetries

LEMMA ClientInitHolds == ClientInit => ClientInv
<1>. SUFFICES ASSUME ClientInit PROVE ClientInv
  OBVIOUS
<1>1. ClientTypeOK
  <2>1. call \in [Call -> CallRecord]
    BY NoCallIs DEF ClientInit
  <2>2. requests \in Seq(Ages) /\ sent \in Seq(Ages)
    BY DEF ClientInit
  <2>3. job \in [Job -> {"idle", "open", "answered", "failed"}] /\ age \in [Job -> Nat]
    BY DEF ClientInit
  <2>. QED BY <2>1, <2>2, <2>3 DEF ClientInit, ClientTypeOK
<1>2. \A c \in Call : call[c].pc = "done"
  BY NoCallIs DEF ClientInit
<1>3. Timely
  BY <1>2 DEF ClientInit, Timely, Busy
<1>4. Paired(<<>>, <<>>, 0)
  BY Parameters DEF Paired, Sorted
<1>5. Aligned
  BY <1>2, <1>4 DEF ClientInit, Aligned
<1>. QED BY <1>1, <1>3, <1>5 DEF ClientInv

-----------------------------------------------------------------------------
(* Steps of one call. *)

\* The lists do not change and no call begins to wait.
LEMMA AlignedAside ==
    ASSUME Aligned, UNCHANGED <<requests, sent, crowded>>,
           \A d \in Call : call'[d].pc = "waiting" =>
               call[d].pc = "waiting" /\ call'[d] = call[d]
    PROVE  Aligned'
BY DEF Aligned, Waits

LEMMA OneCall ==
    ASSUME ClientTypeOK, NEW c \in Call, NEW q \in CallRecord, call' = [call EXCEPT ![c] = q]
    PROVE  /\ call' \in [Call -> CallRecord] /\ call'[c] = q
           /\ \A d \in Call : d # c => call'[d] = call[d]
BY DEF ClientTypeOK

\* A call of an open job goes on, in time.
LEMMA TimelyAside ==
    ASSUME ClientTypeOK, Timely, NEW c \in Call, NEW q \in CallRecord, q.pc # "done",
           call' = [call EXCEPT ![c] = q], UNCHANGED <<job, age>>,
           job[c[1]] = "open" => InTime(c)', Busy(c)
    PROVE  Timely'
<1>1. call'[c] = q /\ \A d \in Call : d # c => call'[d] = call[d]
  BY OneCall
<1>2. \A d \in Call : Busy(d)' <=> Busy(d)
  BY <1>1 DEF Busy
<1>3. \A j \in Job : Of(j) \in SUBSET Call
  BY DEF Of
<1>4. ASSUME NEW d \in Call, d # c, Busy(d), job[d[1]] = "open" PROVE InTime(d)'
  <2>1. InTime(d)
    BY <1>4 DEF Timely
  <2>. QED BY <1>1, <1>4, <2>1 DEF InTime, Attempts, Share
<1>5. \A j \in Job : job'[j] = "open" => \E d \in Of(j) : Busy(d)'
  BY <1>2, <1>3 DEF Timely
<1>6. \A d \in Call : Busy(d)' /\ job'[d[1]] = "open" => InTime(d)'
  BY <1>2, <1>4
<1>. QED BY <1>5, <1>6 DEF Timely, Of

\* The sums of one attempt more and one delay more.
LEMMA Sums ==
    ASSUME NEW a \in Nat
    PROVE  /\ (a + 1) * FetchMax = a * FetchMax + FetchMax
           /\ RetryDelay * ((a + 1) * a) = RetryDelay * (a * (a + 1))
           /\ RetryDelay * (a * (a + 1)) = RetryDelay * (a * (a - 1)) + 2 * (RetryDelay * a)
           /\ a * FetchMax \in Nat /\ RetryDelay * a \in Nat /\ RetryDelay * (a * (a + 1)) \in Nat
BY Parameters
-----------------------------------------------------------------------------

LEMMA BackoffEndsHolds ==
    ASSUME ClientInv, NEW c \in Call, BackoffEnds(c) PROVE ClientInv'
<1>. DEFINE q == Fetching(call[c])
<1>1. ClientTypeOK /\ Timely /\ Aligned /\ call[c] \in CallRecord /\ call[c].attempt \in Nat
  BY DEF ClientInv, ClientTypeOK, CallRecord
<1>2. /\ call[c].pc = "backoff" /\ call[c].left = 0 /\ call' = [call EXCEPT ![c] = q]
      /\ UNCHANGED <<requests, job, age, sent, crowded>>
  BY DEF BackoffEnds
<1>3. q \in CallRecord /\ q.pc = "fetching" /\ q.left = FetchMax
      /\ q.attempt = call[c].attempt + 1 /\ q.kind = call[c].kind
  BY <1>1, FetchingIs
<1>. HIDE DEF q
<1>4. call' \in [Call -> CallRecord] /\ call'[c] = q /\ \A d \in Call : d # c => call'[d] = call[d]
  BY <1>1, <1>2, <1>3, OneCall
<1>5. ClientTypeOK'
  BY <1>1, <1>2, <1>4 DEF ClientTypeOK
<1>6. Aligned'
  <2>1. \A d \in Call : call'[d].pc = "waiting" =>
            call[d].pc = "waiting" /\ call'[d] = call[d]
    BY <1>3, <1>4
  <2>. QED BY <1>1, <1>2, <2>1, AlignedAside
<1>7. ASSUME job[c[1]] = "open" PROVE InTime(c)'
  <2>. DEFINE a == call[c].attempt
              t == age[c[1]]
  <2>1. t \in Nat /\ age'[c[1]] = t
    BY <1>1, <1>2, CallParts DEF ClientTypeOK
  <2>2. a >= 1 /\ a < Attempts(c)
        /\ 2 * (t + 0) <= 2 * Share(c) + 2 * (a * FetchMax) + RetryDelay * (a * (a + 1))
    <3>1. InTime(c)
      BY <1>1, <1>2, <1>7 DEF Timely, Busy
    <3>. QED BY <1>2, <3>1 DEF InTime
  <2>3. Attempts(c)' = Attempts(c) /\ Share(c)' = Share(c)
    BY <1>3, <1>4 DEF Attempts, Share
  <2>4. Attempts(c) \in Nat /\ Share(c) \in Nat /\ FetchMax \in Nat
    BY AttemptsIs, Parameters
  <2>. HIDE DEF a, t
  <2>5. a \in Nat
    BY <1>1 DEF a
  <2>6. 2 * (t + FetchMax) <=
            2 * Share(c) + 2 * ((a + 1) * FetchMax) + RetryDelay * ((a + 1) * a)
    <3>. HIDE DEF a
    <3>1. /\ (a + 1) * FetchMax = a * FetchMax + FetchMax
          /\ RetryDelay * ((a + 1) * a) = RetryDelay * (a * (a + 1))
          /\ a * FetchMax \in Nat /\ RetryDelay * (a * (a + 1)) \in Nat
      BY <2>5, Sums
    <3>. QED BY <2>1, <2>2, <2>4, <2>5, <3>1
  <2>7. a + 1 >= 1 /\ a + 1 <= Attempts(c) /\ (a + 1) - 1 = a
    BY <2>2, <2>4, <2>5
  <2>8. call'[c].attempt = a + 1 /\ call'[c].left = FetchMax /\ call'[c].pc = "fetching"
    BY <1>3, <1>4 DEF a
  <2>. QED BY <2>1, <2>3, <2>6, <2>7, <2>8 DEF InTime
<1>8. Timely'
  <2>1. Busy(c)
    BY <1>2 DEF Busy
  <2>2. q.pc # "done"
    BY <1>3
  <2>. QED BY <1>1, <1>2, <1>3, <1>7, <2>1, <2>2, TimelyAside
<1>. QED BY <1>5, <1>6, <1>8 DEF ClientInv

LEMMA FetchFailsHolds ==
    ASSUME ClientInv, NEW c \in Call, FetchFails(c) PROVE ClientInv'
<1>. DEFINE q == [call[c] EXCEPT !.pc = "backoff", !.left = Backoff(c)]
<1>1. ClientTypeOK /\ Timely /\ Aligned /\ call[c] \in CallRecord /\ call[c].attempt \in Nat
      /\ call[c].left \in Nat
  BY DEF ClientInv, ClientTypeOK, CallRecord
<1>2. /\ call[c].pc = "fetching" /\ call[c].attempt < Attempts(c)
      /\ call' = [call EXCEPT ![c] = q] /\ UNCHANGED <<requests, job, age, sent, crowded>>
  BY DEF FetchFails
<1>3. q \in CallRecord /\ q.pc = "backoff" /\ q.left = RetryDelay * call[c].attempt
      /\ q.attempt = call[c].attempt /\ q.kind = call[c].kind
  <2>1. Backoff(c) \in Nat /\ Backoff(c) = RetryDelay * call[c].attempt
    BY <1>1, Sums DEF Backoff
  <2>. QED BY <1>1, <2>1 DEF CallRecord
<1>. HIDE DEF q
<1>4. call' \in [Call -> CallRecord] /\ call'[c] = q /\ \A d \in Call : d # c => call'[d] = call[d]
  BY <1>1, <1>2, <1>3, OneCall
<1>5. ClientTypeOK'
  BY <1>1, <1>2, <1>4 DEF ClientTypeOK
<1>6. Aligned'
  <2>1. \A d \in Call : call'[d].pc = "waiting" =>
            call[d].pc = "waiting" /\ call'[d] = call[d]
    BY <1>3, <1>4
  <2>. QED BY <1>1, <1>2, <2>1, AlignedAside
<1>7. ASSUME job[c[1]] = "open" PROVE InTime(c)'
  <2>. DEFINE a == call[c].attempt
              t == age[c[1]]
              left == call[c].left
  <2>1. t \in Nat /\ age'[c[1]] = t
    BY <1>1, <1>2, CallParts DEF ClientTypeOK
  <2>2. a >= 1 /\ 2 * (t + left) <=
            2 * Share(c) + 2 * (a * FetchMax) + RetryDelay * (a * (a - 1))
    <3>1. InTime(c)
      BY <1>1, <1>2, <1>7 DEF Timely, Busy
    <3>. QED BY <1>2, <3>1 DEF InTime
  <2>3. Attempts(c)' = Attempts(c) /\ Share(c)' = Share(c)
    BY <1>3, <1>4 DEF Attempts, Share
  <2>4. Share(c) \in Nat /\ FetchMax \in Nat /\ RetryDelay \in Nat
    BY AttemptsIs, Parameters
  <2>. HIDE DEF t, left
  <2>5. left \in Nat
    BY <1>1 DEF left
  <2>8. call'[c].attempt = a /\ call'[c].left = RetryDelay * a /\ call'[c].pc = "backoff"
    BY <1>3, <1>4
  <2>9. a < Attempts(c) /\ a \in Nat
    BY <1>1, <1>2
  <2>. HIDE DEF a
  <2>6. 2 * (t + RetryDelay * a) <=
            2 * Share(c) + 2 * (a * FetchMax) + RetryDelay * (a * (a + 1))
    <3>1. /\ RetryDelay * (a * (a + 1)) = RetryDelay * (a * (a - 1)) + 2 * (RetryDelay * a)
          /\ a * FetchMax \in Nat /\ RetryDelay * a \in Nat /\ RetryDelay * (a * (a + 1)) \in Nat
      BY <2>9, Sums
    <3>2. RetryDelay * (a * (a - 1)) \in Int
      BY <2>4, <2>9
    <3>. QED BY <2>1, <2>2, <2>4, <2>5, <2>9, <3>1, <3>2
  <2>. QED BY <2>1, <2>2, <2>3, <2>6, <2>8, <2>9 DEF InTime
<1>8. Timely'
  <2>1. Busy(c)
    BY <1>2 DEF Busy
  <2>2. q.pc # "done"
    BY <1>3
  <2>. QED BY <1>1, <1>2, <1>3, <1>7, <2>1, <2>2, TimelyAside
<1>. QED BY <1>5, <1>6, <1>8 DEF ClientInv

\* A call is over, and what it was for with it unless others are left.
LEMMA CallOver ==
    ASSUME ClientInv, NEW c \in Call, call' = [call EXCEPT ![c] = NoCall],
           NEW state \in {"idle", "open", "answered", "failed"},
           job' = [job EXCEPT ![c[1]] = state],
           age' = [age EXCEPT ![c[1]] = IF state = "open" THEN @ ELSE 0],
           state = "open" => job[c[1]] = "open" /\ \E d \in Of(c[1]) \ {c} : Busy(d),
           UNCHANGED <<requests, sent, crowded>>
    PROVE  ClientInv'
<1>1. ClientTypeOK /\ Timely /\ Aligned /\ c[1] \in Job
  BY CallParts DEF ClientInv
<1>2. /\ call' \in [Call -> CallRecord] /\ call'[c] = NoCall
      /\ \A d \in Call : d # c => call'[d] = call[d]
  BY <1>1, OneCall, NoCallIs
<1>3. /\ job'[c[1]] = state /\ \A j \in Job : j # c[1] => job'[j] = job[j]
      /\ job' \in [Job -> {"idle", "open", "answered", "failed"}]
  BY <1>1 DEF ClientTypeOK
<1>4. /\ age' \in [Job -> Nat]
      /\ age'[c[1]] = (IF state = "open" THEN age[c[1]] ELSE 0)
      /\ \A j \in Job : j # c[1] => age'[j] = age[j]
  BY <1>1 DEF ClientTypeOK
<1>5. ClientTypeOK'
  BY <1>1, <1>2, <1>3, <1>4 DEF ClientTypeOK
<1>6. Aligned'
  <2>1. \A d \in Call : call'[d].pc = "waiting" =>
            call[d].pc = "waiting" /\ call'[d] = call[d]
    BY <1>2, NoCallIs
  <2>. QED BY <1>1, <2>1, AlignedAside
<1>7. ~Busy(c)' /\ \A d \in Call : d # c => (Busy(d)' <=> Busy(d))
  BY <1>2, NoCallIs DEF Busy
<1>8. \A j \in Job : job'[j] # "open" => age'[j] = 0
  BY <1>1, <1>3, <1>4 DEF Timely
<1>9. ASSUME NEW j \in Job, job'[j] = "open" PROVE \E d \in Of(j) : Busy(d)'
  <2>1. CASE j = c[1]
    <3>1. PICK d \in Of(j) \ {c} : Busy(d)
      BY <1>3, <1>9, <2>1
    <3>2. d \in Call /\ d # c
      BY <3>1 DEF Of
    <3>. QED BY <1>7, <3>1, <3>2
  <2>2. CASE j # c[1]
    <3>1. PICK d \in Of(j) : Busy(d)
      BY <1>1, <1>3, <1>9, <2>2 DEF Timely
    <3>2. d \in Call /\ d # c
      BY <2>2, <3>1 DEF Of
    <3>. QED BY <1>7, <3>1, <3>2
  <2>. QED BY <2>1, <2>2
<1>10. ASSUME NEW d \in Call, Busy(d)', job'[d[1]] = "open" PROVE InTime(d)'
  <2>1. d # c /\ d[1] \in Job /\ call'[d] = call[d]
    BY <1>2, <1>7, <1>10, CallParts
  <2>2. job[d[1]] = "open" /\ age'[d[1]] = age[d[1]]
    BY <1>3, <1>4, <1>10, <2>1
  <2>3. InTime(d)
    BY <1>1, <1>7, <1>10, <2>1, <2>2 DEF Timely
  <2>. QED BY <2>1, <2>2, <2>3 DEF InTime, Attempts, Share
<1>11. Timely'
  BY <1>8, <1>9, <1>10 DEF Timely, Of
<1>. QED BY <1>5, <1>6, <1>11 DEF ClientInv

LEMMA EndsHolds == ASSUME ClientInv, NEW c \in Call, Ends(c) PROVE ClientInv'
<1>. DEFINE last == job[c[1]] = "open" /\ \A d \in Of(c[1]) \ {c} : ~Busy(d)
            state == IF last THEN "answered" ELSE job[c[1]]
<1>1. c[1] \in Job /\ job \in [Job -> {"idle", "open", "answered", "failed"}]
      /\ age \in [Job -> Nat] /\ Timely
  BY CallParts DEF ClientInv, ClientTypeOK
<1>2. job' = [job EXCEPT ![c[1]] = state]
  BY DEF Ends
<1>3. job'[c[1]] = state
  BY <1>1, <1>2
<1>4. age' = [age EXCEPT ![c[1]] = IF state = "open" THEN @ ELSE 0]
  BY <1>3 DEF Ends
<1>5. state \in {"idle", "open", "answered", "failed"}
  BY <1>1
<1>6. state = "open" => job[c[1]] = "open" /\ \E d \in Of(c[1]) \ {c} : Busy(d)
  OBVIOUS
<1>. HIDE DEF state
<1>. QED BY <1>2, <1>4, <1>5, <1>6, CallOver DEF Ends

LEMMA CallGivesUpHolds == ASSUME ClientInv, NEW c \in Call, CallGivesUp(c) PROVE ClientInv'
<1>1. CASE Ends(c)
  BY <1>1, EndsHolds
<1>2. CASE /\ call' = [call EXCEPT ![c] = NoCall]
           /\ job' = [job EXCEPT ![c[1]] = "failed"]
           /\ age' = [age EXCEPT ![c[1]] = 0]
           /\ UNCHANGED <<requests, sent, crowded>>
  <2>1. age' = [age EXCEPT ![c[1]] = IF "failed" = "open" THEN @ ELSE 0]
    BY <1>2
  <2>. QED BY <1>2, <2>1, CallOver
<1>. QED BY <1>1, <1>2 DEF CallGivesUp
-----------------------------------------------------------------------------

\* The call that waited is the only one, finds a slot, and leaves no stamp older than the others.
LEMMA WaitEndsHolds == ASSUME ClientInv, NEW c \in Call, WaitEnds(c) PROVE ClientInv'
<1>. DEFINE q == Fetching(call[c])
            a == call[c].waited
<1>1. /\ ClientTypeOK /\ Timely /\ Aligned /\ call[c] \in CallRecord
      /\ call[c].attempt \in Nat /\ a \in 0 .. Window /\ a \in Nat /\ Window \in Nat
      /\ requests \in Seq(Ages) /\ sent \in Seq(Ages)
  BY Parameters DEF ClientInv, ClientTypeOK, CallRecord
<1>2. /\ call[c].pc = "waiting" /\ call[c].left = 0 /\ call' = [call EXCEPT ![c] = q]
      /\ requests' = IF a < Window THEN Append(requests, a) ELSE requests
      /\ sent' = Append(sent, 0) /\ UNCHANGED <<job, age, crowded>>
  BY DEF WaitEnds
<1>3. q \in CallRecord /\ q.pc = "fetching" /\ q.left = FetchMax
      /\ q.attempt = call[c].attempt + 1 /\ q.kind = call[c].kind
  BY <1>1, FetchingIs
<1>. HIDE DEF q
<1>4. call' \in [Call -> CallRecord] /\ call'[c] = q /\ \A d \in Call : d # c => call'[d] = call[d]
  BY <1>1, <1>2, <1>3, OneCall
<1>. HIDE DEF a
<1>5. 0 \in Ages /\ (a < Window => a \in Ages)
  BY <1>1, Parameters DEF Ages
<1>6. ClientTypeOK'
  <2>1. sent' \in Seq(Ages)
    BY <1>1, <1>2, <1>5
  <2>2. requests' \in Seq(Ages)
    BY <1>1, <1>2, <1>5
  <2>. QED BY <1>1, <1>2, <1>4, <2>1, <2>2 DEF ClientTypeOK
<1>7. ASSUME job[c[1]] = "open" PROVE InTime(c)'
  <2>. DEFINE t == age[c[1]]
  <2>1. t \in Nat /\ age'[c[1]] = t
    BY <1>1, <1>2, CallParts DEF ClientTypeOK
  <2>2. call[c].attempt = 0 /\ call[c].kind # "siblings" /\ t = a
    <3>1. InTime(c)
      BY <1>1, <1>2, <1>7 DEF Timely, Busy
    <3>2. t + 0 = a /\ call[c].attempt = 0 /\ call[c].kind # "siblings"
      BY <1>2, <3>1 DEF InTime, a
    <3>. QED BY <2>1, <3>2
  <2>. HIDE DEF t
  <2>3. Attempts(c)' = 3 /\ Share(c)' = Window
    BY <1>3, <1>4, <2>2 DEF Attempts, Share, MaxRetries
  <2>4. 2 * (t + FetchMax) <= 2 * Window + 2 * (1 * FetchMax) + RetryDelay * (1 * (1 - 1))
    BY <1>1, <2>1, <2>2, Parameters
  <2>5. call'[c].attempt = 1 /\ call'[c].left = FetchMax /\ call'[c].pc = "fetching"
    BY <1>3, <1>4, <2>2
  <2>. QED BY <2>1, <2>3, <2>4, <2>5 DEF InTime, t
<1>8. Timely'
  <2>1. Busy(c) /\ q.pc # "done"
    BY <1>2, <1>3 DEF Busy
  <2>. QED BY <1>1, <1>2, <1>3, <1>7, <2>1, TimelyAside
<1>9. ASSUME ~crowded
      PROVE  /\ \E behind \in {0, 1} : Paired(requests', sent', behind)
             /\ \A d \in Call : call'[d].pc # "waiting"
  <2>1. PICK behind \in {0, 1} : Paired(requests, sent, behind)
    BY <1>1, <1>9 DEF Aligned
  <2>2. Waits(c)
    BY <1>1, <1>2, <1>9 DEF Aligned
  <2>3. /\ Len(requests) \in Nat /\ Len(sent) \in Nat
        /\ \A i \in 1 .. Len(requests) : requests[i] \in Nat /\ requests[i] < Window
        /\ \A i \in 1 .. Len(sent) : sent[i] \in Nat /\ sent[i] < Window
    BY <1>1, Entries
  <2>4. \A i \in 1 .. Len(requests) : requests[i] >= a
    BY <1>2, <2>2, <2>3 DEF Waits, a
  <2>5. \A i \in 1 .. Len(sent) : sent[i] >= a
    BY <1>2, <2>2, <2>3 DEF Waits, a
  <2>6. Len(requests) < Limit
    <3>1. CASE Len(requests) >= 1 /\ requests[1] + call[c].left = Window
      <4>1. 1 \in 1 .. Len(requests)
        BY <2>3, <3>1
      <4>2. requests[1] \in Nat /\ requests[1] < Window
        BY <2>3, <4>1
      <4>. QED BY <1>1, <1>2, <3>1, <4>2
    <3>. QED BY <2>2, <3>1 DEF Waits
  <2>7. Extends(sent', sent, 1, 0)
    BY <1>1, <1>2, <1>5, AppendExtends
  <2>10. \A d \in Call : call'[d].pc # "waiting"
    BY <1>1, <1>2, <1>3, <1>4, <1>9 DEF Aligned
  <2>8. CASE a < Window
    <3>1. Extends(requests', requests, 1, a)
      BY <1>1, <1>2, <1>5, <2>8, AppendExtends
    <3>2. Len(requests) + 1 <= Limit
      BY <2>3, <2>6, Parameters
    <3>3. Paired(requests', sent', behind)
      BY <1>1, <2>1, <2>4, <2>5, <2>7, <3>1, <3>2, PairedExtends
    <3>. QED BY <2>10, <3>3
  <2>9. CASE a = Window
    <3>1. Len(requests) = 0 /\ Len(sent) = 0
      <4>1. \A n \in Nat : n # 0 => 1 \in 1 .. n
        OBVIOUS
      <4>. QED BY <1>1, <2>3, <2>4, <2>5, <2>9, <4>1
    <3>2. requests' = requests /\ Len(sent') = 1 /\ sent'[1] = 0
      <4>1. 1 \in Len(sent) + 1 .. Len(sent) + 1
        BY <3>1
      <4>. QED BY <1>1, <1>2, <2>7, <2>9, <3>1, <4>1 DEF Extends
    <3>3. Paired(requests', sent', 1)
      BY <3>1, <3>2, Parameters DEF Paired, Sorted
    <3>. QED BY <2>10, <3>3
  <2>. QED BY <1>1, <2>8, <2>9
<1>10. Aligned'
  BY <1>2, <1>9 DEF Aligned
<1>. QED BY <1>6, <1>8, <1>10 DEF ClientInv

\* Time passes for the stamps, the requests, the waits and the jobs alike.
LEMMA ClientTickHolds == ASSUME ClientInv, ClientTick PROVE ClientInv'
<1>1. /\ ClientTypeOK /\ Timely /\ Aligned /\ call \in [Call -> CallRecord]
      /\ age \in [Job -> Nat] /\ requests \in Seq(Ages) /\ sent \in Seq(Ages)
  BY DEF ClientInv, ClientTypeOK
<1>2. /\ \A c \in Call : Busy(c) => call[c].left > 0
      /\ requests' = Older(requests) /\ sent' = Older(sent) /\ UNCHANGED <<job, crowded>>
      /\ call' = [c \in Call |-> IF Busy(c) THEN [call[c] EXCEPT !.left = @ - 1] ELSE call[c]]
      /\ age' = [j \in Job |-> IF job[j] = "open" THEN age[j] + 1 ELSE age[j]]
  BY DEF ClientTick
<1>3. ASSUME NEW c \in Call
      PROVE  /\ call[c] \in CallRecord /\ call'[c] \in CallRecord
             /\ call[c].left \in Nat /\ call[c].waited \in Nat
             /\ call'[c].pc = call[c].pc /\ call'[c].kind = call[c].kind
             /\ call'[c].waited = call[c].waited /\ call'[c].attempt = call[c].attempt
             /\ Busy(c) => call[c].left > 0 /\ call'[c].left = call[c].left - 1
  <2>1. call[c] \in CallRecord /\ call[c].left \in Nat /\ call[c].waited \in Nat
    BY <1>1, Parameters DEF CallRecord
  <2>2. CASE Busy(c)
    <3>1. call'[c] = [call[c] EXCEPT !.left = call[c].left - 1]
      BY <1>2, <2>2
    <3>2. call[c].left - 1 \in Nat
      BY <1>2, <2>1, <2>2
    <3>. QED BY <1>2, <2>1, <2>2, <3>1, <3>2 DEF CallRecord
  <2>3. CASE ~Busy(c)
    <3>1. call'[c] = call[c]
      BY <1>2, <2>3
    <3>. QED BY <2>1, <2>3, <3>1
  <2>. QED BY <2>2, <2>3
<1>4. call' \in [Call -> CallRecord]
  <2>1. call' = [c \in Call |-> call'[c]]
    BY <1>2
  <2>. QED BY <1>3, <2>1
<1>5. age' \in [Job -> Nat]
      /\ \A j \in Job : age'[j] = IF job[j] = "open" THEN age[j] + 1 ELSE age[j]
  BY <1>1, <1>2
<1>6. ClientTypeOK'
  <2>1. requests' \in Seq(Ages) /\ sent' \in Seq(Ages)
    BY <1>1, <1>2, OlderTyped
  <2>. QED BY <1>1, <1>2, <1>4, <1>5, <2>1 DEF ClientTypeOK
<1>7. \A c \in Call : Busy(c)' <=> Busy(c)
  BY <1>3 DEF Busy
<1>8. Timely'
  <2>1. \A j \in Job : job'[j] # "open" => age'[j] = 0
    BY <1>1, <1>2, <1>5 DEF Timely
  <2>2. \A j \in Job : job'[j] = "open" => \E c \in Of(j) : Busy(c)'
    BY <1>1, <1>2, <1>7 DEF Timely, Of
  <2>3. ASSUME NEW c \in Call, Busy(c)', job'[c[1]] = "open" PROVE InTime(c)'
    <3>1. Busy(c) /\ job[c[1]] = "open" /\ c[1] \in Job
      BY <1>2, <1>7, <2>3, CallParts
    <3>2. InTime(c)
      BY <1>1, <3>1 DEF Timely
    <3>3. age'[c[1]] + call'[c].left = age[c[1]] + call[c].left
      <4>1. age[c[1]] \in Nat /\ age'[c[1]] = age[c[1]] + 1
        BY <1>1, <1>5, <3>1
      <4>2. call[c].left \in Nat /\ call'[c].left = call[c].left - 1
        BY <1>3, <3>1
      <4>. QED BY <4>1, <4>2
    <3>4. Attempts(c)' = Attempts(c) /\ Share(c)' = Share(c)
      BY <1>3 DEF Attempts, Share
    <3>. QED BY <1>3, <3>2, <3>3, <3>4 DEF InTime
  <2>. QED BY <2>1, <2>2, <2>3 DEF Timely, Of
<1>9. ASSUME ~crowded PROVE \E behind \in {0, 1} : Paired(requests', sent', behind)
  BY <1>1, <1>2, <1>9, PairedOlder DEF Aligned
<1>10. ASSUME ~crowded, NEW c \in Call, call[c].pc = "waiting" PROVE Waits(c)'
  <2>1. Waits(c) /\ Busy(c) /\ call[c].left > 0 /\ call'[c].left = call[c].left - 1
    BY <1>1, <1>2, <1>3, <1>10 DEF Aligned, Busy
  <2>2. Sorted(requests) /\ Sorted(sent) /\ Len(requests) <= Limit
    BY <1>1, <1>10 DEF Aligned, Paired
  <2>3. /\ Len(requests) \in Nat /\ Len(sent) \in Nat /\ Limit \in Nat
        /\ \A i \in 1 .. Len(requests) : requests[i] \in Nat
        /\ \A i \in 1 .. Len(sent) : sent[i] \in Nat
    BY <1>1, Entries, Parameters
  <2>4. PICK r \in 0 .. Len(requests) :
           /\ Len(requests') = Len(requests) - r
           /\ \A i \in 1 .. Len(requests) - r : requests'[i] = requests[r + i] + 1
    BY <1>1, <1>2, <2>2, OlderSorted
  <2>5. PICK s \in 0 .. Len(sent) :
           /\ Len(sent') = Len(sent) - s
           /\ \A i \in 1 .. Len(sent) - s : sent'[i] = sent[s + i] + 1
    BY <1>1, <1>2, <2>2, OlderSorted
  <2>9. /\ call[c].left \in Nat /\ call[c].waited \in Nat
        /\ call'[c].waited = call[c].waited /\ call'[c].left = call[c].left - 1
    BY <1>3, <2>1
  <2>6. Len(requests') < Limit
        \/ (Len(requests') >= 1 /\ requests'[1] + call'[c].left = Window)
    <3>1. CASE Len(requests) < Limit \/ r >= 1
      BY <2>2, <2>3, <2>4, <3>1
    <3>2. CASE ~(Len(requests) < Limit) /\ r = 0
      <4>1. Len(requests) >= 1 /\ requests[1] + call[c].left = Window
        BY <2>1, <3>2 DEF Waits
      <4>2. 1 \in 1 .. Len(requests) - r /\ r + 1 = 1 /\ 1 \in 1 .. Len(requests)
        BY <2>3, <3>2, <4>1
      <4>3. requests'[1] = requests[1] + 1 /\ requests[1] \in Nat
        BY <2>3, <2>4, <4>2
      <4>. QED BY <1>3, <2>1, <2>3, <2>4, <3>2, <4>1, <4>3
    <3>. QED BY <2>3, <2>4, <3>1, <3>2
  <2>7. ASSUME NEW i \in 1 .. Len(requests')
        PROVE  requests'[i] + call'[c].left >= call'[c].waited
    <3>1. i \in 1 .. Len(requests) - r /\ r + i \in 1 .. Len(requests)
      BY <2>3, <2>4
    <3>. DEFINE x == requests[r + i]
                left == call[c].left
    <3>2. requests'[i] = x + 1 /\ x \in Nat /\ left \in Nat /\ call'[c].left = left - 1
          /\ x + left >= call'[c].waited
      BY <2>1, <2>9, <2>3, <2>4, <3>1 DEF Waits
    <3>. HIDE DEF x, left
    <3>3. (x + 1) + (left - 1) = x + left
      BY <3>2
    <3>. QED BY <3>2, <3>3
  <2>8. ASSUME NEW i \in 1 .. Len(sent')
        PROVE  sent'[i] + call'[c].left >= call'[c].waited
    <3>1. i \in 1 .. Len(sent) - s /\ s + i \in 1 .. Len(sent)
      BY <2>3, <2>5
    <3>. DEFINE x == sent[s + i]
                left == call[c].left
    <3>2. sent'[i] = x + 1 /\ x \in Nat /\ left \in Nat /\ call'[c].left = left - 1
          /\ x + left >= call'[c].waited
      BY <2>1, <2>9, <2>3, <2>5, <3>1 DEF Waits
    <3>. HIDE DEF x, left
    <3>3. (x + 1) + (left - 1) = x + left
      BY <3>2
    <3>. QED BY <3>2, <3>3
  <2>. QED BY <2>6, <2>7, <2>8 DEF Waits
<1>11. Aligned'
  <2>1. \A c \in Call : call'[c].pc = call[c].pc
    BY <1>3
  <2>2. ~crowded => \A c \in Call, d \in Call :
           call[c].pc = "waiting" /\ call[d].pc = "waiting" => c = d
    BY <1>1 DEF Aligned
  <2>. QED BY <1>2, <1>9, <1>10, <2>1, <2>2 DEF Aligned
<1>. QED BY <1>6, <1>8, <1>11 DEF ClientInv
-----------------------------------------------------------------------------
LEMMA MinIsOne ==
    ASSUME NEW a \in Nat, NEW b \in Nat PROVE Min({a, b}) \in {a, b} /\ Min({a, b}) <= b
<1>1. \E x \in {a, b} : \A y \in {a, b} : x <= y
  <2>1. CASE a <= b
    BY <2>1
  <2>2. CASE b <= a
    BY <2>2
  <2>. QED BY <2>1, <2>2
<1>2. Min({a, b}) \in {a, b} /\ \A y \in {a, b} : Min({a, b}) <= y
  BY <1>1 DEF Min
<1>. QED BY <1>2

\* No more calls find a slot than there are, and all slots are taken if one finds none.
LEMMA SlotsAre ==
    ASSUME requests \in Seq(Ages), NEW n \in Nat, NEW ready \in Slots(1 .. n)
    PROVE  /\ \A i \in ready : i \in 1 .. n
           /\ IsFiniteSet((1 .. n) \ ready) /\ Cardinality((1 .. n) \ ready) \in Nat
           /\ Cardinality(ready) \in Nat /\ Free \in Nat /\ Cardinality(ready) <= Free
           /\ Len(requests) <= Limit => Len(requests) + Cardinality(ready) <= Limit
           /\ (1 .. n) \ ready # {} => Len(requests) + Cardinality(ready) >= Limit
<1>. DEFINE places == 1 .. n
<1>1. IsFiniteSet(places)
  <2>1. 1 \in Int /\ n \in Int
    OBVIOUS
  <2>. QED BY <2>1, FS_Interval
<1>2. Len(requests) \in Nat /\ Limit \in Nat
  BY Parameters
<1>3. Free \in Nat /\ (Len(requests) <= Limit => Len(requests) + Free = Limit)
      /\ Len(requests) + Free >= Limit
  BY <1>2 DEF Free
<1>4. ready \in SUBSET places /\ Cardinality(ready) = Min({Cardinality(places), Free})
  BY DEF Slots, kSubset
<1>5. \A i \in ready : i \in places
  BY <1>4
<1>. HIDE DEF places
<1>6. /\ IsFiniteSet(ready) /\ Cardinality(ready) \in Nat /\ Cardinality(places) \in Nat
      /\ Cardinality(places) = Cardinality(ready) => places = ready
  BY <1>1, <1>4, FS_Subset, FS_CardinalityType
<1>7. IsFiniteSet(places \ ready) /\ Cardinality(places \ ready) \in Nat
  <2>1. places \ ready \in SUBSET places
    OBVIOUS
  <2>. QED BY <1>1, <2>1, FS_Subset, FS_CardinalityType
<1>8. Cardinality(ready) \in {Cardinality(places), Free} /\ Cardinality(ready) <= Free
  BY <1>3, <1>4, <1>6, MinIsOne
<1>9. places \ ready # {} => Cardinality(ready) = Free
  BY <1>6, <1>8
<1>. QED BY <1>2, <1>3, <1>5, <1>6, <1>7, <1>8, <1>9 DEF places

\* The calls of a job that begins, of which some fetch and some wait.
LEMMA JobStarts ==
    ASSUME ClientInv, NEW j \in Job, NEW n \in 1 .. Places, NEW arkpassive \in BOOLEAN,
           arkpassive => n < Places, job[j] # "open", StartJob(j, n, arkpassive), UNCHANGED age
    PROVE  ClientInv'
<1>. DEFINE m == IF arkpassive THEN n + 1 ELSE n
            places == 1 .. m
            Begun(i) == [NoCall EXCEPT !.kind = IF i > n THEN "arkpassive" ELSE "section"]
            List(ready) == requests \o Zeros(Cardinality(ready))
            Wait(ready) == Window - Head(List(ready))
<1>1. /\ ClientTypeOK /\ Timely /\ Aligned /\ requests \in Seq(Ages) /\ sent \in Seq(Ages)
      /\ call \in [Call -> CallRecord]
  BY DEF ClientInv, ClientTypeOK
<1>2. PICK ready \in Slots(places) :
         /\ requests' = List(ready)
         /\ call' = [c \in Call |->
               IF c[1] # j THEN call[c]
               ELSE IF c[2] \in ready THEN Fetching(Begun(c[2]))
               ELSE IF c[2] \in places
               THEN [Begun(c[2]) EXCEPT !.pc = "waiting", !.left = Wait(ready),
                                        !.waited = Wait(ready)]
               ELSE NoCall]
         /\ sent' = sent \o Zeros(Cardinality(ready))
         /\ crowded' = (crowded \/ Waiting # {} \/ Cardinality(places \ ready) > 1)
  BY Zenon DEF StartJob
<1>3. job' = [job EXCEPT ![j] = "open"]
  BY DEF StartJob
<1>4. m \in Nat /\ 1 <= m /\ m <= Places
  BY Parameters
<1>5. /\ \A i \in ready : i \in places
      /\ IsFiniteSet(places \ ready) /\ Cardinality(places \ ready) \in Nat
      /\ Cardinality(ready) \in Nat
      /\ Len(requests) <= Limit => Len(requests) + Cardinality(ready) <= Limit
      /\ places \ ready # {} => Len(requests) + Cardinality(ready) >= Limit
  BY <1>1, <1>4, SlotsAre
<1>6. /\ requests' \in Seq(Ages) /\ Extends(requests', requests, Cardinality(ready), 0)
      /\ sent' \in Seq(Ages) /\ Extends(sent', sent, Cardinality(ready), 0)
  BY <1>1, <1>2, <1>5, ZerosExtend
<1>7. ASSUME NEW i \in places
      PROVE  Begun(i) \in CallRecord /\ Begun(i).attempt = 0 /\ Begun(i).kind # "siblings"
  <2>1. (IF i > n THEN "arkpassive" ELSE "section") \in Kinds
        /\ (IF i > n THEN "arkpassive" ELSE "section") # "siblings"
    BY DEF Kinds
  <2>. QED BY <2>1, BegunIs
<1>. DEFINE wait == Wait(ready)
<1>8. ASSUME places \ ready # {}
      PROVE  /\ wait \in 0 .. Window /\ wait \in Nat
             /\ Len(requests') >= Limit /\ Len(requests') >= 1 /\ requests'[1] + wait = Window
  <2>1. Len(requests') = Len(requests) + Cardinality(ready) /\ Len(requests) \in Nat
    BY <1>1, <1>6 DEF Extends
  <2>2. Len(requests') >= Limit /\ Len(requests') >= 1 /\ Len(requests') \in Nat
    BY <1>5, <1>8, <2>1, Parameters
  <2>3. 1 \in 1 .. Len(requests')
    BY <2>2
  <2>4. requests'[1] \in Nat /\ requests'[1] < Window
    BY <1>6, <2>3, Entries
  <2>5. wait = Window - requests'[1]
    <3>1. wait = Window - Head(requests')
      BY <1>2
    <3>2. Head(requests') = requests'[1]
      BY <1>6, <2>2
    <3>. QED BY <3>1, <3>2
  <2>. HIDE DEF wait
  <2>. QED BY <2>2, <2>4, <2>5, Parameters
<1>. HIDE DEF Begun, places, m, List, Wait, wait
<1>9. ASSUME NEW c \in Call
      PROVE  /\ c[1] # j => call'[c] = call[c]
             /\ c[1] = j /\ c[2] \in ready => call'[c] = Fetching(Begun(c[2]))
             /\ c[1] = j /\ c[2] \notin ready /\ c[2] \in places =>
                   call'[c] = [Begun(c[2]) EXCEPT !.pc = "waiting", !.left = wait,
                                                  !.waited = wait]
             /\ c[1] = j /\ c[2] \notin places => call'[c] = NoCall
  <2>1. call'[c] = IF c[1] # j THEN call[c]
                   ELSE IF c[2] \in ready THEN Fetching(Begun(c[2]))
                   ELSE IF c[2] \in places
                   THEN [Begun(c[2]) EXCEPT !.pc = "waiting", !.left = wait, !.waited = wait]
                   ELSE NoCall
    BY <1>2 DEF wait
  <2>2. c[2] \notin places => c[2] \notin ready
    BY <1>5
  <2>. QED BY <2>1, <2>2
\* What each call of the job does now.
<1>10. ASSUME NEW c \in Call, c[1] = j, c[2] \in ready
       PROVE  /\ call'[c] \in CallRecord /\ call'[c].pc = "fetching" /\ call'[c].attempt = 1
              /\ call'[c].left = FetchMax /\ call'[c].kind # "siblings"
  <2>1. c[2] \in places /\ call'[c] = Fetching(Begun(c[2]))
    BY <1>5, <1>9, <1>10
  <2>. QED BY <1>7, <2>1, FetchingIs
<1>11. ASSUME NEW c \in Call, c[1] = j, c[2] \notin ready, c[2] \in places
       PROVE  /\ call'[c] \in CallRecord /\ call'[c].pc = "waiting" /\ call'[c].attempt = 0
              /\ call'[c].left = wait /\ call'[c].waited = wait /\ call'[c].kind # "siblings"
              /\ wait \in 0 .. Window
  <2>1. places \ ready # {}
    BY <1>11
  <2>2. wait \in 0 .. Window
    BY <1>8, <2>1
  <2>3. call'[c] = [Begun(c[2]) EXCEPT !.pc = "waiting", !.left = wait, !.waited = wait]
    BY <1>9, <1>11
  <2>. DEFINE r == Begun(c[2])
  <2>4. r \in CallRecord /\ r.attempt = 0 /\ r.kind # "siblings"
    BY <1>7, <1>11
  <2>. HIDE DEF r
  <2>5. call'[c] = [r EXCEPT !.pc = "waiting", !.left = wait, !.waited = wait]
    BY <2>3 DEF r
  <2>6. wait \in Nat
    BY <1>8, <2>1
  <2>. QED BY <2>2, <2>4, <2>5, <2>6 DEF CallRecord
<1>12. ASSUME NEW c \in Call, c[1] = j, c[2] \notin places
       PROVE  call'[c] \in CallRecord /\ call'[c].pc = "done"
  BY <1>9, <1>12, NoCallIs
<1>13. call' \in [Call -> CallRecord]
  <2>1. \A c \in Call : c[1] # j => call'[c] \in CallRecord
    BY <1>1, <1>9
  <2>2. \A c \in Call : call'[c] \in CallRecord
    BY <1>10, <1>11, <1>12, <2>1
  <2>3. call' = [c \in Call |-> call'[c]]
    BY <1>2
  <2>. QED BY <2>2, <2>3
<1>14. /\ job' \in [Job -> {"idle", "open", "answered", "failed"}] /\ job'[j] = "open"
       /\ \A i \in Job : i # j => job'[i] = job[i]
  BY <1>1, <1>3 DEF ClientTypeOK
<1>15. crowded' \in BOOLEAN
  BY <1>2
<1>16. ClientTypeOK'
  BY <1>1, <1>6, <1>13, <1>14, <1>15 DEF ClientTypeOK
<1>17. Timely'
  <2>1. \A i \in Job : job'[i] # "open" => age'[i] = 0
    BY <1>1, <1>14 DEF Timely
  <2>2. ASSUME NEW i \in Job, job'[i] = "open" PROVE \E c \in Of(i) : Busy(c)'
    <3>1. CASE i = j
      <4>. DEFINE c == <<j, 1>>
      <4>1. c \in Call /\ c[1] = j /\ c[2] = 1 /\ 1 \in places
        BY <1>4, Parameters DEF Call, places
      <4>2. Busy(c)'
        BY <1>10, <1>11, <4>1 DEF Busy
      <4>. HIDE DEF c
      <4>3. c \in Of(i)
        BY <3>1, <4>1 DEF Of
      <4>. QED BY <4>2, <4>3
    <3>2. CASE i # j
      <4>1. PICK c \in Of(i) : Busy(c)
        BY <1>1, <1>14, <2>2, <3>2 DEF Timely
      <4>2. c \in Call /\ c[1] # j
        BY <3>2, <4>1 DEF Of
      <4>. QED BY <1>9, <4>1, <4>2 DEF Busy
    <3>. QED BY <3>1, <3>2
  <2>3. ASSUME NEW c \in Call, Busy(c)', job'[c[1]] = "open" PROVE InTime(c)'
    <3>1. c[1] \in Job
      BY CallParts
    <3>2. CASE c[1] # j
      <4>1. call'[c] = call[c] /\ job[c[1]] = "open"
        BY <1>9, <1>14, <2>3, <3>1, <3>2
      <4>2. InTime(c)
        BY <1>1, <2>3, <4>1 DEF Timely, Busy
      <4>. QED BY <4>1, <4>2 DEF InTime, Attempts, Share
    <3>3. CASE c[1] = j
      <4>1. age'[c[1]] = 0
        BY <1>1, <3>3 DEF Timely
      <4>2. CASE c[2] \in ready
        <5>1. /\ call'[c].pc = "fetching" /\ call'[c].attempt = 1
              /\ call'[c].left = FetchMax /\ call'[c].kind # "siblings"
          BY <1>10, <3>3, <4>2
        <5>2. Attempts(c)' = 3 /\ Share(c)' = Window
          BY <5>1 DEF Attempts, Share, MaxRetries
        <5>3. 2 * (0 + FetchMax) <= 2 * Window + 2 * (1 * FetchMax) + RetryDelay * (1 * (1 - 1))
          BY Parameters
        <5>. QED BY <4>1, <5>1, <5>2, <5>3 DEF InTime
      <4>3. CASE c[2] \notin ready /\ c[2] \in places
        <5>1. /\ call'[c].pc = "waiting" /\ call'[c].attempt = 0
              /\ call'[c].left = wait /\ call'[c].waited = wait /\ call'[c].kind # "siblings"
              /\ 0 + wait = wait
          BY <1>11, <3>3, <4>3, Parameters
        <5>. QED BY <4>1, <5>1 DEF InTime
      <4>. QED BY <1>12, <2>3, <3>3, <4>2, <4>3 DEF Busy
    <3>. QED BY <3>2, <3>3
  <2>. QED BY <2>1, <2>2, <2>3 DEF Timely, Of
<1>18. Aligned'
  <2>. SUFFICES ASSUME ~crowded'
                PROVE  /\ \E behind \in {0, 1} : Paired(requests', sent', behind)
                       /\ \A c \in Call, d \in Call :
                             call'[c].pc = "waiting" /\ call'[d].pc = "waiting" => c = d
                       /\ \A c \in Call : call'[c].pc = "waiting" => Waits(c)'
    BY DEF Aligned
  <2>1. ~crowded /\ Waiting = {} /\ ~(Cardinality(places \ ready) > 1)
    BY <1>2
  <2>2. \A c \in Call : call'[c].pc = "waiting" =>
           c[1] = j /\ c[2] \in places \ ready
    <3>1. \A c \in Call : call[c].pc # "waiting"
      BY <2>1 DEF Waiting
    <3>2. \A c \in Call : c[1] # j => call'[c].pc # "waiting"
      BY <1>9, <3>1
    <3>. QED BY <1>10, <1>12, <3>2
  <2>3. PICK behind \in {0, 1} : Paired(requests, sent, behind)
    BY <1>1, <2>1 DEF Aligned
  <2>4. Len(requests) + Cardinality(ready) <= Limit
    BY <1>5, <2>3 DEF Paired
  <2>5. Paired(requests', sent', behind)
    <3>1. /\ \A i \in 1 .. Len(requests) : requests[i] >= 0
          /\ \A i \in 1 .. Len(sent) : sent[i] >= 0
      BY <1>1, Entries
    <3>. QED BY <1>1, <1>5, <1>6, <2>3, <2>4, <3>1, PairedExtends
  <2>6. \A x \in places \ ready, y \in places \ ready : x = y
    <3>1. Cardinality(places \ ready) = 0 \/ Cardinality(places \ ready) = 1
      BY <1>5, <2>1
    <3>2. CASE Cardinality(places \ ready) = 0
      BY <1>5, <3>2, FS_EmptySet
    <3>3. CASE Cardinality(places \ ready) = 1
      <4>1. \E x : places \ ready = {x}
        BY <1>5, <3>3, FS_Singleton
      <4>. QED BY <4>1
    <3>. QED BY <3>1, <3>2, <3>3
  <2>7. \A c \in Call, d \in Call :
           call'[c].pc = "waiting" /\ call'[d].pc = "waiting" => c = d
    BY <2>2, <2>6, CallParts
  <2>8. ASSUME NEW c \in Call, call'[c].pc = "waiting" PROVE Waits(c)'
    <3>1. c[1] = j /\ c[2] \in places /\ c[2] \notin ready
      BY <2>2, <2>8
    <3>2. call'[c].left = wait /\ call'[c].waited = wait
      BY <1>11, <3>1
    <3>3. wait \in Nat /\ Len(requests') >= 1 /\ requests'[1] + wait = Window
      BY <1>8, <3>1
    <3>4. /\ \A i \in 1 .. Len(requests') : requests'[i] \in Nat
          /\ \A i \in 1 .. Len(sent') : sent'[i] \in Nat
      BY <1>6, Entries
    <3>5. /\ \A i \in 1 .. Len(requests') : requests'[i] + wait >= wait
          /\ \A i \in 1 .. Len(sent') : sent'[i] + wait >= wait
      BY <3>3, <3>4
    <3>. QED BY <3>2, <3>3, <3>5 DEF Waits
  <2>. QED BY <2>5, <2>7, <2>8
<1>. QED BY <1>16, <1>17, <1>18 DEF ClientInv

\* The siblings' call does not see the limiter.
LEMMA SiblingsStart ==
    ASSUME ClientInv, NEW j \in Job, job[j] # "open", \A c \in Of(j) : ~Busy(c),
           StartSiblings(j), UNCHANGED age
    PROVE  ClientInv'
<1>1. ClientTypeOK /\ Timely /\ Aligned
  BY DEF ClientInv
<1>2. UNCHANGED <<requests, sent, crowded>>
  BY DEF StartSiblings
<1>3. CASE RetryAttempts > 0
  <2>. DEFINE c == <<j, 1>>
              q == Fetching([NoCall EXCEPT !.kind = "siblings"])
  <2>1. call' = [call EXCEPT ![c] = q] /\ job' = [job EXCEPT ![j] = "open"]
    BY <1>3 DEF StartSiblings
  <2>2. c \in Call /\ c[1] = j
    <3>1. 1 \in 1 .. Places
      BY Parameters
    <3>. QED BY <3>1 DEF Call
  <2>3. q \in CallRecord /\ q.pc = "fetching" /\ q.left = FetchMax /\ q.attempt = 1
        /\ q.kind = "siblings"
    <3>1. "siblings" \in Kinds
      BY DEF Kinds
    <3>. DEFINE r == [NoCall EXCEPT !.kind = "siblings"]
    <3>2. r \in CallRecord /\ r.attempt = 0 /\ r.kind = "siblings"
      BY <3>1, BegunIs
    <3>. HIDE DEF r
    <3>3. q = Fetching(r)
      BY DEF r
    <3>. QED BY <3>2, <3>3, FetchingIs
  <2>. HIDE DEF c, q
  <2>4. call' \in [Call -> CallRecord] /\ call'[c] = q
        /\ \A d \in Call : d # c => call'[d] = call[d]
    BY <1>1, <2>1, <2>2, <2>3, OneCall
  <2>5. /\ job' \in [Job -> {"idle", "open", "answered", "failed"}] /\ job'[j] = "open"
        /\ \A i \in Job : i # j => job'[i] = job[i]
    BY <1>1, <2>1 DEF ClientTypeOK
  <2>6. ClientTypeOK'
    BY <1>1, <1>2, <2>4, <2>5 DEF ClientTypeOK
  <2>7. Aligned'
    <3>1. \A d \in Call : call'[d].pc = "waiting" =>
              call[d].pc = "waiting" /\ call'[d] = call[d]
      BY <2>3, <2>4
    <3>. QED BY <1>1, <1>2, <3>1, AlignedAside
  <2>8. Timely'
    <3>1. \A i \in Job : job'[i] # "open" => age'[i] = 0
      BY <1>1, <2>5 DEF Timely
    <3>2. ASSUME NEW i \in Job, job'[i] = "open" PROVE \E d \in Of(i) : Busy(d)'
      <4>1. CASE i = j
        BY <2>2, <2>3, <2>4, <4>1 DEF Of, Busy
      <4>2. CASE i # j
        <5>1. PICK d \in Of(i) : Busy(d)
          BY <1>1, <2>5, <3>2, <4>2 DEF Timely
        <5>2. d \in Call /\ d # c
          BY <2>2, <4>2, <5>1 DEF Of
        <5>. QED BY <2>4, <5>1, <5>2 DEF Busy
      <4>. QED BY <4>1, <4>2
    <3>3. ASSUME NEW d \in Call, Busy(d)', job'[d[1]] = "open" PROVE InTime(d)'
      <4>1. CASE d = c
        <5>1. Attempts(d)' = RetryAttempts /\ Share(d)' = 0
          BY <2>3, <2>4, <4>1 DEF Attempts, Share
        <5>2. age'[d[1]] = 0
          BY <1>1, <2>2, <4>1 DEF Timely
        <5>3. 2 * (0 + FetchMax) <= 2 * 0 + 2 * (1 * FetchMax) + RetryDelay * (1 * (1 - 1))
              /\ 1 <= RetryAttempts /\ 1 >= 1
          BY <1>3, Parameters
        <5>4. call'[d].pc = "fetching" /\ call'[d].left = FetchMax /\ call'[d].attempt = 1
          BY <2>3, <2>4, <4>1
        <5>. QED BY <5>1, <5>2, <5>3, <5>4 DEF InTime
      <4>2. CASE d # c
        <5>1. d[1] \in Job /\ call'[d] = call[d] /\ Busy(d)
          BY <2>4, <3>3, <4>2, CallParts DEF Busy
        <5>2. d[1] # j
          BY <5>1 DEF Of
        <5>3. job[d[1]] = "open"
          BY <2>5, <3>3, <5>1, <5>2
        <5>4. InTime(d)
          BY <1>1, <5>1, <5>3 DEF Timely
        <5>. QED BY <5>1, <5>4 DEF InTime, Attempts, Share
      <4>. QED BY <4>1, <4>2
    <3>. QED BY <3>1, <3>2, <3>3 DEF Timely, Of
  <2>. QED BY <2>6, <2>7, <2>8 DEF ClientInv
<1>4. CASE ~(RetryAttempts > 0)
  <2>1. UNCHANGED call /\ job' = [job EXCEPT ![j] = "failed"]
    BY <1>4 DEF StartSiblings
  <2>2. /\ job' \in [Job -> {"idle", "open", "answered", "failed"}] /\ job'[j] = "failed"
        /\ \A i \in Job : i # j => job'[i] = job[i]
    BY <1>1, <2>1 DEF ClientTypeOK
  <2>3. ClientTypeOK'
    BY <1>1, <1>2, <2>1, <2>2 DEF ClientTypeOK
  <2>4. Aligned'
    BY <1>1, <1>2, <2>1, AlignedAside
  <2>5. \A i \in Job : job'[i] = "open" => job[i] = "open"
    BY <2>2
  <2>6. \A i \in Job : job'[i] # "open" => age'[i] = 0
    BY <1>1, <2>2 DEF Timely
  <2>7. \A i \in Job : job'[i] = "open" => \E d \in Of(i) : Busy(d)'
    BY <1>1, <2>1, <2>5 DEF Timely, Of, Busy
  <2>8. ASSUME NEW d \in Call, Busy(d)', job'[d[1]] = "open" PROVE InTime(d)'
    <3>1. d[1] \in Job /\ job[d[1]] = "open" /\ Busy(d)
      BY <2>1, <2>5, <2>8, CallParts DEF Busy
    <3>2. InTime(d)
      BY <1>1, <3>1 DEF Timely
    <3>. QED BY <2>1, <3>2 DEF InTime, Attempts, Share
  <2>9. Timely'
    BY <2>6, <2>7, <2>8 DEF Timely, Of
  <2>. QED BY <2>3, <2>4, <2>9 DEF ClientInv
<1>. QED BY <1>3, <1>4
-----------------------------------------------------------------------------

LEMMA StartHolds == ASSUME ClientInv, NEW j \in Job, Start(j) PROVE ClientInv'
<1>1. job[j] # "open" /\ (\A c \in Of(j) : ~Busy(c)) /\ UNCHANGED age
  BY DEF Start
<1>2. CASE StartSiblings(j)
  BY <1>1, <1>2, SiblingsStart
<1>3. CASE \E n \in 1 .. Places, arkpassive \in BOOLEAN :
              (arkpassive => n < Places) /\ StartJob(j, n, arkpassive)
  BY <1>1, <1>3, JobStarts
<1>. QED BY <1>2, <1>3 DEF Start

LEMMA ClientNextHolds == ClientInv /\ [ClientNext]_clientVars => ClientInv'
<1>. SUFFICES ASSUME ClientInv, [ClientNext]_clientVars PROVE ClientInv'
  OBVIOUS
<1>1. CASE ClientTick
  BY <1>1, ClientTickHolds
<1>2. CASE \E j \in Job : Start(j)
  BY <1>2, StartHolds
<1>3. ASSUME NEW c \in Call,
             WaitEnds(c) \/ BackoffEnds(c) \/ FetchAnswers(c) \/ FetchFails(c) \/ CallGivesUp(c)
      PROVE  ClientInv'
  <2>1. CASE WaitEnds(c)
    BY <2>1, WaitEndsHolds
  <2>2. CASE BackoffEnds(c)
    BY <2>2, BackoffEndsHolds
  <2>3. CASE FetchAnswers(c)
    BY <2>3, EndsHolds DEF FetchAnswers
  <2>4. CASE FetchFails(c)
    BY <2>4, FetchFailsHolds
  <2>5. CASE CallGivesUp(c)
    BY <2>5, CallGivesUpHolds
  <2>. QED BY <1>3, <2>1, <2>2, <2>3, <2>4, <2>5
<1>4. CASE UNCHANGED clientVars
  <2>1. UNCHANGED <<requests, call, job, age, sent, crowded>>
    BY <1>4 DEF clientVars
  <2>2. ClientTypeOK' /\ Timely'
    BY <2>1 DEF ClientInv, ClientTypeOK, Timely, Of, Busy, InTime, Attempts, Share
  <2>3. Aligned'
    BY <2>1, AlignedAside DEF ClientInv
  <2>. QED BY <2>2, <2>3 DEF ClientInv
<1>. QED BY <1>1, <1>2, <1>3, <1>4 DEF ClientNext

\* Stamps and requests of the limiter stay side by side while calls wait one at a time, and no
\* call of an open job has taken longer than its wait and its attempts come to.
THEOREM ClientInvHolds == ClientSpec => []ClientInv
BY ClientInitHolds, ClientNextHolds, PTL DEF ClientSpec

LEMMA BoundOfWindow == ClientInv => WindowBound
<1>. SUFFICES ASSUME ClientInv, ~crowded PROVE Len(sent) <= Limit + 1
  BY DEF WindowBound
<1>1. PICK behind \in {0, 1} : Paired(requests, sent, behind)
  BY DEF ClientInv, Aligned
<1>2. Len(requests) \in Nat /\ Limit \in Nat
  BY Parameters DEF ClientInv, ClientTypeOK
<1>. QED BY <1>1, <1>2 DEF Paired

\* As long as no call has come to the limiter while another was waiting, no window holds more
\* first requests than the limit and one: a stamp that waitForSlot leaves is older than its call,
\* but never older than the request before it.
THEOREM WindowBoundHolds == ClientSpec => []WindowBound
BY ClientInvHolds, BoundOfWindow, PTL
-----------------------------------------------------------------------------
LEMMA ProductGrows ==
    ASSUME NEW a \in Nat, NEW b \in Nat, a <= b, NEW c \in Nat PROVE a * c <= b * c /\ c * a <= c * b
<1>. DEFINE d == b - a
<1>1. d \in Nat /\ b = a + d
  OBVIOUS
<1>. HIDE DEF d
<1>2. d * c \in Nat /\ a * c \in Nat
  BY <1>1
<1>3. b * c = a * c + d * c /\ c * a = a * c /\ c * b = b * c
  BY <1>1
<1>. QED BY <1>2, <1>3

SectionTime == Window + 3 * FetchMax + 3 * RetryDelay
SiblingsTime ==
    RetryAttempts * FetchMax + RetryDelay * ((RetryAttempts * (RetryAttempts + 1)) \div 2)

\* What the siblings' attempts come to, and the delays before the last of them.
LEMMA SiblingsSum ==
    ASSUME NEW a \in Nat, NEW b \in Nat, 1 <= a, a <= RetryAttempts, b <= a, b <= RetryAttempts - 1
    PROVE  /\ SiblingsTime \in Nat
           /\ 2 * (a * FetchMax) + RetryDelay * (b * (b + 1)) <= 2 * SiblingsTime
<1>. DEFINE n == RetryAttempts
            half == (n * (n + 1)) \div 2
<1>1. n \in Nat /\ n >= 1 /\ FetchMax \in Nat /\ RetryDelay \in Nat
  BY Parameters
<1>2. a * FetchMax <= n * FetchMax /\ a * FetchMax \in Nat /\ n * FetchMax \in Nat
  BY <1>1, ProductGrows
<1>. HIDE DEF n
<1>3. b * (b + 1) <= n * (n + 1) - 2
  <2>0. b <= n - 1
    BY DEF n
  <2>1. b * (b + 1) <= (n - 1) * (b + 1)
    BY <1>1, <2>0, ProductGrows
  <2>2. (n - 1) * (b + 1) <= (n - 1) * n
    <3>1. b + 1 <= n /\ n - 1 \in Nat /\ b + 1 \in Nat
      BY <1>1, <2>0
    <3>. QED BY <1>1, <3>1, ProductGrows
  <2>3. (n - 1) * n = n * (n + 1) - 2 * n
    BY <1>1
  <2>4. (n - 1) * n \in Int /\ n * (n + 1) \in Int /\ b * (b + 1) \in Int
        /\ (n - 1) * (b + 1) \in Int
    BY <1>1
  <2>. QED BY <1>1, <2>1, <2>2, <2>3, <2>4
<1>4. half \in Nat /\ n * (n + 1) - 1 <= 2 * half
  <2>1. n * (n + 1) \in Nat
    BY <1>1
  <2>. QED BY <2>1
<1>. HIDE DEF half
<1>5. b * (b + 1) <= 2 * half /\ b * (b + 1) \in Nat
  <2>1. b * (b + 1) \in Nat /\ n * (n + 1) \in Nat
    BY <1>1
  <2>. QED BY <1>3, <1>4, <2>1
<1>6. RetryDelay * (b * (b + 1)) <= RetryDelay * (2 * half)
  <2>1. 2 * half \in Nat
    BY <1>4
  <2>. QED BY <1>1, <1>5, <2>1, ProductGrows
<1>7. RetryDelay * (2 * half) = 2 * (RetryDelay * half) /\ RetryDelay * half \in Nat
      /\ RetryDelay * (b * (b + 1)) \in Nat
  BY <1>1, <1>4, <1>5
<1>8. SiblingsTime = n * FetchMax + RetryDelay * half
  BY DEF SiblingsTime, half, n
<1>. QED BY <1>2, <1>6, <1>7, <1>8

\* What is left of a call is at least nothing.
LEMMA InTimeBounds ==
    ASSUME ClientInv, NEW c \in Call, Busy(c), job[c[1]] = "open"
    PROVE  age[c[1]] <= SectionTime \/ age[c[1]] <= SiblingsTime
<1>. DEFINE a == call[c].attempt
            t == age[c[1]]
            left == call[c].left
            F == a * FetchMax
<1>1. /\ InTime(c) /\ call[c] \in CallRecord /\ t \in Nat
      /\ a \in Nat /\ left \in Nat /\ call[c].waited \in 0 .. Window
      /\ Window \in Nat /\ FetchMax \in Nat /\ RetryDelay \in Nat
      /\ call[c].pc \in {"waiting", "fetching", "backoff"}
  BY CallParts, Parameters DEF ClientInv, ClientTypeOK, Timely, CallRecord, Busy
<1>2. CASE call[c].pc = "waiting"
  <2>1. t + left = call[c].waited
    BY <1>1, <1>2 DEF InTime
  <2>. QED BY <1>1, <2>1 DEF SectionTime
<1>3. ASSUME NEW b \in Nat, b <= a, b <= Attempts(c) - 1, 1 <= a, a <= Attempts(c),
             2 * (t + left) <= 2 * Share(c) + 2 * (a * FetchMax) + RetryDelay * (b * (b + 1))
      PROVE  t <= SectionTime \/ t <= SiblingsTime
  <2>. HIDE DEF t, left
  <2>1. CASE call[c].kind = "siblings"
    <3>1. Attempts(c) = RetryAttempts /\ Share(c) = 0
      BY <2>1, AttemptsIs
    <3>. HIDE DEF a
    <3>2. SiblingsTime \in Nat
          /\ 2 * (a * FetchMax) + RetryDelay * (b * (b + 1)) <= 2 * SiblingsTime
      BY <1>1, <1>3, <3>1, SiblingsSum
    <3>3. a * FetchMax \in Int /\ RetryDelay * (b * (b + 1)) \in Int
      BY <1>1
    <3>. QED BY <1>1, <1>3, <3>1, <3>2, <3>3
  <2>2. CASE call[c].kind # "siblings"
    <3>1. Attempts(c) = 3 /\ Share(c) = Window
      BY <2>2, AttemptsIs
    <3>. HIDE DEF a
    <3>2. a * FetchMax <= 3 * FetchMax /\ a * FetchMax \in Int
      BY <1>1, <1>3, <3>1, ProductGrows
    <3>3. RetryDelay * (b * (b + 1)) <= RetryDelay * 6 /\ RetryDelay * (b * (b + 1)) \in Int
      <4>1. b = 0 \/ b = 1 \/ b = 2
        BY <1>3, <3>1
      <4>2. b * (b + 1) \in Nat /\ b * (b + 1) <= 6
        BY <4>1
      <4>. QED BY <1>1, <4>2, ProductGrows
    <3>. QED BY <1>1, <1>3, <3>1, <3>2, <3>3 DEF SectionTime
  <2>. QED BY <2>1, <2>2
<1>4. CASE call[c].pc = "fetching"
  <2>1. a >= 1 /\ a <= Attempts(c)
        /\ 2 * (t + left) <= 2 * Share(c) + 2 * (a * FetchMax) + RetryDelay * (a * (a - 1))
    BY <1>1, <1>4 DEF InTime
  <2>. HIDE DEF a, t, left
  <2>2. a - 1 \in Nat /\ a - 1 <= a /\ a - 1 <= Attempts(c) - 1 /\ a * (a - 1) = (a - 1) * ((a - 1) + 1)
    BY <1>1, <2>1, AttemptsIs
  <2>. QED BY <1>3, <2>1, <2>2 DEF t
<1>5. CASE call[c].pc = "backoff"
  <2>1. a >= 1 /\ a < Attempts(c)
        /\ 2 * (t + left) <= 2 * Share(c) + 2 * (a * FetchMax) + RetryDelay * (a * (a + 1))
    BY <1>1, <1>5 DEF InTime
  <2>. HIDE DEF a, t, left
  <2>2. a <= a /\ a <= Attempts(c) - 1 /\ a <= Attempts(c)
    BY <1>1, <2>1, AttemptsIs
  <2>. QED BY <1>1, <1>3, <2>1, <2>2 DEF t
<1>. QED BY <1>1, <1>2, <1>4, <1>5

LEMMA BoundOfTime == ClientInv => AnsweredInTime
<1>. SUFFICES ASSUME ClientInv, NEW j \in Job, job[j] = "open"
              PROVE  age[j] <= Max({SectionTime, SiblingsTime})
  BY DEF AnsweredInTime, SectionTime, SiblingsTime
<1>1. PICK c \in Of(j) : Busy(c)
  BY DEF ClientInv, Timely
<1>2. c \in Call /\ c[1] = j
  BY <1>1 DEF Of
<1>3. age[j] <= SectionTime \/ age[j] <= SiblingsTime
  BY <1>1, <1>2, InTimeBounds
<1>4. SectionTime \in Nat /\ age[j] \in Nat
  BY Parameters DEF SectionTime, ClientInv, ClientTypeOK
<1>5. SiblingsTime \in Nat
  <2>1. RetryAttempts * (RetryAttempts + 1) \in Nat /\ RetryAttempts * FetchMax \in Nat
    BY Parameters
  <2>2. (RetryAttempts * (RetryAttempts + 1)) \div 2 \in Nat
    BY <2>1
  <2>3. RetryDelay * ((RetryAttempts * (RetryAttempts + 1)) \div 2) \in Nat
    BY <2>2, Parameters
  <2>. QED BY <2>1, <2>3 DEF SiblingsTime
<1>. QED BY <1>3, <1>4, <1>5, MaxOfTwo

\* What a service awaits of the client answers or fails within one wait and the attempts of one
\* call, be they three with a wait before them or the siblings', however many calls run at once.
THEOREM AnsweredInTimeHolds == ClientSpec => []AnsweredInTime
BY ClientInvHolds, BoundOfTime, PTL
=============================================================================
