-------------------------------- MODULE Searches --------------------------------
(***************************************************************************)
(* Searches of the auction house and the market: AuctionsService over      *)
(* AuctionsCache, which is in the memory of the process, MarketsService,   *)
(* which caches nothing, and the REST routes and UDP commands above them.  *)
(*                                                                         *)
(* A search is known by its key (the hash of its parameters, or the        *)
(* options); what it finds is told apart by when the upstream was asked.   *)
(* Nothing is shared by requests but the cache, and nobody waits for       *)
(* another's call.                                                         *)
(***************************************************************************)
EXTENDS Integers, FiniteSets, FiniteSetsExt

CONSTANTS Key,       \* searches of the auction house
          Goods,     \* items of the market
          Request,   \* slots for requests
          SearchTtl, \* SEARCH_TTL, or OPTIONS_TTL
          CallMax,   \* the longest time a call of the client takes, its retries included
          MaxTime,   \* bound on the clock
          None

ASSUME TimeAssumption == {SearchTtl, CallMax, MaxTime} \subseteq Nat
ASSUME GoodsAssumption == IsFiniteSet(Goods) /\ Key \cap Goods = {}
ASSUME NoneAssumption == None \notin Nat \cup Key \cup Goods \cup {"auctions", "market"}

VARIABLES
    now,
    cache,    \* searchCache, and optionsCache as one more key
    request,  \* the requests being served
    reply,    \* what the last step replied, if it did
    served    \* history: the newest result served of each key
vars == <<now, cache, request, reply, served>>

Entry == [data : Nat, timestamp : Nat]

\* asked: what the request is about; left: the calls that have not answered yet.
Idle == [route |-> None, asked |-> {}, left |-> {}, since |-> 0, due |-> 0]
Routes == {"auctions", "market"}
RequestRecord == [route : Routes \cup {None}, asked : SUBSET (Key \cup Goods),
                  left : SUBSET (Key \cup Goods), since : Nat, due : Nat]

\* oldest: when the upstream was asked for the oldest part of the data.
Reply == [status : {200, 400, 500}, route : Routes, asked : SUBSET (Key \cup Goods), oldest : Nat]

\* Types.
TypeOK ==
    /\ now \in 0 .. MaxTime
    /\ cache \in [Key -> Entry \cup {None}]
    /\ request \in [Request -> RequestRecord]
    /\ reply \in Reply \cup {None}
    /\ served \in [Key -> Nat \cup {None}]

Init ==
    /\ now = 0
    /\ cache = [k \in Key |-> None]
    /\ request = [r \in Request |-> Idle]
    /\ reply = None
    /\ served = [k \in Key |-> None]

-----------------------------------------------------------------------------
(* AuctionsCache *)

\* mutant: no entry is too old
FoundAnyAge(k) == cache[k]

\* getSearchResult, getOptions: an entry past its TTL is deleted.
Found(k) == IF cache[k] # None /\ now - cache[k].timestamp <= SearchTtl THEN cache[k] ELSE None

Store(k, data) == cache' = [cache EXCEPT ![k] = [data |-> data, timestamp |-> now]]

\* AuctionsCache.cleanup of an entry; nothing in the services calls it.
Cleanup(k) ==
    /\ cache[k] # None /\ now - cache[k].timestamp > SearchTtl
    /\ cache' = [cache EXCEPT ![k] = None]
    /\ reply' = None
    /\ UNCHANGED <<now, request, served>>

-----------------------------------------------------------------------------
(* Requests *)

Open(r) == request[r].route # None

Replies(route, status, asked, oldest) ==
    reply' = [status |-> status, route |-> route, asked |-> asked, oldest |-> oldest]

Serves(k, data) ==
    /\ Replies("auctions", 200, {k}, data)
    /\ served' = [served EXCEPT ![k] = IF @ = None THEN data ELSE Max({@, data})]

\* mutant: a call that is late is made once more
CallsTwice(r, route, wanted) ==
    /\ request' = [request EXCEPT ![r] = [route |-> route, asked |-> wanted, left |-> wanted,
                                          since |-> now, due |-> now + 2 * CallMax]]
    /\ reply' = None /\ UNCHANGED served

Calls(r, route, wanted) ==
    /\ request' = [request EXCEPT ![r] = [route |-> route, asked |-> wanted, left |-> wanted,
                                          since |-> now, due |-> now + CallMax]]
    /\ reply' = None /\ UNCHANGED served

\* searchItems and getOptions.  The routes search and refresh do the same; what else the body of a
\* request says makes another key.
SearchItems(r, k) ==
    /\ ~Open(r)
    /\ \/ /\ Found(k) # None
          /\ Serves(k, Found(k).data)
          /\ UNCHANGED <<cache, request>>
       \/ /\ Found(k) = None
          /\ cache' = [cache EXCEPT ![k] = None]
          /\ Calls(r, "auctions", {k})
    /\ UNCHANGED now

\* The answer replaces what another request has stored meanwhile, be it newer.
SearchAnswers(r) ==
    /\ request[r].route = "auctions"
    /\ \E k \in request[r].asked : Store(k, request[r].since) /\ Serves(k, request[r].since)
    /\ request' = [request EXCEPT ![r] = Idle]
    /\ UNCHANGED now

\* getMarkets and refreshMarkets: the calls of all items at once, or 400 for none.
GetMarkets(r, items) ==
    /\ ~Open(r)
    /\ \/ items = {} /\ Replies("market", 400, {}, now) /\ UNCHANGED <<request, served>>
       \/ items # {} /\ Calls(r, "market", items)
    /\ UNCHANGED <<now, cache>>

\* Promise.all: one call answers, and the last one ends the request.
MarketAnswers(r, item) ==
    LET left == request[r].left \ {item} IN
    /\ request[r].route = "market" /\ item \in request[r].left
    /\ IF left = {}
       THEN /\ request' = [request EXCEPT ![r] = Idle]
            /\ Replies("market", 200, request[r].asked, request[r].since)
       ELSE request' = [request EXCEPT ![r].left = left] /\ reply' = None
    /\ UNCHANGED <<now, cache, served>>

\* The first call that fails, after its retries, fails the request; nothing is stored.
CallFails(r) ==
    /\ Open(r)
    /\ request' = [request EXCEPT ![r] = Idle]
    /\ Replies(request[r].route, 500, request[r].asked, now)
    /\ UNCHANGED <<now, cache, served>>

Tick ==
    /\ now < MaxTime /\ \A r \in Request : Open(r) => now < request[r].due
    /\ now' = now + 1
    /\ reply' = None
    /\ UNCHANGED <<cache, request, served>>

Next ==
    \/ Tick
    \/ \E k \in Key : Cleanup(k)
    \/ \E r \in Request :
          \/ \E k \in Key : SearchItems(r, k)
          \/ \E items \in SUBSET Goods : GetMarkets(r, items)
          \/ SearchAnswers(r) \/ CallFails(r)
          \/ \E item \in Goods : MarketAnswers(r, item)

Spec == Init /\ [][Next]_vars

-----------------------------------------------------------------------------
(* Properties *)

Succeeds == reply # None /\ reply.status = 200

\* What a reply holds was asked of the upstream no longer ago than an entry lives and the call that
\* brought it took: an entry's time is when it was stored, not when its search was asked, and it is
\* renewed by no lookup and by no answer to another request.  The refresh route gives no better.
ReplyAge ==
    Succeeds => now - reply.oldest <= CallMax + (IF reply.route = "auctions" THEN SearchTtl ELSE 0)

\* Searches that miss side by side all call, and the last answer stays, for a whole TTL, although
\* it may be the oldest.  Still a result is never older than one served before by more than a call
\* takes.
StepsBackLittle ==
    Succeeds /\ reply.route = "auctions" =>
        \A k \in reply.asked : served[k] - reply.oldest <= CallMax
=============================================================================
