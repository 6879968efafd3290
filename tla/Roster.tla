--------------------------------- MODULE Roster ---------------------------------
(***************************************************************************)
(* The rosters of characters and the queue of characters whose details are *)
(* worth fetching anew: CharactersService, CharactersCache and             *)
(* CharactersNormalizer, the queue of ArmoriesService, and the requests    *)
(* that reach them (REST getCharacter and refreshCharacter, the siblings   *)
(* command of UDP).  One process: all of this is in its memory.            *)
(*                                                                         *)
(* Characters are numbered in the order the upstream lists them, and their *)
(* item levels are small numbers, 0 for a character that is not listed.    *)
(* What a request does after the upstream's answer has no await another    *)
(* request could use, so it is one step; the answer itself may be slow.    *)
(***************************************************************************)
EXTENDS Integers, FiniteSets, Sequences, SequencesExt, FiniteSetsExt

CONSTANTS Char,       \* the characters of one player
          MaxLevel,   \* item levels are 0 .. MaxLevel
          BigRise,    \* a rise above it counts as "level_up": 10 in the code
          BatchSize,  \* how many items a batch takes: 5 in the code
          Request,    \* slots for requests
          MaxChanges, \* bound: changes of the upstream's rosters and ends of cache entries
          MaxAsked    \* bound: requests

ASSUME CharAssumption == Char \subseteq Nat \ {0}
ASSUME BoundAssumption == {MaxLevel, BigRise, MaxChanges, MaxAsked} \subseteq Nat
ASSUME BatchAssumption == BatchSize \in Nat \ {0}

VARIABLES
    upstream,     \* the roster as the upstream has it
    account,      \* the cached accounts, by account id
    charAccount,  \* the cached account id of each character, 0 for none
    request,      \* the requests being served, and their replies
    since,        \* history: the rosters the upstream had since a request was made
    announced,    \* history: the highest level of each character a queued item announced
    queue,        \* processingQueue
    batch,        \* the items being processed
    isProcessing, \* the flag of the queue
    timers,       \* the pending setTimeouts of the queue
    asked,        \* how many requests have been made
    changes       \* how many times the upstream changed or an entry ended
cacheVars == <<account, charAccount>>
queueVars == <<queue, batch, isProcessing, timers>>
vars == <<upstream, cacheVars, request, since, announced, queueVars, asked, changes>>

Levels == [Char -> 0 .. MaxLevel]
Nobody == [c \in Char |-> 0]
Listed(roster) == {c \in Char : roster[c] > 0}
Priority == 1 .. 3
Item == [char : Char, priority : Priority]

Idle == [pc |-> "idle", char |-> 0, id |-> 0, existing |-> Nobody,
         answer |-> Nobody, hit |-> FALSE, data |-> Nobody]
RequestRecord == [pc : {"idle", "asking", "answered", "done"},
                  char : Char \cup {0}, id : Char \cup {0}, existing : Levels, answer : Levels,
                  hit : BOOLEAN, data : Levels]

TypeOK ==
    /\ upstream \in Levels
    /\ account \in [Char -> Levels] /\ charAccount \in [Char -> Char \cup {0}]
    /\ request \in [Request -> RequestRecord] /\ since \in [Request -> SUBSET Levels]
    /\ announced \in Levels
    /\ queue \in Seq(Item) /\ batch \in Seq(Item)
    /\ isProcessing \in BOOLEAN /\ timers \in Nat
    /\ asked \in 0 .. MaxAsked /\ changes \in 0 .. MaxChanges

Init ==
    /\ upstream = [c \in Char |-> IF MaxLevel > 0 THEN 1 ELSE 0]
    /\ account = [c \in Char |-> Nobody] /\ charAccount = [c \in Char |-> 0]
    /\ request = [r \in Request |-> Idle] /\ since = [r \in Request |-> {}]
    /\ announced = Nobody
    /\ queue = <<>> /\ batch = <<>> /\ isProcessing = FALSE /\ timers = 0
    /\ asked = 0 /\ changes = 0

-----------------------------------------------------------------------------
(* The queue: addToQueue, processQueue, processQueueItem *)

\* Map.set: a character keeps its place and takes the newer item.
PutItem(items, item) ==
    IF \E i \in DOMAIN items : items[i].char = item.char
    THEN [i \in DOMAIN items |-> IF items[i].char = item.char THEN item ELSE items[i]]
    ELSE Append(items, item)

\* A stable sort, the highest priority first.
ByPriority(items) ==
    LET OfPriority(p) == SelectSeq(items, LAMBDA item : item.priority = p)
    IN  OfPriority(3) \o OfPriority(2) \o OfPriority(1)

\* processQueue on the queue q: nothing if it is empty or being processed, else the next batch.
ProcessQueue(q) ==
    IF isProcessing \/ q = <<>>
    THEN queue' = q /\ UNCHANGED <<batch, isProcessing>>
    ELSE LET n == Min({BatchSize, Len(q)})
         IN  /\ batch' = SubSeq(q, 1, n) /\ queue' = SubSeq(q, n + 1, Len(q))
             /\ isProcessing' = TRUE

\* The newer items replace those the queue holds for the same characters.
AddToQueue(items) ==
    ProcessQueue(ByPriority(FoldLeft(PutItem, <<>>, queue \o items))) /\ UNCHANGED timers

ItemSucceeds(i) ==
    /\ batch' = RemoveAt(batch, i)
    /\ UNCHANGED <<upstream, cacheVars, request, since, announced, queue, isProcessing, timers, asked, changes>>

\* mutant: the item goes back with the priority it had
ItemFailsForever(i) ==
    /\ queue' = Append(queue, batch[i])
    /\ batch' = RemoveAt(batch, i)
    /\ UNCHANGED <<upstream, cacheVars, request, since, announced, isProcessing, timers, asked, changes>>

\* Back to the end of the queue with a lower priority, or given up.
ItemFails(i) ==
    /\ queue' = IF batch[i].priority > 1
                THEN Append(queue, [batch[i] EXCEPT !.priority = @ - 1]) ELSE queue
    /\ batch' = RemoveAt(batch, i)
    /\ UNCHANGED <<upstream, cacheVars, request, since, announced, isProcessing, timers, asked, changes>>

\* mutant: after a batch with failures the queue waits for the next call of addToQueue
BatchEndsUntimed ==
    /\ isProcessing /\ batch = <<>>
    /\ timers' = timers
    /\ isProcessing' = FALSE
    /\ UNCHANGED <<upstream, cacheVars, request, since, announced, queue, batch, asked, changes>>

\* All items are settled: the next batch a second later, if there is one.
BatchEnds ==
    /\ isProcessing /\ batch = <<>>
    /\ timers' = IF queue # <<>> THEN timers + 1 ELSE timers
    /\ isProcessing' = FALSE
    /\ UNCHANGED <<upstream, cacheVars, request, since, announced, queue, batch, asked, changes>>

TimerFires ==
    /\ timers > 0 /\ timers' = timers - 1
    /\ ProcessQueue(queue)
    /\ UNCHANGED <<upstream, cacheVars, request, since, announced, asked, changes>>

-----------------------------------------------------------------------------
(* The cache of accounts.  Every entry lives five minutes; when they end is left open *)

Expires(c) ==
    /\ changes < MaxChanges /\ changes' = changes + 1 
    /\ \/ account[c] # Nobody /\ account' = [account EXCEPT ![c] = Nobody] /\ UNCHANGED charAccount
       \/ charAccount[c] # 0 /\ charAccount' = [charAccount EXCEPT ![c] = 0] /\ UNCHANGED account
    /\ UNCHANGED <<upstream, request, since, announced, queueVars, asked>>

GetAccountByCharacter(c) ==
    IF charAccount[c] = 0 THEN Nobody ELSE account[charAccount[c]]

SetAccountInfo(id, roster) ==
    /\ account' = [account EXCEPT ![id] = roster]
    /\ charAccount' = [c \in Char |-> IF c \in Listed(roster) THEN id ELSE charAccount[c]]

\* The account of c is deleted with the entries of the characters it lists.
DeleteAccountInfo(c) ==
    LET old == GetAccountByCharacter(c)
    IN  IF old = Nobody THEN UNCHANGED cacheVars
        ELSE /\ account' = [account EXCEPT ![charAccount[c]] = Nobody]
             /\ charAccount' = [d \in Char |-> IF d \in Listed(old) THEN 0 ELSE charAccount[d]]

-----------------------------------------------------------------------------
(* What an answer of the upstream means *)

\* detectChanges and generateArmoriesQueueItems: 0 for no change.
\* mutant: an item level has to rise by more than BigRise
BigChangesOnly(old, new) ==
    [c \in Char |-> IF new[c] = 0 THEN 0
                    ELSE IF old[c] = 0 THEN 2
                    ELSE IF new[c] - old[c] > BigRise THEN 3 ELSE 0]

DetectChanges(old, new) ==
    [c \in Char |-> IF new[c] = 0 \/ (old[c] > 0 /\ new[c] <= old[c]) THEN 0
                    ELSE IF old[c] = 0 THEN 2
                    ELSE IF new[c] - old[c] > BigRise THEN 3 ELSE 1]

QueueItems(priority) ==
    LET chars == SetToSortSeq({c \in Char : priority[c] > 0}, <)
    IN  [i \in DOMAIN chars |-> [char |-> chars[i], priority |-> priority[chars[i]]]]

\* handleExistingAccount keeps the id it knew; handleNewAccount takes that of the first character
\* and queues everybody.
HandleAccount(existing, id, answer) ==
    LET priority == DetectChanges(existing, answer)
        items == QueueItems(priority)
    IN  /\ SetAccountInfo(IF existing = Nobody THEN Min(Listed(answer)) ELSE id, answer)
        /\ announced' = [c \in Char |-> IF priority[c] > 0 THEN Max({announced[c], answer[c]})
                                        ELSE announced[c]]
        /\ IF items = <<>> /\ existing # Nobody THEN UNCHANGED queueVars ELSE AddToQueue(items)

-----------------------------------------------------------------------------
(* Requests *)

Open(r) == request[r].pc \in {"asking", "answered"}

Ask(r, c) ==
    /\ ~Open(r) /\ asked < MaxAsked /\ asked' = asked + 1
    /\ request' = [request EXCEPT ![r] =
          [Idle EXCEPT !.char = c, !.pc = "asking",
                       !.existing = GetAccountByCharacter(c), !.id = charAccount[c]]]
    /\ since' = [since EXCEPT ![r] = {upstream}]
    /\ UNCHANGED cacheVars

\* getCharacter without refresh, when the account is cached.
GetCharacterHit(r, c) ==
    /\ ~Open(r) /\ asked < MaxAsked /\ asked' = asked + 1
    /\ GetAccountByCharacter(c) # Nobody
    /\ request' = [request EXCEPT ![r] = [Idle EXCEPT !.pc = "done",
                                               !.hit = TRUE, !.data = GetAccountByCharacter(c)]]
    /\ since' = [since EXCEPT ![r] = {}]
    /\ UNCHANGED cacheVars

\* mutant: refresh=true is answered from the cache too, and not marked as a hit
GetCharacterCached(r, c, refresh) ==
    \/ /\ GetAccountByCharacter(c) # Nobody
       /\ ~Open(r) /\ asked < MaxAsked /\ asked' = asked + 1
       /\ request' = [request EXCEPT ![r] = [Idle EXCEPT !.pc = "done", !.hit = ~refresh,
                                                  !.data = GetAccountByCharacter(c)]]
       /\ since' = [since EXCEPT ![r] = {upstream}]
       /\ UNCHANGED cacheVars
    \/ GetAccountByCharacter(c) = Nobody /\ Ask(r, c)

GetCharacter(r, c, refresh) ==
    \/ ~refresh /\ GetCharacterHit(r, c)
    \/ refresh /\ Ask(r, c)
    \/ ~refresh /\ GetAccountByCharacter(c) = Nobody /\ Ask(r, c)

\* refreshAccountInfo: the account goes first, then the characters are processed as new.
RefreshCharacter(r, c) ==
    /\ ~Open(r) /\ asked < MaxAsked /\ asked' = asked + 1
    /\ DeleteAccountInfo(c)
    /\ request' = [request EXCEPT ![r] = [Idle EXCEPT !.char = c, !.pc = "asking"]]
    /\ since' = [since EXCEPT ![r] = {upstream}]

\* The upstream answers with the roster it has; the answer is on its way.
UpstreamAnswers(r) ==
    /\ request[r].pc = "asking" /\ upstream[request[r].char] > 0
    /\ request' = [request EXCEPT ![r].pc = "answered", ![r].char = 0,
                                          ![r].answer = upstream]
    /\ UNCHANGED <<upstream, cacheVars, since, announced, queueVars, asked, changes>>

\* After its retries, on any error, or when the character is not listed.
SiblingsFail(r) ==
    /\ request[r].pc = "asking"
    /\ request' = [request EXCEPT ![r] = Idle]
    /\ since' = [since EXCEPT ![r] = {}]
    /\ UNCHANGED <<upstream, cacheVars, announced, queueVars, asked, changes>>

\* processCharacterSiblings from the answer on, and the reply.
SiblingsArrive(r) ==
    /\ request[r].pc = "answered"
    /\ HandleAccount(request[r].existing, request[r].id, request[r].answer)
    /\ request' = [request EXCEPT ![r] = [Idle EXCEPT !.pc = "done", !.data = request[r].answer]]
    /\ UNCHANGED <<upstream, since, asked, changes>>

\* The player gears up or down, creates a character or deletes one.
UpstreamChanges(c, level) ==
    /\ changes < MaxChanges /\ changes' = changes + 1
    /\ upstream' = [upstream EXCEPT ![c] = level] /\ upstream' # upstream
    /\ since' = [r \in Request |-> IF Open(r) THEN since[r] \cup {upstream'} ELSE since[r]]
    /\ UNCHANGED <<cacheVars, request, announced, queueVars, asked>>

Asks(r, c) ==
    /\ \/ \E refresh \in BOOLEAN : GetCharacter(r, c, refresh)
       \/ RefreshCharacter(r, c)
       \/ Ask(r, c)
    /\ UNCHANGED <<upstream, announced, queueVars, changes>>
Settles(i) == ItemSucceeds(i) \/ ItemFails(i)
QueueNext == (\E i \in DOMAIN batch : Settles(i)) \/ BatchEnds \/ TimerFires
Next ==
    \/ \E r \in Request :
          (\E c \in Char : Asks(r, c)) \/ UpstreamAnswers(r) \/ SiblingsFail(r) \/ SiblingsArrive(r)
    \/ \E c \in Char : Expires(c) \/ \E level \in 0 .. MaxLevel : UpstreamChanges(c, level)
    \/ QueueNext

Spec == Init /\ [][Next]_vars
FairSpec == Spec /\ WF_vars(QueueNext)

-----------------------------------------------------------------------------
(* Properties *)

\* An item in the queue is never left waiting for the next request: a batch is being processed, or
\* a timer is pending.  processQueue returns without a timer when a batch is running, so this rests
\* on what the end of that batch sees, the items its own failures put back included.
NoneForgotten == queue # <<>> => isProcessing \/ timers > 0

\* No level gets into the cache of accounts without an item having been queued for it, although a
\* request compares the upstream's answer with an account it read before asking, and other requests
\* may have replaced or deleted that account since.
RisesQueued == \A id, c \in Char : account[id][c] <= announced[c]

\* What a reply calls the upstream's (hit: false, source: api) is a roster the upstream had after
\* the request was made, not one the cache held.
ReplyFromApi ==
    \A r \in Request : request[r].pc = "done" /\ ~request[r].hit => request[r].data \in since[r]

\* Once no more requests come the queue empties, whatever fails: every failure costs an item one of
\* its three priorities.
Drains == <>[](queue = <<>> /\ ~isProcessing)
=============================================================================
