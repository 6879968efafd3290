---------------------------- MODULE UpstreamClient ----------------------------
(***************************************************************************)
(* One client of the game's open API: ApiClient with its RateLimiter       *)
(* (data-service/src/clients/api-client.ts), ArmoriesClient above it, and  *)
(* CharactersClient, which has retries of its own and no limiter.          *)
(*                                                                         *)
(* A job is what a service awaits; a partial fetch makes one call for each *)
(* section at once.  There is no clock: times are kept as ages, which a    *)
(* tick increases and the window cuts off.                                 *)
(***************************************************************************)
EXTENDS Naturals, FiniteSets, Sequences, FiniteSetsExt

CONSTANTS Job,           \* slots for jobs
          Places,        \* how many calls a job may make at once
          Limit,         \* RATE_LIMIT_PER_MINUTE
          Window,        \* windowMs
          RetryDelay,    \* RETRY_DELAY
          RetryAttempts, \* FETCH_RETRY_ATTEMPTS, which the siblings use
          FetchMax       \* the longest time a fetch takes: its time limit, or undici's

ASSUME LimitAssumption == {Places, Limit, Window} \subseteq Nat \ {0}
ASSUME DelayAssumption == {RetryDelay, RetryAttempts, FetchMax} \subseteq Nat

MaxRetries == 3
Call == Job \X (1 .. Places)
Kinds == {"section", "arkpassive", "siblings"}

VARIABLES
    requests,  \* the stamps of the limiter, as ages
    call,      \* the calls of every job
    job,       \* what has become of each job
    age,       \* history: how long an open job has been open
    sent,      \* history: when the calls have sent their first requests, as ages
    crowded    \* history: a call has come to the limiter while another was waiting
clientVars == <<requests, call, job, age, sent, crowded>>

Ages == 0 .. Window - 1
NoCall == [pc |-> "done", kind |-> "section", left |-> 0, waited |-> 0, attempt |-> 0]
CallRecord == [pc : {"waiting", "fetching", "backoff", "done"}, kind : Kinds,
               left : Nat, waited : 0 .. Window, attempt : Nat]

ClientTypeOK ==
    /\ requests \in Seq(Ages)
    /\ call \in [Call -> CallRecord]
    /\ job \in [Job -> {"idle", "open", "answered", "failed"}]
    /\ age \in [Job -> Nat]
    /\ sent \in Seq(Ages) /\ crowded \in BOOLEAN

ClientInit ==
    /\ requests = <<>>
    /\ call = [c \in Call |-> NoCall]
    /\ job = [j \in Job |-> "idle"] /\ age = [j \in Job |-> 0]
    /\ sent = <<>> /\ crowded = FALSE

Of(j) == {c \in Call : c[1] = j}
Busy(c) == call[c].pc # "done"
Fetching(r) == [r EXCEPT !.pc = "fetching", !.left = FetchMax, !.waited = 0, !.attempt = @ + 1]
Waiting == {c \in Call : call[c].pc = "waiting"}
Attempts(c) == IF call[c].kind = "siblings" THEN RetryAttempts ELSE MaxRetries

-----------------------------------------------------------------------------
(* A job begins: its calls run up to their first await *)

\* mutant: one slot more than the limit
FreeOneMore == IF Len(requests) <= Limit THEN Limit + 1 - Len(requests) ELSE 0

Free == IF Len(requests) < Limit THEN Limit - Len(requests) ELSE 0

\* waitForSlot() of several calls, one after the other: those that find a slot.
Slots(cs) == kSubset(Min({Cardinality(cs), Free}), cs)

Zeros(n) == [i \in 1 .. n |-> 0]

\* getCharacterPartial of n sections, with the ark passive beside the profile; every other endpoint
\* is the case of one section.
StartJob(j, n, arkpassive) ==
    LET places == 1 .. (IF arkpassive THEN n + 1 ELSE n)
        Begun(i) == [NoCall EXCEPT !.kind = IF i > n THEN "arkpassive" ELSE "section"]
    IN  /\ \E ready \in Slots(places) :
              LET list == requests \o Zeros(Cardinality(ready))
                  wait == Window - Head(list)
              IN  /\ requests' = list
                  /\ call' = [c \in Call |->
                        IF c[1] # j THEN call[c]
                        ELSE IF c[2] \in ready THEN Fetching(Begun(c[2]))
                        ELSE IF c[2] \in places
                        THEN [Begun(c[2]) EXCEPT !.pc = "waiting", !.left = wait, !.waited = wait]
                        ELSE NoCall]
                  /\ sent' = sent \o Zeros(Cardinality(ready))
                  /\ crowded' = (crowded \/ Waiting # {} \/ Cardinality(places \ ready) > 1)
        /\ job' = [job EXCEPT ![j] = "open"]

\* getSiblings; with no attempt at all it throws at once.
StartSiblings(j) ==
    /\ IF RetryAttempts > 0
       THEN /\ call' = [call EXCEPT ![<<j, 1>>] = Fetching([NoCall EXCEPT !.kind = "siblings"])]
            /\ job' = [job EXCEPT ![j] = "open"]
       ELSE job' = [job EXCEPT ![j] = "failed"] /\ UNCHANGED call
    /\ UNCHANGED <<requests, sent, crowded>>

\* A caller may begin anew when the job before has ended and its calls as well.
Start(j) ==
    /\ job[j] # "open" /\ \A c \in Of(j) : ~Busy(c)
    /\ \/ StartSiblings(j)
       \/ \E n \in 1 .. Places, arkpassive \in BOOLEAN :
             (arkpassive => n < Places) /\ StartJob(j, n, arkpassive)
    /\ UNCHANGED age

\* The wait is over: the time recorded is that before it, and nobody looks whether the slot is
\* still there. What is older than the window does not count any more.
WaitEnds(c) ==
    /\ call[c].pc = "waiting" /\ call[c].left = 0
    /\ call' = [call EXCEPT ![c] = Fetching(@)]
    /\ requests' = IF call[c].waited < Window THEN Append(requests, call[c].waited) ELSE requests
    /\ sent' = Append(sent, 0)
    /\ UNCHANGED <<job, age, crowded>>

-----------------------------------------------------------------------------
(* Attempts *)

BackoffEnds(c) ==
    /\ call[c].pc = "backoff" /\ call[c].left = 0
    /\ call' = [call EXCEPT ![c] = Fetching(@)]
    /\ UNCHANGED <<requests, job, age, sent, crowded>>

\* The call is over. Promise.all has its answers when all are there.
Ends(c) ==
    /\ call' = [call EXCEPT ![c] = NoCall]
    /\ job' = [job EXCEPT ![c[1]] =
          IF @ = "open" /\ \A d \in Of(c[1]) \ {c} : ~Busy(d) THEN "answered" ELSE @]
    /\ age' = [age EXCEPT ![c[1]] = IF job'[c[1]] = "open" THEN @ ELSE 0]
    /\ UNCHANGED <<requests, sent, crowded>>

FetchAnswers(c) == call[c].pc = "fetching" /\ Ends(c)

\* RETRY_DELAY * 2^(attempt - 1) for two attempts, retryDelay * attempt for the siblings.
Backoff(c) == RetryDelay * call[c].attempt

\* mutant: the attempts are not counted
FetchFailsForever(c) ==
    /\ call[c].pc = "fetching"
    /\ call' = [call EXCEPT ![c] = [@ EXCEPT !.pc = "backoff", !.left = Backoff(c)]]
    /\ UNCHANGED <<requests, job, age, sent, crowded>>

\* Every error is retried alike, whether its status says that a retry may help or not, and for the
\* siblings an answer is one that used up the quota, or is no list.
FetchFails(c) ==
    /\ call[c].pc = "fetching" /\ call[c].attempt < Attempts(c)
    /\ call' = [call EXCEPT ![c] = [@ EXCEPT !.pc = "backoff", !.left = Backoff(c)]]
    /\ UNCHANGED <<requests, job, age, sent, crowded>>

\* The first rejection ends the job; its other calls go on for nobody.
CallGivesUp(c) ==
    /\ call[c].pc = "fetching" /\ call[c].attempt = Attempts(c)
    /\ \/ call[c].kind = "arkpassive" /\ Ends(c)
       \/ /\ call[c].kind # "arkpassive"
          /\ call' = [call EXCEPT ![c] = NoCall]
          /\ job' = [job EXCEPT ![c[1]] = "failed"]
          /\ age' = [age EXCEPT ![c[1]] = 0]
          /\ UNCHANGED <<requests, sent, crowded>>

-----------------------------------------------------------------------------

\* What the filter will keep, in its order, a tick older.
Older(list) ==
    LET kept == {i \in 1 .. Len(list) : list[i] + 1 < Window}
        Place(n) == CHOOSE i \in kept : Cardinality({k \in kept : k <= i}) = n
    IN  [n \in 1 .. Cardinality(kept) |-> list[Place(n)] + 1]

\* Timers fire on time, and continuations run.
ClientTick ==
    /\ \A c \in Call : Busy(c) => call[c].left > 0
    /\ requests' = Older(requests)
    /\ call' = [c \in Call |-> IF Busy(c) THEN [call[c] EXCEPT !.left = @ - 1] ELSE call[c]]
    /\ age' = [j \in Job |-> IF job[j] = "open" THEN age[j] + 1 ELSE age[j]]
    /\ sent' = Older(sent)
    /\ UNCHANGED <<job, crowded>>

ClientNext ==
    \/ ClientTick
    \/ \E j \in Job : Start(j)
    \/ \E c \in Call : WaitEnds(c) \/ BackoffEnds(c) \/ FetchAnswers(c) \/ FetchFails(c) \/ CallGivesUp(c)

ClientSpec == ClientInit /\ [][ClientNext]_clientVars

-----------------------------------------------------------------------------

\* What is left of the limit: a waiter leaves an older stamp than its own, so that one call too
\* many goes, as long as calls do not wait side by side; after that nothing is certain.
WindowBound == ~crowded => Len(sent) <= Limit + 1

\* A caller waits for the limiter once, however many are before it, and then for its attempts.
AnsweredInTime ==
    \A j \in Job : job[j] = "open" =>
        age[j] <= Max({Window + 3 * FetchMax + 3 * RetryDelay,
                       RetryAttempts * FetchMax + RetryDelay * ((RetryAttempts * (RetryAttempts + 1)) \div 2)})
=============================================================================
