----------------------------- MODULE NntpManager -----------------------------
(***************************************************************************)
(* The NNTP manager that the downloader and the indexer of one process     *)
(* share: connection slots per provider (a semaphore each), the share of   *)
(* each module (counters and limits), failover between providers, and the  *)
(* two ways to meet a full pool, returning busy and waiting.               *)
(*                                                                         *)
(* Nothing here is under a lock: one action is one channel operation, one  *)
(* change of a counter, or one look at the counters. A provider answers a  *)
(* fetch truthfully (it has the article or it has not) or with an error.   *)
(***************************************************************************)
EXTENDS Naturals, FiniteSets, FiniteSetsExt

CONSTANTS
    Providers,
    Rank,              \* the order of m.providers
    Capacity,          \* cap(mp.semaphore)
    Callers,           \* goroutines that use the manager
    Downloaders,       \* those of scope "downloader", the rest are indexer's
    Fetchers,          \* those that fetch articles, the rest ask for groups,
                       \* overviews, listings or prefixes of bodies
    WaitQueue,         \* those whose client has the policy wait_queue
    Allowed,           \* the providers whose roles allow a caller's scope
    IdleBorrow,        \* opts.IdleBorrowEnabled
    IndexerMaxPercent, \* opts.IndexerMaxPercent, 1 to 100
    NoProvider,
    MaxCalls           \* bound: calls ever begun

ASSUME ProviderAssumption ==
    /\ IsFiniteSet(Providers) /\ NoProvider \notin Providers
    /\ Capacity \in [Providers -> Nat]
    /\ Rank \in [Providers -> Nat]
    /\ \A p, q \in Providers : Rank[p] = Rank[q] => p = q
ASSUME CallerAssumption ==
    /\ IsFiniteSet(Callers) /\ Downloaders \subseteq Fetchers
    /\ Fetchers \subseteq Callers
    /\ WaitQueue \subseteq Callers
    /\ Allowed \in [Callers -> SUBSET Providers]
ASSUME OptionAssumption ==
    /\ IdleBorrow \in BOOLEAN /\ IndexerMaxPercent \in 1 .. 100
    /\ MaxCalls \in Nat

VARIABLES
    slots,    \* len(mp.semaphore)
    active,   \* stats.downloaderActive, stats.indexerActive
    demand,   \* downloader demand was recorded within the demand window
    pc,
    has,      \* those of the caller's providers that have the article
    missing,  \* seg.MissingFrom
    left,     \* the providers this round has yet to try
    at,       \* the provider tried or used
    waiting,  \* the caller is in the wait queue, or got its slot there
    failed,   \* lastErr # nil
    answer,   \* what the provider said
    result,   \* what the last call returned
    calls

pool  == <<slots, active, demand>>
call  == <<pc, has, missing, left, at, waiting, failed, answer, result>>
vars  == <<pool, call, calls>>

Modules == {"downloader", "indexer"}
Results == {"none", "ok", "notFound", "error", "busy", "cancelled"}

\* The places of a caller: outside, in a round of tries, past the module check
\* (for one provider, or for a poll of several), holding a slot it has not
\* counted, in the provider's call, holding the reader, giving the slot back,
\* holding none but still counted.
Places  == {"idle", "round", "admitted", "polling", "taken", "calling",
            "reading", "returning", "returned"}
Holding == {"taken", "calling", "reading", "returning"}
Counted == {"calling", "reading", "returning", "returned"}

PoolTypes ==
    /\ slots \in [Providers -> Nat]
    /\ \A p \in Providers : slots[p] <= Capacity[p]
    /\ active \in [Modules -> Nat]
    /\ demand \in BOOLEAN
    /\ calls \in 0 .. MaxCalls

CallTypes ==
    /\ pc \in [Callers -> Places]
    /\ has \in [Callers -> SUBSET Providers]
    /\ missing \in [Callers -> SUBSET Providers]
    /\ left \in [Callers -> SUBSET Providers]
    /\ at \in [Callers -> Providers \cup {NoProvider}]
    /\ \A c \in Callers : pc[c] \in Holding \cup Counted \cup {"admitted"} =>
                            at[c] \in Providers
    /\ waiting \in [Callers -> BOOLEAN]
    /\ failed \in [Callers -> BOOLEAN]
    /\ answer \in [Callers -> {"ok", "430", "error"}]
    /\ result \in [Callers -> Results]

TypeOK == PoolTypes /\ CallTypes

Init ==
    /\ slots = [p \in Providers |-> 0]
    /\ active = [m \in Modules |-> 0]
    /\ demand = FALSE
    /\ pc = [c \in Callers |-> "idle"]
    /\ has = [c \in Callers |-> {}]
    /\ missing = [c \in Callers |-> {}]
    /\ left = [c \in Callers |-> {}]
    /\ at = [c \in Callers |-> NoProvider]
    /\ waiting = [c \in Callers |-> FALSE]
    /\ failed = [c \in Callers |-> FALSE]
    /\ answer = [c \in Callers |-> "ok"]
    /\ result = [c \in Callers |-> "none"]
    /\ calls = 0
-----------------------------------------------------------------------------
(* Capacity and shares *)

ModuleOf(c) == IF c \in Downloaders THEN "downloader" ELSE "indexer"

TotalCapacity == MapThenSumSet(LAMBDA p : Capacity[p], Providers)

\* A sum of naturals, and none of them is larger: true of every Capacity, but
\* its proof is by induction over the providers.
ASSUME TotalAssumption ==
    /\ TotalCapacity \in Nat
    /\ \A p \in Providers : Capacity[p] <= TotalCapacity

\* Mutated form: a small share of a small pool rounds down to nothing.
RoundedShare(percent) == (TotalCapacity * percent) \div 100

\* percentOfCapacity: never zero, unless there is no capacity at all.
PercentOfCapacity(percent) ==
    LET share == (TotalCapacity * percent) \div 100
    IN  IF TotalCapacity > 0 /\ share = 0 THEN 1 ELSE share

DownloaderDemandActive == demand \/ active["downloader"] > 0

\* moduleLimits, for the percentages the settings allow.
Limit(module) ==
    CASE module = "indexer" ->
           IF ~IdleBorrow \/ DownloaderDemandActive
           THEN PercentOfCapacity(IndexerMaxPercent) ELSE TotalCapacity
      [] module = "downloader" ->
           IF IdleBorrow THEN TotalCapacity
           ELSE PercentOfCapacity(100 - IndexerMaxPercent)

ModuleCanAcquire(module) == active[module] < Limit(module)
-----------------------------------------------------------------------------
(* A call begins *)

Eligible(c) == Allowed[c]

StartCall(c) ==
    /\ pc[c] = "idle"
    /\ calls < MaxCalls
    /\ calls' = calls + 1
    /\ pc' = [pc EXCEPT ![c] = "round"]
    /\ left' = [left EXCEPT ![c] = Providers]
    /\ waiting' = [waiting EXCEPT ![c] = FALSE]
    /\ failed' = [failed EXCEPT ![c] = FALSE]
    /\ result' = [result EXCEPT ![c] = "none"]
    /\ UNCHANGED <<pool, at, answer>>

\* A fetch of an article nobody was asked for yet. (A call whose context is
\* done already returns at once and changes nothing.)
Fetch(c) ==
    /\ c \in Fetchers
    /\ StartCall(c)
    /\ has' \in {[has EXCEPT ![c] = S] : S \in SUBSET Eligible(c)}
    /\ missing' = [missing EXCEPT ![c] = {}]

\* The download pool tries a segment again, whatever the manager returned (what
\* it read may be damaged): the same Segment, with what it remembers of the
\* providers that do not have it.
FetchAgain(c) ==
    /\ c \in Downloaders
    /\ result[c] # "none"
    /\ StartCall(c)
    /\ UNCHANGED <<has, missing>>

\* GroupStats, XOver, ListGroups, FetchBodyPrefix.
Operate(c) ==
    /\ c \notin Fetchers
    /\ StartCall(c)
    /\ UNCHANGED <<has, missing>>
-----------------------------------------------------------------------------
(* acquire *)

\* A fetch goes by priority; the order of the others depends on the load.
IsNext(c, p) ==
    /\ p \in left[c]
    /\ c \in Fetchers => \A q \in left[c] : Rank[p] <= Rank[q]

\* Only fetch knows of missing articles.
SkipSet(c) == missing[c]

\* A look at the next provider: skipped, refused by its role or by the module's
\* share, or admitted to try its semaphore. Asking records downloader demand
\* (which bears on the share of the indexer only).
Consider(c, p) ==
    /\ pc[c] = "round" /\ ~waiting[c]
    /\ IsNext(c, p)
    /\ LET asks == p \notin SkipSet(c) /\ p \in Allowed[c]
           wants == asks /\ c \in Downloaders
       IN  /\ demand' = (demand \/ wants)
           /\ IF asks /\ ModuleCanAcquire(ModuleOf(c))
              THEN /\ pc' = [pc EXCEPT ![c] = "admitted"]
                   /\ at' = [at EXCEPT ![c] = p]
                   /\ UNCHANGED left
              ELSE /\ left' = [left EXCEPT ![c] = @ \ {p}]
                   /\ UNCHANGED <<pc, at>>
    /\ UNCHANGED <<slots, active, has, missing, waiting, failed, answer,
                   result, calls>>

\* Mutated form: the size of the pool is not looked at.
AnySlot(p) == TRUE

HasSlot(p) == slots[p] < Capacity[p]

Tries(c, p) ==
    \/ pc[c] = "admitted" /\ p = at[c]
    \/ pc[c] = "polling" /\ p \in left[c]

\* mp.semaphore <- struct{}{}, without blocking.
TakeSlot(c, p) ==
    /\ Tries(c, p)
    /\ HasSlot(p)
    /\ slots' = [slots EXCEPT ![p] = @ + 1]
    /\ at' = [at EXCEPT ![c] = p]
    /\ pc' = [pc EXCEPT ![c] = "taken"]
    /\ UNCHANGED <<active, demand, has, missing, left, waiting, failed,
                   answer, result, calls>>

\* The semaphore is full: the next provider, or, at the end of a poll, sleep.
NoSlot(c, p) ==
    /\ Tries(c, p)
    /\ ~HasSlot(p)
    /\ left' = [left EXCEPT ![c] = @ \ {p}]
    /\ pc' = [pc EXCEPT ![c] = IF waiting[c] /\ left[c] # {p} THEN "polling"
                               ELSE "round"]
    /\ UNCHANGED <<pool, has, missing, at, waiting, failed, answer,
                   result, calls>>

\* recordActive(scope, module, 1)
CountActive(c) ==
    /\ pc[c] = "taken"
    /\ active' = [active EXCEPT ![ModuleOf(c)] = @ + 1]
    /\ pc' = [pc EXCEPT ![c] = "calling"]
    /\ UNCHANGED <<slots, demand, has, missing, left, at, waiting, failed,
                   answer, result, calls>>
-----------------------------------------------------------------------------
(* The call, and the way back *)

\* What a provider may say.
Answers(c) ==
    {"error"} \cup IF c \notin Fetchers \/ at[c] \in has[c] THEN {"ok"} ELSE {"430"}

\* A successful fetch keeps the slot until its reader is closed.
ProviderAnswers(c, a) ==
    /\ pc[c] = "calling"
    /\ a \in Answers(c)
    /\ answer' = [answer EXCEPT ![c] = a]
    /\ pc' = [pc EXCEPT ![c] = IF a = "ok" /\ c \in Fetchers THEN "reading"
                               ELSE "returning"]
    /\ UNCHANGED <<pool, has, missing, left, at, waiting, failed, result,
                   calls>>

\* releaseReader.Close
CloseReader(c) ==
    /\ pc[c] = "reading"
    /\ pc' = [pc EXCEPT ![c] = "returning"]
    /\ UNCHANGED <<pool, has, missing, left, at, waiting, failed, answer,
                   result, calls>>

\* Mutated form: the slot of a failed call is not given back.
KeepOnError(c) ==
    IF answer[c] = "error" THEN slots ELSE [slots EXCEPT ![at[c]] = @ - 1]

SlotsAfter(c) == [slots EXCEPT ![at[c]] = @ - 1]

\* <-mp.semaphore
ReturnSlot(c) ==
    /\ pc[c] = "returning"
    /\ slots' = SlotsAfter(c)
    /\ pc' = [pc EXCEPT ![c] = "returned"]
    /\ UNCHANGED <<active, demand, has, missing, left, at, waiting, failed,
                   answer, result, calls>>

\* Mutated form: whatever went wrong, the provider counts as missing.
MissingOnFailure(c) ==
    IF answer[c] # "ok" THEN missing[c] \cup {at[c]} ELSE missing[c]

MissingAfter(c) ==
    IF answer[c] = "430" THEN missing[c] \cup {at[c]} ELSE missing[c]

\* recordActive(scope, module, -1), and what the caller does with the answer:
\* return it, go on with the next provider, or, after the wait queue, return
\* the error or begin the fetch anew.
Uncount(c) ==
    /\ pc[c] = "returned"
    /\ active' = [active EXCEPT ![ModuleOf(c)] = @ - 1]
    /\ missing' = [missing EXCEPT ![c] = MissingAfter(c)]
    /\ at' = [at EXCEPT ![c] = NoProvider]
    /\ LET returns == answer[c] = "ok" \/ (answer[c] = "error" /\ waiting[c])
       IN  /\ pc' = [pc EXCEPT ![c] = IF returns THEN "idle" ELSE "round"]
           /\ result' = [result EXCEPT ![c] = IF returns THEN answer[c] ELSE @]
           /\ left' = [left EXCEPT ![c] = IF returns THEN {}
                                          ELSE IF waiting[c] THEN Providers
                                          ELSE @ \ {at[c]}]
           /\ failed' = [failed EXCEPT ![c] =
                           ~returns /\ (answer[c] = "error" \/ failed[c])]
    /\ waiting' = [waiting EXCEPT ![c] = FALSE]
    /\ answer' = [answer EXCEPT ![c] = "ok"]
    /\ UNCHANGED <<slots, demand, has, calls>>
-----------------------------------------------------------------------------
(* The end of a round, and the wait queue *)

ConfirmedMissing(c) ==
    /\ c \in Fetchers
    /\ Eligible(c) # {}
    /\ Eligible(c) \subseteq missing[c]

\* A caller may wait only if there is a provider to wait for.
Outcome(c) ==
    CASE ConfirmedMissing(c)                        -> "notFound"
      [] ~ConfirmedMissing(c) /\ failed[c]          -> "error"
      [] ~ConfirmedMissing(c) /\ ~failed[c]
           /\ (c \notin WaitQueue \/ Eligible(c) = {}) -> "busy"
      [] OTHER                                      -> "wait"

RoundEnds(c) ==
    /\ pc[c] = "round" /\ ~waiting[c]
    /\ left[c] = {}
    /\ IF Outcome(c) = "wait"
       THEN /\ waiting' = [waiting EXCEPT ![c] = TRUE]
            /\ UNCHANGED <<pc, result>>
       ELSE /\ pc' = [pc EXCEPT ![c] = "idle"]
            /\ result' = [result EXCEPT ![c] = Outcome(c)]
            /\ UNCHANGED waiting
    /\ failed' = [failed EXCEPT ![c] = FALSE]
    /\ UNCHANGED <<pool, has, missing, left, at, answer, calls>>

\* One tick of the wait queue: the module's share, then the semaphores of the
\* providers that may have it.
Poll(c) ==
    /\ pc[c] = "round" /\ waiting[c]
    /\ demand' = (demand \/ c \in Downloaders)
    /\ IF ModuleCanAcquire(ModuleOf(c))
       THEN /\ pc' = [pc EXCEPT ![c] = "polling"]
            /\ left' = [left EXCEPT ![c] = Eligible(c) \ SkipSet(c)]
       ELSE UNCHANGED <<pc, left>>
    /\ UNCHANGED <<slots, active, has, missing, at, waiting, failed,
                   answer, result, calls>>

\* ctx.Done() in the wait queue.
CancelWait(c) ==
    /\ pc[c] = "round" /\ waiting[c]
    /\ pc' = [pc EXCEPT ![c] = "idle"]
    /\ result' = [result EXCEPT ![c] = "cancelled"]
    /\ waiting' = [waiting EXCEPT ![c] = FALSE]
    /\ UNCHANGED <<pool, has, missing, left, at, failed, answer, calls>>

\* The demand window passes without another request of the downloader.
DemandLapses ==
    /\ demand
    /\ demand' = FALSE
    /\ UNCHANGED <<slots, active, call, calls>>
-----------------------------------------------------------------------------
Begins(c) == Fetch(c) \/ FetchAgain(c) \/ Operate(c)

\* What the caller's goroutine does by itself once the call has begun.
Proceeds(c) ==
    \/ \E p \in Providers : Consider(c, p) \/ TakeSlot(c, p) \/ NoSlot(c, p)
    \/ CountActive(c)
    \/ \E a \in {"ok", "430", "error"} : ProviderAnswers(c, a)
    \/ CloseReader(c) \/ ReturnSlot(c) \/ Uncount(c)
    \/ RoundEnds(c) \/ Poll(c)

Next == \/ \E c \in Callers : Begins(c) \/ Proceeds(c) \/ CancelWait(c)
        \/ DemandLapses

Spec == Init /\ [][Next]_vars

\* Goroutines run, providers answer (connections have deadlines), readers are
\* closed. A caller in the wait queue is not entitled to a slot: it gets one if
\* it finds one at a tick. Nobody has to begin a call, give up waiting, or stay
\* away from the pool for a demand window.
FairSpec == Spec /\ \A c \in Callers : WF_vars(Proceeds(c))
-----------------------------------------------------------------------------
(* Properties *)

HoldersOf(p)  == {c \in Callers : pc[c] \in Holding /\ at[c] = p}
CountedFor(m) == {c \in Callers : pc[c] \in Counted /\ ModuleOf(c) = m}

\* Slots and counters are exact: a semaphore holds one token per caller on its
\* provider, the readers not yet closed included, and a module's counter is
\* the number of its counted callers. No path loses or returns a slot twice: a
\* failed call, a retry after the wait queue, a cancelled wait.
SlotsAccounted ==
    /\ \A p \in Providers : slots[p] = Cardinality(HoldersOf(p))
    /\ \A m \in Modules : active[m] = Cardinality(CountedFor(m))

\* An article is reported as not found only if none of the caller's providers
\* has it: neither an error, nor a full pool, nor an earlier attempt at the same
\* segment is taken for an absence.
NotFoundIsConfirmed ==
    \A c \in Callers :
        result[c] = "notFound" => Eligible(c) # {} /\ Eligible(c) \cap has[c] = {}

\* A provider that answered 430 is never asked for the article again, by a
\* failover, a retry of the segment, or the wait queue.
NeverAskedAgain ==
    \A c \in Callers : pc[c] = "calling" => at[c] \notin missing[c]

\* Every call ends, once no more begin: callers do not wait for each other in a
\* circle, no share is too small to be used, and a fetch that comes back from
\* the wait queue with 430 does not go round for ever.
EveryCallReturns == \A c \in Callers : pc[c] # "idle" ~> pc[c] = "idle"
-----------------------------------------------------------------------------
(* The inductive invariant behind the properties of a fetch *)

\* What a segment remembers is true.
MissingIsTrue == \A c \in Callers : missing[c] \cap has[c] = {}

\* A 430 that is yet to be handled is true.
AnswerIsTrue ==
    \A c \in Callers :
        pc[c] \in {"reading", "returning", "returned"} /\ answer[c] = "430"
            => at[c] \notin has[c]

\* From the look at a provider to its answer, it is none that said 430 before,
\* and a look, unlike a poll, is never made by a caller of the wait queue.
TriesAreFresh ==
    \A c \in Callers :
        /\ pc[c] = "admitted" => ~waiting[c]
        /\ pc[c] \in {"admitted", "taken", "calling"} => at[c] \notin missing[c]
        /\ pc[c] = "polling" => left[c] \cap missing[c] = {}

FetchInv ==
    /\ CallTypes /\ MissingIsTrue /\ AnswerIsTrue /\ TriesAreFresh
    /\ NotFoundIsConfirmed
=============================================================================
