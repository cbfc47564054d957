------------------------------- MODULE Router -------------------------------
(***************************************************************************)
(* The fallback chain of internal/router: concurrent requests that walk    *)
(* the ordered list of providers, share the cooldown store, the health     *)
(* marks, the sticky affinity and the degradation counter, and report one  *)
(* attempt event per provider visit to the registry.                       *)
(*                                                                         *)
(* A provider is its index in the configuration order (the order of the    *)
(* fallback).  Every goroutine-visible step is an action: the candidate    *)
(* scan takes the cooldown and health locks once per provider, so other    *)
(* requests may move between two reads; an upstream call, a backoff and a  *)
(* delay each last an arbitrary number of steps of the others.  Time is a  *)
(* count of ticks; only cooldowns and the grace wait compare durations, so *)
(* only they are counted.                                                  *)
(*                                                                         *)
(* Definitions whose name starts with Slip are plausible slips in the code *)
(* of the definition that follows; no specification uses them, each one is *)
(* put in its place once to see a property fail.                           *)
(***************************************************************************)
EXTENDS Integers, Sequences, FiniteSets

CONSTANTS
    N,            \* number of configured providers (r.specs)
    Clients,      \* authenticated client ids
    Requests,     \* chat requests, one call of complete or stream each
    Keys,         \* sticky keys
    ClientOf,     \* the client of each request
    Streaming,    \* the requests routed by stream instead of complete
    StickyKey,    \* the sticky key of each request, NoKey when sticky is off
    ServedBy,     \* providers that serve the model of each request
    Allowed,      \* AllowedClients of each provider, {} = unrestricted
    BaseURL,      \* endpoint family of each provider
    MaxAttempts,  \* max_retries + 1: visits per request
    MaxTries,     \* retry.max_attempts of each provider, at least 1
    CoolTimes,    \* jittered cooldown lengths, in ticks, of each provider
    Grace,        \* degradation.cooldown_grace, in ticks
    InterDelay,   \* TRUE when inter_attempt_delay > 0
    MaxDegraded,  \* degradation.max_requests, 0 = unlimited
    HealthOn,     \* TRUE when a health store is configured
    StickyCap,    \* entries the affinity store may hold
    NoKey,        \* the empty sticky key
    NoURL         \* the empty base_url

Providers == 1..N

Errors == {"s5xx", "s429", "s4xx"}   \* status class of a failed call

ASSUME RouterAssumption ==
    /\ N \in Nat /\ MaxAttempts \in Nat \ {0}
    /\ ClientOf \in [Requests -> Clients] /\ Streaming \subseteq Requests
    /\ StickyKey \in [Requests -> Keys \cup {NoKey}] /\ NoKey \notin Keys
    /\ ServedBy \in [Requests -> SUBSET Providers]
    /\ Allowed \in [Providers -> SUBSET Clients]
    /\ MaxTries \in [Providers -> Nat \ {0}]
    /\ CoolTimes \in [Providers -> (SUBSET Nat) \ {{}}]
    /\ Grace \in Nat /\ MaxDegraded \in Nat /\ StickyCap \in Nat \ {0}
    /\ InterDelay \in BOOLEAN /\ HealthOn \in BOOLEAN

VARIABLES
    cool,       \* ticks left of each provider's cooldown, 0 = not cooling
    healthy,    \* the health mark of each provider
    affinity,   \* provider preferred by each sticky key, 0 = none
    degraded,   \* degradedCnt
    pc,         \* where each request is
    pos,        \* candidates: next provider the scan looks at
    ready,      \* candidates: the ready list, then the chain to walk
    soft,       \* candidates: unhealthy providers met by the scan
    graced,     \* the grace wait of the request was spent
    wait,       \* ticks left of the grace sleep
    attempts,   \* visits begun
    excluded,   \* providers closed for this request
    cur,        \* provider being visited, 0 before the first visit
    tries,      \* calls made in the current visit
    prev,       \* provider whose base_url is remembered after a transient failure
    last,       \* status class kept in lastChain
    cancelled,  \* the client's context is done
    events,     \* attempt events written to the registry for the request
    result      \* what the caller of the router got

chainVars == <<attempts, excluded, cur, tries, prev, last, events>>
scanVars  == <<pos, ready, soft, graced, wait>>
sharedVars == <<cool, healthy, affinity, degraded>>
vars == <<sharedVars, pc, scanVars, chainVars, cancelled, result>>

Points == {"idle", "scan", "grace", "loop", "delay", "call", "backoff",
           "served", "done"}
Failures == {"not_found", "all_down", "degraded_limit", "exhausted",
             "raw4xx", "cancelled"}
Event == [prov : Providers, outcome : {"ok", "fallback"},
          cause : Errors \cup {"none"}]

-----------------------------------------------------------------------------
(* Pure helpers of the chain. *)

\* Providers a request may ever reach: they serve the model and admit the client.
Eligible(r) ==
    {i \in ServedBy[r] : Allowed[i] = {} \/ ClientOf[r] \in Allowed[i]}

\* shortestCooldown: the least time left among the eligible, 0 when none cools.
ShortestCooldown(r) ==
    LET left == {cool[i] : i \in Eligible(r)} \ {0}
    IN  IF left = {} THEN 0 ELSE CHOOSE m \in left : \A n \in left : m <= n

\* applyStickyReorder: the provider at position k moves to the front.
MoveToFront(s, k) ==
    [i \in 1..Len(s) |-> IF i = 1 THEN s[k] ELSE IF i <= k THEN s[i-1] ELSE s[i]]

StickyReorder(r, s) ==
    LET pref == IF StickyKey[r] = NoKey THEN 0 ELSE affinity[StickyKey[r]]
    IN  IF \E k \in 1..Len(s) : s[k] = pref
        THEN MoveToFront(s, CHOOSE k \in 1..Len(s) : s[k] = pref)
        ELSE s

\* nextCyclicCandidate: the first provider not excluded, scanning cyclically
\* from position attempts % len(ready).
Cyclic(r, k) == ready[r][((attempts[r] + k) % Len(ready[r])) + 1]

Open(r) == {k \in 0..(Len(ready[r]) - 1) : Cyclic(r, k) \notin excluded[r]}

NextCyclic(r) == Cyclic(r, CHOOSE k \in Open(r) : \A j \in Open(r) : k <= j)

\* transientStatus: 5xx-class failures, never 429.
Transient(e) == e = "s5xx"

SlipAlwaysWraps(r) == "exhausted"

\* exhaustedChain: 5xx and 429 are wrapped, the last 4xx goes out as it came.
ExhaustedResult(r) == IF last[r] = "s4xx" THEN "raw4xx" ELSE "exhausted"

\* lastChain.Status: stream always stores 502, complete the classified status.
Kept(r, e) == IF r \in Streaming THEN "s5xx" ELSE e

-----------------------------------------------------------------------------
Init ==
    /\ cool = [i \in Providers |-> 0]
    /\ healthy \in [Providers -> IF HealthOn THEN BOOLEAN ELSE {TRUE}]
    /\ affinity = [k \in Keys |-> 0]
    /\ degraded = 0
    /\ pc = [r \in Requests |-> "idle"]
    /\ pos = [r \in Requests |-> 1]
    /\ ready = [r \in Requests |-> <<>>]
    /\ soft = [r \in Requests |-> <<>>]
    /\ graced = [r \in Requests |-> FALSE]
    /\ wait = [r \in Requests |-> 0]
    /\ attempts = [r \in Requests |-> 0]
    /\ excluded = [r \in Requests |-> {}]
    /\ cur = [r \in Requests |-> 0]
    /\ tries = [r \in Requests |-> 0]
    /\ prev = [r \in Requests |-> 0]
    /\ last = [r \in Requests |-> "none"]
    /\ cancelled = [r \in Requests |-> FALSE]
    /\ events = [r \in Requests |-> <<>>]
    /\ result = [r \in Requests |-> "none"]

GoTo(r, from, to) == pc[r] = from /\ pc' = [pc EXCEPT ![r] = to]

Answer(r, res) == result' = [result EXCEPT ![r] = res]

\* emitAttempt: one event at the conclusion of a visit.
Emit(r, outcome, cause) ==
    events' = [events EXCEPT ![r] =
        Append(@, [prov |-> cur[r], outcome |-> outcome, cause |-> cause])]

\* complete / stream called: the scan of candidates begins.
Arrive(r) ==
    /\ GoTo(r, "idle", "scan")
    /\ UNCHANGED <<sharedVars, scanVars, chainVars, cancelled, result>>

\* One iteration of the loop of candidates: a provider that cannot serve the
\* request or is cooling is skipped, an unhealthy one is kept as a last resort.
ScanProvider(r) ==
    LET i == pos[r]
        usable == i \in Eligible(r) /\ cool[i] = 0
    IN  /\ pc[r] = "scan"
        /\ i <= N
        /\ pos' = [pos EXCEPT ![r] = i + 1]
        /\ soft' = IF usable /\ HealthOn /\ ~healthy[i]
                   THEN [soft EXCEPT ![r] = Append(@, i)] ELSE soft
        /\ ready' = IF usable /\ (HealthOn => healthy[i])
                    THEN [ready EXCEPT ![r] = Append(@, i)] ELSE ready
        /\ UNCHANGED <<sharedVars, pc, graced, wait, chainVars, cancelled, result>>

SlipReadyOnly(r) == ready[r]

\* What candidates returns once every provider was looked at.
Scanned(r) == IF ready[r] = <<>> THEN soft[r] ELSE ready[r]

ScanDone(r) == pc[r] = "scan" /\ pos[r] > N

\* resolveReady with candidates: the chain is fixed, the sticky one in front.
StartChain(r) ==
    /\ ScanDone(r)
    /\ Scanned(r) # <<>>
    /\ ready' = [ready EXCEPT ![r] = StickyReorder(r, Scanned(r))]
    /\ GoTo(r, "scan", "loop")
    /\ UNCHANGED <<sharedVars, pos, soft, graced, wait, chainVars, cancelled, result>>

\* No provider serves the model for this client: 404, no network attempt.
NotFound(r) ==
    /\ ScanDone(r)
    /\ Eligible(r) = {}
    /\ GoTo(r, "scan", "done")
    /\ Answer(r, "not_found")
    /\ UNCHANGED <<sharedVars, scanVars, chainVars, cancelled>>

\* Somebody serves the model for this client, and nobody is available.
NoCandidate(r) == ScanDone(r) /\ Scanned(r) = <<>> /\ Eligible(r) # {}

GraceApplies(r) == ~graced[r] /\ ShortestCooldown(r) \in 1..Grace

\* resolveReady: every candidate is cooling but the first one expires soon.
StartGrace(r) ==
    /\ NoCandidate(r)
    /\ GraceApplies(r)
    /\ GoTo(r, "scan", "grace")
    /\ wait' = [wait EXCEPT ![r] = ShortestCooldown(r)]
    /\ graced' = [graced EXCEPT ![r] = TRUE]
    /\ UNCHANGED <<sharedVars, pos, ready, soft, chainVars, cancelled, result>>

\* The grace sleep ended: candidates runs a second and last time.
GraceElapsed(r) ==
    /\ wait[r] = 0
    /\ GoTo(r, "grace", "scan")
    /\ pos' = [pos EXCEPT ![r] = 1]
    /\ soft' = [soft EXCEPT ![r] = <<>>]
    /\ UNCHANGED <<sharedVars, ready, graced, wait, chainVars, cancelled, result>>

SlipAtLimit(n) == MaxDegraded > 0 /\ n >= MaxDegraded

OverLimit(n) == MaxDegraded > 0 /\ n > MaxDegraded

\* fastFail: the counter of degraded requests decides between 502 and 503.
FastFail(r) ==
    /\ \/ NoCandidate(r) /\ ~GraceApplies(r)
       \/ pc[r] = "grace" /\ cancelled[r]
    /\ pc' = [pc EXCEPT ![r] = "done"]
    /\ degraded' = degraded + 1
    /\ Answer(r, IF OverLimit(degraded') THEN "degraded_limit" ELSE "all_down")
    /\ UNCHANGED <<cool, healthy, affinity, scanVars, chainVars, cancelled>>

-----------------------------------------------------------------------------
(* The loop over the chain. *)

\* The same endpoint family failed transiently on the previous visit.
SameSPOF(r, i) == /\ prev[r] # 0
                  /\ BaseURL[prev[r]] # NoURL
                  /\ BaseURL[prev[r]] = BaseURL[i]

SlipBudgetIsMaxRetries(r) == attempts[r] + 1 < MaxAttempts

\* attempts < r.maxAttempts.
BudgetLeft(r) == attempts[r] < MaxAttempts

\* Next visit: a provider not closed yet, delayed when it shares the SPOF.
Visit(r) ==
    /\ pc[r] = "loop"
    /\ BudgetLeft(r)
    /\ Open(r) # {}
    /\ LET i == NextCyclic(r)
       IN  /\ cur' = [cur EXCEPT ![r] = i]
           /\ GoTo(r, "loop", IF InterDelay /\ SameSPOF(r, i)
                              THEN "delay" ELSE "call")
    /\ attempts' = [attempts EXCEPT ![r] = @ + 1]
    /\ tries' = [tries EXCEPT ![r] = 1]
    /\ UNCHANGED <<sharedVars, scanVars, excluded, prev, last, events,
                   cancelled, result>>

\* Visit budget spent or every candidate closed: exhaustedChain.
Exhaust(r) ==
    /\ ~BudgetLeft(r) \/ Open(r) = {}
    /\ GoTo(r, "loop", "done")
    /\ Answer(r, ExhaustedResult(r))
    /\ UNCHANGED <<sharedVars, scanVars, chainVars, cancelled>>

DelayElapsed(r) ==
    /\ GoTo(r, "delay", "call")
    /\ UNCHANGED <<sharedVars, scanVars, chainVars, cancelled, result>>

\* The client left during the inter-attempt delay or a retry backoff: the
\* visit is dropped without cooldown, exclusion or attempt event.
SleepCancelled(r) ==
    /\ pc[r] \in {"delay", "backoff"}
    /\ cancelled[r]
    /\ pc' = [pc EXCEPT ![r] = "done"]
    /\ Answer(r, "cancelled")
    /\ UNCHANGED <<sharedVars, scanVars, chainVars, cancelled>>

\* The call succeeded (complete) or produced its first event (stream).
CallOk(r) ==
    /\ ~cancelled[r]
    /\ GoTo(r, "call", "served")
    /\ degraded' = 0
    /\ Emit(r, "ok", "none")
    /\ Answer(r, "ok")
    /\ UNCHANGED <<cool, healthy, affinity, scanVars, attempts, excluded, cur,
                   tries, prev, last, cancelled>>

SlipExcludesNobody(r) == UNCHANGED excluded

\* excluded[idx] = true: no second visit within this request.
Exclude(r) == excluded' = [excluded EXCEPT ![r] = @ \cup {cur[r]}]

\* The tail of every failed visit: registry event, exclusion from this
\* request, and the SPOF memory of interDelayPrev.
CloseVisit(r, cause, kept) ==
    /\ GoTo(r, "call", "loop")
    /\ Exclude(r)
    /\ last' = [last EXCEPT ![r] = kept]
    /\ prev' = [prev EXCEPT ![r] = IF Transient(kept) THEN cur[r] ELSE 0]
    /\ Emit(r, "fallback", cause)
    /\ UNCHANGED <<attempts, cur, tries>>

\* recordFailure: a cooldown from now on, of a jittered length.
Cooldown(i) == \E d \in CoolTimes[i] : cool' = [cool EXCEPT ![i] = d]

\* A non-retryable error (a request 4xx, or an error that is not ErrUpstream):
\* fatal for the pair (provider, request) only, no cooldown.
CallRefused(r) ==
    /\ ~cancelled[r]
    /\ \E e \in {"s4xx", "s5xx"} : CloseVisit(r, e, Kept(r, e))
    /\ UNCHANGED <<sharedVars, scanVars, cancelled, result>>

\* A retryable error (5xx, 429, timeout, network, 401/402) with tries left:
\* back off, then call the same provider again.
CallRetried(r) ==
    /\ GoTo(r, "call", "backoff")
    /\ tries[r] < MaxTries[cur[r]]
    /\ \E e \in {"s5xx", "s429"} :
         last' = [last EXCEPT ![r] = Kept(r, e)]
    /\ UNCHANGED <<sharedVars, scanVars, attempts, excluded, cur, tries, prev,
                   events, cancelled, result>>

SlipTriesNotCounted(r) ==
    /\ GoTo(r, "backoff", "call")
    /\ UNCHANGED <<sharedVars, scanVars, chainVars, cancelled, result>>

\* The backoff ended: the next try on the same provider.
BackoffElapsed(r) ==
    /\ GoTo(r, "backoff", "call")
    /\ tries' = [tries EXCEPT ![r] = @ + 1]
    /\ UNCHANGED <<sharedVars, scanVars, attempts, excluded, cur, prev, last,
                   events, cancelled, result>>

\* A retryable error on the last try: cooldown and exclusion.  A cancelled
\* context makes every call fail this way (the client maps it to a timeout).
CallFailed(r) ==
    /\ \E e \in {"s5xx", "s429"} : CloseVisit(r, e, Kept(r, e))
    /\ tries[r] = MaxTries[cur[r]]
    /\ Cooldown(cur[r])
    /\ UNCHANGED <<healthy, affinity, degraded, scanVars, cancelled, result>>

\* Clamping or injecting the body failed: cooldown and exclusion, no retry.
PrepareFailed(r) ==
    /\ CloseVisit(r, "s5xx", "s5xx")
    /\ Cooldown(cur[r])
    /\ UNCHANGED <<healthy, affinity, degraded, scanVars, cancelled, result>>

\* The proxy accounts for the answer and records the winner under the sticky
\* key; a full store drops one other key (the least recently used).
Settle(r) ==
    /\ GoTo(r, "served", "done")
    /\ LET k == StickyKey[r]
           held == {j \in Keys : affinity[j] # 0} \ {k}
           kept == [affinity EXCEPT ![k] = cur[r]]
       IN  IF k = NoKey THEN affinity' = affinity
           ELSE IF Cardinality(held) < StickyCap THEN affinity' = kept
           ELSE \E victim \in held : affinity' = [kept EXCEPT ![victim] = 0]
    /\ UNCHANGED <<cool, healthy, degraded, scanVars, chainVars, cancelled, result>>

-----------------------------------------------------------------------------
(* The environment of the chain. *)

\* The client disconnects; the context of its request is done.
Cancel(r) ==
    /\ pc[r] \notin {"idle", "served", "done"}
    /\ ~cancelled[r]
    /\ cancelled' = [cancelled EXCEPT ![r] = TRUE]
    /\ UNCHANGED <<sharedVars, pc, scanVars, chainVars, result>>

\* The health store changes its verdict on a provider.
HealthFlip(i) ==
    /\ HealthOn
    /\ healthy' = [healthy EXCEPT ![i] = ~@]
    /\ UNCHANGED <<cool, affinity, degraded, pc, scanVars, chainVars,
                   cancelled, result>>

\* Time left never goes below zero.
Less(n) == IF n = 0 THEN 0 ELSE n - 1

\* One unit of time goes by.
Tick ==
    /\ \/ \E i \in Providers : cool[i] > 0
       \/ \E r \in Requests : wait[r] > 0
    /\ cool' = [i \in Providers |-> Less(cool[i])]
    /\ wait' = [r \in Requests |-> Less(wait[r])]
    /\ UNCHANGED <<healthy, affinity, degraded, pc, pos, ready, soft, graced,
                   chainVars, cancelled, result>>

Resolve(r) == \/ Arrive(r) \/ ScanProvider(r) \/ StartChain(r) \/ NotFound(r)
              \/ StartGrace(r) \/ GraceElapsed(r) \/ FastFail(r)

Walk(r) == \/ Visit(r) \/ Exhaust(r) \/ DelayElapsed(r) \/ SleepCancelled(r)
           \/ CallOk(r) \/ CallRefused(r) \/ CallRetried(r)
           \/ BackoffElapsed(r) \/ CallFailed(r) \/ PrepareFailed(r) \/ Settle(r)

Finished == (\A r \in Requests : pc[r] = "done") /\ UNCHANGED vars

Next == \/ \E r \in Requests : Resolve(r) \/ Walk(r) \/ Cancel(r)
        \/ \E i \in Providers : HealthFlip(i)
        \/ Tick
        \/ Finished

Spec == Init /\ [][Next]_vars

(* Fairness: goroutines run, every upstream call ends (attempt timeout or   *)
(* TTFB timer, client cancellation), timers fire, time passes.  Clients and *)
(* the health store owe nothing.                                            *)
Fairness == /\ \A r \in Requests : WF_vars(Resolve(r)) /\ WF_vars(Walk(r))
            /\ WF_vars(Tick)

FairSpec == Spec /\ Fairness

-----------------------------------------------------------------------------
(* Properties. *)

\* The state of the router and of each request in it has the right shape.
TypeOK ==
    /\ cool \in [Providers -> Nat] /\ healthy \in [Providers -> BOOLEAN]
    /\ affinity \in [Keys -> Providers \cup {0}] /\ degraded \in Nat
    /\ pc \in [Requests -> Points]
    /\ pos \in [Requests -> 1..(N + 1)]
    /\ ready \in [Requests -> Seq(Providers)] /\ soft \in [Requests -> Seq(Providers)]
    /\ graced \in [Requests -> BOOLEAN] /\ wait \in [Requests -> Nat]
    /\ attempts \in [Requests -> Nat] /\ excluded \in [Requests -> SUBSET Providers]
    /\ cur \in [Requests -> Providers \cup {0}] /\ tries \in [Requests -> Nat]
    /\ prev \in [Requests -> Providers \cup {0}]
    /\ last \in [Requests -> Errors \cup {"none"}]
    /\ cancelled \in [Requests -> BOOLEAN]
    /\ events \in [Requests -> Seq(Event)]
    /\ result \in [Requests -> Failures \cup {"none", "ok"}]

Injective(s) == \A a, b \in 1..Len(s) : s[a] = s[b] => a = b

Elements(s) == {s[k] : k \in 1..Len(s)}

\* One visit per provider and request, in the order of the chain: the k-th
\* attempt event names the k-th candidate, whatever mix of retryable and
\* non-retryable failures closed the visits before it, and no candidate
\* appears twice in the chain (the amendment of 001-003-fallback-v2).
VisitsFollowChain ==
    \A r \in Requests :
        /\ Injective(ready[r])
        /\ \A k \in 1..Len(events[r]) :
              k <= Len(ready[r]) /\ events[r][k].prov = ready[r][k]

\* A failed chain was really exhausted: every candidate was visited, or the
\* visit budget of max_retries + 1 is spent.
ExhaustionIsReal ==
    \A r \in Requests : result[r] \in {"exhausted", "raw4xx"} =>
        \/ Len(events[r]) = Len(ready[r])
        \/ Len(events[r]) = MaxAttempts

\* Whatever the sticky affinity and the interleaving, a request is only sent
\* to providers that serve its model and admit its client.
OnlyEligibleVisited ==
    \A r \in Requests :
        /\ cur[r] # 0 => cur[r] \in Eligible(r)
        /\ pc[r] \notin {"idle", "scan"} => Elements(ready[r]) \subseteq Eligible(r)

\* Unhealthy providers are the last resort, and they are one: they enter a
\* chain only when no healthy candidate was met, and a request never fails
\* fast while one that is not cooling was met.
UnhealthyIsLastResort ==
    \A r \in Requests :
        /\ result[r] \in {"all_down", "degraded_limit"} => soft[r] = <<>>
        /\ pc[r] \notin {"idle", "scan"} =>
              \/ Elements(ready[r]) \subseteq Elements(soft[r])
              \/ Elements(ready[r]) \cap Elements(soft[r]) = {}

\* The counter of degraded requests is shared by all of them: nobody is told the limit
\* before it is used up, whatever successes reset the counter, and until one succeeds
\* nobody beyond it is let through to the plain 502.
DegradedIsEarned ==
    LET down == {r \in Requests : result[r] = "all_down"}
    IN  /\ (\E r \in Requests : result[r] = "degraded_limit") => Cardinality(down) >= MaxDegraded
        /\ MaxDegraded > 0 /\ (\A r \in Requests : result[r] # "ok")
              => Cardinality(down) <= MaxDegraded

\* D1 of 021-001: when the last visit was refused with a 4xx, the exhausted
\* chain hands that 4xx to the caller, of a request that does not stream.
Last4xxReachesCaller ==
    \A r \in Requests \ Streaming : result[r] = "exhausted" =>
        events[r][Len(events[r])].cause # "s4xx"

\* Every request that enters the router is answered.
Answered == \A r \in Requests : pc[r] = "scan" ~> pc[r] = "done"

\* The inductive strengthening of VisitsFollowChain, ExhaustionIsReal and
\* OnlyEligibleVisited: while a request resolves, its lists are increasing lists
\* of eligible providers behind the scan position; while it walks, the closed
\* providers and the events are exactly those of the first visits of the chain.
Increasing(s) == \A a, b \in 1..Len(s) : a < b => s[a] < s[b]

Resolving(r) == pc[r] \in {"idle", "scan", "grace"}

InVisit(r) == pc[r] \in {"delay", "call", "backoff"}

\* Visits concluded so far.
Closed(r) == IF InVisit(r) THEN attempts[r] - 1 ELSE attempts[r]

ScanInv(r) ==
    /\ attempts[r] = 0 /\ cur[r] = 0 /\ excluded[r] = {} /\ events[r] = <<>>
    /\ result[r] = "none"
    /\ Increasing(ready[r]) /\ Increasing(soft[r])
    /\ \A k \in 1..Len(ready[r]) : ready[r][k] \in Eligible(r) /\ ready[r][k] < pos[r]
    /\ \A k \in 1..Len(soft[r]) : soft[r][k] \in Eligible(r) /\ soft[r][k] < pos[r]
    /\ pc[r] # "scan" => ready[r] = <<>>
    /\ pc[r] = "idle" => soft[r] = <<>>

WalkInv(r) ==
    /\ Len(ready[r]) > 0
    /\ Closed(r) \in 0..Len(ready[r]) /\ attempts[r] \in 0..Len(ready[r])
    /\ attempts[r] <= MaxAttempts
    /\ pc[r] # "loop" => attempts[r] > 0 /\ cur[r] = ready[r][attempts[r]]
    /\ Len(events[r]) = Closed(r)
    /\ pc[r] # "served" => \A i \in Providers :
          i \in excluded[r] <=> \E k \in 1..Closed(r) : ready[r][k] = i

ChainInv(r) ==
    /\ Injective(ready[r])
    /\ \A k \in 1..Len(ready[r]) : ready[r][k] \in Eligible(r)
    /\ \A k \in 1..Len(events[r]) :
          k <= Len(ready[r]) /\ events[r][k].prov = ready[r][k]
    /\ cur[r] # 0 => cur[r] \in Eligible(r)
    /\ Resolving(r) => ScanInv(r)
    /\ ~Resolving(r) /\ pc[r] # "done" => WalkInv(r)
    /\ result[r] \in {"exhausted", "raw4xx"} =>
          pc[r] = "done" /\ (Len(events[r]) = Len(ready[r]) \/ Len(events[r]) = MaxAttempts)

Inductive == TypeOK /\ \A r \in Requests : ChainInv(r)

\* The promise to the caller, under the mapping of the chain to sets.
Started(r) == pc[r] \notin {"idle", "scan", "grace"} /\ ready[r] # <<>>

Promise == INSTANCE RouterPromise WITH
    Usable <- [r \in Requests |-> Eligible(r)],
    Budget <- MaxAttempts,
    chain <- [r \in Requests |-> IF Started(r) THEN Elements(ready[r]) ELSE {}],
    tried <- [r \in Requests |->
                 excluded[r] \cup (IF cur[r] = 0 THEN {} ELSE {cur[r]})],
    current <- cur,
    gone <- cancelled,
    answer <- [r \in Requests |->
                 IF result[r] \in {"none", "ok"} THEN result[r] ELSE "failed"]

RefinesPromise == Promise!Spec

=============================================================================
