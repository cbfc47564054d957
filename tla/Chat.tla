-------------------------------- MODULE Chat --------------------------------
(***************************************************************************)
(* The pipeline of /v1/chat/completions and of /v1/responses, behind       *)
(* admission, and of /v1/embeddings, which has none: response cache,       *)
(* context window, budget, single-flight, the call of the fallback chain   *)
(* and, after it, billing, the terminal event of the registry, the cache   *)
(* store and the answer to the client.  The endpoints share counters and   *)
(* registry; responses shares the cache and the chain as well, never       *)
(* streams nor coalesces, and may search the web before its call;          *)
(* embeddings are served by Ollama, with the model of their client.        *)
(* The chain itself is the module Router; here it either serves a request, *)
(* by a provider the client may use, or fails.                             *)
(*                                                                         *)
(* What is charged here are tokens, one per answer.  Dollars are left out: *)
(* those charged come from the table of prices, those filmed from the      *)
(* upstream where it names a cost, and they need not agree.                *)
(***************************************************************************)
EXTENDS Integers, Sequences, FiniteSets

CONSTANTS
    Requests, Clients, Providers, Bodies,
    ClientOf, BodyOf,
    Streams, Deterministic,   \* requests; the others are neither
    Responses,                \* requests to /v1/responses, the others are chat's
    Searching,                \* those of them with web_search_preview
    Embeddings,               \* requests to /v1/embeddings, which Ollama serves
    MayExceed,                \* requests that may be too long for their window
    Clamp,                    \* body after the clamp of its model
    Canonical,                \* body with its keys in order
    Allowed,                  \* providers each client may use
    Slots,                    \* requests of a client in flight, see Admission
    TokensMax,                \* budget of each client in tokens, 0 = none
    ErrorCodes,               \* bound: errors of the chain that are looked at
    CacheOn, MaxEntries,
    FlightsOn, MaxFlights,
    Panics                    \* the call of the chain may panic

None == "none"
Ollama == "embeddings"        \* the name it goes by in books and events

ASSUME ChatAssumption ==
    /\ IsFiniteSet(Requests)
    /\ None \notin Requests /\ {None, Ollama} \cap Providers = {}
    /\ ClientOf \in [Requests -> Clients] /\ BodyOf \in [Requests -> Bodies]
    /\ Streams \subseteq Requests /\ Deterministic \subseteq Requests \ Streams
    /\ Searching \subseteq Responses /\ Responses \subseteq Requests \ Streams
    /\ Embeddings \subseteq Requests \ (Streams \cup Deterministic \cup Responses \cup MayExceed)
    /\ Clamp \in [Bodies -> Bodies] /\ Canonical \in [Bodies -> Bodies]
    /\ Allowed \in [Clients -> SUBSET Providers]
    /\ Slots \in [Clients -> Nat] /\ TokensMax \in [Clients -> Nat]
    /\ MaxEntries \in Nat \ {0} /\ MaxFlights \in Nat \ {0}
    /\ CacheOn \in BOOLEAN /\ FlightsOn \in BOOLEAN /\ Panics \in BOOLEAN

VARIABLES
    pc,
    cache,      \* entries, most recently used first
    usage,      \* tokens charged to each client
    flights,    \* leader of the flight of each body, None = no flight
    landing,    \* of each leader's flight: "open", "served" or "failed"
    routed,     \* the request got past the rejections
    follows,    \* the flight each follower waits for
    answer,     \* the answer a request got: its provider and its caller
    tokens,     \* tokens of that answer, 0 when a stream broke off
    terminals,  \* terminal events filmed for each request
    reply       \* what the client got: HTTP status and error code

shared == <<cache, usage, flights, landing>>
vars == <<pc, shared, routed, follows, answer, tokens, terminals, reply>>

NoAnswer == [provider |-> None, caller |-> None]
NoReply == [status |-> 0, code |-> None]
Ok == [status |-> 200, code |-> None]
Answers == [provider : Providers \cup {Ollama}, caller : Requests]

Endpoint(r) ==
    CASE r \in Responses  -> "responses"
      [] r \in Embeddings -> "embeddings"
      [] OTHER            -> "chat"

\* Chat and responses take the slots of their client and its agent before all
\* else; embeddings pass no limiter.
Limited == Requests \ Embeddings

\* What a search finds changes: it is neither looked up nor stored.
Cacheable(r) == CacheOn /\ r \in Deterministic \ Searching

Coalesces(r) == FlightsOn /\ r \in Deterministic \ Responses
Body(r) == Clamp[BodyOf[r]]

SlipOneNamespace(r) == <<"chat", ClientOf[r], Canonical[BodyOf[r]]>>

\* responseCacheKey: the client and its body in canonical form, not clamped.
ChatKey(r) == <<"chat", ClientOf[r], Canonical[BodyOf[r]]>>

\* responsesCacheKey: the same under a name of its own.
ResponsesKey(r) == <<"responses", ClientOf[r], Canonical[BodyOf[r]]>>

CacheKey(r) == IF r \in Responses THEN ResponsesKey(r) ELSE ChatKey(r)

\* singleFlightKey: the body alone, once clamped.
FlightKey(r) == Body(r)

Init ==
    /\ pc = [r \in Requests |-> "idle"]
    /\ cache = <<>>
    /\ usage = [c \in Clients |-> 0]
    /\ flights = [b \in Bodies |-> None]
    /\ landing = [r \in Requests |-> "open"]
    /\ routed = [r \in Requests |-> FALSE]
    /\ follows = [r \in Requests |-> None]
    /\ answer = [r \in Requests |-> NoAnswer]
    /\ tokens = [r \in Requests |-> 0]
    /\ terminals = [r \in Requests |-> <<>>]
    /\ reply = [r \in Requests |-> NoReply]

GoTo(r, from, to) == pc[r] = from /\ pc' = [pc EXCEPT ![r] = to]

Reply(r, x) == reply' = [reply EXCEPT ![r] = x]

Error(status, code) == [status |-> status, code |-> code]

InFlight(c) == {r \in Limited : ClientOf[r] = c /\ pc[r] \notin {"idle", "done"}}

\* Neither limiter nor registry hears of a body that is too large or no request;
\* what is too large gets 413 and differs in nothing else.
RejectBody(r) ==
    /\ GoTo(r, "idle", "done")
    /\ Reply(r, Error(400, "invalid_request_error"))
    /\ UNCHANGED <<shared, routed, follows, answer, tokens, terminals>>

\* handleResponses refuses what it does not translate: streams, tools that are not
\* functions, other formats than json_schema, items it cannot read.
RejectFeature(r) ==
    /\ r \in Responses
    /\ GoTo(r, "idle", "done")
    /\ Reply(r, Error(400, "invalid_request_error"))
    /\ UNCHANGED <<shared, routed, follows, answer, tokens, terminals>>

\* embeddingsModelFor may know no model for the client.
RejectUnmapped(r) ==
    /\ r \in Embeddings
    /\ GoTo(r, "idle", "done")
    /\ Reply(r, Error(400, "invalid_request_error"))
    /\ UNCHANGED <<shared, routed, follows, answer, tokens, terminals>>

\* The client has a model, whatever model the request names.
ArriveEmbeddings(r) ==
    /\ r \in Embeddings
    /\ GoTo(r, "idle", "limits")
    /\ UNCHANGED <<shared, routed, follows, answer, tokens, terminals, reply>>

\* The limiter let the request in.
Arrive(r) ==
    /\ r \in Limited
    /\ Cardinality(InFlight(ClientOf[r])) < Slots[ClientOf[r]]
    /\ GoTo(r, "idle", IF Cacheable(r) THEN "lookup" ELSE "limits")
    /\ UNCHANGED <<shared, routed, follows, answer, tokens, terminals, reply>>

-----------------------------------------------------------------------------
(* The response cache: LRU with a time to live, one mutex.                 *)

\* The entry of the key, of which there is at most one, leaves the list.
Without(s, k) ==
    LET i == CHOOSE i \in 1..Len(s) : s[i].key = k
    IN  IF \A j \in 1..Len(s) : s[j].key # k THEN s
        ELSE [j \in 1..Len(s) - 1 |-> s[IF j < i THEN j ELSE j + 1]]

Cached(k) == {i \in 1..Len(cache) : cache[i].key = k}
Hit(k) == {i \in Cached(k) : cache[i].fresh}

\* Cache.Get of a live entry, which becomes the most recently used one.
CacheHit(r) ==
    \E i \in Hit(CacheKey(r)) :
        /\ GoTo(r, "lookup", "done")
        /\ cache' = <<cache[i]>> \o Without(cache, CacheKey(r))
        /\ answer' = [answer EXCEPT ![r] = cache[i].answer]
        /\ Reply(r, Ok)
        /\ UNCHANGED <<usage, flights, landing, routed, follows, tokens, terminals>>

\* Cache.Get removes an expired entry.
CacheMiss(r) ==
    /\ Hit(CacheKey(r)) = {}
    /\ GoTo(r, "lookup", "limits")
    /\ cache' = Without(cache, CacheKey(r))
    /\ UNCHANGED <<usage, flights, landing, routed, follows, answer, tokens, terminals, reply>>

\* The time to live of an entry is over.
Expire ==
    /\ \E i \in 1..Len(cache) : cache[i].fresh /\ cache' = [cache EXCEPT ![i].fresh = FALSE]
    /\ UNCHANGED <<pc, usage, flights, landing, routed, follows, answer, tokens, terminals, reply>>

\* Cache.Set: a new front entry, and the least recently used one goes.
Stored(r) ==
    LET s == <<[key |-> CacheKey(r), answer |-> answer[r], fresh |-> TRUE]>>
             \o Without(cache, CacheKey(r))
    IN  IF Len(s) > MaxEntries THEN SubSeq(s, 1, MaxEntries) ELSE s

-----------------------------------------------------------------------------
(* Rejections before the routing.                                          *)

\* How long a body is for the window of its model is left open here: Wire has it.
RejectLong(r) ==
    /\ r \in MayExceed
    /\ GoTo(r, "limits", "done")
    /\ Reply(r, Error(400, "invalid_request_error"))
    /\ UNCHANGED <<shared, routed, follows, answer, tokens, terminals>>

SlipExceeds(c) == TokensMax[c] > 0 /\ usage[c] > TokensMax[c]

\* budgetExceeded reads the counters, here that of tokens; what is in flight is not in them.
Exceeds(c) == TokensMax[c] > 0 /\ usage[c] >= TokensMax[c]

RejectBudget(r) ==
    /\ Exceeds(ClientOf[r])
    /\ GoTo(r, "limits", "done")
    /\ Reply(r, Error(429, "rate_limit_exceeded"))
    /\ UNCHANGED <<shared, routed, follows, answer, tokens, terminals>>

PassLimits(r) ==
    /\ ~Exceeds(ClientOf[r])
    /\ GoTo(r, "limits", "route")
    /\ routed' = [routed EXCEPT ![r] = TRUE]
    /\ UNCHANGED <<shared, follows, answer, tokens, terminals, reply>>

-----------------------------------------------------------------------------
(* Single-flight: Group.Do.                                                *)

Flying == {b \in Bodies : flights[b] # None}
GroupFull == Cardinality(Flying) >= MaxFlights

\* Streams, sampled requests, or coalescing switched off.
Direct(r) ==
    /\ r \notin Responses \cup Embeddings /\ ~Coalesces(r)
    /\ GoTo(r, "route", "call")
    /\ UNCHANGED <<shared, routed, follows, answer, tokens, terminals, reply>>

\* handleResponses calls the chain itself, handleEmbeddings Ollama.
Delegate(r) ==
    /\ r \in Responses \cup Embeddings
    /\ GoTo(r, "route", "call")
    /\ UNCHANGED <<shared, routed, follows, answer, tokens, terminals, reply>>

\* A flight of the key is in the map: wait for it.
Join(r) ==
    LET f == flights[FlightKey(r)]
    IN  /\ Coalesces(r) /\ f # None
        /\ GoTo(r, "route", "wait")
        /\ follows' = [follows EXCEPT ![r] = f]
        /\ UNCHANGED <<shared, routed, answer, tokens, terminals, reply>>

Lead(r) ==
    /\ Coalesces(r) /\ flights[FlightKey(r)] = None /\ ~GroupFull
    /\ GoTo(r, "route", "call")
    /\ flights' = [flights EXCEPT ![FlightKey(r)] = r]
    /\ UNCHANGED <<cache, usage, landing, routed, follows, answer, tokens, terminals, reply>>

SlipAloneWhenFull(r) ==
    /\ Coalesces(r) /\ GroupFull
    /\ GoTo(r, "route", "call")
    /\ UNCHANGED <<shared, routed, follows, answer, tokens, terminals, reply>>

\* The group is full: the call is made without coalescing.
Alone(r) ==
    /\ Coalesces(r) /\ flights[FlightKey(r)] = None /\ GroupFull
    /\ GoTo(r, "route", "call")
    /\ UNCHANGED <<shared, routed, follows, answer, tokens, terminals, reply>>

Leads(r) == \E b \in Bodies : flights[b] = r

-----------------------------------------------------------------------------
(* The call of the chain and what follows it.                              *)

ChainError(status, code, p) == [status |-> status, code |-> code, provider |-> p]

\* The errors of the router: nobody serves the model, fast-fail, the chain is
\* exhausted, cancelled, or ended by a 4xx, which it hands on as it came.
ChainErrors(c) ==
    {e \in {ChainError(404, "model_not_found", None), ChainError(502, "all_providers_down", None),
            ChainError(503, "degraded_limit", None)}
           \cup {ChainError(502, code, p) :
                    code \in {"chain_exhausted", "upstream_unavailable"}, p \in Allowed[c]}
           \cup {ChainError(status, "upstream_error", p) : status \in {400, 403}, p \in Allowed[c]} :
        e.code \in ErrorCodes}

SemanticCodes == {"all_providers_down", "degraded_limit", "chain_exhausted"}

\* absorb.sanitizeChain: the error as the client sees it.
Absorbed(e) ==
    IF e.provider # None /\ e.status \in {401, 403} THEN Error(502, "provider_auth_error")
    ELSE IF e.status < 500 /\ e.status # 429 THEN Error(e.status, e.code)
    ELSE IF e.code \in SemanticCodes THEN Error(e.status, e.code)
    ELSE Error(502, "upstream_unavailable")

Terminal(outcome, status, code, p, t) ==
    [outcome |-> outcome, status |-> status, code |-> code, provider |-> p, tokens |-> t]

Film(r, t) == terminals' = [terminals EXCEPT ![r] = Append(@, t)]

\* A provider answered: a stream is relayed, its status is already sent.
ChainServes(r) ==
    /\ r \notin Embeddings
    /\ \E p \in Allowed[ClientOf[r]] :
        /\ GoTo(r, "call", IF r \in Streams THEN "relay" ELSE "bill")
        /\ answer' = [answer EXCEPT ![r] = [provider |-> p, caller |-> r]]
        /\ tokens' = [tokens EXCEPT ![r] = IF r \in Streams THEN 0 ELSE 1]
        /\ reply' = IF r \in Streams THEN [reply EXCEPT ![r] = Ok] ELSE reply
        /\ UNCHANGED <<shared, routed, follows, terminals>>

\* stream.Copy ends: with the usage of the last chunk, or broken off without.
EndStream(r) ==
    /\ GoTo(r, "relay", "bill")
    /\ \E t \in {0, 1} : tokens' = [tokens EXCEPT ![r] = t]
    /\ UNCHANGED <<shared, routed, follows, answer, terminals, reply>>

\* handleChainError, inside the flight's function when the request leads one.
ChainFails(r) ==
    /\ r \notin Embeddings
    /\ \E e \in ChainErrors(ClientOf[r]) :
        /\ GoTo(r, "call", IF Leads(r) THEN "land" ELSE "done")
        /\ Film(r, Terminal("error", e.status, e.code, e.provider, 0))
        /\ Reply(r, Absorbed(e))
        /\ UNCHANGED <<shared, routed, follows, answer, tokens>>

\* Ollama answered, with its count of tokens or without.
OllamaServes(r) ==
    /\ r \in Embeddings
    /\ GoTo(r, "call", "bill")
    /\ answer' = [answer EXCEPT ![r] = [provider |-> Ollama, caller |-> r]]
    /\ \E t \in {0, 1} : tokens' = [tokens EXCEPT ![r] = t]
    /\ UNCHANGED <<shared, routed, follows, terminals, reply>>

\* Ollama is not configured, does not answer, or answers an error: nothing is
\* filmed.
OllamaFails(r) ==
    /\ r \in Embeddings
    /\ GoTo(r, "call", "done")
    /\ Reply(r, Error(502, "upstream_error"))
    /\ UNCHANGED <<shared, routed, follows, answer, tokens, terminals>>

\* Group.Do recovers the panic of a leader; elsewhere the connection breaks.
ChainPanics(r) ==
    /\ Panics /\ r \notin Embeddings
    /\ GoTo(r, "call", IF Leads(r) THEN "land" ELSE "done")
    /\ UNCHANGED <<shared, routed, follows, answer, tokens, terminals, reply>>

SlipBillsCaller(r) ==
    /\ GoTo(r, "bill", "film")
    /\ usage' = [usage EXCEPT ![ClientOf[answer[r].caller]] = @ + tokens[r]]
    /\ UNCHANGED <<cache, flights, landing, routed, follows, answer, tokens, terminals, reply>>

\* recordCacheTokens, its tokens; the cost it charges is the table's estimate.
Bill(r) ==
    /\ GoTo(r, "bill", "film")
    /\ usage' = [usage EXCEPT ![ClientOf[r]] = @ + tokens[r]]
    /\ UNCHANGED <<cache, flights, landing, routed, follows, answer, tokens, terminals, reply>>

\* emitTerminalSuccess, its tokens; the cost it films is the upstream's if it has
\* one.
FilmSuccess(r) ==
    /\ GoTo(r, "film", IF r \in Streams THEN "done"
                       ELSE IF follows[r] # None \/ r \in Embeddings THEN "write"
                       ELSE "store")
    /\ Film(r, Terminal("success", 200, None, answer[r].provider, tokens[r]))
    /\ UNCHANGED <<shared, routed, follows, answer, tokens, reply>>

\* storeResponseCache.
Store(r) ==
    /\ GoTo(r, "store", IF Leads(r) THEN "land" ELSE "write")
    /\ cache' = IF Cacheable(r) THEN Stored(r) ELSE cache
    /\ UNCHANGED <<usage, flights, landing, routed, follows, answer, tokens, terminals, reply>>

SlipLandsServed(r) ==
    /\ GoTo(r, "land", "remove")
    /\ landing' = IF answer[r] # NoAnswer THEN [landing EXCEPT ![r] = "served"] ELSE landing
    /\ UNCHANGED <<cache, usage, flights, routed, follows, answer, tokens, terminals, reply>>

\* The flight has its result: close(f.done).
Land(r) ==
    /\ GoTo(r, "land", "remove")
    /\ landing' = [landing EXCEPT ![r] = IF answer[r] = NoAnswer THEN "failed" ELSE "served"]
    /\ UNCHANGED <<cache, usage, flights, routed, follows, answer, tokens, terminals, reply>>

\* delete(g.flights, key), under the lock again.
Remove(r) ==
    /\ GoTo(r, "remove", "write")
    /\ flights' = [flights EXCEPT ![FlightKey(r)] = None]
    /\ UNCHANGED <<cache, usage, landing, routed, follows, answer, tokens, terminals, reply>>

\* A follower of a flight with an answer bills and films it as its own.
FollowServed(r) ==
    /\ pc[r] = "wait" /\ landing[follows[r]] = "served"
    /\ GoTo(r, "wait", "bill")
    /\ answer' = [answer EXCEPT ![r] = answer[follows[r]]]
    /\ tokens' = [tokens EXCEPT ![r] = tokens[follows[r]]]
    /\ UNCHANGED <<shared, routed, follows, terminals, reply>>

SlipFollowsNothing(r) ==
    /\ pc[r] = "wait" /\ landing[follows[r]] = "failed"
    /\ GoTo(r, "wait", "bill")
    /\ UNCHANGED <<shared, routed, follows, answer, tokens, terminals, reply>>

\* A follower of a failed flight only writes the error.
FollowFailed(r) ==
    /\ pc[r] = "wait" /\ landing[follows[r]] = "failed"
    /\ GoTo(r, "wait", "write")
    /\ UNCHANGED <<shared, routed, follows, answer, tokens, terminals, reply>>

\* The response, unless it was already written.
Write(r) ==
    /\ r \notin Responses \cup Embeddings
    /\ GoTo(r, "write", "done")
    /\ reply' = IF reply[r] # NoReply THEN reply
                ELSE [reply EXCEPT ![r] = IF answer[r] # NoAnswer THEN Ok
                                          ELSE Error(502, "all_providers_down")]
    /\ UNCHANGED <<shared, routed, follows, answer, tokens, terminals>>

\* The answer as output items of the response, or Ollama's with the model's name.
WriteOutput(r) ==
    /\ r \in Responses \cup Embeddings
    /\ GoTo(r, "write", "done")
    /\ Reply(r, Ok)
    /\ UNCHANGED <<shared, routed, follows, answer, tokens, terminals>>

-----------------------------------------------------------------------------
Route(r) == Direct(r) \/ Delegate(r) \/ Join(r) \/ Lead(r) \/ Alone(r)

Step(r) ==
    \/ CacheHit(r) \/ CacheMiss(r)
    \/ RejectLong(r) \/ RejectBudget(r) \/ PassLimits(r)
    \/ Route(r)
    \/ ChainServes(r) \/ EndStream(r) \/ ChainFails(r) \/ ChainPanics(r)
    \/ OllamaServes(r) \/ OllamaFails(r)
    \/ Bill(r) \/ FilmSuccess(r) \/ Store(r) \/ Land(r) \/ Remove(r)
    \/ FollowServed(r) \/ FollowFailed(r) \/ Write(r) \/ WriteOutput(r)

Finished == (\A r \in Requests : pc[r] = "done") /\ UNCHANGED vars

Reject(r) == RejectBody(r) \/ RejectFeature(r) \/ RejectUnmapped(r)

Next == (\E r \in Requests : Arrive(r) \/ ArriveEmbeddings(r) \/ Reject(r) \/ Step(r)) \/ Expire \/ Finished

Spec == Init /\ [][Next]_vars

(* Handlers run, and the chain answers or fails: Router's Answered.  A     *)
(* request has finitely many steps, so that fairness towards all of them   *)
(* together is enough.                                                     *)
FairSpec == Spec /\ WF_vars(\E r \in Requests : Step(r))

-----------------------------------------------------------------------------
Points == {"idle", "lookup", "limits", "route", "call", "relay", "wait", "bill", "film",
           "store", "land", "remove", "write", "done"}

Codes == {"invalid_request_error", "rate_limit_exceeded", "upstream_error", "provider_auth_error",
          "upstream_unavailable", "model_not_found"} \cup SemanticCodes
Rejections == [status : {400, 403, 404, 429, 502, 503}, code : Codes]
Entries == [key : {"chat", "responses"} \X Clients \X Bodies, answer : Answers, fresh : BOOLEAN]
Events == [outcome : {"success", "error"}, status : Nat, code : Codes \cup {None},
           provider : Providers \cup {Ollama, None}, tokens : {0, 1}]

\* Cache, flights, answers, terminal events and replies have the right shape.
TypeOK ==
    /\ pc \in [Requests -> Points]
    /\ cache \in Seq(Entries)
    /\ usage \in [Clients -> Nat]
    /\ flights \in [Bodies -> Requests \cup {None}]
    /\ landing \in [Requests -> {"open", "served", "failed"}]
    /\ routed \in [Requests -> BOOLEAN]
    /\ follows \in [Requests -> Requests \cup {None}]
    /\ answer \in [Requests -> Answers \cup {NoAnswer}]
    /\ tokens \in [Requests -> {0, 1}]
    /\ terminals \in [Requests -> Seq(Events)]
    /\ reply \in [Requests -> Rejections \cup {Ok, NoReply}]

\* The cache is partitioned by client and endpoint: what a request gets without
\* following a flight comes from a provider its client may use and is an answer of its own
\* endpoint, also from the cache; and no result of a search is kept (P8 of 011-005).
CacheNeverLeaks ==
    /\ \A r \in Requests :
        answer[r] # NoAnswer /\ follows[r] = None =>
            /\ answer[r].provider \in Allowed[ClientOf[r]] \cup {Ollama}
            /\ answer[r].provider = Ollama <=> r \in Embeddings
            /\ ClientOf[answer[r].caller] = ClientOf[r]
            /\ Endpoint(answer[r].caller) = Endpoint(r)
            /\ r \in Searching => answer[r].caller = r
    /\ \A i \in 1..Len(cache) : cache[i].answer.caller \notin Searching

Successes(c) ==
    {r \in Requests : /\ ClientOf[r] = c
                      /\ \E i \in 1..Len(terminals[r]) :
                            terminals[r][i].outcome = "success" /\ terminals[r][i].tokens = 1}

\* D9 of 014-001, for tokens only: the counters and the registry agree.  The tokens
\* a client is charged are those of the terminal events of its requests, but for
\* the requests between the two records; hits of the cache are charged nothing.  Of
\* dollars D9 does not hold: an event has the upstream's cost where there is one
\* (proxy.go:978-991), the counter always the table's (proxy.go:919).
LedgersAgree ==
    \A c \in Clients :
        usage[c] = Cardinality(Successes(c))
                   + Cardinality({r \in Requests : /\ ClientOf[r] = c /\ pc[r] = "film"
                                                   /\ tokens[r] = 1})

\* A request that is done tells the client and the registry the same outcome,
\* at most once, and what never reached the routing films nothing; an answer of
\* Ollama is filmed, its failures are not.
OutcomeFilmedOnce ==
    \A r \in Requests :
        pc[r] = "done" =>
            /\ Len(terminals[r]) <= 1
            /\ ~routed[r] => terminals[r] = <<>>
            /\ routed[r] /\ follows[r] = None /\ (r \in Embeddings => reply[r] = Ok) =>
                  Len(terminals[r]) = 1
            /\ terminals[r] # <<>> =>
                  (terminals[r][1].outcome = "success" <=> reply[r] = Ok)

\* Requests of a client that passed the budget check and are not billed yet.
Unbilled(c) ==
    {r \in Requests : /\ ClientOf[r] = c
                      /\ pc[r] \in {"route", "call", "relay", "wait", "bill"}}

\* The budget is checked before the call and written after it; the overshoot is
\* in tokens is bounded by the concurrency of the client, which admission bounds, but for the
\* embeddings, which pass no limiter: every answer of Ollama may come on top.
OvershootBounded ==
    \A c \in Clients :
        TokensMax[c] > 0 =>
            usage[c] + Cardinality(Unbilled(c) \ Embeddings)
                <= TokensMax[c] - 1 + Slots[c]
                   + Cardinality({r \in Embeddings : ClientOf[r] = c /\ answer[r] # NoAnswer})

\* While a flight of its body is open no other request calls the chain for it.
NoDuplicateCall ==
    [][\A r, q \in Requests :
        /\ pc[r] = "route" /\ pc'[r] = "call" /\ Coalesces(r)
        /\ pc[q] = "call" /\ Leads(q)
        => FlightKey(r) # FlightKey(q)]_vars

\* Every request that arrived is answered; a panic of a leader strands nobody.
Answered == \A r \in Requests : pc[r] # "idle" ~> pc[r] = "done"

=============================================================================
