----------------------------- MODULE ChatProofs -----------------------------
(***************************************************************************)
(* Proofs about the pipeline, for any requests, clients, bodies and        *)
(* providers, any budgets and any size of the cache and of the group of    *)
(* flights.                                                                *)
(***************************************************************************)
EXTENDS Chat, FiniteSetTheorems, TLAPS

-----------------------------------------------------------------------------
(* The inductive invariant.                                                *)

\* Where a request has no answer yet, and where it has no terminal event.
Unanswered == {"idle", "lookup", "limits", "route", "call", "wait"}
Unfilmed == Unanswered \cup {"relay", "bill", "film"}

\* What the place of a request tells of its history.
Stage(r) ==
    /\ pc[r] \in {"idle", "lookup", "limits"} => ~routed[r]
    /\ pc[r] \notin {"idle", "lookup", "limits", "done"} => routed[r]
    /\ pc[r] \in {"idle", "lookup", "limits", "route", "call", "relay", "store", "land", "remove"} =>
          follows[r] = None
    /\ pc[r] = "wait" => follows[r] # None
    /\ follows[r] # None => Coalesces(r)
    /\ pc[r] \in {"land", "remove"} => Coalesces(r)
    /\ pc[r] = "lookup" => Cacheable(r)
    /\ pc[r] = "relay" => r \in Streams
    /\ pc[r] = "store" => r \notin Streams \cup Embeddings
    /\ pc[r] \in Unanswered => answer[r] = NoAnswer /\ reply[r] = NoReply
    /\ pc[r] \in {"relay", "bill", "film", "store"} => answer[r] # NoAnswer
    /\ pc[r] \in {"relay", "bill", "film"} => reply[r] = IF r \in Streams THEN Ok ELSE NoReply
    /\ landing[r] # "open" => pc[r] \in {"remove", "write", "done"}
    /\ landing[r] = "served" => answer[r] # NoAnswer

\* The answer of a request that follows none is its own or was cached for its client.
OwnAnswer(r) ==
    follows[r] = None =>
        /\ pc[r] \in {"relay", "bill", "film", "store"} => answer[r].caller = r
        /\ answer[r] # NoAnswer =>
              /\ answer[r].provider \in Allowed[ClientOf[r]] \cup {Ollama}
              /\ answer[r].provider = Ollama <=> r \in Embeddings
              /\ ClientOf[answer[r].caller] = ClientOf[r]
              /\ Endpoint(answer[r].caller) = Endpoint(r)
              /\ r \in Searching => answer[r].caller = r

\* An entry is filed under the endpoint and the client of the request that stored it.
Filed(e) ==
    /\ e.key[1] = Endpoint(e.answer.caller)
    /\ e.key[2] = ClientOf[e.answer.caller]
    /\ e.answer.provider \in Allowed[e.key[2]]
    /\ e.answer.caller \notin Searching

CacheFiled == \A i \in 1..Len(cache) : Filed(cache[i])

\* A flight is led by a request with its key, which still coalesces.
FlightsLed ==
    \A b \in Bodies : flights[b] # None => b = FlightKey(flights[b]) /\ Coalesces(flights[b])

\* How a request that was not answered yet has filmed its outcome.
FilmedSuccess(r) ==
    /\ answer[r] # NoAnswer /\ reply[r] = NoReply
    /\ Len(terminals[r]) = 1 /\ terminals[r][1].outcome = "success"

FilmedError(r) ==
    /\ answer[r] = NoAnswer /\ reply[r] \notin {Ok, NoReply} /\ r \notin Responses \cup Embeddings
    /\ Len(terminals[r]) = 1 /\ terminals[r][1].outcome = "error"

FilmedNothing(r) ==
    /\ answer[r] = NoAnswer /\ reply[r] = NoReply /\ r \notin Responses \cup Embeddings
    /\ terminals[r] = <<>> /\ (follows[r] # None \/ Panics)

FilmedDone(r) ==
    /\ Len(terminals[r]) <= 1
    /\ ~routed[r] => terminals[r] = <<>>
    /\ routed[r] /\ follows[r] = None /\ (r \in Embeddings => reply[r] = Ok) =>
          Len(terminals[r]) = 1 \/ Panics
    /\ terminals[r] # <<>> => (terminals[r][1].outcome = "success" <=> reply[r] = Ok)

Filming(r) ==
    /\ pc[r] \in Unfilmed => terminals[r] = <<>>
    /\ pc[r] = "store" => FilmedSuccess(r)
    /\ pc[r] \in {"land", "remove", "write"} => FilmedSuccess(r) \/ FilmedError(r) \/ FilmedNothing(r)
    /\ pc[r] = "done" => FilmedDone(r)

\* Embeddings of a client that are billed, or need not be any more.
Settled(c) == {r \in Embeddings : ClientOf[r] = c /\ answer[r] # NoAnswer /\ pc[r] # "bill"}

\* Admission bounds what is in flight.
WithinSlots == \A c \in Clients : Cardinality(InFlight(c)) <= Slots[c]

History ==
    /\ TypeOK
    /\ \A r \in Requests : Stage(r)
    /\ FlightsLed

Acts(r) == Arrive(r) \/ ArriveEmbeddings(r) \/ Reject(r) \/ Step(r)

-----------------------------------------------------------------------------
(* Types.                                                                  *)

LEMMA RequestType ==
    ASSUME NEW r \in Requests
    PROVE  /\ ClientOf[r] \in Clients /\ BodyOf[r] \in Bodies
           /\ Body(r) \in Bodies /\ Canonical[BodyOf[r]] \in Bodies
           /\ Allowed[ClientOf[r]] \subseteq Providers
           /\ CacheKey(r) \in {"chat", "responses"} \X Clients \X Bodies
  BY ChatAssumption DEF Body, CacheKey, ResponsesKey, ChatKey

\* An error of the chain never looks like an answer, absorbed or not.
LEMMA ErrorType ==
    ASSUME NEW c \in Clients, NEW e \in ChainErrors(c)
    PROVE  /\ Absorbed(e) \in Rejections /\ Absorbed(e) \notin {Ok, NoReply}
           /\ Terminal("error", e.status, e.code, e.provider, 0) \in Events
  <1> USE DEF ChainErrors, ChainError
  <1>1. /\ e.status \in {400, 403, 404, 502, 503}
        /\ e.code \in Codes
        /\ e.provider \in Providers \cup {None}
    BY ChatAssumption DEF Codes, SemanticCodes
  <1> HIDE DEF ChainErrors, ChainError
  <1>2. Absorbed(e) \in Rejections
    BY <1>1 DEF Absorbed, Error, Rejections, Codes
  <1>3. Ok \notin Rejections /\ NoReply \notin Rejections
    BY DEF Ok, NoReply, Rejections
  <1>4. QED BY <1>1, <1>2, <1>3 DEF Terminal, Events

LEMMA AnswerType == NoAnswer \notin Answers
  BY ChatAssumption DEF NoAnswer, Answers

LEMMA EntryType ==
    ASSUME NEW s \in Seq(Entries), NEW k
    PROVE  /\ Without(s, k) \in Seq(Entries)
           /\ \A i \in 1..Len(Without(s, k)) : \E j \in 1..Len(s) : Without(s, k)[i] = s[j]
  <1> DEFINE i == CHOOSE i \in 1..Len(s) : s[i].key = k
             t == [j \in 1..Len(s) - 1 |-> s[IF j < i THEN j ELSE j + 1]]
  <1>1. CASE \A j \in 1..Len(s) : s[j].key # k
    BY <1>1 DEF Without
  <1>2. CASE \E j \in 1..Len(s) : s[j].key = k
    <2>1. i \in 1..Len(s) /\ Len(s) \in Nat
      BY <1>2
    <2>2. Without(s, k) = t
      BY <1>2 DEF Without
    <2> HIDE DEF i
    <2>3. \A j \in 1..Len(s) - 1 : (IF j < i THEN j ELSE j + 1) \in 1..Len(s)
      BY <2>1
    <2>4. t \in Seq(Entries) /\ Len(t) = Len(s) - 1
      <3>1. Len(s) - 1 \in Nat
        BY <2>1
      <3>2. \A j \in 1..Len(s) - 1 : s[IF j < i THEN j ELSE j + 1] \in Entries
        BY <2>3
      <3>3. QED BY <3>1, <3>2
    <2>5. \A j \in 1..Len(s) - 1 : \E m \in 1..Len(s) : t[j] = s[m]
      BY <2>3
    <2>6. QED BY <2>2, <2>4, <2>5
  <1>3. QED BY <1>1, <1>2

\* An entry before others.
LEMMA FrontType ==
    ASSUME NEW s \in Seq(Entries), NEW e \in Entries
    PROVE  /\ <<e>> \o s \in Seq(Entries)
           /\ \A i \in 1..Len(<<e>> \o s) :
                 (<<e>> \o s)[i] = e \/ \E j \in 1..Len(s) : (<<e>> \o s)[i] = s[j]
  <1>1. <<e>> \o s \in Seq(Entries) /\ Len(<<e>> \o s) = Len(s) + 1
    OBVIOUS
  <1>2. \A i \in 1..Len(s) + 1 : (<<e>> \o s)[i] = IF i = 1 THEN e ELSE s[i - 1]
    OBVIOUS
  <1>3. Len(s) \in Nat
    OBVIOUS
  <1>4. \A i \in 1..Len(s) + 1 : i = 1 \/ i - 1 \in 1..Len(s)
    BY <1>3
  <1>5. QED BY <1>1, <1>2, <1>4

\* What Cache.Get makes of the cache, and Cache.Set.
LEMMA TouchedType ==
    ASSUME NEW s \in Seq(Entries), NEW k, NEW e \in Entries
    PROVE  /\ <<e>> \o Without(s, k) \in Seq(Entries)
           /\ \A i \in 1..Len(<<e>> \o Without(s, k)) :
                 \/ (<<e>> \o Without(s, k))[i] = e
                 \/ \E j \in 1..Len(s) : (<<e>> \o Without(s, k))[i] = s[j]
  <1>1. /\ Without(s, k) \in Seq(Entries)
        /\ \A i \in 1..Len(Without(s, k)) : \E j \in 1..Len(s) : Without(s, k)[i] = s[j]
    BY EntryType
  <1>2. /\ <<e>> \o Without(s, k) \in Seq(Entries)
        /\ \A i \in 1..Len(<<e>> \o Without(s, k)) :
              \/ (<<e>> \o Without(s, k))[i] = e
              \/ \E j \in 1..Len(Without(s, k)) : (<<e>> \o Without(s, k))[i] = Without(s, k)[j]
    BY <1>1, FrontType
  <1>3. QED BY <1>1, <1>2

Entry(r) == [key |-> CacheKey(r), answer |-> answer[r], fresh |-> TRUE]

LEMMA StoredType ==
    ASSUME TypeOK, NEW r \in Requests, answer[r] # NoAnswer
    PROVE  /\ Entry(r) \in Entries /\ Stored(r) \in Seq(Entries)
           /\ \A i \in 1..Len(Stored(r)) :
                 Stored(r)[i] = Entry(r) \/ \E j \in 1..Len(cache) : Stored(r)[i] = cache[j]
  <1> DEFINE s == <<Entry(r)>> \o Without(cache, CacheKey(r))
  <1>1. Entry(r) \in Entries
    BY RequestType DEF TypeOK, Entries, Entry
  <1>2. /\ s \in Seq(Entries)
        /\ \A i \in 1..Len(s) : s[i] = Entry(r) \/ \E j \in 1..Len(cache) : s[i] = cache[j]
    <2>1. cache \in Seq(Entries)
      BY DEF TypeOK
    <2> HIDE DEF Entry
    <2>2. QED BY <1>1, <2>1, TouchedType
  <1>3. Stored(r) = IF Len(s) > MaxEntries THEN SubSeq(s, 1, MaxEntries) ELSE s
    BY DEF Stored, Entry
  <1> HIDE DEF s
  <1>4. MaxEntries \in Nat \ {0} /\ Len(s) \in Nat
    BY <1>2, ChatAssumption
  <1>5. ASSUME Len(s) > MaxEntries
        PROVE  /\ SubSeq(s, 1, MaxEntries) \in Seq(Entries)
               /\ Len(SubSeq(s, 1, MaxEntries)) = MaxEntries
               /\ \A i \in 1..MaxEntries : SubSeq(s, 1, MaxEntries)[i] = s[i]
    BY <1>2, <1>4, <1>5
  <1>6. CASE Len(s) > MaxEntries
    <2>1. Stored(r) = SubSeq(s, 1, MaxEntries) /\ \A i \in 1..MaxEntries : i \in 1..Len(s)
      BY <1>3, <1>4, <1>6
    <2>2. /\ Stored(r) \in Seq(Entries) /\ Len(Stored(r)) = MaxEntries
          /\ \A i \in 1..MaxEntries : Stored(r)[i] = s[i]
      BY <1>5, <1>6, <2>1
    <2>3. QED BY <1>1, <1>2, <2>1, <2>2
  <1>7. CASE ~(Len(s) > MaxEntries)
    BY <1>1, <1>2, <1>3, <1>7
  <1>8. QED BY <1>6, <1>7

-----------------------------------------------------------------------------
(* Control: what each action does to the request that takes it.            *)

\* The actions by what they touch beside the place of their request.
Rejected(r) == Reject(r) \/ RejectLong(r) \/ RejectBudget(r) \/ OllamaFails(r)
Moved(r) == Arrive(r) \/ ArriveEmbeddings(r) \/ PassLimits(r) \/ Direct(r) \/ Delegate(r)
            \/ Alone(r) \/ ChainPanics(r) \/ FollowFailed(r)
Flown(r) == Join(r) \/ Lead(r) \/ Land(r) \/ Remove(r)
Served(r) == CacheHit(r) \/ ChainServes(r) \/ OllamaServes(r) \/ FollowServed(r) \/ EndStream(r)
Filmed(r) == ChainFails(r) \/ FilmSuccess(r)
Written(r) == Write(r) \/ WriteOutput(r)
Kept(r) == CacheMiss(r) \/ Bill(r) \/ Store(r)

LEMMA ActsCases ==
    ASSUME NEW r \in Requests, Acts(r)
    PROVE  \/ Rejected(r) \/ Moved(r) \/ Flown(r) \/ Served(r) \/ Filmed(r) \/ Written(r) \/ Kept(r)
  BY DEF Acts, Step, Route, Rejected, Moved, Flown, Served, Filmed, Written, Kept

\* A step of one request leaves what is the others' alone.
LEMMA Others ==
    ASSUME TypeOK, NEW r \in Requests, Acts(r), NEW q \in Requests \ {r}
    PROVE  /\ pc'[q] = pc[q] /\ landing'[q] = landing[q] /\ routed'[q] = routed[q]
           /\ follows'[q] = follows[q] /\ answer'[q] = answer[q] /\ tokens'[q] = tokens[q]
           /\ terminals'[q] = terminals[q] /\ reply'[q] = reply[q]
  <1> USE DEF TypeOK, GoTo, Reply, Film, shared
  <1>1. CASE Rejected(r)
    BY <1>1 DEF Rejected, Reject, RejectBody, RejectFeature, RejectUnmapped, RejectLong, RejectBudget, OllamaFails
  <1>2. CASE Moved(r)
    BY <1>2 DEF Moved, Arrive, ArriveEmbeddings, PassLimits, Direct, Delegate, Alone, ChainPanics, FollowFailed
  <1>3. CASE Flown(r)
    BY <1>3 DEF Flown, Join, Lead, Land, Remove
  <1>4. CASE Served(r)
    BY <1>4 DEF Served, CacheHit, ChainServes, OllamaServes, FollowServed, EndStream
  <1>5. CASE Filmed(r)
    BY <1>5 DEF Filmed, ChainFails, FilmSuccess
  <1>6. CASE Written(r)
    BY <1>6 DEF Written, Write, WriteOutput
  <1>7. CASE Kept(r)
    BY <1>7 DEF Kept, CacheMiss, Bill, Store
  <1>8. QED BY <1>1, <1>2, <1>3, <1>4, <1>5, <1>6, <1>7, ActsCases

-----------------------------------------------------------------------------
(* Type correctness.                                                       *)

LEMMA InitHistory == Init => History
  <1> SUFFICES ASSUME Init PROVE History
    OBVIOUS
  <1>1. TypeOK
    BY ChatAssumption DEF Init, TypeOK, Points
  <1>2. \A r \in Requests : Stage(r)
    BY DEF Init, Stage
  <1>3. FlightsLed
    BY DEF Init, FlightsLed
  <1>4. QED BY <1>1, <1>2, <1>3 DEF History

LEMMA TypeStep ==
    ASSUME History, NEW r \in Requests, Acts(r)
    PROVE  TypeOK'
  <1>0. TypeOK /\ Stage(r)
    BY DEF History
  <1> USE <1>0 DEF GoTo, Reply, Film, shared, Points
  <1> HIDE DEF History
  <1>1. CASE Rejected(r)
    <2>1. /\ Error(400, "invalid_request_error") \in Rejections
          /\ Error(429, "rate_limit_exceeded") \in Rejections
          /\ Error(502, "upstream_error") \in Rejections
      BY DEF Error, Rejections, Codes
    <2>2. CASE RejectBody(r)
      BY <2>1, <2>2 DEF TypeOK, RejectBody
    <2>3. CASE RejectFeature(r)
      BY <2>1, <2>3 DEF TypeOK, RejectFeature
    <2>4. CASE RejectUnmapped(r)
      BY <2>1, <2>4 DEF TypeOK, RejectUnmapped
    <2>5. CASE RejectLong(r)
      BY <2>1, <2>5 DEF TypeOK, RejectLong
    <2>6. CASE RejectBudget(r)
      BY <2>1, <2>6 DEF TypeOK, RejectBudget
    <2>7. CASE OllamaFails(r)
      BY <2>1, <2>7 DEF TypeOK, OllamaFails
    <2>8. QED BY <1>1, <2>2, <2>3, <2>4, <2>5, <2>6, <2>7 DEF Rejected, Reject
  <1>2. CASE Moved(r)
    BY <1>2
    DEF TypeOK, Moved, Arrive, ArriveEmbeddings, PassLimits, Direct, Delegate, Alone, ChainPanics, FollowFailed
  <1>3. CASE Flown(r)
    <2>1. FlightKey(r) \in Bodies
      BY RequestType DEF FlightKey
    <2>2. CASE Join(r)
      BY <2>1, <2>2 DEF TypeOK, Join
    <2>3. CASE Lead(r)
      BY <2>1, <2>3 DEF TypeOK, Lead
    <2>4. CASE Land(r)
      BY <2>4 DEF TypeOK, Land
    <2>5. CASE Remove(r)
      BY <2>1, <2>5 DEF TypeOK, Remove
    <2>6. QED BY <1>3, <2>2, <2>3, <2>4, <2>5 DEF Flown
  <1>4. CASE CacheHit(r)
    <2>1. PICK i \in Hit(CacheKey(r)) :
             /\ GoTo(r, "lookup", "done")
             /\ cache' = <<cache[i]>> \o Without(cache, CacheKey(r))
             /\ answer' = [answer EXCEPT ![r] = cache[i].answer]
             /\ Reply(r, Ok)
             /\ UNCHANGED <<usage, flights, landing, routed, follows, tokens, terminals>>
      BY <1>4 DEF CacheHit
    <2>2. cache[i] \in Entries
      BY DEF TypeOK, Hit, Cached
    <2>3. cache' \in Seq(Entries)
      <3>1. cache \in Seq(Entries)
        BY DEF TypeOK
      <3>2. QED BY <2>1, <2>2, <3>1, TouchedType
    <2>4. cache[i].answer \in Answers
      BY <2>2 DEF Entries
    <2>5. QED BY <2>1, <2>3, <2>4 DEF TypeOK
  <1>5. CASE ChainServes(r) \/ EndStream(r)
    <2>1. \A p \in Allowed[ClientOf[r]] : [provider |-> p, caller |-> r] \in Answers
      BY RequestType DEF Answers
    <2>2. CASE ChainServes(r)
      BY <2>1, <2>2 DEF TypeOK, ChainServes
    <2>3. CASE EndStream(r)
      BY <2>3 DEF TypeOK, EndStream
    <2>4. QED BY <1>5, <2>2, <2>3
  <1>6. CASE OllamaServes(r) \/ FollowServed(r)
    <2>1. [provider |-> Ollama, caller |-> r] \in Answers
      BY DEF Answers
    <2>2. CASE OllamaServes(r)
      BY <2>1, <2>2 DEF TypeOK, OllamaServes
    <2>3. CASE FollowServed(r)
      <3>1. follows[r] \in Requests
        BY <2>3 DEF TypeOK, FollowServed, Stage
      <3>2. QED BY <2>3, <3>1 DEF TypeOK, FollowServed
    <2>4. QED BY <1>6, <2>2, <2>3
  <1>7. CASE ChainFails(r)
    <2>1. PICK e \in ChainErrors(ClientOf[r]) :
             /\ GoTo(r, "call", IF Leads(r) THEN "land" ELSE "done")
             /\ Film(r, Terminal("error", e.status, e.code, e.provider, 0))
             /\ Reply(r, Absorbed(e))
             /\ UNCHANGED <<shared, routed, follows, answer, tokens>>
      BY <1>7 DEF ChainFails
    <2>2. Absorbed(e) \in Rejections /\ Terminal("error", e.status, e.code, e.provider, 0) \in Events
      BY ErrorType, RequestType
    <2>3. QED BY <2>1, <2>2 DEF TypeOK
  <1>8. CASE FilmSuccess(r)
    <2>1. Terminal("success", 200, None, answer[r].provider, tokens[r]) \in Events
      BY <1>8 DEF FilmSuccess, Terminal, Events, TypeOK, Stage, Answers
    <2>2. QED BY <1>8, <2>1 DEF TypeOK, FilmSuccess
  <1>9. CASE Written(r)
    <2>1. Error(502, "all_providers_down") \in Rejections
      BY DEF Error, Rejections, Codes, SemanticCodes
    <2>2. CASE Write(r)
      <3>1. reply' \in [Requests -> Rejections \cup {Ok, NoReply}]
        BY <2>1, <2>2 DEF TypeOK, Write
      <3>2. QED BY <2>2, <3>1 DEF TypeOK, Write
    <2>3. CASE WriteOutput(r)
      BY <2>3 DEF TypeOK, WriteOutput
    <2>4. QED BY <1>9, <2>2, <2>3 DEF Written
  <1>10. CASE CacheMiss(r)
    <2>1. cache \in Seq(Entries)
      BY DEF TypeOK
    <2>2. cache' \in Seq(Entries)
      BY <1>10, <2>1, EntryType DEF CacheMiss
    <2>3. QED BY <1>10, <2>2 DEF TypeOK, CacheMiss
  <1>11. CASE Bill(r)
    <2>1. ClientOf[r] \in Clients
      BY RequestType
    <2>2. tokens[r] \in Nat
      <3>1. tokens \in [Requests -> {0, 1}]
        BY DEF TypeOK
      <3> HIDE <1>0
      <3>2. tokens[r] \in {0, 1}
        BY <3>1
      <3>3. QED BY <3>2
    <2>3. usage \in [Clients -> Nat]
      BY DEF TypeOK
    <2>4. usage' = [usage EXCEPT ![ClientOf[r]] = usage[ClientOf[r]] + tokens[r]]
      BY <1>11 DEF Bill
    <2> HIDE <1>0
    <2>5. usage' \in [Clients -> Nat]
      BY <2>1, <2>2, <2>3, <2>4
    <2>6. QED BY <1>0, <1>11, <2>5 DEF TypeOK, Bill
  <1>12. CASE Store(r)
    <2>1. answer[r] # NoAnswer
      BY <1>12 DEF Store, Stage
    <2>2. Stored(r) \in Seq(Entries)
      BY <2>1, StoredType
    <2>3. QED BY <1>12, <2>2 DEF TypeOK, Store
  <1>13. QED
    BY <1>1, <1>2, <1>3, <1>4, <1>5, <1>6, <1>7, <1>8, <1>9, <1>10, <1>11, <1>12, ActsCases
    DEF Served, Filmed, Kept

-----------------------------------------------------------------------------
(* The place of a request and its history, and the flights.                *)

\* The functions of the state, with no more than their domains where that is enough.
Functions ==
    /\ pc \in [Requests -> Points] /\ landing \in [Requests -> {"open", "served", "failed"}]
    /\ routed \in [Requests -> BOOLEAN] /\ follows \in [Requests -> Requests \cup {None}]
    /\ answer \in [Requests -> Answers \cup {NoAnswer}]
    /\ reply \in [Requests -> Rejections \cup {Ok, NoReply}]

LEMMA LeaderCoalesces ==
    ASSUME History, NEW r \in Requests, Leads(r)
    PROVE  Coalesces(r)
  BY ChatAssumption DEF History, FlightsLed, Leads

LEMMA CoalescesKind ==
    ASSUME NEW r \in Requests, Coalesces(r)
    PROVE  r \notin Streams /\ r \notin Responses /\ r \notin Embeddings
  BY ChatAssumption DEF Coalesces

LEMMA StageStep ==
    ASSUME History, NEW r \in Requests, Acts(r)
    PROVE  Stage(r)'
  <1>0. Functions /\ Stage(r)
    BY DEF History, TypeOK, Functions
  <1>1. Leads(r) => Coalesces(r)
    BY LeaderCoalesces
  <1>2. Coalesces(r) => r \notin Streams /\ r \notin Responses /\ r \notin Embeddings
    BY CoalescesKind
  <1>3. r \in Embeddings => r \notin Streams
    BY ChatAssumption
  <1> USE <1>0, <1>1, <1>2, <1>3 DEF GoTo, Reply, shared, Unanswered, Functions
  <1> HIDE DEF History, Coalesces, Cacheable
  <1>4. CASE Reject(r)
    BY <1>4 DEF Stage, Reject, RejectBody, RejectFeature, RejectUnmapped
  <1>5. CASE RejectLong(r) \/ RejectBudget(r) \/ OllamaFails(r)
    BY <1>5 DEF Stage, RejectLong, RejectBudget, OllamaFails
  <1>6. CASE Arrive(r) \/ ArriveEmbeddings(r) \/ PassLimits(r)
    BY <1>6 DEF Stage, Arrive, ArriveEmbeddings, PassLimits
  <1>7. CASE Direct(r) \/ Delegate(r) \/ Alone(r)
    BY <1>7 DEF Stage, Direct, Delegate, Alone
  <1>8. CASE ChainPanics(r) \/ FollowFailed(r)
    BY <1>8 DEF Stage, ChainPanics, FollowFailed
  <1>9. CASE Join(r)
    <2>1. flights[FlightKey(r)] \in Requests /\ flights[FlightKey(r)] # None
      BY <1>9, RequestType DEF Join, FlightKey, History, TypeOK
    <2>2. QED BY <1>9, <2>1 DEF Stage, Join
  <1>10. CASE Lead(r) \/ Remove(r)
    BY <1>10 DEF Stage, Lead, Remove
  <1>11. CASE Land(r)
    BY <1>11 DEF Stage, Land
  <1>12. CASE CacheHit(r)
    <2>1. PICK i \in Hit(CacheKey(r)) :
             /\ GoTo(r, "lookup", "done")
             /\ answer' = [answer EXCEPT ![r] = cache[i].answer]
             /\ Reply(r, Ok)
             /\ UNCHANGED <<landing, routed, follows>>
      BY <1>12 DEF CacheHit
    <2>2. QED BY <2>1 DEF Stage
  <1>13. CASE ChainServes(r)
    <2>1. PICK p \in Allowed[ClientOf[r]] :
             /\ GoTo(r, "call", IF r \in Streams THEN "relay" ELSE "bill")
             /\ answer' = [answer EXCEPT ![r] = [provider |-> p, caller |-> r]]
             /\ reply' = IF r \in Streams THEN [reply EXCEPT ![r] = Ok] ELSE reply
             /\ UNCHANGED <<landing, routed, follows>>
      BY <1>13 DEF ChainServes
    <2>2. [provider |-> p, caller |-> r] # NoAnswer
      BY ChatAssumption, RequestType DEF NoAnswer
    <2>3. QED BY <2>1, <2>2 DEF Stage
  <1>14. CASE OllamaServes(r)
    <2>1. [provider |-> Ollama, caller |-> r] # NoAnswer
      BY ChatAssumption DEF NoAnswer
    <2>2. QED BY <1>14, <2>1 DEF Stage, OllamaServes
  <1>15. CASE FollowServed(r)
    <2>1. follows[r] \in Requests /\ landing[follows[r]] = "served"
      BY <1>15 DEF Stage, FollowServed
    <2>2. answer[follows[r]] # NoAnswer
      BY <2>1 DEF History, Stage
    <2>3. QED BY <1>15, <2>2 DEF Stage, FollowServed
  <1>16. CASE EndStream(r) \/ FilmSuccess(r)
    BY <1>16 DEF Stage, EndStream, FilmSuccess
  <1>17. CASE ChainFails(r)
    <2>1. PICK e \in ChainErrors(ClientOf[r]) :
             /\ GoTo(r, "call", IF Leads(r) THEN "land" ELSE "done")
             /\ Reply(r, Absorbed(e))
             /\ UNCHANGED <<landing, routed, follows, answer>>
      BY <1>17 DEF ChainFails
    <2>2. QED BY <2>1 DEF Stage
  <1>18. CASE Write(r) \/ WriteOutput(r)
    BY <1>18 DEF Stage, Write, WriteOutput
  <1>19. CASE CacheMiss(r)
    BY <1>19 DEF Stage, CacheMiss
  <1>20. CASE Bill(r) \/ Store(r)
    BY <1>20 DEF Stage, Bill, Store
  <1>21. QED
    BY <1>4, <1>5, <1>6, <1>7, <1>8, <1>9, <1>10, <1>11, <1>12, <1>13, <1>14, <1>15, <1>16, <1>17,
       <1>18, <1>19, <1>20
    DEF Acts, Step, Route

LEMMA FlightsStep ==
    ASSUME History, NEW r \in Requests, Acts(r)
    PROVE  FlightsLed'
  <1>1. CASE Lead(r)
    <2>1. flights \in [Bodies -> Requests \cup {None}] /\ FlightKey(r) \in Bodies
      BY RequestType DEF History, TypeOK, FlightKey
    <2>2. Coalesces(r) /\ flights' = [flights EXCEPT ![FlightKey(r)] = r]
      BY <1>1 DEF Lead
    <2>3. QED BY <2>1, <2>2 DEF History, FlightsLed, FlightKey, Coalesces
  <1>2. CASE Remove(r)
    <2>1. flights \in [Bodies -> Requests \cup {None}] /\ FlightKey(r) \in Bodies
      BY RequestType DEF History, TypeOK, FlightKey
    <2>2. flights' = [flights EXCEPT ![FlightKey(r)] = None]
      BY <1>2 DEF Remove
    <2>3. QED BY <2>1, <2>2 DEF History, FlightsLed, FlightKey, Coalesces
  <1>3. CASE UNCHANGED flights
    BY <1>3 DEF History, FlightsLed, FlightKey, Coalesces, Body
  <1>4. Lead(r) \/ Remove(r) \/ UNCHANGED flights
    <2> USE DEF shared
    <2>1. CASE Rejected(r)
      BY <2>1 DEF Rejected, Reject, RejectBody, RejectFeature, RejectUnmapped, RejectLong, RejectBudget, OllamaFails
    <2>2. CASE Moved(r)
      BY <2>2 DEF Moved, Arrive, ArriveEmbeddings, PassLimits, Direct, Delegate, Alone, ChainPanics, FollowFailed
    <2>3. CASE Flown(r)
      BY <2>3 DEF Flown, Join, Land
    <2>4. CASE Served(r)
      BY <2>4 DEF Served, CacheHit, ChainServes, OllamaServes, FollowServed, EndStream
    <2>5. CASE Filmed(r) \/ Written(r) \/ Kept(r)
      BY <2>5 DEF Filmed, ChainFails, FilmSuccess, Written, Write, WriteOutput, Kept, CacheMiss, Bill, Store
    <2>6. QED BY <2>1, <2>2, <2>3, <2>4, <2>5, ActsCases
  <1>5. QED BY <1>1, <1>2, <1>3, <1>4

LEMMA ExpireHistory == History /\ Expire => History'
  <1> SUFFICES ASSUME History, Expire PROVE History'
    OBVIOUS
  <1>1. PICK i \in 1..Len(cache) : cache' = [cache EXCEPT ![i].fresh = FALSE]
    BY DEF Expire
  <1>2. cache \in Seq(Entries)
    BY DEF History, TypeOK
  <1>3. cache' \in Seq(Entries)
    <2>1. [cache[i] EXCEPT !.fresh = FALSE] \in Entries
      <3>1. cache[i] \in Entries
        BY <1>2
      <3> DEFINE e == cache[i]
      <3>2. e \in Entries
        BY <3>1
      <3> HIDE DEF e
      <3>3. [e EXCEPT !.fresh = FALSE] \in Entries
        BY <3>2 DEF Entries
      <3>4. QED BY <3>3 DEF e
    <2>2. cache' = [cache EXCEPT ![i] = [cache[i] EXCEPT !.fresh = FALSE]]
      BY <1>1
    <2>3. QED BY <1>2, <2>1, <2>2
  <1>4. TypeOK'
    BY <1>3 DEF History, TypeOK, Expire
  <1>5. ASSUME NEW r \in Requests PROVE Stage(r)'
    BY DEF History, Stage, Expire, Coalesces, Cacheable
  <1>6. FlightsLed'
    BY DEF History, FlightsLed, Expire, Coalesces, FlightKey, Body
  <1>7. QED BY <1>4, <1>5, <1>6 DEF History

LEMMA NextHistory == History /\ [Next]_vars => History'
  <1> SUFFICES ASSUME History, [Next]_vars PROVE History'
    OBVIOUS
  <1>1. CASE \E r \in Requests : Acts(r)
    <2> PICK r \in Requests : Acts(r)
      BY <1>1
    <2>1. TypeOK' /\ Stage(r)' /\ FlightsLed'
      BY TypeStep, StageStep, FlightsStep
    <2>2. ASSUME NEW q \in Requests \ {r} PROVE Stage(q)'
      <3>1. Stage(q)
        BY DEF History
      <3>2. /\ pc'[q] = pc[q] /\ landing'[q] = landing[q] /\ routed'[q] = routed[q]
            /\ follows'[q] = follows[q] /\ answer'[q] = answer[q] /\ reply'[q] = reply[q]
        BY Others DEF History
      <3> HIDE DEF History
      <3>3. QED BY <3>1, <3>2 DEF Stage, Coalesces, Cacheable
    <2>3. QED BY <2>1, <2>2 DEF History
  <1>2. CASE Expire
    BY <1>2, ExpireHistory
  <1>3. CASE UNCHANGED vars
    BY <1>3 DEF History, TypeOK, Stage, FlightsLed, Coalesces, Cacheable, FlightKey, Body, vars, shared
  <1>4. QED BY <1>1, <1>2, <1>3 DEF Next, Finished, Acts

LEMMA HistoryAlways == Spec => []History
  BY InitHistory, NextHistory, PTL DEF Spec

\* Books, cache, flights, answers, events and replies keep their shape through every
\* interleaving of the handlers of the three endpoints.
THEOREM TypeCorrect == Spec => []TypeOK
  <1>1. History => TypeOK
    BY DEF History
  <1>2. QED BY <1>1, HistoryAlways, PTL

-----------------------------------------------------------------------------
(* Single flight.                                                          *)

\* Group.Do makes the one call of the chain for each key it holds (singleflight.go):
\* while a leader is in its call, no request with its body calls the chain as well.
THEOREM NoDuplicateCallAlways == Spec => NoDuplicateCall
  <1>1. ASSUME History, Next, NEW r \in Requests, NEW q \in Requests,
               pc[r] = "route", pc'[r] = "call", Coalesces(r), pc[q] = "call", Leads(q)
        PROVE  FlightKey(r) # FlightKey(q)
    <2>1. PICK b \in Bodies : flights[b] = q
      BY <1>1 DEF Leads
    <2>2. flights[FlightKey(q)] # None
      BY <1>1, <2>1, ChatAssumption DEF History, FlightsLed
    <2>3. TypeOK
      BY <1>1 DEF History
    <2>4. Acts(r)
      <3>1. PICK x \in Requests : Acts(x)
        BY <1>1, <2>3 DEF Next, Acts, Expire, Finished, vars
      <3>2. x = r
        BY <1>1, <2>3, <3>1, Others
      <3>3. QED BY <3>1, <3>2
    <2>5. r \notin Responses \cup Embeddings
      BY <1>1, CoalescesKind
    <2> USE <1>1, <2>3, <2>5 DEF GoTo
    <2> HIDE DEF History, Coalesces
    <2>6. flights[FlightKey(r)] = None
      <3>1. pc \in [Requests -> Points]
        BY DEF TypeOK
      <3> HIDE <2>3
      <3>2. CASE Rejected(r)
        BY <3>1, <3>2
        DEF Rejected, Reject, RejectBody, RejectFeature, RejectUnmapped, RejectLong, RejectBudget, OllamaFails
      <3>3. CASE Moved(r)
        BY <3>1, <3>3
        DEF Moved, Arrive, ArriveEmbeddings, PassLimits, Direct, Delegate, Alone, ChainPanics, FollowFailed
      <3>4. CASE Flown(r)
        BY <3>1, <3>4 DEF Flown, Join, Lead, Land, Remove
      <3>5. CASE Served(r)
        BY <3>1, <3>5 DEF Served, CacheHit, ChainServes, OllamaServes, FollowServed, EndStream
      <3>6. CASE Filmed(r) \/ Written(r) \/ Kept(r)
        BY <3>1, <3>6
        DEF Filmed, ChainFails, FilmSuccess, Written, Write, WriteOutput, Kept, CacheMiss, Bill, Store
      <3>7. QED BY <2>4, <3>2, <3>3, <3>4, <3>5, <3>6, ActsCases
    <2>7. QED BY <2>2, <2>6
  <1>2. History /\ [Next]_vars =>
           [\A r, q \in Requests :
              /\ pc[r] = "route" /\ pc'[r] = "call" /\ Coalesces(r)
              /\ pc[q] = "call" /\ Leads(q)
              => FlightKey(r) # FlightKey(q)]_vars
    BY <1>1
  <1>3. QED BY <1>2, HistoryAlways, PTL DEF Spec, NoDuplicateCall

-----------------------------------------------------------------------------
(* What answers a request gets, and from where.                            *)

Leakless == (\A r \in Requests : OwnAnswer(r)) /\ CacheFiled

\* The only answers in the cache are filed, whoever stored them.
LEMMA FiledStep ==
    ASSUME History, Leakless, NEW r \in Requests, Acts(r)
    PROVE  CacheFiled'
  <1>0. TypeOK
    BY DEF History
  <1> USE DEF Filed, Endpoint
  <1>1. CASE CacheHit(r)
    <2>1. PICK i \in Hit(CacheKey(r)) : cache' = <<cache[i]>> \o Without(cache, CacheKey(r))
      BY <1>1 DEF CacheHit
    <2>2. i \in 1..Len(cache) /\ cache \in Seq(Entries) /\ cache[i] \in Entries
      BY <1>0 DEF TypeOK, Hit, Cached
    <2>3. \A j \in 1..Len(cache') : \E m \in 1..Len(cache) : cache'[j] = cache[m]
      <3>1. \A j \in 1..Len(cache') : cache'[j] = cache[i] \/ \E m \in 1..Len(cache) : cache'[j] = cache[m]
        BY <2>1, <2>2, TouchedType
      <3>2. QED BY <2>2, <3>1
    <2>4. QED BY <2>3 DEF Leakless, CacheFiled
  <1>2. CASE CacheMiss(r)
    <2>1. cache \in Seq(Entries) /\ cache' = Without(cache, CacheKey(r))
      BY <1>0, <1>2 DEF TypeOK, CacheMiss
    <2>2. \A j \in 1..Len(cache') : \E m \in 1..Len(cache) : cache'[j] = cache[m]
      BY <2>1, EntryType
    <2>3. QED BY <2>2 DEF Leakless, CacheFiled
  <1>3. CASE Store(r) /\ Cacheable(r)
    <2>1. answer[r] # NoAnswer /\ follows[r] = None
      BY <1>3 DEF History, Stage, Store, GoTo
    <2>2. /\ answer[r].provider \in Allowed[ClientOf[r]] \cup {Ollama}
          /\ answer[r].provider = Ollama <=> r \in Embeddings
          /\ answer[r].caller = r
      BY <1>3, <2>1 DEF Leakless, OwnAnswer, Store, GoTo
    <2>3. r \notin Embeddings /\ r \notin Searching
      BY <1>3, ChatAssumption DEF Cacheable
    <2>4. Filed(Entry(r))
      BY <2>2, <2>3 DEF Entry, CacheKey, ResponsesKey, ChatKey
    <2>5. cache' = Stored(r)
      BY <1>3 DEF Store
    <2>6. \A j \in 1..Len(cache') : cache'[j] = Entry(r) \/ \E m \in 1..Len(cache) : cache'[j] = cache[m]
      BY <1>0, <2>1, <2>5, StoredType
    <2> HIDE DEF Entry, Filed
    <2>7. QED BY <2>4, <2>6 DEF Leakless, CacheFiled
  <1>4. CASE UNCHANGED cache
    BY <1>4 DEF Leakless, CacheFiled
  <1>5. CacheHit(r) \/ CacheMiss(r) \/ (Store(r) /\ Cacheable(r)) \/ UNCHANGED cache
    <2> USE DEF shared
    <2>1. CASE Rejected(r)
      BY <2>1 DEF Rejected, Reject, RejectBody, RejectFeature, RejectUnmapped, RejectLong, RejectBudget, OllamaFails
    <2>2. CASE Moved(r)
      BY <2>2 DEF Moved, Arrive, ArriveEmbeddings, PassLimits, Direct, Delegate, Alone, ChainPanics, FollowFailed
    <2>3. CASE Flown(r)
      BY <2>3 DEF Flown, Join, Lead, Land, Remove
    <2>4. CASE Served(r)
      BY <2>4 DEF Served, ChainServes, OllamaServes, FollowServed, EndStream
    <2>5. CASE Filmed(r) \/ Written(r) \/ Kept(r)
      BY <2>5 DEF Filmed, ChainFails, FilmSuccess, Written, Write, WriteOutput, Kept, Bill, Store
    <2>6. QED BY <2>1, <2>2, <2>3, <2>4, <2>5, ActsCases
  <1>6. QED BY <1>1, <1>2, <1>3, <1>4, <1>5

LEMMA OwnAnswerStep ==
    ASSUME History, Leakless, NEW r \in Requests, Acts(r)
    PROVE  OwnAnswer(r)'
  <1>0. Functions /\ Stage(r) /\ OwnAnswer(r)
    BY DEF History, TypeOK, Functions, Leakless
  <1> USE <1>0 DEF GoTo, Functions, Endpoint, shared
  <1> HIDE DEF History, Leakless
  <1>1. CASE CacheHit(r)
    <2>1. PICK i \in Hit(CacheKey(r)) :
             /\ GoTo(r, "lookup", "done")
             /\ answer' = [answer EXCEPT ![r] = cache[i].answer]
             /\ follows' = follows
      BY <1>1 DEF CacheHit
    <2>2. Filed(cache[i]) /\ cache[i].key = CacheKey(r)
      BY DEF Leakless, CacheFiled, Hit, Cached
    <2>3. Cacheable(r)
      BY <2>1 DEF Stage
    <2>4. r \notin Embeddings /\ r \notin Searching
      BY <2>3, ChatAssumption DEF Cacheable
    <2>5. /\ cache[i].answer.provider \in Allowed[ClientOf[r]]
          /\ ClientOf[cache[i].answer.caller] = ClientOf[r]
          /\ Endpoint(cache[i].answer.caller) = Endpoint(r)
      BY <2>2, <2>4 DEF Filed, CacheKey, ResponsesKey, ChatKey
    <2>6. cache[i].answer.provider # Ollama
      BY <2>5, RequestType, ChatAssumption
    <2>7. answer'[r] = cache[i].answer /\ pc'[r] = "done"
      BY <2>1
    <2> HIDE <1>0
    <2>8. QED BY <2>4, <2>5, <2>6, <2>7 DEF OwnAnswer
  <1>2. CASE ChainServes(r)
    <2>1. PICK p \in Allowed[ClientOf[r]] : answer' = [answer EXCEPT ![r] = [provider |-> p, caller |-> r]]
      BY <1>2 DEF ChainServes
    <2>2. r \notin Embeddings /\ p # Ollama
      BY <1>2, ChatAssumption, RequestType DEF ChainServes
    <2>3. answer'[r] = [provider |-> p, caller |-> r]
      BY <2>1
    <2>4. QED BY <2>2, <2>3 DEF OwnAnswer
  <1>3. CASE OllamaServes(r)
    <2>1. answer'[r] = [provider |-> Ollama, caller |-> r] /\ r \in Embeddings
      BY <1>3 DEF OllamaServes
    <2>2. QED BY <2>1 DEF OwnAnswer
  <1>4. CASE FollowServed(r)
    <2>1. follows'[r] # None
      BY <1>4 DEF FollowServed, Stage
    <2>2. QED BY <2>1 DEF OwnAnswer
  <1>5. CASE EndStream(r)
    BY <1>5 DEF OwnAnswer, EndStream
  <1>6. CASE Rejected(r)
    BY <1>6
    DEF OwnAnswer, Rejected, Reject, RejectBody, RejectFeature, RejectUnmapped, RejectLong, RejectBudget, OllamaFails
  <1>7. CASE Moved(r)
    BY <1>7
    DEF OwnAnswer, Moved, Arrive, ArriveEmbeddings, PassLimits, Direct, Delegate, Alone, ChainPanics, FollowFailed
  <1>8. CASE Flown(r)
    <2>1. pc'[r] \notin {"relay", "bill", "film", "store"} /\ answer'[r] = answer[r]
      BY <1>8 DEF Flown, Join, Lead, Land, Remove
    <2>2. follows'[r] = None => follows[r] = None
      BY <1>8 DEF Flown, Join, Lead, Land, Remove, Stage
    <2> HIDE <1>0
    <2>3. QED BY <1>0, <2>1, <2>2 DEF OwnAnswer
  <1>9. CASE Filmed(r)
    BY <1>9 DEF OwnAnswer, Filmed, ChainFails, FilmSuccess
  <1>10. CASE Written(r) \/ Kept(r)
    BY <1>10 DEF OwnAnswer, Written, Write, WriteOutput, Kept, CacheMiss, Bill, Store
  <1>11. QED
    BY <1>1, <1>2, <1>3, <1>4, <1>5, <1>6, <1>7, <1>8, <1>9, <1>10, ActsCases DEF Served

LEMMA LeaklessStep == History /\ Leakless /\ [Next]_vars => Leakless'
  <1> SUFFICES ASSUME History, Leakless, [Next]_vars PROVE Leakless'
    OBVIOUS
  <1>1. CASE \E r \in Requests : Acts(r)
    <2> PICK r \in Requests : Acts(r)
      BY <1>1
    <2>1. CacheFiled' /\ OwnAnswer(r)'
      BY FiledStep, OwnAnswerStep
    <2>2. ASSUME NEW q \in Requests \ {r} PROVE OwnAnswer(q)'
      <3>1. OwnAnswer(q)
        BY DEF Leakless
      <3>2. pc'[q] = pc[q] /\ follows'[q] = follows[q] /\ answer'[q] = answer[q]
        BY Others DEF History
      <3> HIDE DEF History, Leakless
      <3>3. QED BY <3>1, <3>2 DEF OwnAnswer, Endpoint
    <2>3. QED BY <2>1, <2>2 DEF Leakless
  <1>2. CASE Expire
    <2>1. PICK i \in 1..Len(cache) : cache' = [cache EXCEPT ![i].fresh = FALSE]
      BY <1>2 DEF Expire
    <2>2. cache \in Seq(Entries)
      BY DEF History, TypeOK
    <2>3. ASSUME NEW j \in 1..Len(cache')
          PROVE  cache'[j].key = cache[j].key /\ cache'[j].answer = cache[j].answer /\ j \in 1..Len(cache)
      <3>1. cache[i] \in Entries /\ cache[j] \in Entries
        BY <2>1, <2>2, <2>3
      <3>2. QED BY <2>1, <2>2, <2>3, <3>1 DEF Entries
    <2>4. CacheFiled'
      BY <2>3 DEF Leakless, CacheFiled, Filed, Endpoint
    <2>5. \A r \in Requests : OwnAnswer(r)'
      BY <1>2 DEF Leakless, OwnAnswer, Expire, Endpoint
    <2>6. QED BY <2>4, <2>5 DEF Leakless
  <1>3. CASE UNCHANGED vars
    BY <1>3 DEF Leakless, OwnAnswer, CacheFiled, Filed, Endpoint, vars, shared
  <1>4. QED BY <1>1, <1>2, <1>3 DEF Next, Finished, Acts

\* responseCacheKey and responsesCacheKey file an answer under its client and its
\* endpoint: whatever the interleaving, no request is served the cached answer of another
\* client, of another endpoint or of a search, nor by a provider it may not use.
THEOREM CacheNeverLeaksAlways == Spec => []CacheNeverLeaks
  <1>1. Init => Leakless
    BY DEF Init, Leakless, OwnAnswer, CacheFiled
  <1>2. Leakless => CacheNeverLeaks
    BY DEF Leakless, OwnAnswer, CacheFiled, Filed, CacheNeverLeaks
  <1>3. QED BY <1>1, <1>2, LeaklessStep, HistoryAlways, PTL DEF Spec

-----------------------------------------------------------------------------
(* What is filmed, and when.                                               *)

LEMMA OneEvent ==
    ASSUME NEW e \in Events, NEW s, s = <<>>
    PROVE  /\ Len(Append(s, e)) = 1 /\ Append(s, e)[1] = e /\ Append(s, e) # <<>>
           /\ Len(s) = 0
  <1>1. s \in Seq(Events) /\ Len(s) = 0
    OBVIOUS
  <1>2. QED BY <1>1

LEMMA OutcomeOf ==
    ASSUME NEW o, NEW status, NEW code, NEW p, NEW t
    PROVE  Terminal(o, status, code, p, t).outcome = o /\ Terminal(o, status, code, p, t).tokens = t
  BY DEF Terminal

LEMMA FilmingStep ==
    ASSUME History, NEW r \in Requests, Filming(r), Acts(r)
    PROVE  Filming(r)'
  <1>0. Functions /\ Stage(r) /\ Filming(r) /\ terminals \in [Requests -> Seq(Events)]
    BY DEF History, TypeOK, Functions
  <1>1. Leads(r) => Coalesces(r)
    BY LeaderCoalesces
  <1>2. Coalesces(r) => r \notin Streams /\ r \notin Responses /\ r \notin Embeddings
    BY CoalescesKind
  <1>3. Ok # NoReply
    BY DEF Ok, NoReply
  <1>4. terminals[r] = <<>> => Len(terminals[r]) = 0
    OBVIOUS
  <1> USE <1>0, <1>1, <1>2, <1>3, <1>4
      DEF GoTo, Reply, shared, Unanswered, Unfilmed, Functions, Filming,
          FilmedSuccess, FilmedError, FilmedNothing, FilmedDone
  <1> HIDE DEF History, Coalesces, Cacheable, Ok, NoReply
  <1>5. CASE Rejected(r)
    <2>1. Error(400, "invalid_request_error") # Ok /\ Error(429, "rate_limit_exceeded") # Ok
          /\ Error(502, "upstream_error") # Ok
      BY DEF Error, Ok
    <2>2. CASE Reject(r)
      BY <2>2 DEF Stage, Reject, RejectBody, RejectFeature, RejectUnmapped
    <2>3. CASE RejectLong(r) \/ RejectBudget(r)
      BY <2>3 DEF Stage, RejectLong, RejectBudget
    <2>4. CASE OllamaFails(r)
      BY <2>1, <2>4 DEF Stage, OllamaFails
    <2>5. QED BY <1>5, <2>2, <2>3, <2>4 DEF Rejected
  <1>6. CASE Moved(r)
    <2>1. CASE Arrive(r) \/ ArriveEmbeddings(r) \/ PassLimits(r) \/ Direct(r) \/ Delegate(r) \/ Alone(r)
      BY <2>1 DEF Stage, Arrive, ArriveEmbeddings, PassLimits, Direct, Delegate, Alone
    <2>2. CASE ChainPanics(r)
      BY <2>2 DEF Stage, ChainPanics
    <2>3. CASE FollowFailed(r)
      BY <2>3 DEF Stage, FollowFailed
    <2>4. QED BY <1>6, <2>1, <2>2, <2>3 DEF Moved
  <1>7. CASE Flown(r)
    <2>1. CASE Join(r) \/ Lead(r)
      BY <2>1 DEF Stage, Join, Lead
    <2>2. CASE Land(r) \/ Remove(r)
      BY <2>2 DEF Stage, Land, Remove
    <2>3. QED BY <1>7, <2>1, <2>2 DEF Flown
  <1>8. CASE Served(r)
    <2>1. CASE CacheHit(r)
      <3>1. pc[r] = "lookup" /\ pc'[r] = "done" /\ terminals' = terminals /\ routed' = routed
        BY <2>1 DEF CacheHit
      <3>2. QED BY <3>1 DEF Stage
    <2>2. CASE ChainServes(r)
      <3>1. pc[r] = "call" /\ pc'[r] \in {"relay", "bill"} /\ terminals' = terminals
        BY <2>2 DEF ChainServes
      <3>2. QED BY <3>1
    <2>3. CASE OllamaServes(r) \/ FollowServed(r) \/ EndStream(r)
      <3>1. pc[r] \in {"call", "wait", "relay"} /\ pc'[r] = "bill" /\ terminals' = terminals
        BY <2>3 DEF OllamaServes, FollowServed, EndStream
      <3>2. QED BY <3>1
    <2>4. QED BY <1>8, <2>1, <2>2, <2>3 DEF Served
  <1>9. CASE ChainFails(r)
    <2>1. PICK e \in ChainErrors(ClientOf[r]) :
             /\ GoTo(r, "call", IF Leads(r) THEN "land" ELSE "done")
             /\ Film(r, Terminal("error", e.status, e.code, e.provider, 0))
             /\ Reply(r, Absorbed(e))
             /\ UNCHANGED <<routed, follows, answer>>
      BY <1>9 DEF ChainFails
    <2> DEFINE t == Terminal("error", e.status, e.code, e.provider, 0)
    <2>2. t \in Events /\ t.outcome = "error" /\ Absorbed(e) \notin {Ok, NoReply}
      BY ErrorType, RequestType, OutcomeOf
    <2>3. terminals'[r] = Append(terminals[r], t) /\ terminals[r] = <<>>
      BY <2>1 DEF Film
    <2> HIDE DEF t
    <2>4. Len(terminals'[r]) = 1 /\ terminals'[r][1].outcome = "error"
      BY <2>2, <2>3, OneEvent
    <2>5. reply'[r] = Absorbed(e) /\ pc'[r] = IF Leads(r) THEN "land" ELSE "done"
      BY <2>1
    <2>6. routed'[r] /\ follows'[r] = None /\ answer'[r] = NoAnswer
      BY <2>1 DEF Stage
    <2>7. QED BY <2>2, <2>4, <2>5, <2>6
  <1>10. CASE FilmSuccess(r)
    <2> DEFINE t == Terminal("success", 200, None, answer[r].provider, tokens[r])
    <2>1. t \in Events /\ t.outcome = "success"
      <3>1. answer[r] \in Answers /\ tokens[r] \in {0, 1}
        BY <1>10 DEF FilmSuccess, History, TypeOK, Stage
      <3>2. QED BY <3>1 DEF Terminal, Events, Answers
    <2>2. terminals'[r] = Append(terminals[r], t) /\ terminals[r] = <<>>
      BY <1>10 DEF Film, FilmSuccess
    <2> HIDE DEF t
    <2>3. Len(terminals'[r]) = 1 /\ terminals'[r][1].outcome = "success"
      BY <2>1, <2>2, OneEvent
    <2>4. /\ routed'[r] /\ answer'[r] # NoAnswer
          /\ reply'[r] = IF r \in Streams THEN Ok ELSE NoReply
          /\ pc'[r] \in {"done", "write", "store"} /\ (pc'[r] = "done" <=> r \in Streams)
      BY <1>10 DEF FilmSuccess, Stage
    <2>5. QED BY <2>3, <2>4
  <1>11. CASE Write(r)
    <2>1. Error(502, "all_providers_down") # Ok
      BY DEF Error, Ok
    <2>2. /\ pc[r] = "write" /\ pc'[r] = "done" /\ UNCHANGED <<routed, follows, answer, terminals>>
          /\ reply'[r] = IF reply[r] # NoReply THEN reply[r]
                         ELSE IF answer[r] # NoAnswer THEN Ok ELSE Error(502, "all_providers_down")
          /\ r \notin Embeddings /\ routed[r]
      BY <1>11 DEF Write, Stage
    <2>3. CASE FilmedSuccess(r)
      BY <2>2, <2>3
    <2>4. CASE FilmedError(r)
      BY <2>2, <2>4
    <2>5. CASE FilmedNothing(r)
      BY <2>1, <2>2, <2>5
    <2>6. QED BY <2>2, <2>3, <2>4, <2>5
  <1>12. CASE WriteOutput(r)
    <2>1. /\ pc[r] = "write" /\ pc'[r] = "done" /\ UNCHANGED <<routed, follows, answer, terminals>>
          /\ reply'[r] = Ok /\ r \in Responses \cup Embeddings /\ routed[r]
      BY <1>12 DEF WriteOutput, Stage
    <2>2. FilmedSuccess(r)
      BY <2>1
    <2>3. QED BY <2>1, <2>2
  <1>13. CASE Kept(r)
    <2>1. CASE CacheMiss(r) \/ Bill(r)
      BY <2>1 DEF Stage, CacheMiss, Bill
    <2>2. CASE Store(r)
      BY <2>2 DEF Stage, Store
    <2>3. QED BY <1>13, <2>1, <2>2 DEF Kept
  <1>14. QED BY <1>5, <1>6, <1>7, <1>8, <1>9, <1>10, <1>11, <1>12, <1>13, ActsCases DEF Filmed, Written

AllFilming == \A r \in Requests : Filming(r)

LEMMA FilmingNext == History /\ AllFilming /\ [Next]_vars => AllFilming'
  <1> SUFFICES ASSUME History, \A r \in Requests : Filming(r), [Next]_vars, NEW q \in Requests
               PROVE  Filming(q)'
    BY DEF AllFilming
  <1>1. CASE Acts(q)
    BY <1>1, FilmingStep
  <1>2. ASSUME NEW r \in Requests, Acts(r), q # r PROVE Filming(q)'
    <2>1. /\ pc'[q] = pc[q] /\ routed'[q] = routed[q] /\ follows'[q] = follows[q]
          /\ answer'[q] = answer[q] /\ terminals'[q] = terminals[q] /\ reply'[q] = reply[q]
      BY <1>2, Others DEF History
    <2>2. Filming(q)
      OBVIOUS
    <2> HIDE DEF History
    <2>3. QED BY <2>1, <2>2 DEF Filming, FilmedSuccess, FilmedError, FilmedNothing, FilmedDone
  <1>3. CASE Expire \/ UNCHANGED vars
    BY <1>3 DEF Expire, vars, shared, Filming, FilmedSuccess, FilmedError, FilmedNothing, FilmedDone
  <1>4. QED BY <1>1, <1>2, <1>3 DEF Next, Finished, Acts

LEMMA FilmingAlways == Spec => []AllFilming
  <1>1. Init => AllFilming
    BY DEF Init, AllFilming, Filming, Unfilmed
  <1>2. QED BY <1>1, FilmingNext, HistoryAlways, PTL DEF Spec

\* emitTerminalSuccess and handleChainError film each request that was routed once, and
\* what they film is what its client was told, unless the call of the chain panics.
THEOREM OutcomeFilmedOnceAlways == Spec => [](OutcomeFilmedOnce \/ Panics)
  <1>1. AllFilming => OutcomeFilmedOnce \/ Panics
    BY DEF AllFilming, Filming, FilmedDone, OutcomeFilmedOnce
  <1>2. QED BY <1>1, FilmingAlways, PTL

-----------------------------------------------------------------------------
(* The books.                                                              *)

LEMMA CountSubset ==
    ASSUME NEW S \in SUBSET Requests
    PROVE  IsFiniteSet(S) /\ Cardinality(S) \in Nat
  BY FS_Subset, FS_CardinalityType, ChatAssumption

LEMMA CountPlus ==
    ASSUME NEW S \in SUBSET Requests, NEW x \in Requests, x \notin S
    PROVE  Cardinality(S \cup {x}) = Cardinality(S) + 1
  BY FS_AddElement, CountSubset

LEMMA CountMinus ==
    ASSUME NEW S \in SUBSET Requests, NEW x \in S
    PROVE  Cardinality(S \ {x}) = Cardinality(S) - 1
  BY FS_RemoveElement, CountSubset

LEMMA CountLess ==
    ASSUME NEW S \in SUBSET Requests, NEW T \in SUBSET S
    PROVE  Cardinality(T) <= Cardinality(S)
  BY FS_Subset, CountSubset

\* Billed, but not filmed yet.
Between(c) == {r \in Requests : ClientOf[r] = c /\ pc[r] = "film" /\ tokens[r] = 1}

Costly(r) ==
    \E i \in 1..Len(terminals[r]) : terminals[r][i].outcome = "success" /\ terminals[r][i].tokens = 1

\* But for Bill and FilmSuccess no step touches the books or a success.
LEMMA Quiet ==
    ASSUME History, AllFilming, NEW r \in Requests, Acts(r)
    PROVE  \/ Bill(r) \/ FilmSuccess(r)
           \/ usage' = usage /\ pc[r] # "film" /\ pc'[r] # "film" /\ (Costly(r)' <=> Costly(r))
  <1>0. pc \in [Requests -> Points]
    BY DEF History, TypeOK
  <1> USE <1>0 DEF GoTo, shared
  <1>1. CASE ChainFails(r)
    <2>1. PICK e \in ChainErrors(ClientOf[r]) :
             /\ GoTo(r, "call", IF Leads(r) THEN "land" ELSE "done")
             /\ Film(r, Terminal("error", e.status, e.code, e.provider, 0))
             /\ usage' = usage
      BY <1>1 DEF ChainFails
    <2> DEFINE t == Terminal("error", e.status, e.code, e.provider, 0)
    <2>2. t \in Events /\ t.outcome = "error"
      BY ErrorType, RequestType, OutcomeOf
    <2>3. terminals[r] = <<>>
      BY <2>1 DEF AllFilming, Filming, Unfilmed, Unanswered
    <2>4. terminals'[r] = Append(terminals[r], t)
      BY <2>1 DEF Film, History, TypeOK
    <2> HIDE DEF t
    <2>5. Len(terminals'[r]) = 1 /\ terminals'[r][1].outcome = "error"
      BY <2>2, <2>3, <2>4, OneEvent
    <2>6. ~Costly(r) /\ ~Costly(r)'
      BY <2>3, <2>5 DEF Costly
    <2>7. pc[r] # "film" /\ pc'[r] # "film" /\ usage' = usage
      BY <2>1
    <2> HIDE DEF Costly
    <2>8. QED BY <2>6, <2>7
  <1>2. terminals' = terminals => (Costly(r)' <=> Costly(r))
    BY DEF Costly
  <1>3. CASE Rejected(r)
    BY <1>2, <1>3
    DEF Rejected, Reject, RejectBody, RejectFeature, RejectUnmapped, RejectLong, RejectBudget, OllamaFails
  <1>4. CASE Moved(r)
    BY <1>2, <1>4
    DEF Moved, Arrive, ArriveEmbeddings, PassLimits, Direct, Delegate, Alone, ChainPanics, FollowFailed
  <1>5. CASE Flown(r)
    BY <1>2, <1>5 DEF Flown, Join, Lead, Land, Remove
  <1>6. CASE Served(r)
    BY <1>2, <1>6 DEF Served, CacheHit, ChainServes, OllamaServes, FollowServed, EndStream
  <1>7. CASE Written(r) \/ CacheMiss(r) \/ Store(r)
    BY <1>2, <1>7 DEF Written, Write, WriteOutput, CacheMiss, Store
  <1>8. QED BY <1>1, <1>3, <1>4, <1>5, <1>6, <1>7, ActsCases DEF Filmed, Kept

\* The other requests stay where they are in the books.
LEMMA OthersBooked ==
    ASSUME TypeOK, NEW r \in Requests, Acts(r), NEW q \in Requests \ {r}, NEW c \in Clients
    PROVE  /\ q \in Successes(c)' <=> q \in Successes(c)
           /\ q \in Between(c)' <=> q \in Between(c)
  <1>1. pc'[q] = pc[q] /\ tokens'[q] = tokens[q] /\ terminals'[q] = terminals[q]
    BY Others
  <1>2. QED BY <1>1 DEF Successes, Between

LEMMA SuccessesAre ==
    ASSUME NEW c \in Clients
    PROVE  /\ Successes(c) = {r \in Requests : ClientOf[r] = c /\ Costly(r)}
           /\ Successes(c) \in SUBSET Requests /\ Between(c) \in SUBSET Requests
           /\ Successes(c)' = {r \in Requests : ClientOf[r] = c /\ Costly(r)'}
           /\ Successes(c)' \in SUBSET Requests /\ Between(c)' \in SUBSET Requests
  BY DEF Successes, Costly, Between

Booked(c) == usage[c] = Cardinality(Successes(c)) + Cardinality(Between(c))

LEMMA BookedStep ==
    ASSUME History, AllFilming, NEW r \in Requests, Acts(r), NEW c \in Clients, Booked(c)
    PROVE  Booked(c)'
  <1>0. TypeOK
    BY DEF History
  <1>1. \A q \in Requests \ {r} : /\ q \in Successes(c)' <=> q \in Successes(c)
                                  /\ q \in Between(c)' <=> q \in Between(c)
    BY <1>0, OthersBooked
  <1>2. /\ Cardinality(Successes(c)) \in Nat /\ Cardinality(Between(c)) \in Nat /\ usage[c] \in Nat
        /\ Cardinality(Successes(c)') \in Nat /\ Cardinality(Between(c)') \in Nat
    BY <1>0, SuccessesAre, CountSubset DEF TypeOK
  <1>3. /\ pc \in [Requests -> Points] /\ usage \in [Clients -> Nat] /\ tokens \in [Requests -> {0, 1}]
        /\ terminals \in [Requests -> Seq(Events)] /\ ClientOf[r] \in Clients
    BY <1>0, RequestType DEF TypeOK
  <1>4. pc[r] \in Unfilmed => terminals[r] = <<>>
    BY DEF AllFilming, Filming
  <1>5. pc[r] \in Unfilmed => r \notin Successes(c)
    BY <1>4 DEF Successes
  <1> HIDE DEF History, AllFilming
  <1>6. CASE usage' = usage /\ pc[r] # "film" /\ pc'[r] # "film" /\ (Costly(r)' <=> Costly(r))
    <2>1. Between(c)' = Between(c)
      BY <1>1, <1>6 DEF Between
    <2>2. Successes(c)' = Successes(c)
      <3>1. r \in Successes(c)' <=> r \in Successes(c)
        BY <1>6, SuccessesAre
      <3>2. QED BY <1>1, <3>1, SuccessesAre
    <2>3. QED BY <1>6, <2>1, <2>2 DEF Booked
  <1>7. CASE Bill(r)
    <2>1. /\ pc[r] = "bill" /\ pc'[r] = "film" /\ terminals' = terminals /\ tokens' = tokens
          /\ usage' = [usage EXCEPT ![ClientOf[r]] = usage[ClientOf[r]] + tokens[r]]
      BY <1>3, <1>7 DEF Bill, GoTo
    <2>2. Successes(c)' = Successes(c)
      BY <2>1 DEF Successes
    <2>3. r \notin Between(c)
      BY <2>1 DEF Between
    <2>4. CASE ClientOf[r] = c /\ tokens[r] = 1
      <3>1. Between(c)' = Between(c) \cup {r}
        BY <1>1, <2>1, <2>4 DEF Between
      <3>2. Cardinality(Between(c)') = Cardinality(Between(c)) + 1
        BY <2>3, <3>1, CountPlus, SuccessesAre
      <3>3. usage'[c] = usage[c] + 1
        BY <1>3, <2>1, <2>4
      <3>4. QED BY <1>2, <2>2, <3>2, <3>3 DEF Booked
    <2>5. CASE ~(ClientOf[r] = c /\ tokens[r] = 1)
      <3>1. Between(c)' = Between(c)
        BY <1>1, <2>1, <2>3, <2>5 DEF Between
      <3>2. tokens[r] = 0 \/ ClientOf[r] # c
        BY <1>3, <2>5
      <3>3. usage'[c] = usage[c]
        BY <1>2, <1>3, <2>1, <3>2
      <3>4. QED BY <2>2, <3>1, <3>3 DEF Booked
    <2>6. QED BY <2>4, <2>5
  <1>8. CASE FilmSuccess(r)
    <2> DEFINE t == Terminal("success", 200, None, answer[r].provider, tokens[r])
    <2>1. /\ pc[r] = "film" /\ pc'[r] # "film" /\ usage' = usage
          /\ terminals'[r] = Append(terminals[r], t)
      BY <1>3, <1>8 DEF FilmSuccess, Film, GoTo, shared
    <2>2. t \in Events /\ t.outcome = "success" /\ t.tokens = tokens[r]
      <3>1. answer[r] \in Answers /\ tokens[r] \in {0, 1}
        BY <1>0, <2>1 DEF History, TypeOK, Stage
      <3>2. QED BY <3>1 DEF Terminal, Events, Answers
    <2> HIDE DEF t
    <2>3. terminals[r] = <<>> /\ r \notin Successes(c)
      BY <1>4, <1>5, <2>1 DEF Unfilmed
    <2>4. Len(terminals'[r]) = 1 /\ terminals'[r][1] = t
      BY <2>1, <2>2, <2>3, OneEvent
    <2>5. Costly(r)' <=> tokens[r] = 1
      BY <2>2, <2>4 DEF Costly
    <2>6. r \notin Between(c)'
      BY <2>1 DEF Between
    <2>7. CASE ClientOf[r] = c /\ tokens[r] = 1
      <3>1. r \in Between(c) /\ Between(c)' = Between(c) \ {r}
        BY <1>1, <2>1, <2>6, <2>7, SuccessesAre DEF Between
      <3>2. r \in Successes(c)'
        BY <2>5, <2>7, SuccessesAre
      <3>3. Successes(c)' = Successes(c) \cup {r}
        BY <1>1, <3>2, SuccessesAre
      <3>4. Cardinality(Between(c)') = Cardinality(Between(c)) - 1
        BY <3>1, CountMinus, SuccessesAre
      <3>5. Cardinality(Successes(c)') = Cardinality(Successes(c)) + 1
        BY <2>3, <3>3, CountPlus, SuccessesAre
      <3>6. QED BY <1>2, <2>1, <3>4, <3>5 DEF Booked
    <2>8. CASE ~(ClientOf[r] = c /\ tokens[r] = 1)
      <3>1. r \notin Between(c) /\ r \notin Successes(c)'
        BY <2>5, <2>8, SuccessesAre DEF Between
      <3>2. Between(c)' = Between(c)
        BY <1>1, <2>6, <3>1, SuccessesAre
      <3>3. Successes(c)' = Successes(c)
        BY <1>1, <2>3, <3>1, SuccessesAre
      <3>4. QED BY <2>1, <3>2, <3>3 DEF Booked
    <2>9. QED BY <2>7, <2>8
  <1>9. QED BY <1>6, <1>7, <1>8, Quiet

AllBooked == \A c \in Clients : Booked(c)

LEMMA BookedNext == History /\ AllFilming /\ AllBooked /\ [Next]_vars => AllBooked'
  <1> SUFFICES ASSUME History, AllFilming, AllBooked, [Next]_vars, NEW c \in Clients
               PROVE  Booked(c)'
    BY DEF AllBooked
  <1>1. Booked(c)
    BY DEF AllBooked
  <1>2. CASE \E r \in Requests : Acts(r)
    BY <1>1, <1>2, BookedStep
  <1>3. CASE Expire \/ UNCHANGED vars
    BY <1>1, <1>3 DEF Expire, vars, shared, Booked, Successes, Between
  <1>4. QED BY <1>2, <1>3 DEF Next, Finished, Acts

\* D9 of 014-001 for tokens (recordCacheTokens and emitTerminalSuccess): the tokens a
\* client is charged are those of the terminal events of its requests, for any number of
\* requests that run, follow one another, stream or are embedded at once.  It says
\* nothing of dollars, whose two sources may differ.
THEOREM LedgersAgreeAlways == Spec => []LedgersAgree
  <1>1. Init => AllBooked
    <2> SUFFICES ASSUME Init, NEW c \in Clients PROVE Booked(c)
      BY DEF AllBooked
    <2>1. Successes(c) = {} /\ Between(c) = {}
      BY DEF Init, Successes, Between
    <2>2. QED BY <2>1, FS_EmptySet DEF Init, Booked
  <1>2. AllBooked => LedgersAgree
    BY DEF AllBooked, Booked, Between, LedgersAgree
  <1>3. QED BY <1>1, <1>2, BookedNext, HistoryAlways, FilmingAlways, PTL DEF Spec

-----------------------------------------------------------------------------
(* The budget and its overshoot.                                           *)

Budgeted(c) == Unbilled(c) \ Embeddings

LEMMA BudgetSets ==
    ASSUME NEW c \in Clients
    PROVE  /\ InFlight(c) \in SUBSET Requests /\ InFlight(c)' \in SUBSET Requests
           /\ Budgeted(c) \in SUBSET Requests /\ Budgeted(c)' \in SUBSET Requests
           /\ Settled(c) \in SUBSET Requests /\ Settled(c)' \in SUBSET Requests
           /\ Budgeted(c)' \in SUBSET InFlight(c)'
  BY ChatAssumption DEF InFlight, Limited, Budgeted, Unbilled, Settled

\* Only Arrive adds to what is in flight and only PassLimits to what the budget lets
\* through, and no embedding is unsettled again.
LEMMA BudgetMoves ==
    ASSUME History, NEW r \in Requests, Acts(r), NEW c \in Clients
    PROVE  /\ r \in InFlight(c)' => r \in InFlight(c) \/ Arrive(r)
           /\ r \in Budgeted(c)' => r \in Budgeted(c) \/ PassLimits(r)
           /\ r \in Settled(c) => r \in Settled(c)'
           /\ Bill(r) \/ usage' = usage
  <1>0. Functions /\ Stage(r)
    BY DEF History, TypeOK, Functions
  <1>1. r \in Embeddings => r \notin Streams
    BY ChatAssumption
  <1> USE <1>0, <1>1 DEF GoTo, shared, Functions, InFlight, Limited, Budgeted, Unbilled, Settled
  <1> HIDE DEF History
  <1>2. CASE Rejected(r)
    BY <1>2 DEF Rejected, Reject, RejectBody, RejectFeature, RejectUnmapped, RejectLong, RejectBudget, OllamaFails
  <1>3. CASE Moved(r)
    BY <1>3 DEF Moved, Arrive, ArriveEmbeddings, PassLimits, Direct, Delegate, Alone, ChainPanics, FollowFailed
  <1>4. CASE Flown(r)
    BY <1>4 DEF Flown, Join, Lead, Land, Remove
  <1>5. CASE Served(r)
    <2>1. pc[r] \in {"lookup", "call", "wait", "relay"} /\ usage' = usage
      BY <1>5 DEF Served, CacheHit, ChainServes, OllamaServes, FollowServed, EndStream
    <2>2. r \notin Settled(c)
      BY <2>1 DEF Stage, Unanswered
    <2>3. pc'[r] \in {"done", "relay", "bill"} /\ (pc'[r] # "done" => pc[r] # "lookup")
      BY <1>5 DEF Served, CacheHit, ChainServes, OllamaServes, FollowServed, EndStream
    <2>4. QED BY <2>1, <2>2, <2>3
  <1>6. CASE Filmed(r)
    BY <1>6 DEF Filmed, ChainFails, FilmSuccess
  <1>7. CASE Written(r) \/ Kept(r)
    BY <1>7 DEF Written, Write, WriteOutput, Kept, CacheMiss, Bill, Store
  <1>8. QED BY <1>2, <1>3, <1>4, <1>5, <1>6, <1>7, ActsCases

LEMMA OthersBudgeted ==
    ASSUME TypeOK, NEW r \in Requests, Acts(r), NEW q \in Requests \ {r}, NEW c \in Clients
    PROVE  /\ q \in InFlight(c)' <=> q \in InFlight(c)
           /\ q \in Budgeted(c)' <=> q \in Budgeted(c)
           /\ q \in Settled(c)' <=> q \in Settled(c)
  <1>1. pc'[q] = pc[q] /\ answer'[q] = answer[q]
    BY Others
  <1>2. QED BY <1>1 DEF InFlight, Limited, Budgeted, Unbilled, Settled

LEMMA SlotsStep ==
    ASSUME History, WithinSlots, NEW r \in Requests, Acts(r), NEW c \in Clients
    PROVE  Cardinality(InFlight(c)') <= Slots[c]
  <1>1. Cardinality(InFlight(c)) <= Slots[c] /\ Slots[c] \in Nat
    BY ChatAssumption DEF WithinSlots
  <1>2. /\ Cardinality(InFlight(c)) \in Nat /\ Cardinality(InFlight(c)') \in Nat
    BY BudgetSets, CountSubset
  <1>3. \A q \in Requests \ {r} : q \in InFlight(c)' <=> q \in InFlight(c)
    BY OthersBudgeted DEF History
  <1>4. CASE r \in InFlight(c)' /\ r \notin InFlight(c)
    <2>1. Arrive(r) /\ ClientOf[r] = c
      BY <1>4, BudgetMoves DEF InFlight
    <2>2. Cardinality(InFlight(c)) < Slots[c]
      BY <2>1 DEF Arrive
    <2>3. InFlight(c)' = InFlight(c) \cup {r}
      BY <1>3, <1>4, BudgetSets
    <2>4. Cardinality(InFlight(c)') = Cardinality(InFlight(c)) + 1
      BY <1>4, <2>3, CountPlus, BudgetSets
    <2>5. QED BY <1>1, <1>2, <2>2, <2>4
  <1>5. CASE ~(r \in InFlight(c)' /\ r \notin InFlight(c))
    <2>1. InFlight(c)' \in SUBSET InFlight(c)
      BY <1>3, <1>5, BudgetSets
    <2>2. QED BY <1>1, <1>2, <2>1, CountLess, BudgetSets
  <1>6. QED BY <1>4, <1>5

Overshoots(c) ==
    TokensMax[c] > 0 =>
        usage[c] + Cardinality(Budgeted(c)) <= TokensMax[c] - 1 + Slots[c] + Cardinality(Settled(c))

\* The check finds the budget open, a bill takes its request from those let through or
\* settles an embedding; the rest only lowers the sum.
LEMMA OvershootStep ==
    ASSUME History, WithinSlots, NEW r \in Requests, Acts(r), NEW c \in Clients, Overshoots(c)
    PROVE  Overshoots(c)'
  <1> SUFFICES ASSUME TokensMax[c] > 0
               PROVE  usage'[c] + Cardinality(Budgeted(c)')
                         <= TokensMax[c] - 1 + Slots[c] + Cardinality(Settled(c)')
    BY DEF Overshoots
  <1>0. TypeOK
    BY DEF History
  <1>1. usage[c] + Cardinality(Budgeted(c)) <= TokensMax[c] - 1 + Slots[c] + Cardinality(Settled(c))
    BY DEF Overshoots
  <1>2. /\ Cardinality(Budgeted(c)) \in Nat /\ Cardinality(Budgeted(c)') \in Nat
        /\ Cardinality(Settled(c)) \in Nat /\ Cardinality(Settled(c)') \in Nat
        /\ Cardinality(InFlight(c)') \in Nat
    BY BudgetSets, CountSubset
  <1>3. Slots[c] \in Nat /\ TokensMax[c] \in Nat
    BY ChatAssumption
  <1>4. usage \in [Clients -> Nat] /\ usage[c] \in Nat
    BY <1>0 DEF TypeOK
  <1>5. \A q \in Requests \ {r} : /\ q \in Budgeted(c)' <=> q \in Budgeted(c)
                                  /\ q \in Settled(c)' <=> q \in Settled(c)
    BY <1>0, OthersBudgeted
  <1>6. Settled(c) \in SUBSET Settled(c)'
    BY <1>5, BudgetSets, BudgetMoves
  <1>7. Cardinality(Settled(c)) <= Cardinality(Settled(c)')
    BY <1>6, CountLess, BudgetSets
  <1> HIDE DEF History
  <1>8. CASE r \in Budgeted(c)' /\ r \notin Budgeted(c)
    <2>1. PassLimits(r) /\ ClientOf[r] = c
      BY <1>8, BudgetMoves DEF Budgeted, Unbilled
    <2>2. usage[c] <= TokensMax[c] - 1 /\ usage' = usage
      BY <1>3, <1>4, <2>1 DEF PassLimits, Exceeds, shared
    <2>3. Cardinality(Budgeted(c)') <= Cardinality(InFlight(c)')
      BY CountLess, BudgetSets
    <2>4. Cardinality(InFlight(c)') <= Slots[c]
      BY SlotsStep
    <2>5. QED BY <1>2, <1>3, <1>4, <2>2, <2>3, <2>4
  <1>9. CASE ~(r \in Budgeted(c)' /\ r \notin Budgeted(c))
    <2>1. Budgeted(c)' \in SUBSET Budgeted(c)
      BY <1>5, <1>9, BudgetSets
    <2>2. Cardinality(Budgeted(c)') <= Cardinality(Budgeted(c))
      BY <2>1, CountLess, BudgetSets
    <2>3. CASE usage'[c] = usage[c]
      BY <1>1, <1>2, <1>3, <1>4, <1>7, <2>2, <2>3
    <2>4. CASE Bill(r) /\ ClientOf[r] = c
      <3>1. /\ pc[r] = "bill" /\ pc'[r] = "film" /\ answer' = answer
            /\ usage' = [usage EXCEPT ![c] = usage[c] + tokens[r]]
        BY <1>0, <2>4 DEF Bill, GoTo, TypeOK
      <3>2. tokens[r] \in {0, 1}
        BY <1>0 DEF TypeOK
      <3>3. usage'[c] = usage[c] + tokens[r]
        BY <1>4, <3>1
      <3>4. usage'[c] <= usage[c] + 1 /\ usage'[c] \in Nat
        BY <1>4, <3>2, <3>3
      <3>5. CASE r \notin Embeddings
        <4>1. r \in Budgeted(c) /\ r \notin Budgeted(c)'
          BY <2>4, <3>1, <3>5 DEF Budgeted, Unbilled
        <4>2. Budgeted(c)' = Budgeted(c) \ {r}
          BY <1>5, <4>1, BudgetSets
        <4>3. Cardinality(Budgeted(c)') = Cardinality(Budgeted(c)) - 1
          BY <4>1, <4>2, CountMinus, BudgetSets
        <4>4. QED BY <1>1, <1>2, <1>3, <1>4, <1>7, <3>4, <4>3
      <3>6. CASE r \in Embeddings
        <4>1. answer[r] # NoAnswer
          BY <3>1 DEF History, Stage
        <4>2. r \notin Settled(c) /\ r \in Settled(c)'
          BY <2>4, <3>1, <3>6, <4>1 DEF Settled
        <4>3. Settled(c)' = Settled(c) \cup {r}
          BY <1>5, <4>2, BudgetSets
        <4>4. Cardinality(Settled(c)') = Cardinality(Settled(c)) + 1
          BY <4>2, <4>3, CountPlus, BudgetSets
        <4>5. QED BY <1>1, <1>2, <1>3, <1>4, <2>2, <3>4, <4>4
      <3>7. QED BY <3>5, <3>6
    <2>5. usage'[c] = usage[c] \/ (Bill(r) /\ ClientOf[r] = c)
      <3>1. CASE Bill(r) /\ ClientOf[r] # c
        BY <1>4, <3>1 DEF Bill
      <3>2. QED BY <3>1, BudgetMoves
    <2>6. QED BY <2>3, <2>4, <2>5
  <1>10. QED BY <1>8, <1>9

Bounded == WithinSlots /\ \A c \in Clients : Overshoots(c)

LEMMA BoundedNext == History /\ Bounded /\ [Next]_vars => Bounded'
  <1> SUFFICES ASSUME History, Bounded, [Next]_vars, NEW c \in Clients
               PROVE  Cardinality(InFlight(c)') <= Slots[c] /\ Overshoots(c)'
    BY DEF Bounded, WithinSlots
  <1>1. WithinSlots /\ Overshoots(c) /\ Cardinality(InFlight(c)) <= Slots[c]
    BY DEF Bounded, WithinSlots
  <1>2. CASE \E r \in Requests : Acts(r)
    BY <1>1, <1>2, SlotsStep, OvershootStep
  <1>3. CASE Expire \/ UNCHANGED vars
    BY <1>1, <1>3
    DEF Expire, vars, shared, Overshoots, InFlight, Budgeted, Unbilled, Settled
  <1>4. QED BY <1>2, <1>3 DEF Next, Finished, Acts

\* budgetExceeded reads the counters before the call, recordCacheTokens writes them after
\* it: for any budget, any limit of admission and any interleaving, the requests that
\* were let through in between cost at most the slots of their client.
THEOREM OvershootBoundedAlways == Spec => []OvershootBounded
  <1>1. Init => Bounded
    <2> SUFFICES ASSUME Init, NEW c \in Clients
                 PROVE  Cardinality(InFlight(c)) <= Slots[c] /\ Overshoots(c)
      BY DEF Bounded, WithinSlots
    <2>1. InFlight(c) = {} /\ Budgeted(c) = {} /\ Settled(c) = {}
      BY ChatAssumption DEF Init, InFlight, Limited, Budgeted, Unbilled, Settled
    <2>2. Slots[c] \in Nat /\ TokensMax[c] \in Nat /\ usage[c] = 0
      BY ChatAssumption DEF Init
    <2>3. QED BY <2>1, <2>2, FS_EmptySet DEF Overshoots
  <1>2. History /\ Bounded => OvershootBounded
    <2> SUFFICES ASSUME History, Bounded, NEW c \in Clients, TokensMax[c] > 0
                 PROVE  usage[c] + Cardinality(Budgeted(c))
                          <= TokensMax[c] - 1 + Slots[c]
                             + Cardinality({r \in Embeddings : ClientOf[r] = c /\ answer[r] # NoAnswer})
      BY DEF OvershootBounded, Budgeted
    <2> DEFINE A == {r \in Embeddings : ClientOf[r] = c /\ answer[r] # NoAnswer}
    <2>1. A \in SUBSET Requests /\ Settled(c) \in SUBSET A
      BY ChatAssumption DEF Settled
    <2>2. Cardinality(Settled(c)) <= Cardinality(A)
      BY <2>1, CountLess
    <2>3. /\ Cardinality(A) \in Nat /\ Cardinality(Settled(c)) \in Nat /\ Cardinality(Budgeted(c)) \in Nat
      BY <2>1, BudgetSets, CountSubset
    <2>4. Slots[c] \in Nat /\ TokensMax[c] \in Nat /\ usage[c] \in Nat
      BY ChatAssumption DEF History, TypeOK
    <2>5. Overshoots(c)
      BY DEF Bounded
    <2> HIDE DEF A, Bounded, History
    <2>6. QED BY <2>2, <2>3, <2>4, <2>5 DEF Overshoots, A
  <1>3. QED BY <1>1, <1>2, BoundedNext, HistoryAlways, PTL DEF Spec

=============================================================================
