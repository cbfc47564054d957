-------------------------- MODULE AdmissionProofs --------------------------
(***************************************************************************)
(* Proofs about admission, for any number of requests, clients and agents, *)
(* any limits and any purge interval.                                      *)
(***************************************************************************)
EXTENDS Admission, FiniteSetTheorems, TLAPS

\* Where a request stands before and after it knows its agent's semaphore.
BeforeLookUp == {"idle", "global", "client", "agent"}
AfterLookUp == {"try", "inside", "freeAgent"}

\* A request has the generation it looked up exactly from the look-up on.
LimiterKnown ==
    \A r \in Requests :
        /\ pc[r] \in BeforeLookUp => limiter[r] = 0
        /\ pc[r] = "try" => LimitsAgent(r)
        /\ pc[r] \in AfterLookUp /\ LimitsAgent(r) => limiter[r] # 0

SeenBy(k) == {r \in Requests : KeyOf(r) = k /\ limiter[r] # 0}

\* Every generation of an entry was made for a request that looked it up.
GenerationsCounted ==
    \A k \in AgentKeys : /\ newest[k] <= Cardinality(SeenBy(k))
                         /\ current[k] <= newest[k]

\* No semaphore holds more slots than it has.
WithinLimits ==
    /\ LimitsGlobal => globalUsed <= MaxGlobal
    /\ \A c \in Clients : MaxConcurrent[c] > 0 => clientUsed[c] <= MaxConcurrent[c]
    /\ \A k \in AgentKeys, g \in Generations :
          MaxPerAgent[k[1]] > 0 => agentUsed[k][g] <= MaxPerAgent[k[1]]

\* A request younger than the TTL uses the semaphore that is still current.
YoungHoldsCurrent ==
    \A r \in Requests :
        pc[r] \in AfterLookUp /\ LimitsAgent(r) /\ age[r] <= TTL =>
            /\ limiter[r] = current[KeyOf(r)]
            /\ idle[KeyOf(r)] <= age[r]

IInv ==
    /\ TypeOK
    /\ LimiterKnown
    /\ GenerationsCounted
    /\ SlotsMatchHolders
    /\ WithinLimits
    /\ YoungHoldsCurrent

-----------------------------------------------------------------------------
(* Lemmas about keys and holders. *)

LEMMA KeyType ==
    ASSUME NEW r \in Requests
    PROVE  KeyOf(r) \in AgentKeys /\ KeyOf(r)[1] = ClientOf[r] /\ ClientOf[r] \in Clients
  BY AdmissionAssumption DEF KeyOf, AgentKeys

LEMMA CountType == Cardinality(Requests) \in Nat
  BY FS_CardinalityType, AdmissionAssumption

\* Sets of requests are finite, and one request more or less counts for one.
LEMMA CountSubset ==
    ASSUME NEW S \in SUBSET Requests
    PROVE  /\ IsFiniteSet(S) /\ Cardinality(S) \in Nat
           /\ Cardinality(S) <= Cardinality(Requests)
  BY FS_Subset, FS_CardinalityType, AdmissionAssumption

LEMMA CountPlus ==
    ASSUME NEW S \in SUBSET Requests, NEW x \in Requests, x \notin S
    PROVE  Cardinality(S \cup {x}) = Cardinality(S) + 1
  BY FS_AddElement, CountSubset

LEMMA CountMinus ==
    ASSUME NEW S \in SUBSET Requests, NEW x \in S
    PROVE  Cardinality(S \ {x}) = Cardinality(S) - 1
  BY FS_RemoveElement, CountSubset

\* What a step of one request does to the place of the others.
LEMMA GoToPlace ==
    ASSUME TypeOK, NEW r \in Requests, NEW from \in Points, NEW to \in Points, GoTo(r, from, to)
    PROVE  /\ pc' \in [Requests -> Points]
           /\ pc[r] = from /\ pc'[r] = to
           /\ \A q \in Requests \ {r} : pc'[q] = pc[q]
  BY DEF TypeOK, GoTo

-----------------------------------------------------------------------------
(* Type correctness. *)

LEMMA InitIInv == Init => IInv
  <1> SUFFICES ASSUME Init PROVE IInv
    OBVIOUS
  <1> USE CountType, AdmissionAssumption
  <1>1. TypeOK
    BY DEF Init, TypeOK, Points, Replies, Generations
  <1>2. LimiterKnown /\ YoungHoldsCurrent
    BY DEF Init, LimiterKnown, YoungHoldsCurrent, AfterLookUp
  <1>3. GenerationsCounted
    <2> SUFFICES ASSUME NEW k \in AgentKeys
                 PROVE  newest[k] <= Cardinality(SeenBy(k)) /\ current[k] <= newest[k]
      BY DEF GenerationsCounted
    <2>1. Cardinality(SeenBy(k)) \in Nat
      BY CountSubset DEF SeenBy
    <2>2. QED BY <2>1 DEF Init
  <1>4. SlotsMatchHolders
    <2>1. HoldGlobal = {}
      BY DEF Init, HoldGlobal
    <2>2. \A c \in Clients : HoldClient(c) = {}
      BY DEF Init, HoldClient
    <2>3. \A k \in AgentKeys, g \in Generations : HoldAgent(k, g) = {}
      BY DEF Init, HoldAgent
    <2>4. QED BY <2>1, <2>2, <2>3, FS_EmptySet DEF Init, SlotsMatchHolders
  <1>5. WithinLimits
    <2>1. \A k \in AgentKeys : MaxPerAgent[k[1]] \in Nat
      BY DEF AgentKeys
    <2>2. QED BY <2>1 DEF Init, WithinLimits, LimitsGlobal
  <1>6. QED BY <1>1, <1>2, <1>3, <1>4, <1>5 DEF IInv

LEMMA OlderType ==
    ASSUME NEW n \in 0..(TTL + 1)
    PROVE  Older(n) \in 0..(TTL + 1) /\ n <= Older(n)
  BY AdmissionAssumption DEF Older

\* A look-up that needs a new generation finds one: each earlier generation
\* was made for another request.
LEMMA FreshGeneration ==
    ASSUME IInv, NEW r \in Requests, pc[r] = "agent"
    PROVE  newest[KeyOf(r)] + 1 \in Generations
  <1> DEFINE S == SeenBy(KeyOf(r))
  <1>1. S \in SUBSET Requests /\ r \notin S
    BY DEF SeenBy, IInv, LimiterKnown, BeforeLookUp
  <1>2. Cardinality(S) + 1 <= Cardinality(Requests)
    <2>1. Cardinality(S \cup {r}) = Cardinality(S) + 1
      BY <1>1, CountPlus
    <2>2. S \cup {r} \in SUBSET Requests
      BY <1>1
    <2>3. QED BY <2>1, <2>2, CountSubset
  <1>3. newest[KeyOf(r)] <= Cardinality(S) /\ newest[KeyOf(r)] \in Nat
    BY KeyType, CountType DEF IInv, GenerationsCounted, TypeOK, Generations
  <1>4. Cardinality(S) \in Nat
    BY <1>1, CountSubset
  <1> HIDE DEF S
  <1>5. QED BY <1>2, <1>3, <1>4, CountType DEF Generations

LEMMA TypeStep == IInv /\ [Next]_vars => TypeOK'
  <1> SUFFICES ASSUME IInv, [Next]_vars PROVE TypeOK'
    OBVIOUS
  <1>0. TypeOK
    BY DEF IInv
  <1>1. CASE \E r \in Requests : Ask(r) \/ Release(r)
    <2> PICK r \in Requests : Ask(r) \/ Release(r)
      BY <1>1
    <2> USE <1>0, KeyType DEF TypeOK, GoTo, Reply, Points, Replies, slots, entries
    <2>1. CASE Arrive(r) \/ GiveUpGlobal(r) \/ RefuseClient(r) \/ SkipAgent(r)
               \/ RefuseAgent(r) \/ Finish(r)
      BY <2>1 DEF Arrive, GiveUpGlobal, RefuseClient, SkipAgent, RefuseAgent, Finish
    <2>2. CASE TakeGlobal(r) \/ FreeGlobal(r)
      BY SMTT(30), <2>2 DEF TakeGlobal, FreeGlobal
    <2>3. CASE TakeClient(r) \/ FreeClient(r)
      <3>1. ClientOf[r] \in Clients
        BY KeyType
      <3>2. clientUsed' \in [Clients -> Nat]
        <4>1. CASE TakeClient(r)
          BY <4>1, <3>1 DEF TakeClient
        <4>2. CASE FreeClient(r)
          BY <4>2, <3>1 DEF FreeClient
        <4>3. QED BY <2>3, <4>1, <4>2
      <3>3. QED BY <2>3, <3>2 DEF TakeClient, FreeClient
    <2>4. CASE LookUpAgent(r)
      <3> DEFINE key == KeyOf(r)
                 kept == [k \in AgentKeys |-> IF PurgeDue /\ Stale(k) THEN 0 ELSE current[k]]
                 fresh == kept[key] = 0
                 gen == IF fresh THEN newest[key] + 1 ELSE kept[key]
      <3>1. kept \in [AgentKeys -> Generations \cup {0}]
        OBVIOUS
      <3>2. newest[key] + 1 \in Generations
        BY <2>4, FreshGeneration DEF LookUpAgent
      <3>3. gen \in Generations
        <4> HIDE DEF kept, key
        <4>1. key \in AgentKeys
          BY DEF key
        <4>2. QED BY <3>1, <3>2, <4>1
      <3>4. /\ current' = [kept EXCEPT ![key] = gen]
            /\ newest' = IF fresh THEN [newest EXCEPT ![key] = gen] ELSE newest
            /\ limiter' = [limiter EXCEPT ![r] = gen]
        BY <2>4 DEF LookUpAgent
      <3>5. /\ current' \in [AgentKeys -> Generations \cup {0}]
            /\ newest' \in [AgentKeys -> Generations \cup {0}]
            /\ limiter' \in [Requests -> Generations \cup {0}]
        <4> HIDE DEF gen, fresh, kept
        <4>1. QED BY <3>1, <3>3, <3>4
      <3>6. QED BY <2>4, <3>5, AdmissionAssumption DEF LookUpAgent
    <2>5. CASE TryAgent(r)
      <3>1. KeyOf(r) \in AgentKeys /\ limiter[r] \in Generations
        BY <2>5, KeyType DEF TryAgent, IInv, LimiterKnown, AfterLookUp
      <3>2. agentUsed' \in [AgentKeys -> [Generations -> Nat]]
        BY <2>5, <3>1 DEF TryAgent
      <3>3. QED BY <2>5, <3>2 DEF TryAgent
    <2>6. CASE FreeAgent(r)
      <3>1. KeyOf(r) \in AgentKeys /\ (LimitsAgent(r) => limiter[r] \in Generations)
        BY <2>6, KeyType DEF FreeAgent, IInv, LimiterKnown, AfterLookUp
      <3>2. agentUsed' \in [AgentKeys -> [Generations -> Nat]]
        BY <2>6, <3>1 DEF FreeAgent
      <3>3. QED BY <2>6, <3>2 DEF FreeAgent
    <2>7. QED BY <1>1, <2>1, <2>2, <2>3, <2>4, <2>5, <2>6 DEF Ask, Proceed, Release, GiveBack
  <1>2. CASE Tick
    BY <1>0, <1>2, OlderType DEF Tick, TypeOK, slots
  <1>3. CASE Finished \/ UNCHANGED vars
    BY <1>0, <1>3 DEF Finished, vars, slots, entries, TypeOK
  <1>4. QED BY <1>1, <1>2, <1>3 DEF Next

-----------------------------------------------------------------------------
(* Slots and holders. *)

LEMMA LimiterKnownStep == IInv /\ [Next]_vars => LimiterKnown'
  <1> SUFFICES ASSUME IInv, [Next]_vars PROVE LimiterKnown'
    OBVIOUS
  <1>0. TypeOK /\ LimiterKnown
    BY DEF IInv
  <1>1. CASE \E r \in Requests : Ask(r) \/ Release(r)
    <2> PICK r \in Requests : Ask(r) \/ Release(r)
      BY <1>1
    <2>1. CASE LookUpAgent(r)
      <3>1. limiter'[r] # 0 /\ \A q \in Requests \ {r} : limiter'[q] = limiter[q]
        <4>1. newest[KeyOf(r)] + 1 # 0
          BY <2>1, FreshGeneration, CountType DEF LookUpAgent, GoTo, Generations
        <4>2. KeyOf(r) \in AgentKeys
          BY KeyType
        <4>3. QED BY <2>1, <1>0, <4>1, <4>2 DEF LookUpAgent, TypeOK
      <3>2. pc'[r] = "try" /\ \A q \in Requests \ {r} : pc'[q] = pc[q]
        BY <2>1, <1>0 DEF LookUpAgent, GoTo, TypeOK
      <3>3. LimitsAgent(r)
        BY <2>1 DEF LookUpAgent
      <3>4. QED BY <1>0, <3>1, <3>2, <3>3
                DEF LimiterKnown, BeforeLookUp, AfterLookUp, LimitsAgent
    <2>2. CASE ~LookUpAgent(r)
      <3>1. UNCHANGED limiter
        BY <2>2 DEF Ask, Proceed, Release, GiveBack, Arrive, TakeGlobal, GiveUpGlobal,
                    TakeClient, RefuseClient,
             SkipAgent, TryAgent, RefuseAgent, Finish, FreeAgent, FreeClient, FreeGlobal
      <3>2. /\ \A q \in Requests \ {r} : pc'[q] = pc[q]
            /\ pc'[r] \in BeforeLookUp => pc[r] \in BeforeLookUp
            /\ pc'[r] # "try"
            /\ pc'[r] \in AfterLookUp => pc[r] \in AfterLookUp \/ ~LimitsAgent(r)
        BY <2>2, <1>0 DEF Ask, Proceed, Release, GiveBack, Arrive, TakeGlobal, GiveUpGlobal,
                          TakeClient,
             RefuseClient, SkipAgent, TryAgent, RefuseAgent, Finish, FreeAgent, FreeClient,
             FreeGlobal, GoTo, TypeOK, BeforeLookUp, AfterLookUp
      <3>3. QED BY <1>0, <3>1, <3>2 DEF LimiterKnown, LimitsAgent
    <2>3. QED BY <2>1, <2>2
  <1>2. CASE Tick \/ Finished \/ UNCHANGED vars
    <2>1. UNCHANGED <<pc, limiter>>
      BY <1>2 DEF Tick, Finished, vars
    <2>2. QED BY <1>0, <2>1 DEF LimiterKnown, LimitsAgent
  <1>3. QED BY <1>1, <1>2 DEF Next

LEMMA GenerationsCountedStep == IInv /\ [Next]_vars => GenerationsCounted'
  <1> SUFFICES ASSUME IInv, [Next]_vars, NEW k \in AgentKeys
               PROVE  newest'[k] <= Cardinality(SeenBy(k)') /\ current'[k] <= newest'[k]
    BY DEF GenerationsCounted
  <1>0. TypeOK /\ newest[k] <= Cardinality(SeenBy(k)) /\ current[k] <= newest[k]
    BY DEF IInv, GenerationsCounted
  <1>1. SeenBy(k) \in SUBSET Requests /\ SeenBy(k)' \in SUBSET Requests
    BY DEF SeenBy
  <1>2. CASE \E r \in Requests : LookUpAgent(r)
    <2> PICK r \in Requests : LookUpAgent(r)
      BY <1>2
    <2>1. pc[r] = "agent" /\ limiter[r] = 0
      BY DEF LookUpAgent, GoTo, IInv, LimiterKnown, BeforeLookUp
    <2>2. limiter'[r] # 0 /\ \A q \in Requests \ {r} : limiter'[q] = limiter[q]
      <3>1. newest[KeyOf(r)] + 1 # 0
        BY <2>1, FreshGeneration, CountType DEF Generations
      <3>2. KeyOf(r) \in AgentKeys
        BY KeyType
      <3>3. QED BY <1>0, <3>1, <3>2 DEF LookUpAgent, TypeOK
    <2>3. /\ newest[k] \in Nat /\ current[k] \in Nat
          /\ newest[KeyOf(r)] \in Nat /\ current[KeyOf(r)] \in Nat
      BY SMTT(30), <1>0, KeyType, CountType DEF TypeOK, Generations
    <2>4. CASE k = KeyOf(r)
      <3>1. SeenBy(k)' = SeenBy(k) \cup {r} /\ r \notin SeenBy(k)
        BY <2>1, <2>2, <2>4 DEF SeenBy, KeyOf
      <3>2. Cardinality(SeenBy(k)') = Cardinality(SeenBy(k)) + 1
        BY <1>1, <3>1, CountPlus
      <3>3. /\ newest'[k] \in {newest[k], newest[k] + 1}
            /\ current'[k] = newest'[k] \/ (current'[k] = current[k] /\ newest'[k] = newest[k])
        BY <1>0, <2>4 DEF LookUpAgent, TypeOK
      <3>4. Cardinality(SeenBy(k)) \in Nat
        BY <1>1, CountSubset
      <3>5. QED BY <1>0, <2>3, <3>2, <3>3, <3>4
    <2>5. CASE k # KeyOf(r)
      <3>1. SeenBy(k)' = SeenBy(k)
        BY <2>2, <2>5 DEF SeenBy, KeyOf
      <3>2. newest'[k] = newest[k] /\ current'[k] \in {0, current[k]}
        BY <1>0, <2>5 DEF LookUpAgent, TypeOK
      <3>3. QED BY <1>0, <2>3, <3>1, <3>2
    <2>6. QED BY <2>4, <2>5
  <1>3. CASE ~\E r \in Requests : LookUpAgent(r)
    <2>1. UNCHANGED <<limiter, newest, current>>
      BY <1>3 DEF Next, Ask, Proceed, Release, GiveBack, Arrive, TakeGlobal, GiveUpGlobal,
                  TakeClient, RefuseClient,
           SkipAgent, TryAgent, RefuseAgent, Finish, FreeAgent, FreeClient, FreeGlobal,
           Tick, Finished, vars, entries
    <2>2. SeenBy(k)' = SeenBy(k)
      BY <2>1 DEF SeenBy, KeyOf
    <2>3. QED BY <1>0, <2>1, <2>2
  <1>4. QED BY <1>2, <1>3

\* A step of a request either leaves the slots of a kind and their holders
\* alone, or takes one and joins them, or gives one back and leaves them.
LEMMA GlobalStep ==
    ASSUME IInv, NEW r \in Requests, Ask(r) \/ Release(r)
    PROVE  \/ HoldGlobal' = HoldGlobal /\ globalUsed' = globalUsed
           \/ /\ r \notin HoldGlobal /\ HoldGlobal' = HoldGlobal \cup {r}
              /\ LimitsGlobal => globalUsed' = globalUsed + 1 /\ globalUsed < MaxGlobal
           \/ /\ r \in HoldGlobal /\ HoldGlobal' = HoldGlobal \ {r}
              /\ LimitsGlobal => globalUsed' = globalUsed - 1
  <1>0. pc \in [Requests -> Points]
    BY DEF IInv, TypeOK
  <1>1. CASE TakeGlobal(r)
    BY <1>0, <1>1 DEF TakeGlobal, GoTo, HoldGlobal
  <1>2. CASE FreeGlobal(r)
    BY <1>0, <1>2 DEF FreeGlobal, GoTo, HoldGlobal
  <1>3. CASE ~TakeGlobal(r) /\ ~FreeGlobal(r)
    <2>1. globalUsed' = globalUsed
      BY <1>3 DEF Ask, Proceed, Release, GiveBack, Arrive, GiveUpGlobal, TakeClient,
                  RefuseClient, LookUpAgent,
           SkipAgent, TryAgent, RefuseAgent, Finish, FreeAgent, FreeClient, slots
    <2>2. /\ \A q \in Requests \ {r} : pc'[q] = pc[q]
          /\ pc'[r] \in {"idle", "global", "done"} <=> pc[r] \in {"idle", "global", "done"}
      BY <1>0, <1>3 DEF Ask, Proceed, Release, GiveBack, Arrive, GiveUpGlobal, TakeClient,
                        RefuseClient,
           LookUpAgent, SkipAgent, TryAgent, RefuseAgent, Finish, FreeAgent, FreeClient, GoTo
    <2>3. HoldGlobal' = HoldGlobal
      BY <2>2 DEF HoldGlobal
    <2>4. QED BY <2>1, <2>3
  <1>4. QED BY <1>1, <1>2, <1>3

LEMMA ClientStep ==
    ASSUME IInv, NEW r \in Requests, Ask(r) \/ Release(r), NEW c \in Clients,
           MaxConcurrent[c] > 0
    PROVE  \/ HoldClient(c)' = HoldClient(c) /\ clientUsed'[c] = clientUsed[c]
           \/ /\ r \notin HoldClient(c) /\ HoldClient(c)' = HoldClient(c) \cup {r}
              /\ clientUsed'[c] = clientUsed[c] + 1 /\ clientUsed[c] < MaxConcurrent[c]
           \/ /\ r \in HoldClient(c) /\ HoldClient(c)' = HoldClient(c) \ {r}
              /\ clientUsed'[c] = clientUsed[c] - 1
  <1> DEFINE inside == {"agent", "try", "inside", "freeAgent", "freeClient"}
  <1>0. pc \in [Requests -> Points] /\ clientUsed \in [Clients -> Nat] /\ ClientOf[r] \in Clients
    BY KeyType DEF IInv, TypeOK
  <1>1. CASE TakeClient(r) /\ ClientOf[r] = c
    BY <1>0, <1>1 DEF TakeClient, GoTo, HoldClient, LimitsClient
  <1>2. CASE FreeClient(r) /\ ClientOf[r] = c
    BY <1>0, <1>2 DEF FreeClient, GoTo, HoldClient, LimitsClient
  <1>3. CASE ClientOf[r] # c
    <2>1. clientUsed'[c] = clientUsed[c]
      BY <1>0, <1>3 DEF Ask, Proceed, Release, GiveBack, Arrive, TakeGlobal, GiveUpGlobal,
                        TakeClient, RefuseClient,
           LookUpAgent, SkipAgent, TryAgent, RefuseAgent, Finish, FreeAgent, FreeClient,
           FreeGlobal, slots
    <2>2. \A q \in Requests \ {r} : pc'[q] = pc[q]
      BY <1>0 DEF Ask, Proceed, Release, GiveBack, Arrive, TakeGlobal, GiveUpGlobal, TakeClient,
                  RefuseClient,
           LookUpAgent, SkipAgent, TryAgent, RefuseAgent, Finish, FreeAgent, FreeClient,
           FreeGlobal, GoTo
    <2>3. HoldClient(c)' = HoldClient(c)
      BY <1>3, <2>2 DEF HoldClient
    <2>4. QED BY <2>1, <2>3
  <1>4. CASE ~TakeClient(r) /\ ~FreeClient(r)
    <2>1. clientUsed' = clientUsed
      BY <1>4 DEF Ask, Proceed, Release, GiveBack, Arrive, TakeGlobal, GiveUpGlobal,
                  RefuseClient, LookUpAgent,
           SkipAgent, TryAgent, RefuseAgent, Finish, FreeAgent, FreeGlobal, slots
    <2>2. /\ \A q \in Requests \ {r} : pc'[q] = pc[q]
          /\ pc'[r] \in inside <=> pc[r] \in inside
      BY <1>0, <1>4 DEF Ask, Proceed, Release, GiveBack, Arrive, TakeGlobal, GiveUpGlobal,
                        RefuseClient,
           LookUpAgent, SkipAgent, TryAgent, RefuseAgent, Finish, FreeAgent, FreeGlobal, GoTo
    <2>3. HoldClient(c)' = HoldClient(c)
      BY <2>2 DEF HoldClient
    <2>4. QED BY <2>1, <2>3
  <1>5. QED BY <1>1, <1>2, <1>3, <1>4

LEMMA AgentStep ==
    ASSUME IInv, NEW r \in Requests, Ask(r) \/ Release(r),
           NEW k \in AgentKeys, NEW g \in Generations, MaxPerAgent[k[1]] > 0
    PROVE  \/ HoldAgent(k, g)' = HoldAgent(k, g) /\ agentUsed'[k][g] = agentUsed[k][g]
           \/ /\ r \notin HoldAgent(k, g) /\ HoldAgent(k, g)' = HoldAgent(k, g) \cup {r}
              /\ agentUsed'[k][g] = agentUsed[k][g] + 1
              /\ agentUsed[k][g] < MaxPerAgent[k[1]]
           \/ /\ r \in HoldAgent(k, g) /\ HoldAgent(k, g)' = HoldAgent(k, g) \ {r}
              /\ agentUsed'[k][g] = agentUsed[k][g] - 1
  <1> DEFINE mine == KeyOf(r) = k /\ limiter[r] = g
  <1>0. /\ pc \in [Requests -> Points]
        /\ agentUsed \in [AgentKeys -> [Generations -> Nat]]
        /\ limiter \in [Requests -> Generations \cup {0}]
        /\ KeyOf(r) \in AgentKeys /\ KeyOf(r)[1] = ClientOf[r]
    BY KeyType DEF IInv, TypeOK
  <1>1. CASE TryAgent(r)
    <2>1. UNCHANGED limiter /\ pc[r] = "try" /\ pc' = [pc EXCEPT ![r] = "inside"]
      BY <1>1 DEF TryAgent, GoTo
    <2>2. limiter[r] \in Generations
      BY <1>0, <2>1, <1>1 DEF IInv, LimiterKnown, AfterLookUp
    <2>3. CASE mine
      <3>1. r \notin HoldAgent(k, g) /\ HoldAgent(k, g)' = HoldAgent(k, g) \cup {r}
        BY <1>0, <2>1, <2>3 DEF HoldAgent, KeyOf
      <3>2. agentUsed'[k][g] = agentUsed[k][g] + 1 /\ agentUsed[k][g] < MaxPerAgent[k[1]]
        BY <1>0, <1>1, <2>2, <2>3 DEF TryAgent, AgentSlotFree
      <3>3. QED BY <3>1, <3>2
    <2>4. CASE ~mine
      <3>1. HoldAgent(k, g)' = HoldAgent(k, g)
        BY <1>0, <2>1, <2>4 DEF HoldAgent, KeyOf
      <3>2. agentUsed'[k][g] = agentUsed[k][g]
        BY <1>0, <1>1, <2>2, <2>4 DEF TryAgent
      <3>3. QED BY <3>1, <3>2
    <2>5. QED BY <2>3, <2>4
  <1>2. CASE FreeAgent(r)
    <2>1. UNCHANGED limiter /\ pc[r] = "freeAgent" /\ pc' = [pc EXCEPT ![r] = "freeClient"]
      BY <1>2 DEF FreeAgent, GoTo
    <2>2. LimitsAgent(r) => limiter[r] \in Generations
      BY <1>0, <2>1 DEF IInv, LimiterKnown, AfterLookUp
    <2>3. CASE mine
      <3>1. r \in HoldAgent(k, g) /\ HoldAgent(k, g)' = HoldAgent(k, g) \ {r}
        BY <1>0, <2>1, <2>3 DEF HoldAgent, KeyOf
      <3>2. agentUsed'[k][g] = agentUsed[k][g] - 1
        BY <1>0, <1>2, <2>2, <2>3 DEF FreeAgent, LimitsAgent
      <3>3. QED BY <3>1, <3>2
    <2>4. CASE ~mine
      <3>1. HoldAgent(k, g)' = HoldAgent(k, g)
        BY <1>0, <2>1, <2>4 DEF HoldAgent, KeyOf
      <3>2. agentUsed'[k][g] = agentUsed[k][g]
        BY <1>0, <1>2, <2>2, <2>4 DEF FreeAgent
      <3>3. QED BY <3>1, <3>2
    <2>5. QED BY <2>3, <2>4
  <1>3. CASE SkipAgent(r)
    <2>1. UNCHANGED <<limiter, agentUsed>> /\ KeyOf(r) # k /\ pc' = [pc EXCEPT ![r] = "inside"]
      BY <1>0, <1>3 DEF SkipAgent, GoTo, LimitsAgent, slots
    <2>2. HoldAgent(k, g)' = HoldAgent(k, g)
      BY <1>0, <2>1 DEF HoldAgent, KeyOf
    <2>3. QED BY <2>1, <2>2
  <1>4. CASE ~TryAgent(r) /\ ~FreeAgent(r) /\ ~SkipAgent(r)
    <2>1. agentUsed' = agentUsed
      BY <1>4 DEF Ask, Proceed, Release, GiveBack, Arrive, TakeGlobal, GiveUpGlobal, TakeClient,
                  RefuseClient,
           LookUpAgent, RefuseAgent, Finish, FreeClient, FreeGlobal, slots
    <2>2. /\ \A q \in Requests \ {r} : pc'[q] = pc[q] /\ limiter'[q] = limiter[q]
          /\ pc'[r] \in {"inside", "freeAgent"} <=> pc[r] \in {"inside", "freeAgent"}
          /\ pc'[r] \in {"inside", "freeAgent"} => limiter'[r] = limiter[r]
      BY <1>0, <1>4 DEF Ask, Proceed, Release, GiveBack, Arrive, TakeGlobal, GiveUpGlobal,
                        TakeClient,
           RefuseClient, LookUpAgent, RefuseAgent, Finish, FreeClient, FreeGlobal, GoTo
    <2>3. HoldAgent(k, g)' = HoldAgent(k, g)
      BY <2>2 DEF HoldAgent, KeyOf
    <2>4. QED BY <2>1, <2>3
  <1>5. QED BY <1>1, <1>2, <1>3, <1>4

LEMMA SlotsStep == IInv /\ [Next]_vars => SlotsMatchHolders' /\ WithinLimits'
  <1> SUFFICES ASSUME IInv, [Next]_vars PROVE SlotsMatchHolders' /\ WithinLimits'
    OBVIOUS
  <1>0. TypeOK /\ SlotsMatchHolders /\ WithinLimits
    BY DEF IInv
  <1>1. CASE \E r \in Requests : Ask(r) \/ Release(r)
    <2> PICK r \in Requests : Ask(r) \/ Release(r)
      BY <1>1
    <2>1. ASSUME LimitsGlobal
          PROVE  globalUsed' = Cardinality(HoldGlobal') /\ globalUsed' <= MaxGlobal
      <3>1. HoldGlobal \in SUBSET Requests /\ MaxGlobal \in Nat
        BY AdmissionAssumption DEF HoldGlobal
      <3>2. /\ globalUsed = Cardinality(HoldGlobal) /\ globalUsed <= MaxGlobal
            /\ globalUsed \in Nat
        BY <1>0, <2>1 DEF SlotsMatchHolders, WithinLimits, TypeOK
      <3>3. QED BY <2>1, <3>1, <3>2, GlobalStep, CountPlus, CountMinus
    <2>2. ASSUME NEW c \in Clients, MaxConcurrent[c] > 0
          PROVE  /\ clientUsed'[c] = Cardinality(HoldClient(c)')
                 /\ clientUsed'[c] <= MaxConcurrent[c]
      <3>1. HoldClient(c) \in SUBSET Requests /\ MaxConcurrent[c] \in Nat
        BY AdmissionAssumption DEF HoldClient
      <3>2. /\ clientUsed[c] = Cardinality(HoldClient(c)) /\ clientUsed[c] <= MaxConcurrent[c]
            /\ clientUsed[c] \in Nat
        BY <1>0, <2>2 DEF SlotsMatchHolders, WithinLimits, TypeOK
      <3>3. QED BY <2>2, <3>1, <3>2, ClientStep, CountPlus, CountMinus
    <2>3. ASSUME NEW k \in AgentKeys, NEW g \in Generations, MaxPerAgent[k[1]] > 0
          PROVE  /\ agentUsed'[k][g] = Cardinality(HoldAgent(k, g)')
                 /\ agentUsed'[k][g] <= MaxPerAgent[k[1]]
      <3>1. HoldAgent(k, g) \in SUBSET Requests /\ MaxPerAgent[k[1]] \in Nat
        BY AdmissionAssumption DEF HoldAgent, AgentKeys
      <3>2. /\ agentUsed[k][g] = Cardinality(HoldAgent(k, g))
            /\ agentUsed[k][g] <= MaxPerAgent[k[1]] /\ agentUsed[k][g] \in Nat
        BY <1>0, <2>3 DEF SlotsMatchHolders, WithinLimits, TypeOK
      <3>3. QED BY <2>3, <3>1, <3>2, AgentStep, CountPlus, CountMinus
    <2>4. QED BY <2>1, <2>2, <2>3 DEF SlotsMatchHolders, WithinLimits, LimitsGlobal
  <1>2. CASE Tick \/ Finished \/ UNCHANGED vars
    <2>1. UNCHANGED <<pc, limiter, globalUsed, clientUsed, agentUsed>>
      BY <1>2 DEF Tick, Finished, vars, slots
    <2>2. /\ HoldGlobal' = HoldGlobal /\ \A c \in Clients : HoldClient(c)' = HoldClient(c)
          /\ \A k \in AgentKeys, g \in Generations : HoldAgent(k, g)' = HoldAgent(k, g)
      BY <2>1 DEF HoldGlobal, HoldClient, HoldAgent, KeyOf
    <2>3. QED BY <1>0, <2>1, <2>2 DEF SlotsMatchHolders, WithinLimits, LimitsGlobal
  <1>3. QED BY <1>1, <1>2 DEF Next

LEMMA YoungStep == IInv /\ [Next]_vars => YoungHoldsCurrent'
  <1> SUFFICES ASSUME IInv, [Next]_vars, NEW q \in Requests,
                      pc'[q] \in AfterLookUp, LimitsAgent(q), age'[q] <= TTL
               PROVE  limiter'[q] = current'[KeyOf(q)] /\ idle'[KeyOf(q)] <= age'[q]
    BY DEF YoungHoldsCurrent, LimitsAgent, KeyOf
  <1>0. /\ TypeOK /\ KeyOf(q) \in AgentKeys /\ TTL \in Nat
        /\ pc[q] \in AfterLookUp => limiter[q] # 0
        /\ pc[q] \in AfterLookUp /\ age[q] <= TTL =>
              limiter[q] = current[KeyOf(q)] /\ idle[KeyOf(q)] <= age[q]
    BY KeyType, AdmissionAssumption DEF IInv, LimiterKnown, YoungHoldsCurrent
  <1>1. CASE \E r \in Requests : LookUpAgent(r)
    <2> PICK r \in Requests : LookUpAgent(r)
      BY <1>1
    <2>0. KeyOf(r) \in AgentKeys
      BY KeyType
    <2>1. CASE q = r
      <3>1. /\ limiter'[q] = current'[KeyOf(q)] /\ idle'[KeyOf(q)] = 0 /\ age'[q] = 0
        BY <1>0, <2>0, <2>1 DEF LookUpAgent, TypeOK
      <3>2. QED BY <3>1
    <2>2. CASE q # r
      <3>1. pc'[q] = pc[q] /\ limiter'[q] = limiter[q] /\ age'[q] = age[q]
        BY <1>0, <2>2 DEF LookUpAgent, GoTo, TypeOK
      <3>2. /\ limiter[q] = current[KeyOf(q)] /\ idle[KeyOf(q)] <= age[q]
            /\ current[KeyOf(q)] # 0 /\ ~Stale(KeyOf(q))
        BY <1>0, <3>1 DEF Stale, TypeOK
      <3>3. current'[KeyOf(q)] = current[KeyOf(q)]
        BY <1>0, <2>0, <3>2 DEF LookUpAgent, TypeOK
      <3>4. idle'[KeyOf(q)] \in {0, idle[KeyOf(q)]} /\ age[q] \in 0..(TTL + 1)
        BY <1>0, <2>0 DEF LookUpAgent, TypeOK
      <3>5. QED BY <3>1, <3>2, <3>3, <3>4
    <2>3. QED BY <2>1, <2>2
  <1>2. CASE \E r \in Requests : (Ask(r) \/ Release(r)) /\ ~LookUpAgent(r)
    <2> PICK r \in Requests : (Ask(r) \/ Release(r)) /\ ~LookUpAgent(r)
      BY <1>2
    <2>1. UNCHANGED <<limiter, age, current, idle>>
      BY DEF Ask, Proceed, Release, GiveBack, Arrive, TakeGlobal, GiveUpGlobal, TakeClient,
             RefuseClient, SkipAgent,
           TryAgent, RefuseAgent, Finish, FreeAgent, FreeClient, FreeGlobal, entries
    <2>2. pc[q] \in AfterLookUp
      BY <1>0 DEF Ask, Proceed, Release, GiveBack, Arrive, TakeGlobal, GiveUpGlobal, TakeClient,
                  RefuseClient,
           SkipAgent, TryAgent, RefuseAgent, Finish, FreeAgent, FreeClient, FreeGlobal, GoTo,
           TypeOK, AfterLookUp
    <2>3. QED BY <1>0, <2>1, <2>2
  <1>3. CASE Tick
    <2>1. /\ UNCHANGED <<pc, limiter, current>>
          /\ idle'[KeyOf(q)] \in {idle[KeyOf(q)], Older(idle[KeyOf(q)])}
          /\ age'[q] = IF limiter[q] = 0 THEN age[q] ELSE Older(age[q])
      BY <1>0, <1>3 DEF Tick, TypeOK
    <2>2. idle[KeyOf(q)] \in 0..(TTL + 1) /\ age[q] \in 0..(TTL + 1)
      BY <1>0 DEF TypeOK
    <2>3. age'[q] = age[q] + 1 /\ age[q] <= TTL
      BY <1>0, <2>1, <2>2 DEF Older
    <2>4. QED BY <1>0, <2>1, <2>2, <2>3 DEF Older
  <1>4. CASE Finished \/ UNCHANGED vars
    BY <1>0, <1>4 DEF Finished, vars, entries
  <1>5. QED BY <1>1, <1>2, <1>3, <1>4 DEF Next

-----------------------------------------------------------------------------
\* The inductive invariant holds in every reachable state.
LEMMA Inductive == Spec => []IInv
  <1>1. Init => IInv
    BY InitIInv
  <1>2. IInv /\ [Next]_vars => IInv'
    BY TypeStep, LimiterKnownStep, GenerationsCountedStep, SlotsStep, YoungStep DEF IInv
  <1>3. QED BY <1>1, <1>2, PTL DEF Spec

\* The semaphores, the entries and the requests keep their shape; in
\* particular no request needs more generations than there are requests.
THEOREM TypeCorrect == Spec => []TypeOK
  <1>1. IInv => TypeOK
    BY DEF IInv
  <1>2. QED BY <1>1, Inductive, PTL

\* No slot of limiter.go leaks or is given back twice, whatever the path out
\* of handleChat and whatever the purge dropped in between.
THEOREM SlotsCorrect == Spec => []SlotsMatchHolders
  <1>1. IInv => SlotsMatchHolders
    BY DEF IInv
  <1>2. QED BY <1>1, Inductive, PTL

\* The global limit and the limit of each client hold.
THEOREM Bounded == Spec => []ConcurrencyBounded
  <1>1. IInv => ConcurrencyBounded
    BY DEF IInv, SlotsMatchHolders, WithinLimits, ConcurrencyBounded
  <1>2. QED BY <1>1, Inductive, PTL

\* The budget of an agent holds for its requests younger than the TTL: the
\* purge of AcquireAgent only drops a semaphore nobody looked up that recently.
THEOREM YoungBounded == Spec => []YoungAgentBudget
  <1>1. ASSUME IInv, NEW k \in AgentKeys, MaxPerAgent[k[1]] > 0
        PROVE  Cardinality({r \in Inside(k) : age[r] <= TTL}) <= MaxPerAgent[k[1]]
    <2> DEFINE Young == {r \in Inside(k) : age[r] <= TTL}
               H == HoldAgent(k, current[k])
    <2>0. TypeOK /\ MaxPerAgent[k[1]] \in Nat
      BY <1>1, AdmissionAssumption DEF IInv, AgentKeys
    <2>1. \A r \in Young : /\ r \in Requests /\ limiter[r] = current[k]
                           /\ limiter[r] # 0 /\ r \in H
      <3> SUFFICES ASSUME NEW r \in Young
                   PROVE  /\ r \in Requests /\ limiter[r] = current[k]
                          /\ limiter[r] # 0 /\ r \in H
        OBVIOUS
      <3>1. /\ r \in Requests /\ KeyOf(r) = k /\ pc[r] = "inside" /\ age[r] <= TTL
        BY DEF Inside
      <3>2. LimitsAgent(r) /\ pc[r] \in AfterLookUp
        BY <1>1, <3>1, KeyType DEF LimitsAgent, AfterLookUp
      <3>3. limiter[r] = current[k] /\ limiter[r] # 0
        BY <1>1, <3>1, <3>2 DEF IInv, YoungHoldsCurrent, LimiterKnown
      <3>4. QED BY <3>1, <3>3 DEF HoldAgent
    <2>2. CASE Young = {}
      BY <2>0, <2>2, FS_EmptySet
    <2>3. CASE Young # {}
      <3>1. current[k] \in Generations
        <4>1. current[k] # 0
          BY <2>1, <2>3
        <4>2. QED BY <2>0, <4>1 DEF TypeOK
      <3>2. Cardinality(H) <= MaxPerAgent[k[1]]
        BY <1>1, <3>1 DEF IInv, SlotsMatchHolders, WithinLimits
      <3>3. H \in SUBSET Requests /\ Young \in SUBSET H
        BY <2>1 DEF HoldAgent
      <3>4. Cardinality(Young) <= Cardinality(H)
        <4> HIDE DEF Young, H
        <4> QED BY <3>3, CountSubset, FS_Subset
      <3>5. Cardinality(Young) \in Nat /\ Cardinality(H) \in Nat
        <4> HIDE DEF Young, H
        <4>1. Young \in SUBSET Requests
          BY <3>3
        <4> QED BY <3>3, <4>1, CountSubset
      <3>6. Cardinality(Young) <= MaxPerAgent[k[1]]
        <4> HIDE DEF Young, H
        <4> QED BY <2>0, <3>2, <3>4, <3>5
      <3>7. QED BY <3>6
    <2>4. QED BY <2>2, <2>3
  <1>2. IInv => YoungAgentBudget
    BY <1>1 DEF YoungAgentBudget
  <1>3. QED BY <1>2, Inductive, PTL

=============================================================================
