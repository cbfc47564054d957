----------------------------- MODULE Admission -----------------------------
(***************************************************************************)
(* Admission of chat requests: the global semaphore with backpressure, the *)
(* budget of each client and the budget of each agent of a client, taken   *)
(* in that order by handleChat and given back in the reverse order by its  *)
(* deferred releases.  The semaphore of an agent lives in an entry that is *)
(* purged when it was not used for a while; a purged semaphore lives on    *)
(* for the requests that hold it, so an entry has a generation.            *)
(*                                                                         *)
(* A definition named Slip... is a plausible slip in the code of the       *)
(* definition after it; no specification uses it.                          *)
(***************************************************************************)
EXTENDS Integers, FiniteSets

CONSTANTS
    Requests,
    Clients,
    Agents,         \* effective agent ids, once truncated
    ClientOf,
    AgentOf,        \* X-Agent-Id of each request, NoAgent when absent
    OwnAgent,       \* the agent a client stands for when the header is absent
    NoAgent,
    MaxGlobal,      \* max_concurrent_requests, 0 = unlimited
    MaxConcurrent,  \* of each client, 0 = unlimited
    MaxPerAgent,    \* of each client, 0 = unlimited
    TTL,            \* agentTTL in ticks, even
    Hanging         \* requests whose upstream need never answer

ASSUME AdmissionAssumption ==
    /\ IsFiniteSet(Requests)
    /\ ClientOf \in [Requests -> Clients]
    /\ AgentOf \in [Requests -> Agents \cup {NoAgent}]
    /\ OwnAgent \in [Clients -> Agents]
    /\ MaxGlobal \in Nat
    /\ MaxConcurrent \in [Clients -> Nat] /\ MaxPerAgent \in [Clients -> Nat]
    /\ TTL \in Nat
    /\ Hanging \subseteq Requests

VARIABLES
    pc,
    globalUsed,   \* slots taken of the global semaphore
    clientUsed,   \* slots taken of each client's semaphore
    agentUsed,    \* slots taken of each generation of each agent's semaphore
    current,      \* generation of the entry of each agent key, 0 = no entry
    newest,       \* last generation given to each agent key
    idle,         \* ticks since the entry was last used, up to TTL + 1
    sincePurge,   \* ticks since the last purge, up to TTL + 1
    limiter,      \* the generation each request looked up
    age,          \* ticks since that look-up, up to TTL + 1
    reply         \* how admission answered each request

slots == <<globalUsed, clientUsed, agentUsed>>
entries == <<current, newest, idle, sincePurge>>
vars == <<pc, slots, entries, limiter, age, reply>>

AgentKeys == Clients \X Agents
Generations == 1..Cardinality(Requests)

\* agentKey: without the header the client counts as a single agent.
KeyOf(r) == <<ClientOf[r], IF AgentOf[r] = NoAgent THEN OwnAgent[ClientOf[r]]
                           ELSE AgentOf[r]>>

Points == {"idle", "global", "client", "agent", "try", "inside",
           "freeAgent", "freeClient", "freeGlobal", "done"}
Replies == {"none", "admitted", "global_timeout", "client_limit", "agent_limit"}

LimitsGlobal == MaxGlobal > 0
LimitsClient(r) == MaxConcurrent[ClientOf[r]] > 0
LimitsAgent(r) == MaxPerAgent[ClientOf[r]] > 0

Init ==
    /\ pc = [r \in Requests |-> "idle"]
    /\ globalUsed = 0
    /\ clientUsed = [c \in Clients |-> 0]
    /\ agentUsed = [k \in AgentKeys |-> [g \in Generations |-> 0]]
    /\ current = [k \in AgentKeys |-> 0]
    /\ newest = [k \in AgentKeys |-> 0]
    /\ idle = [k \in AgentKeys |-> 0]
    /\ sincePurge = TTL + 1
    /\ limiter = [r \in Requests |-> 0]
    /\ age = [r \in Requests |-> 0]
    /\ reply = [r \in Requests |-> "none"]

GoTo(r, from, to) == pc[r] = from /\ pc' = [pc EXCEPT ![r] = to]

Reply(r, x) == reply' = [reply EXCEPT ![r] = x]

\* The request was authenticated and parsed; it asks for a global slot.
Arrive(r) ==
    /\ GoTo(r, "idle", "global")
    /\ UNCHANGED <<slots, entries, limiter, age, reply>>

\* Limiter.Acquire: a slot of the global channel.
TakeGlobal(r) ==
    /\ LimitsGlobal => globalUsed < MaxGlobal
    /\ GoTo(r, "global", "client")
    /\ globalUsed' = IF LimitsGlobal THEN globalUsed + 1 ELSE globalUsed
    /\ UNCHANGED <<clientUsed, agentUsed, entries, limiter, age, reply>>

\* The backpressure timeout, or the client, ended the wait.
GiveUpGlobal(r) ==
    /\ LimitsGlobal
    /\ GoTo(r, "global", "done")
    /\ Reply(r, "global_timeout")
    /\ UNCHANGED <<slots, entries, limiter, age>>

\* AcquireClient: a slot of the client's own budget, or 429 at once.
TakeClient(r) ==
    LET c == ClientOf[r]
    IN  /\ LimitsClient(r) => clientUsed[c] < MaxConcurrent[c]
        /\ GoTo(r, "client", "agent")
        /\ clientUsed' = IF LimitsClient(r) THEN [clientUsed EXCEPT ![c] = @ + 1]
                         ELSE clientUsed
        /\ UNCHANGED <<globalUsed, agentUsed, entries, limiter, age, reply>>

SlipWaitsForClient(r) == TakeClient(r)

RefuseClient(r) ==
    /\ LimitsClient(r) /\ clientUsed[ClientOf[r]] >= MaxConcurrent[ClientOf[r]]
    /\ GoTo(r, "client", "freeGlobal")
    /\ Reply(r, "client_limit")
    /\ UNCHANGED <<slots, entries, limiter, age>>

SlipStaleAtHalf(k) == idle[k] > TTL \div 2

\* now.Sub(entry.lastUsed) > k.agentTTL
Stale(k) == idle[k] > TTL

\* The lazy purge of AcquireAgent: at most one sweep per half TTL.
PurgeDue == sincePurge > TTL \div 2

\* AcquireAgent under the mutex: purge, look the entry up or create it, mark it
\* as used.  The slot is tried after the unlock.
LookUpAgent(r) ==
    LET key == KeyOf(r)
        kept == [k \in AgentKeys |-> IF PurgeDue /\ Stale(k) THEN 0 ELSE current[k]]
        fresh == kept[key] = 0
        gen == IF fresh THEN newest[key] + 1 ELSE kept[key]
    IN  /\ LimitsAgent(r)
        /\ GoTo(r, "agent", "try")
        /\ current' = [kept EXCEPT ![key] = gen]
        /\ newest' = IF fresh THEN [newest EXCEPT ![key] = gen] ELSE newest
        /\ idle' = [idle EXCEPT ![key] = 0]
        /\ sincePurge' = IF PurgeDue THEN 0 ELSE sincePurge
        /\ limiter' = [limiter EXCEPT ![r] = gen]
        /\ age' = [age EXCEPT ![r] = 0]
        /\ UNCHANGED <<slots, reply>>

\* No agent budget configured: the request goes in.
SkipAgent(r) ==
    /\ ~LimitsAgent(r)
    /\ GoTo(r, "agent", "inside")
    /\ Reply(r, "admitted")
    /\ UNCHANGED <<slots, entries, limiter, age>>

AgentSlotFree(r) == agentUsed[KeyOf(r)][limiter[r]] < MaxPerAgent[ClientOf[r]]

TryAgent(r) ==
    /\ GoTo(r, "try", "inside")
    /\ AgentSlotFree(r)
    /\ agentUsed' = [agentUsed EXCEPT ![KeyOf(r)][limiter[r]] = @ + 1]
    /\ Reply(r, "admitted")
    /\ UNCHANGED <<globalUsed, clientUsed, entries, limiter, age>>

RefuseAgent(r) ==
    /\ GoTo(r, "try", "freeClient")
    /\ ~AgentSlotFree(r)
    /\ Reply(r, "agent_limit")
    /\ UNCHANGED <<slots, entries, limiter, age>>

\* The handler returns, whatever the request met behind admission.
Finish(r) ==
    /\ GoTo(r, "inside", "freeAgent")
    /\ UNCHANGED <<slots, entries, limiter, age, reply>>

SlipFreesCurrent(r) ==
    LET key == KeyOf(r)
    IN  /\ GoTo(r, "freeAgent", "freeClient")
        /\ LimitsAgent(r) => current[key] # 0 /\ agentUsed[key][current[key]] > 0
        /\ agentUsed' = IF LimitsAgent(r)
                        THEN [agentUsed EXCEPT ![key][current[key]] = @ - 1] ELSE agentUsed
        /\ UNCHANGED <<globalUsed, clientUsed, entries, limiter, age, reply>>

\* The deferred releases, last one first.  A receive from an empty channel
\* would block for ever, hence the guards.
FreeAgent(r) ==
    LET key == KeyOf(r)
    IN  /\ GoTo(r, "freeAgent", "freeClient")
        /\ LimitsAgent(r) => agentUsed[key][limiter[r]] > 0
        /\ agentUsed' = IF LimitsAgent(r)
                        THEN [agentUsed EXCEPT ![key][limiter[r]] = @ - 1] ELSE agentUsed
        /\ UNCHANGED <<globalUsed, clientUsed, entries, limiter, age, reply>>

FreeClient(r) ==
    LET c == ClientOf[r]
    IN  /\ GoTo(r, "freeClient", "freeGlobal")
        /\ LimitsClient(r) => clientUsed[c] > 0
        /\ clientUsed' = IF LimitsClient(r) THEN [clientUsed EXCEPT ![c] = @ - 1]
                         ELSE clientUsed
        /\ UNCHANGED <<globalUsed, agentUsed, entries, limiter, age, reply>>

FreeGlobal(r) ==
    /\ GoTo(r, "freeGlobal", "done")
    /\ LimitsGlobal => globalUsed > 0
    /\ globalUsed' = IF LimitsGlobal THEN globalUsed - 1 ELSE globalUsed
    /\ UNCHANGED <<clientUsed, agentUsed, entries, limiter, age, reply>>

\* One unit of time; durations beyond the TTL are all alike.
Older(n) == IF n > TTL THEN n ELSE n + 1

Tick ==
    /\ \E r \in Requests : pc[r] \notin {"idle", "done"}
    /\ \/ sincePurge <= TTL
       \/ \E k \in AgentKeys : current[k] # 0 /\ idle[k] <= TTL
    /\ sincePurge' = Older(sincePurge)
    /\ idle' = [k \in AgentKeys |-> IF current[k] = 0 THEN idle[k] ELSE Older(idle[k])]
    /\ age' = [r \in Requests |-> IF limiter[r] = 0 THEN age[r] ELSE Older(age[r])]
    /\ UNCHANGED <<pc, slots, current, newest, limiter, reply>>

Proceed(r) == TakeGlobal(r) \/ TakeClient(r) \/ RefuseClient(r) \/ LookUpAgent(r)
              \/ SkipAgent(r) \/ TryAgent(r) \/ RefuseAgent(r)

Ask(r) == Arrive(r) \/ GiveUpGlobal(r) \/ Proceed(r)

GiveBack(r) == FreeAgent(r) \/ FreeClient(r) \/ FreeGlobal(r)

Release(r) == Finish(r) \/ GiveBack(r)

Finished == (\A r \in Requests : pc[r] = "done") /\ UNCHANGED vars

Next == (\E r \in Requests : Ask(r) \/ Release(r)) \/ Tick \/ Finished

Spec == Init /\ [][Next]_vars

(* Goroutines run.  The backpressure timer need not fire, nor a request    *)
(* in Hanging ever end: who gets through does not hang on either.          *)
Fairness ==
    /\ \A r \in Requests : WF_vars(Proceed(r)) /\ WF_vars(GiveBack(r))
    /\ \A r \in Requests \ Hanging : WF_vars(Finish(r))

FairSpec == Spec /\ Fairness

-----------------------------------------------------------------------------
\* The semaphores, the entries and the requests have the right shape.
TypeOK ==
    /\ pc \in [Requests -> Points]
    /\ globalUsed \in Nat
    /\ clientUsed \in [Clients -> Nat]
    /\ agentUsed \in [AgentKeys -> [Generations -> Nat]]
    /\ current \in [AgentKeys -> Generations \cup {0}]
    /\ newest \in [AgentKeys -> Generations \cup {0}]
    /\ idle \in [AgentKeys -> 0..(TTL + 1)] /\ sincePurge \in 0..(TTL + 1)
    /\ limiter \in [Requests -> Generations \cup {0}]
    /\ age \in [Requests -> 0..(TTL + 1)]
    /\ reply \in [Requests -> Replies]

\* Requests between taking a slot of each kind and giving it back.
HoldGlobal == {r \in Requests : pc[r] \notin {"idle", "global", "done"}}

HoldClient(c) ==
    {r \in Requests : /\ ClientOf[r] = c
                      /\ pc[r] \in {"agent", "try", "inside", "freeAgent", "freeClient"}}

HoldAgent(k, g) ==
    {r \in Requests : /\ KeyOf(r) = k /\ limiter[r] = g
                      /\ pc[r] \in {"inside", "freeAgent"}}

\* No slot leaks and none is given back twice: every semaphore holds exactly
\* one slot per request inside it, on every path out of handleChat, the refused
\* ones included, and also after the entry of the agent was purged.
SlotsMatchHolders ==
    /\ LimitsGlobal => globalUsed = Cardinality(HoldGlobal)
    /\ \A c \in Clients :
          MaxConcurrent[c] > 0 => clientUsed[c] = Cardinality(HoldClient(c))
    /\ \A k \in AgentKeys, g \in Generations :
          MaxPerAgent[k[1]] > 0 => agentUsed[k][g] = Cardinality(HoldAgent(k, g))

\* Postconditions 1 and 2 of 004-001: at most max_concurrent_requests handlers
\* behind the global semaphore, at most the client's own number inside.
ConcurrencyBounded ==
    /\ LimitsGlobal => Cardinality(HoldGlobal) <= MaxGlobal
    /\ \A c \in Clients :
          MaxConcurrent[c] > 0 => Cardinality(HoldClient(c)) <= MaxConcurrent[c]

Inside(k) == {r \in Requests : KeyOf(r) = k /\ pc[r] = "inside"}

\* What the purge leaves of the agent budget: the requests of an agent younger
\* than the TTL never exceed it, since an entry is only dropped when its last
\* use is older than that.
YoungAgentBudget ==
    \A k \in AgentKeys :
        MaxPerAgent[k[1]] > 0 =>
            Cardinality({r \in Inside(k) : age[r] <= TTL}) <= MaxPerAgent[k[1]]

\* Isolation (limiter.go:14-18): requests of one client that never end take no
\* more global slots than its budget, since those it does not allow are refused
\* at once and not kept waiting with a global slot taken.  So where the budget is
\* below the global limit, every request that asks for a slot gets through
\* admission although no backpressure timer ever fires, and unless it hangs it
\* gives everything back.
Leaves ==
    \A r \in Requests :
        pc[r] = "global" ~> pc[r] = "done" \/ (r \in Hanging /\ pc[r] = "inside")

=============================================================================
