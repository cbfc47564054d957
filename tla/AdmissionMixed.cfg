\* Two clients with two requests each share two global slots: the first has a
\* budget of one request per agent and none of its own, the second one request in
\* all and no budget per agent; both of its requests may hang for ever.  Entries
\* grow old and are purged.
CONSTANTS
    r1 = r1  r2 = r2  r3 = r3  r4 = r4  c1 = c1  c2 = c2  a1 = a1
    NoAgent = NoAgent
    Requests = {r1, r2, r3, r4}
    Clients = {c1, c2}
    Agents = {a1}
    ClientOf <- TwoEach
    AgentOf <- NamedAndNot
    OwnAgent <- FirstAgent
    MaxGlobal = 2
    MaxConcurrent <- OnlySecond
    MaxPerAgent <- OnlyFirst
    TTL = 2
    Hanging = {r3, r4}
SPECIFICATION FairSpec
INVARIANTS SlotsMatchHolders YoungAgentBudget
PROPERTIES Leaves
