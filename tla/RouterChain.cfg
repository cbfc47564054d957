\* A no-stream request over three providers with two tries on the first, a streaming one
\* that only the last provider serves and one that nobody serves.  The first two
\* providers share an endpoint and the inter-attempt delay is on; one visit less
\* than providers, so the budget ends the walk; the affinity store holds one of
\* the two sticky keys.
CONSTANTS
    c1 = c1  c2 = c2  r1 = r1  r2 = r2  r3 = r3  k1 = k1  k2 = k2  u1 = u1  u2 = u2
    NoKey = NoKey  NoURL = NoURL
    N = 3
    Clients = {c1, c2}
    Requests = {r1, r2, r3}
    Keys = {k1, k2}
    ClientOf <- TwoClients
    Streaming = {r2}
    StickyKey <- OwnKeys
    ServedBy <- FewServe
    Allowed <- Unrestricted
    BaseURL <- FirstTwoShare
    MaxAttempts = 2
    MaxTries <- FirstRetries
    CoolTimes <- CoolJitter
    Grace = 1
    InterDelay = TRUE
    MaxDegraded = 1
    HealthOn = FALSE
    StickyCap = 1
SPECIFICATION FairSpec
INVARIANTS VisitsFollowChain ExhaustionIsReal Last4xxReachesCaller
PROPERTIES Answered
