\* A no-stream request of c1 and a streaming one of c2 share two providers, the
\* second one private to c2: cooldowns, grace, health flips, one sticky key,
\* cancellation.
CONSTANTS
    c1 = c1  c2 = c2  r1 = r1  r2 = r2  r3 = r3  k1 = k1  k2 = k2  u1 = u1  u2 = u2
    NoKey = NoKey  NoURL = NoURL
    N = 2
    Clients = {c1, c2}
    Requests = {r1, r2}
    Keys = {k1}
    ClientOf <- TwoClients
    Streaming = {r2}
    StickyKey <- SameKey
    ServedBy <- ServeAll
    Allowed <- LastIsPrivate
    BaseURL <- SharedURL
    MaxAttempts = 2
    MaxTries <- OneTry
    CoolTimes <- CoolOneOrTwo
    Grace = 1
    InterDelay = TRUE
    MaxDegraded = 1
    HealthOn = TRUE
    StickyCap = 1
SPECIFICATION Spec
INVARIANTS UnhealthyIsLastResort DegradedIsEarned
PROPERTIES RefinesPromise
