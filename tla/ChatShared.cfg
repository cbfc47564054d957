\* Five deterministic requests of two clients with two bodies, alike but in the
\* order of their keys, two of them to responses; the cache and the flight group hold one entry each.
SPECIFICATION Spec
CONSTANTS
    r1 = r1  r2 = r2  r3 = r3  r4 = r4  r5 = r5  c1 = c1  c2 = c2  b1 = b1  b2 = b2  p1 = p1  p2 = p2
    Requests = {r1, r2, r3, r4, r5}
    Clients = {c1, c2}
    Providers = {p1, p2}
    Bodies = {b1, b2}
    ClientOf <- ThirdIsAnothers
    BodyOf <- TwoBodies
    Streams = {}
    Responses = {r4, r5}
    Searching = {r5}
    Embeddings = {}
    Deterministic = {r1, r2, r3, r4, r5}
    MayExceed = {}
    Clamp <- Keeps
    Canonical <- Levels
    Allowed <- OwnProvider
    Slots <- TwoSlots
    TokensMax <- NoBudget
    ErrorCodes = {"chain_exhausted"}
    CacheOn = TRUE
    MaxEntries = 1
    FlightsOn = TRUE
    MaxFlights = 1
    Panics = FALSE
INVARIANTS CacheNeverLeaks LedgersAgree OutcomeFilmedOnce
PROPERTIES NoDuplicateCall
