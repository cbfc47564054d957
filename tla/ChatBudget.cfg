\* One client with a budget of one token and two requests at a time: a stream that may
\* be too long, two deterministic requests with one body and one for embeddings.
SPECIFICATION FairSpec
CONSTANTS
    r1 = r1  r2 = r2  r3 = r3  r4 = r4  r5 = r5  c1 = c1  c2 = c2  b1 = b1  b2 = b2  p1 = p1  p2 = p2
    Requests = {r1, r2, r3, r4}
    Clients = {c1}
    Providers = {p1}
    Bodies = {b1}
    ClientOf <- OneClient
    BodyOf <- SameBody
    Streams = {r1}
    Responses = {}
    Searching = {}
    Embeddings = {r4}
    Deterministic = {r2, r3}
    MayExceed = {r1}
    Clamp <- Keeps
    Canonical <- Keeps
    Allowed <- OnlyFirst
    Slots <- TwoSlots
    TokensMax <- OneUnit
    ErrorCodes = {"all_providers_down"}
    CacheOn = TRUE
    MaxEntries = 1
    FlightsOn = TRUE
    MaxFlights = 1
    Panics = TRUE
INVARIANTS OvershootBounded
PROPERTIES Answered
