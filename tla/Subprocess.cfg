\* Two completions and a stream of one client, whose directory is missing, fresh or
\* old; sweeps at any moment, a restart at any moment.
CONSTANTS
    r1 = r1  r2 = r2  r3 = r3  c1 = c1
    NoOne = NoOne
    Requests = {r1, r2, r3}
    Clients = {c1}
    ClientOf <- AllOfOne
    Streams = {r2}
    TTL = 2
    MaxRestarts = 1
SPECIFICATION FairSpec
INVARIANTS OneProcess
PROPERTIES RunningKeepsDir Answered
