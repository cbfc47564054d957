\* Two requests of one client, each with a session, which may be served, and one of
\* another client that may not; a periodic save, a shutdown or crash at any moment and
\* a restart.  Three sessions are retained in the first life and one in the second,
\* whose boot evicts down to the default of two; histories have one entry.  The clock
\* goes on between the first request and the others, or not at all.
CONSTANTS
    c1 = c1  c2 = c2  r1 = r1  r2 = r2  r3 = r3  s1 = s1  s2 = s2  s3 = s3
    NoSession = NoSession
    Requests = {r1, r2, r3}
    Clients = {c1, c2}
    Sessions = {s1, s2, s3}
    ClientOf <- ThirdOther
    SessionOf <- OneSessionEach
    Served = {r1, r2}
    LimitAfter <- Lowered
    DefaultRetained = 2
    HistoryCap = 1
    DefaultHistory = 1
    MaxTime = 2
    MaxStops = 1
    MaxSaves = 1
SPECIFICATION FairSpec
ACTION_CONSTRAINT ClockBetween
INVARIANTS SavedNeverLost ClientRecordComplete
PROPERTIES Stops
