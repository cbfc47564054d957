\* Two runs at a time, with and without the lock; three versions of the bytes, one of
\* which does not parse, and two failures at any step.
CONSTANTS
    Procs = {"timer", "manual"}
    Timer = "timer"
    Unparsable = {1}
    TTL = 1
    Snapshot = TRUE
    MaxVersion = 2
    MaxFailures = 2
SPECIFICATION FairSpec
INVARIANTS StaleIsSeenOnce
PROPERTIES NeverOlder FreshUnlessTrapped
