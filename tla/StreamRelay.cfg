\* Two attempts, up to three lines each, channels of one event; the client leaves at
\* any moment.
CONSTANTS
    MaxAttempts = 2
    Cap = 1
    MaxEvents = 3
    Timed = TRUE
SPECIFICATION FairSpec
INVARIANTS OneAnswer UsageIsTheClients BreakIsTold
PROPERTIES Ends
