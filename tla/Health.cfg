SPECIFICATION HealthSpec
CONSTANTS
    Providers = {p1, p2, agy}
    Probed = {p1, p2}
    Interval = 3
    Timeout = 2
    None = None
INVARIANTS SoonTruthful ReadersAgree
