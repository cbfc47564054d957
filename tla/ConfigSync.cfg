\* Catalogs that turn good, unfit for the gateway or invalid, edits of the operator
\* and two failures at any step.
CONSTANTS
    m1 = m1  m2 = m2  old = old  new = new  unfit = unfit  invalid = invalid
    Manual = {m1, m2}
    Models = {old, new, unfit, invalid}
    Rejected = {invalid}
    Unfit = {unfit}
    VerifyKey = TRUE
    MaxFailures = 2
    MaxChanges = 2
SPECIFICATION FairSpec
INVARIANTS ZeroMeansPublished RolledBackServes
PROPERTIES PublishedUnlessTrapped
