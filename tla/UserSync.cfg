SPECIFICATION FairSpec
CONSTANTS
    c1 = c1
    c2 = c2
    None = None
    Clusters = {c1}
    Home = c1
    MaxChanges = 2
    MaxRetries = 2
    MaxEvents = 1
INVARIANTS
    CompletedIsApplied
    PassRepairs
PROPERTIES
    AccessConverges
CHECK_DEADLOCK FALSE
