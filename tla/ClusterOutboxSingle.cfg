SPECIFICATION FairSpec
CONSTANTS
    Rows = {1, 2, 3}
    Workers = {w1}
    MaxFan = 2
    HandlerCount <- FanOutPlainAndUnrouted
    MaxRetries = 2
    MaxPreconditionDeferrals = 1
    MaxFaults = 1
    None = None
INVARIANTS
    AttemptsBounded
PROPERTIES
    KeepsPromise
