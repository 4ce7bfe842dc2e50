SPECIFICATION MCSpec
CONSTANTS
    Rows = {1, 2}
    Workers = {w1, w2}
    MaxFan = 2
    HandlerCount <- FanOutAndUnrouted
    MaxRetries = 2
    MaxPreconditionDeferrals = 1
    MaxFaults = 1
    None = None
    Replicas = {w3}
    MaxRows = 2
    MaxChanges = 1
INVARIANTS
    LockedWhileProcessing
    ExclusiveProcessing
    CompletedMeansHandled
    FailedOnlyAfterMaxAttempts
    CountersBounded
    CompletedIsApplied
    CompletedIsDeleted
