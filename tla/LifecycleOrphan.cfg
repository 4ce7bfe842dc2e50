SPECIFICATION Spec
CONSTANTS
    w1 = w1
    None = None
    Replicas = {w1}
    MaxRows = 3
    MaxChanges = 0
    MaxRetries = 2
    MaxPreconditionDeferrals = 1
    MaxFaults = 0
INVARIANT
    OnlyOrphansDeleted
