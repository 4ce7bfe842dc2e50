SPECIFICATION MCSpec
CONSTANTS
    w1 = w1
    None = None
    Replicas = {w1}
    MaxRows = 2
    MaxChanges = 1
    MaxRetries = 1
    MaxPreconditionDeferrals = 1
    MaxFaults = 1
PROPERTIES
    DeletionCompletes
    ReadyIsReported
    ActiveConverges
    ReadyIsHandled
    DeletionIsConfirmed
