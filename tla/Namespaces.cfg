SPECIFICATION FairSpec
CONSTANTS
    n1 = n1
    n2 = n2
    Cluster = Cluster
    Foreign = Foreign
    None = None
    Namespaces = {n1, n2}
    MaxRows = 2
    MaxRetries = 1
    MaxPreconditionDeferrals = 1
    MaxEvents = 1
INVARIANTS
    CompletedIsRemoved
    CompletedIsLimited
PROPERTIES
    ActiveMaterialises
    OrphanIsRemoved
