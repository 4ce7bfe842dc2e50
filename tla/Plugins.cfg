SPECIFICATION Spec
CONSTANTS
    m1 = m1
    m2 = m2
    Manifests = {m1, m2}
    None = None
    Unpinned = Unpinned
    AllowUnpinnedHash = FALSE
    HelmTears = TRUE
    MaxChanges = 3
    MaxFaults = 1
CHECK_DEADLOCK FALSE
INVARIANTS
    Consented
    NoOrphans
PROPERTIES
    OnlyPluginBlocksDeletion
    
