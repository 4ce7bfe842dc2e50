SPECIFICATION FairSpec
CONSTANTS
    w1 = w1
    e1 = e1
    e2 = e2
    None = None
    Workers = {w1}
    Entities = {e1}
    Kinds = {"project_member", "organization_user", "api_key", "resource"}
    MaxRows = 3
    MaxRetries = 2
    MaxFaults = 2
    MaxLoad = 4
INVARIANTS
    OneRole
    SettledIsSynced
PROPERTIES
    EveryRowSettles
    BreakerRecovers
