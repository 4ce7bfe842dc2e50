SPECIFICATION MCSpec
CONSTANTS
    r1 = r1
    r2 = r2
    Requests = {r1, r2}
    MinLifetime = 0
    Lifetime = 3
    MaxFetch = 1
    MaxSpawned = 2
    FetchTimeout = 2
    MaxFaults = 1
INVARIANTS
    AccessIsValid
    OneRefresher
PROPERTIES
    EveryoneIsAnswered
    StaleIsReplaced
