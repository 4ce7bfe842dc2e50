SPECIFICATION FairSpec
CONSTANTS
    c1 = c1
    c2 = c2
    c3 = c3
    b1 = b1
    b2 = b2
    None = None
    Clients = {c1, c2}
    Bodies = {b1, b2}
    MaxFaults = 2
INVARIANTS
    OncePerKey
    OwnResponse
PROPERTIES
    ResponseIsKept
    KeySettles
