SPECIFICATION MCSpec
CONSTANTS
    g1 = g1
    Core = Core
    None = None
    Names = {1, 2}
    Gateways = {g1}
    Specs <- FewSpecs
    Ties = FALSE
    MaxVersion = 2
    MaxChanges = 3
    MaxEvents = 1
CHECK_DEADLOCK FALSE
INVARIANTS
    TornDown
    ActiveIsApplied
PROPERTIES
    Converges
