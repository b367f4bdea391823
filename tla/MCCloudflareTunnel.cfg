CONSTANTS
    Gateways = {g1, g2}
    Disables = {d1}
    Enrollments = {e1, e2}
    MaxCrashes = 1
    None = None
SPECIFICATION TunnelSpec
INVARIANTS
    TunnelTypes
    FilesOwned
PROPERTIES
    TunnelEnds
CHECK_DEADLOCK FALSE
