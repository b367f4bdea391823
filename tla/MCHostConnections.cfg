CONSTANTS
    Ops = {o1, o2}
    Plain = {p1}
    Setups = {s1, s2}
    None = None
SPECIFICATION FairSpec
INVARIANTS
    TypeOK
    HostOwned
PROPERTIES
    CancelSpares
    CallsEnd
CHECK_DEADLOCK FALSE
