CONSTANTS
    Owners = {w1, w2, w3}
    LocalPorts = {p1, p2}
    Calls = {c1, c2}
    Types = {t1, t2}
    Rpcs = {r1, r2}
    None = None
SPECIFICATION FairConnection
INVARIANTS
    TypeOK
    PortsKept
    CallsSound
PROPERTIES
    ImplementsCalls
CHECK_DEADLOCK FALSE
