CONSTANTS
    Calls = {c1, c2}
    Sockets = {s1}
    Opens = {o1, o2}
    Watchers = {w1, w2}
SPECIFICATION FairSpec
INVARIANTS
    TypeOK
    ActiveServes
    RequestsServed
PROPERTIES
    NothingCut
    SessionSettles
    ImplementsContract
CHECK_DEADLOCK FALSE
