CONSTANTS
    Connectors = {c1, c2}
    Mortal = {c1}
    Fragile = {c2}
    None = None
SPECIFICATION FairSpec
INVARIANTS
    TypeOK
    LockProtects
    ExitClean
PROPERTIES
    StartupsEnd
CHECK_DEADLOCK FALSE
