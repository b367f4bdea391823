CONSTANTS
    Setups = {a1, a2}
    None = None
SPECIFICATION Spec
INVARIANTS
    TypeOK
    UserHeeded
PROPERTIES
    SetupsEnd
CONSTRAINT OneCommand
CHECK_DEADLOCK FALSE
