CONSTANTS
    Tokens = {s1, s2}
    Accounts = {s2}
    Attempts = {a1, a2}
    Sockets = {k1}
    None = None
SPECIFICATION WebSpec
INVARIANTS
    WebTypes
    HeldCurrent
PROPERTIES
    NewerKept
CONSTRAINT Bounds
SYMMETRY Alike
