CONSTANTS
    Installers = {i1, i2}
    Versions = {v1, v2}
    Runtimes = {r1}
    RuntimeOf <- SameRuntime
    OldVersions = {v2}
    Attempts = 2
    BareTries = 0
    LockTries = 1
    MaxKills = 1
    None = None
SPECIFICATION Spec
INVARIANTS
    TypeOK
PROPERTIES
    LocksProtect
    InstallsEnd
CONSTRAINT NewFirst
CHECK_DEADLOCK FALSE
