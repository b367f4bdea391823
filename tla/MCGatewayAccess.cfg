CONSTANTS
    Creds = {k1, k2, k3}
    Sessions = {s1, s2, s3}
    MaxSessions = 2
    MaxUsed = 2
    None = None
SPECIFICATION FairSpec
INVARIANTS
    TypeOK
    SessionsEarned
PROPERTIES
    ImplementsSessions
    RemovalCloses
CHECK_DEADLOCK FALSE
