CONSTANTS
    Sessions = {s1, s2}
    Tickets = {t1, t2}
    MaxTickets = 1
    None = None
SPECIFICATION FairSpec
INVARIANTS
    TypeOK
    RevokedKeepsNothing
PROPERTIES
    OnlyRevokedTerminated
    AllEnds
CHECK_DEADLOCK FALSE
