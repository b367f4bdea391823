CONSTANTS
    Workspaces = {w1, w2}
    Loops = {l1, l2}
    Requests = {q1, q2}
    Bridges = {b1}
    MaxGenerations = 1
    None = None
SPECIFICATION FairSpec
INVARIANTS
    ChannelsOwned
PROPERTIES
    ChannelsEnd
CHECK_DEADLOCK FALSE
