SPECIFICATION FairSpec
CONSTANTS
    Node = {n1, n2, 65535}
    Chan = {c1}
    Ttl = 2
    IdMod = 16
    SeenCache = 1
    MaxPending = 1
    TextLen = {"fits"}
    MaxSends = 2
    MaxRestarts = 0
INVARIANTS TypeOK DisplayedNotRecent AckBacked
PROPERTIES FloodDies
CHECK_DEADLOCK FALSE
