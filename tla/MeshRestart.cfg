SPECIFICATION Spec
CONSTANTS
    Node = {0, n1}
    Chan = {c1, c2}
    Ttl = 1
    IdMod = 2
    SeenCache = 2
    MaxPending = 2
    TextLen = {"fits", "over"}
    MaxSends = 3
    MaxRestarts = 1
INVARIANTS SeenIsRecent SuppressedIsDuplicate
PROPERTIES PendingKept
CHECK_DEADLOCK FALSE
