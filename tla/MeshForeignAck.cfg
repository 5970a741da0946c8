SPECIFICATION Spec
CONSTANTS
    Node = {n1, n2, n3}
    Chan = {c1}
    Ttl = 1
    IdMod = 16
    SeenCache = 8
    MaxPending = 1
    TextLen = {"fits"}
    MaxSends = 4
    MaxRestarts = 0
SYMMETRY Symmetry
INVARIANTS AckedWasDelivered
CHECK_DEADLOCK FALSE
