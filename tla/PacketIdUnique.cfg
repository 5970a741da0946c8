SPECIFICATION Spec
CONSTANTS
    Thread = {t1}
    Ops = {"id32", "rotate", "info"}
    Window = 3
    MaxSequence = 7
    Mix <- HashedSum
    MaxSession = 3
    MaxResets = 2
INVARIANTS TypeOK UniqueIds RtcCovers
CHECK_DEADLOCK FALSE
