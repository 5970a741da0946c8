SPECIFICATION Spec
CONSTANTS
    Thread = {t1, t2}
    Ops = {"id32"}
    Window = 3
    MaxSequence = 7
    Mix <- HashedSum
    MaxSession = 2
    MaxResets = 1
INVARIANTS InitCompletes
CHECK_DEADLOCK FALSE
