SPECIFICATION FairSpec
CONSTANTS
    n0 = n0
    n1 = n1
    None = None
    Frame <- MCFrame
    Own <- MCOwn
    TxTask = {t1, t2}
    MESHY_MSG_HISTORY = 2
    MESHY_MAX_NODES = 1
    TX_QUEUE_SIZE = 1
    MaxEvents = 4
INVARIANTS IdleListens CountedIsSent StoppedIsQuiet
PROPERTIES RereadOnlyInTx TasksEnd HistorySpec
CHECK_DEADLOCK FALSE
