SPECIFICATION FairSpec
CONSTANTS
    Id = {i1, i2, i3}
    ListSize = 2
    MaxAdds = 4
    QueueSize = 4
    CountMod = 8
    MaxRx = 2
    MaxFails = 0
PROPERTIES ReceivedRead
CHECK_DEADLOCK FALSE
