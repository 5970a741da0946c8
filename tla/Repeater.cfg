SPECIFICATION FairSpec
CONSTANTS
    Id = {i1, i2}
    ListSize = 2
    MaxAdds = 5
    QueueSize = 3
    CountMod = 4
    MaxRx = 5
    MaxFails = 2
INVARIANTS CountCovers RepeatedOnce ListensAgain RecentNotRepeated
PROPERTIES QueueDrains
CHECK_DEADLOCK FALSE
