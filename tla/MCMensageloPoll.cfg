CONSTANTS
    Keys = {k1}
    Messages = {m1}
    QueueMax = 1
    MaxFaults = 1
    MaxClock = 1
SPECIFICATION FairSpec
PROPERTY PendingIsTaken
CHECK_DEADLOCK FALSE
