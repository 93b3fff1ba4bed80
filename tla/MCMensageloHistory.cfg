CONSTANTS
    Keys = {k1}
    Messages = {m1}
    QueueMax = 1
    MaxFaults = 1
    MaxClock = 2
SPECIFICATION Spec
INVARIANT OnlyOldHistoryMigrates
CHECK_DEADLOCK FALSE
