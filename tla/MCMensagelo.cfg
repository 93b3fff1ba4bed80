CONSTANTS
    Keys = {k1, k2}
    Messages = {m1, m2}
    QueueMax = 1
    MaxFaults = 2
    MaxClock = 2
SPECIFICATION FairSpec
INVARIANTS
    TypeOK
    AtMostOnce
    StatusIsHonest
    CapacityHolds
    WorkerOwnsItsRow
PROPERTIES
    ImplementsLedger
    EventuallyClaimed
CHECK_DEADLOCK FALSE
