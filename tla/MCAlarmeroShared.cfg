CONSTANTS
    Alarms = {a1, a2}
    Sources = {s1}
    SourceOf <- OneSource
    Activation = 1
    Recovery = 1
    Choices <- BothNotices
    PageLimit = 1
    MaxLag = 1
    MaxEvents = 2
    MaxClock = 3
    MaxFaults = 1
SPECIFICATION Spec
INVARIANTS
    AckedIsStored
    StateFollowsCursor
SYMMETRY Symmetry
CHECK_DEADLOCK FALSE
