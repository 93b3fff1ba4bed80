CONSTANTS
    Alarms = {a1}
    Sources = {s1, s2}
    SourceOf <- OneSource
    Activation = 1
    Recovery = 1
    Choices <- BothNotices
    PageLimit = 1
    MaxLag = 1
    MaxEvents = 3
    MaxClock = 3
    MaxFaults = 2
SPECIFICATION FairSpec
INVARIANTS
    TypeOK
    IncidentsMatchState
    NoLongConditionIsMissed
PROPERTIES
    HistoryIsFinal
    Converges
CHECK_DEADLOCK FALSE
