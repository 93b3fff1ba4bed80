CONSTANTS
    Incidents = {i1}
    Rank <- MCRank
    PendingLimit = 1
    ReportLimit = 1
    MaxFaults = 3
    MaxClock = 1
SPECIFICATION FairSpec
INVARIANTS
    NoticeIsReal
    ShownTrailsLedger
PROPERTIES
    EveryNoticeSettles
