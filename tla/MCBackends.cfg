SPECIFICATION Spec
CONSTANTS
    s1 = s1
    s2 = s2
    n1 = n1
    n2 = n2
    n3 = n3
    a1 = a1
    a2 = a2
    Relays = {a1}
    Slots = {s1, s2}
    Channels = 2
    Blocks = 2
    MaxEvents = 2
    MaxTrips = 1
    Analyzers = {a1, a2}
    RetryHours <- OneRetry
    LastHour = 2
    MaxRecords = 2
    Probes = {n1, n2, n3}
    MaxNodes = 2
    MaxAttempts = 2
    Primary = "globalping"
    Requests = {s1, s2}
    QueueSize = 2
    MaxRetries = 1
    MaxRequests = 1
    MaxChanges = 2
    MaxLosses = 2
    MaxFaults = 1
INVARIANTS
    TypeOK
    RecordingsAreWhole
    AttemptsAreLimited
    OneMailPerRequest
    SessionIsHonest
PROPERTIES
    CompletedMeansStored
    LearntIsKept
    VerdictsAreWitnessed
    BackendsCatchUp
CHECK_DEADLOCK FALSE
