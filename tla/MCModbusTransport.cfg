SPECIFICATION FairSpec
CONSTANTS
    r1 = r1
    r2 = r2
    c1 = c1
    Reads = {r1, r2}
    Connects = {c1}
    Nobody = Nobody
    QueueMax = 2
    Attempts = 2
INVARIANTS
    AnswersAreOwn
PROPERTIES
    ImplementsEndpointQueue
    EveryItemSettles
    StopEndsTheWorker
\* The service stops.
CHECK_DEADLOCK FALSE
