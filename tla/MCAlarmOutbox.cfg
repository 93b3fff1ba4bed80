CONSTANTS
    Alarms = {a1, a2}
    MaxEvents = 4
    Instants = {0, 1, 2}
SPECIFICATION Spec
INVARIANTS
    TypeOK
    FileLoads
    ServedIsDurable
    NoEdgeLost
PROPERTY ImplementsEdgeLog
SYMMETRY Symmetry
