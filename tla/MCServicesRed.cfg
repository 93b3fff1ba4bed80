SPECIFICATION Spec
CONSTANTS
    g1 = g1
    g2 = g2
    i1 = i1
    i2 = i2
    p1 = p1
    p2 = p2
    v1 = v1
    d1 = d1
    d2 = d2
    Grds = {g1, g2}
    RedBelow = 50
    Instances = {i1, i2}
    Processes = {p1, p2}
    HostOf <- MCHostOf
    Vms = {v1}
    Gensets = {d1, d2}
    GroupShown = {d2}
    PublishEvery = 2
    MaxChanges = 2
    MaxFaults = 1
    MaxTime = 3
PROPERTIES NoGrdAlarmWhileRed
CHECK_DEADLOCK FALSE
