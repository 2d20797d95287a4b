CONSTANTS
    NoId = NoId
    NoRow = NoRow
    Nothing = Nothing
    i1 = i1
    i2 = i2
    p1 = p1
    p2 = p2
    h1 = h1
    h2 = h2
    job1 = job1
    Ids = {i1, i2}
    Ports = {p1, p2}
    Handlers = {h1, h2}
    Jobs = {job1}
    Totals = {0, 1}
    MaxOps = 2
    MaxTraffic = 1
    MaxFaults = 1
SPECIFICATION FairSpec
CHECK_DEADLOCK FALSE
INVARIANTS PortsDistinct ServedOrPending TrafficConserved
PROPERTY LimitsEnforced
