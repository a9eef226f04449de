SPECIFICATION Spec
CONSTANTS
    Vim = {v1}
    Net = {n1}
    Router = {r1}
    Pdu = {p1, p2}
    Cluster = {k1}
    Blue = {b1}
    TopologyWorker = TopologyWorker
    Requests = {}
    OwnOperations <- OwnEntries
    InitialTopology <- SharedTopology
    MaxRequests = 0
    MaxOperations = 9
    MaxCharts = 2
    NoTopology = NoTopology
    NoBlue = NoBlue
    NoThread = NoThread
    v1 = v1
    v2 = v2
    n1 = n1
    r1 = r1
    p1 = p1
    p2 = p2
    k1 = k1
    b1 = b1
INVARIANTS
    ClaimsAreKnown
    DestroyedLeavesNoTrace
CHECK_DEADLOCK FALSE
