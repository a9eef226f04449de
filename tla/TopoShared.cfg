SPECIFICATION FairSpec
CONSTANTS
    Vim = {v1, v2}
    Net = {n1}
    Router = {r1}
    Pdu = {p1}
    Cluster = {k1}
    Blue = {b1}
    TopologyWorker = TopologyWorker
    Requests <- AllRequests
    OwnOperations <- RadioOperations
    InitialTopology <- SharedTopology
    MaxRequests = 2
    MaxOperations = 3
    MaxCharts = 1
    NoTopology = NoTopology
    NoBlue = NoBlue
    NoThread = NoThread
    v1 = v1
    v2 = v2
    n1 = n1
    r1 = r1
    p1 = p1
    p2 = p2
    k1 = k1
    b1 = b1
INVARIANTS
    TypeOK
    OneOperationAtATime
PROPERTIES
    QueueDrains
CHECK_DEADLOCK FALSE
