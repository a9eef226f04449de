SPECIFICATION Spec
CONSTANTS
    ext = ext
    blue = blue
    ips1 = ips1
    ips2 = ips2
    d1 = d1
    d2 = d2
    none = none
    empty = empty
    Clusters <- MCClusters
    BlueprintClusters <- MCBlueprintClusters
    Requests <- MCRequests
    Docs <- MCDocs
    EmptyDoc <- MCEmptyDoc
    AreaIps <- MCOneArea
    PoolNames <- MCPoolNames
    PoolIps <- MCPoolIps
    NoPool <- MCNoPool
    InitialCharts <- MCCharts
    MaxRequests = 2
    MaxStarts = 2
INVARIANTS
    OneNetworkPlugin
    NetworkFirst
PROPERTIES
    DoneIsInstalled
    AcceptedIsHandled
