SPECIFICATION Spec
CONSTANTS
    None = None
    a1 = a1
    a2 = a2
    s1 = s1
    s2 = s2
    s3 = s3
    d1 = d1
    d2 = d2
    u1 = u1
    Areas <- MCAreas
    Slices <- MCSlices
    Dnns <- MCDnns
    Ues <- MCUes
    DnnsOf <- MCDnnsOf
    AmbrOf <- MCAmbrOf
    CidrOf <- MCCidrOf
    DnnVrf <- MCDnnVrf
    Mixed = Mixed
    External <- MCExternal
    Configs <- MCConfigs
    Kinds = {"oai", "free5gc", "sdcore", "athonet"}
    MaxOps = 2
    MaxFaults = 2
    MaxEvents = 3
INVARIANTS
    ChildrenReachable
    DestroyedLeavesNothing
    SettledIsServed
    ConfigIsDeployable
PROPERTIES
    OperationEnds
CHECK_DEADLOCK FALSE
