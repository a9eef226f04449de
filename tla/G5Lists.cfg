SPECIFICATION Spec
CONSTANTS
    None = None
    a1 = a1
    a2 = a2
    s1 = s1
    s2 = s2
    s3 = s3
    s4 = s4
    d1 = d1
    d2 = d2
    d3 = d3
    d4 = d4
    u1 = u1
    DefaultArea = a0
    DefaultSlice = s0
    DefaultDnn = d0
    DefaultUe = u0
    DefaultPlmn = p0
    Plmn = p1
    Areas <- MCAreas
    Slices <- MCSlices
    Dnns <- MCDnns
    Ues <- MCUes
    DnnsOf <- MCDnnsOf
    AmbrOf <- MCAmbrOf
    CidrOf <- MCCidrOf
    DnnVrf = {}
    Reports <- MCReports
    Configs <- MCConfigs
    Kinds = {"oai", "free5gc", "sdcore"}
    MaxUpdates = 2
INVARIANTS
    ToldAsComputed
    ListsAgree
    UserPlaneConnected
    
CHECK_DEADLOCK FALSE
