SPECIFICATION Spec
CONSTANTS
    n1 = n1
    u1 = u1
    u2 = u2
    l1 = l1
    other = other
    Names <- MCNames
    Namespaces <- MCNamespaces
    Users <- MCUsers
    Labels <- MCLabels
    Requests <- MCRequests
    MaxReplicas = 1
    MaxCalls = 3
    MaxOutside = 2
INVARIANTS
    TokenOfOneCall
    CertificateFitsKey
PROPERTIES
    OwnChangeOnly
CHECK_DEADLOCK FALSE
