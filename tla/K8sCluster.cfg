SPECIFICATION FairSpec
CONSTANTS
    Numbers = 3
    CreatePlans <- MCCreatePlans
    AddPlans <- MCAddPlans
    DelRequests <- MCDelRequests
    MaxVm = 6
    MaxRequests = 3
    MaxFaults = 2
    MaxKills = 1
INVARIANTS
    NumbersMatch
    OneServerPerName
    ServersAreRecorded
    DeletedIsGone
    ClusterLeavesNothing
PROPERTIES
    NodeLeavesFirst
    OperationEnds
CHECK_DEADLOCK FALSE
