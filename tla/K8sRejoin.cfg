SPECIFICATION Spec
CONSTANTS
    Numbers = 2
    CreatePlans <- MCCreatePlans
    AddPlans <- MCAddPlans
    DelRequests <- MCDelRequests
    MaxVm = 5
    MaxRequests = 3
    MaxFaults = 1
    MaxKills = 0
INVARIANTS
    JoinedOnce
CHECK_DEADLOCK FALSE
