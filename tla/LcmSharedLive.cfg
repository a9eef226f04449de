SPECIFICATION FairSpec
CONSTANTS
    Blue = {b1}
    Worker = {w1, w2}
    Rest = {}
    Owner = {o1, o2}
    Scope <- SharedScope
    MaxRequests = 3
    MaxCrash = 0
    NoRecord = NoRecord
    NoWorker = NoWorker
    NoBlue = NoBlue
    NoClient = NoClient
PROPERTIES
    WaitEndsOrWorkerEnded
CHECK_DEADLOCK FALSE
