SPECIFICATION FairSpec
CONSTANTS
    Blue = {b1}
    Worker = {w1, w2}
    Rest = {r1}
    Owner = {o1}
    Scope <- SharedScope
    MaxRequests = 2
    MaxCrash = 0
    NoRecord = NoRecord
    NoWorker = NoWorker
    NoBlue = NoBlue
    NoClient = NoClient
PROPERTIES
    SyncCallIsAnswered
CHECK_DEADLOCK FALSE
