SPECIFICATION Spec
CONSTANTS
    Blue = {b1}
    Worker = {w1, w2}
    Rest = {r1}
    Owner = {o1}
    Scope <- SharedScope
    MaxRequests = 3
    MaxCrash = 1
    NoRecord = NoRecord
    NoWorker = NoWorker
    NoBlue = NoBlue
    NoClient = NoClient
INVARIANTS
    TypeOK
    CallbackReachesItsCaller
    StoppedWorkerIsBeingPopped
CHECK_DEADLOCK FALSE
