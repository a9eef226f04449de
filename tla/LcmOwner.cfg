SPECIFICATION Spec
CONSTANTS
    Blue = {1, 2}
    Worker = {w1, w2}
    Rest = {}
    Owner = {1, 2}
    Scope <- OwnerScope
    MaxRequests = 4
    MaxCrash = 1
    NoRecord = NoRecord
    NoWorker = NoWorker
    NoBlue = NoBlue
    NoClient = NoClient
INVARIANTS
    IdleWorkerIsSaved
    DeployedIsRecorded
PROPERTIES
    LifecycleSpec
CHECK_DEADLOCK FALSE
