SPECIFICATION FleetSpec
CONSTANTS
    w1 = w1
    w2 = w2
    Workers <- Pair
    Uploads = {1, 2}
    Untyped = {2}
    MaxGlobal = 2
    MaxCrashes = 2
    MaxAges = 2
    MaxUi = 2
    FleetCrashes = 1
    FleetUi = 1
SYMMETRY WorkerSymmetry
INVARIANTS
    OrphansNeedCrashes
    OnePassPerQueueEntry
    FinishedWereRead
