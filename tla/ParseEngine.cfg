SPECIFICATION BothSpec
CONSTANTS
    NumLines = 5
    BatchEvents = 2
    MaxLineErrors = 2
    MaxSamples = 1
    PersistEvents = TRUE
    Events = {1, 2}
    Engines = {"e1", "e2"}
    ClaimBatch = 2
    OldEvents = {2}
    ReconcileEvery = 1
    StaleOn = TRUE
    MaxTrouble = 2
INVARIANTS
    PublishedAtMostOnce
    PublishedAfterCommit
    NothingLeftBehind
    StatusTellsTheTruth
    RepeatsNeedTrouble
    StrandedNeedFaults
PROPERTIES
    EventsSettle
    UploadIsReleased
CHECK_DEADLOCK FALSE
