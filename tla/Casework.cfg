SPECIFICATION CaseworkSpec
CONSTANTS
    Procs = {p1, p2}
    Alerts = {"a1", "a2", "a3"}
    Incidents = {1, 2, 3}
    Times = {0, 2, 3}
    Window = 2
    Cooldown = 2
    Threshold = 2
    MaxRuns = 3
    MaxUi = 1
    Seats = {"s1", "s2"}
    DeskAlerts = {"a1", "a2"}
    DeskScores <- MCDeskScores
    DeskFilters <- MCDeskFilters
    Worded = {"a1"}
    PageRows = 1
    MaxDesk = 2
    Analysts = {"s1", "s2"}
    Notes = {"n1", "n2"}
    Facts = {"geo", "asn"}
    Purgers = {"r1"}
    OldAlerts = {"o1", "o2"}
    NewAlerts = {"n1"}
    Cases = {"i1", "i2"}
    OldEntities = {"e1"}
    OldFiles = {"f1"}
    NewFiles = {"f2"}
    Users = {1, 2}
    Keys = {1}
    AgentKeys = {1}
    Hosts = {1}
    Sessions = {1, 2}
    MaxAccess = 4
    Items = {1, 2}
    Calls = {1, 2}
    Batches <- MCBatches
    MaxBatch = 2
    MaxRequests = 3
    MaxBreaks = 1
    MaxExpiries = 1
    MaxSize = 4
    Newlines = {1, 3}
    ChunkBytes = 2
    ScanBack = 2
    ScanForward = 2
    ContextLines = 1
    FirstScan = 4
    FirstBackfill = 2
    EndpointAnswers = {"kept", "kept_error", "error", "refused"}
    MaxGens = 2
    MaxAgentTrouble = 2
SYMMETRY MCProcSymmetry
INVARIANTS
    NoProcessOpensTwo
    IncidentsHaveBursts
    SerialRunsAreSpaced
    OnlyNewcomersAreSwept
    ColumnsKeepWrites
    ShutStaysShut
    AcceptedOnceStored
    NothingIsSkipped
    RepeatsHaveCauses
PROPERTIES
    OnlyLateLinksAreCut
CHECK_DEADLOCK FALSE
