SPECIFICATION DetectionSpec
CONSTANTS
    Procs = {"p1"}
    Times = {0, 1, 2, 3, 4}
    Window = 2
    Cooldown = 2
    Threshold = 2
    MaxEvents = 5
    RuleIds = {1, 2}
    RuleForms <- MCRuleForms
    Installed = {1}
    InstalledForm <- MCPlain
    Lists = {"office"}
    BookEvents <- MCBookEvents
    Engines = {"e1"}
    Reprocessor = "console"
    Ttl = 1
    MaxBookTime = 1
    MaxEdits = 1
    MaxEvaluations = 2
    MaxRefusals = 1
    AlertCount = 3
    Entities = {"ip"}
    NoEntity = NoEntity
    EntityOf <- MCEntityOf
    Severity <- MCSeverity
    TriggeredAt <- MCTriggeredAt
    Jobs = {"timer", "console"}
    BatchSize = 2
    MaxScore = 5
    DecaySteps <- MCDecaySteps
    MaxTime = 1
    MaxBackfills = 1
    Addresses = {1, 2}
    ListSets = {1, 2}
    SyncRuns = {r1, r2}
    Recipients = {"soc", "noc"}
    Wants <- MCWants
    MaxFeedChanges = 3
    MaxSyncs = 3
    MaxSyncDeaths = 1
    ListIds = {1}
    Shapes <- MCShapes
    ListProcs = {"worker"}
    ListThreads = {t1, t2}
    Elsewhere = "api"
    ListTtl = 1
    Probes <- MCProbes
    ListFiles <- MCFiles
    MaxListTime = 2
    MaxListChanges = 1
    MaxListTasks = 3
    MaxListFaults = 1
    LogTypes = {"apache_access", "nginx_access", "apache_error", "nginx_error", "wp_error_log", "wp_error",
                "exim_mainlog", "exim_rejectlog", "maillog", "dovecot", "lfd", "csf", "modsec", "system",
                "messages", "syslog", "secure", "ssh", "auth", "cpanel_access", "panel_logs", "sar",
                "sar_stats", "imunify360", "auditd", "filemanager"}
    PersistRows = TRUE
    TxIds = {"x", "y"}
    MaxTx = 3
SYMMETRY MCSymmetry
INVARIANTS
    InOrderIsExact
    AlertsAreSpaced
    ThresholdAlerts
    AlertsUseRecentRules
    CooldownsHaveAlerts
    OnlyLateAlertsAreSkipped
    ScoreIsItsLedger
    SerialSyncsRepeatNothing
    DecisionIsRecent
    LoginsAreCounted
    AuditsAreWhole
CHECK_DEADLOCK FALSE
