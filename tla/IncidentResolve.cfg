SPECIFICATION Spec
CONSTANTS
    Procs = {"p1", "p2"}
    Alerts = {"a1", "a2", "a3"}
    Incidents = {1, 2, 3}
    Times = {0, 1, 2, 3}
    Window = 2
    Cooldown = 2
    Threshold = 2
    MaxRuns = 3
    MaxUi = 1
PROPERTY ResolvedIncidentsCloseAlerts
CHECK_DEADLOCK FALSE
