CONSTANTS
    Checks = {1}
    Names = {"site"}
    Interval = 6
    DupWindow = 6
    MaxBusy = 1
    QueueSize = 1
    MaxTime = 6
    MaxHistory = 2
    MaxAlerts = 2
SPECIFICATION Spec
INVARIANTS
    IncidentMatchesCheck
