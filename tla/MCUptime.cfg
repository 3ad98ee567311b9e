CONSTANTS
    site = site
    db = db
    Checks = {1}
    Names = {site, db}
    Interval = 2
    DupWindow = 1
    MaxBusy = 1
    QueueSize = 1
    MaxTime = 2
    MaxHistory = 2
    MaxAlerts = 2
SPECIFICATION Spec
SYMMETRY MCSymmetry
INVARIANTS
    TypeOK
    IncidentMatchesCheck
    DeletedLeavesOneRow
