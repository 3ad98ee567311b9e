CONSTANTS
    loop1 = loop1
    loop2 = loop2
    own = own
    shared = shared
    Callers = {loop1, loop2}
    Keys = {own, shared}
    Raisers <- MCRaisers
    Recoverable = {own}
    Window <- MCWindow
    QueueSize = 2
    MaxTime = 2
    MaxAlerts = 3
SPECIFICATION Spec
INVARIANTS
    TypeOK
    OneOpenPerKey
    DuplicatesSpaced
    TimelineTracksAlerts
PROPERTY
    ImplementsIncidentLog
