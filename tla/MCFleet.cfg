CONSTANTS
    a1 = a1
    h1 = h1
    h2 = h2
    m1 = m1
    c1 = c1
    loop1 = loop1
    loop2 = loop2
    own = own
    shared = shared
    odd = odd
    Agents = {a1}
    Handlers = {h1, h2}
    Timeout = 4
    AlertWindow = 2
    MaxLag = 1
    Hosts = {h1, h2, odd}
    OddHosts = {odd}
    MaxServers = 2
    MaxListed = 1
    Manual = {m1}
    Clients = {c1}
    BufferSize = 3
    History = 2
    QueueSize = 2
    MaxEntries = 5
    MaxSubs = 2
SPECIFICATION MCSpec
CHECK_DEADLOCK FALSE
INVARIANTS
    FleetTypeOK
    OnlineIsRecent
    OutageIsAlerted
    ReadingIsOwn
    OrphansWereInFlight
    NoSilentGap
PROPERTIES
    SilentGoesOffline
    StatusConverges
    ClosedLeavesNothing
    TimelineConverges
