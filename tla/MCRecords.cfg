CONSTANTS
    h1 = h1
    Hosts = {h1}
    OddHosts = {}
    MaxServers = 2
    MaxListed = 1
    MaxChecks = 2
    MaxSnapFaults = 1
    i1 = i1
    i2 = i2
    RemoteHosts = {"s1"}
    Scanners = {"loop", "request"}
    Items = {i1, i2}
    ScanCap = 2
    MaxScans = 3
    MetricNames = {"cpu", "gpu"}
    Scripts = {"one", "two"}
    Runners = {"loop", "request"}
    LoopRunner = "loop"
    MaxDefinitions = 3
    MaxRequests = 2
    Slugs = {"disk", "mine"}
    Builtins = {"disk"}
    Versions = {1, 2}
    TargetLists = {{"local"}, {"s1", "s2"}}
    MaxSecond = 2
    Cap = 1
    Back = 1
    Every = 1
    MaxTime = 4
    MaxLines = 2
    MaxStarts = 2
    Watched = {"ssh_brute_force"}
    Minute = 2
    Pause = 4
    Warmup = 1
    DupSpan = 2
    MaxShip = 2
    MaxScan = 1
    BatchSizes = {5}
    MaxBatches = 2
    MaxTrouble = 1
    MaxUnits = 13
    Sessions = {"s1"}
    TermServers = {"t1"}
    b1 = b1
    b2 = b2
    Browsers = {b1, b2}
    MaxKeys = 3
    MaxRenewals = 2
SPECIFICATION MCSpec
CHECK_DEADLOCK FALSE
INVARIANTS
    RecordsTypeOK
    StoredOnce
    ValueIsOwn
    NoRunWithoutTrace
    LossHasACause
    CopiesAreBounded
    BurstIsReported
    KeysMatchSubscriptions
    DoneLeavesNothing
PROPERTIES
    SnapshotsExpire
    TerminalsAreClosed
