CONSTANTS
    local = local
    remote = remote
    Sources = {local, remote}
    MaxLate <- MCMaxLate
    Width1m = 2
    Width5m = 4
    Width1h = 8
    Lag1m = 2
    Lag5m = 3
    Lag1h = 4
    Pause1m = 1
    Pause5m = 1
    Pause1h = 1
    PurgeInterval = 4
    KeepRaw = 7
    Keep1m = 12
    Keep5m = 14
    Batch = 1
    MaxTime = 14
    MaxSamples = 1
    MaxFaults = 0
CHECK_DEADLOCK FALSE
SPECIFICATION Spec
INVARIANTS
    OneRowPerBucket
