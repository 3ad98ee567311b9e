CONSTANTS
    Browsers = {"b1"}
    MaxKeys = 1
    MaxRenewals = 1
SPECIFICATION PushSpec
INVARIANT
    BroadcastReachesAll
