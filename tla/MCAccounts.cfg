CONSTANTS
    h1 = h1
    h2 = h2
    limited = limited
    free = free
    admin = admin
    ann = ann
    Handlers = {h1, h2}
    Tokens = {limited, free}
    MaxUses <- MCMaxUses
    Lifetime <- MCLifetime
    MaxTime = 2
    MaxAgents = 2
    Requests = {h1, h2}
    Names = {admin, ann}
    Admin = admin
    RateLimit = 2
    RateWindow = 2
    MaxAge = 2
    MaxLoginTime = 3
    MaxId = 3
    MaxSessions = 2
SPECIFICATION MCSpec
SYMMETRY MCSymmetry
INVARIANTS
    TypeOK
    OveruseIsBounded
    CredentialsAreCounted
    HalvesHaveACause
    UsersTypeOK
    SessionsKeepTheirUser
    LastUserStays
    FailuresAreBounded
