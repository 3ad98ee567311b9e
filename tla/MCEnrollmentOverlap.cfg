CONSTANTS
    h1 = h1
    h2 = h2
    limited = limited
    free = free
    Handlers = {h1, h2}
    Tokens = {limited, free}
    MaxUses <- MCMaxUses
    Lifetime <- MCLifetime
    MaxTime = 2
    MaxAgents = 2
SPECIFICATION Spec
INVARIANTS
    WithinMaxUses
