CONSTANTS
    a1 = a1
    a2 = a2
    h1 = h1
    h2 = h2
    Agents = {a1}
    Handlers = {h1}
    Timeout = 2
    AlertWindow = 2
    MaxLag = 1
SPECIFICATION Spec
INVARIANT
    OfflineIsAlerted
