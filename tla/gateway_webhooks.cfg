SPECIFICATION Spec
CONSTANTS
    Client = {a, b}
    Key = {k, l}
    NoKey = NoKey
    Handler = {h1, h2}
    Limits = {0, 1}
    Window = 2
    SweepEvery = 3
    MaxClients = 1
    Ttl = 3
    MaxKeys = 1
    Horizon = 4
    MaxRequests = 3
    MaxCrashes = 1
INVARIANTS TypeOK RateLimited
PROPERTIES StartedOncePerTtl DuplicateWasBegun
CHECK_DEADLOCK FALSE
