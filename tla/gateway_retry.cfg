SPECIFICATION Spec
CONSTANTS
    Client = {a}
    Key = {k}
    NoKey = NoKey
    Handler = {h1, h2}
    Limits = {0}
    Window = 1
    SweepEvery = 1
    MaxClients = 1
    Ttl = 1
    MaxKeys = 1
    Horizon = 1
    MaxRequests = 2
    MaxCrashes = 0
PROPERTIES DuplicateMeansProcessed
CHECK_DEADLOCK FALSE
