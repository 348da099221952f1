SPECIFICATION Spec
CONSTANTS
    Token = {t1, t2}
    NoToken = NoToken
    Mask = Mask
    NoBackup = NoBackup
    User = {u1}
    Client = {a}
    Editor = {}
    Caller = {w1, w2}
    MaxAttempts = 2
    MaxTokens = 1
    MaxCalls = 3
    MaxCrashes = 0
INVARIANTS PersistedStays
CHECK_DEADLOCK FALSE
