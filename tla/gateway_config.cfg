SPECIFICATION Spec
CONSTANTS
    Token = {t1, t2}
    NoToken = NoToken
    Mask = Mask
    NoBackup = NoBackup
    User = {u1}
    Client = {a}
    Editor = {e1, e2}
    Caller = {w1, w2}
    MaxAttempts = 2
    MaxTokens = 1
    MaxCalls = 4
    MaxCrashes = 1
SYMMETRY Interchangeable
INVARIANTS OneTokenPerCode SomeoneGetsIn GuessesBounded KeptUnlessStale
CHECK_DEADLOCK FALSE
