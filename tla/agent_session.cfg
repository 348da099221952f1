SPECIFICATION FairSpec
CONSTANTS
    Call <- Calls
    Tool <- Tools
    ToolOf <- ToolOfCall
    AutoApprove = {}
    AlwaysAsk = {"shell"}
    Caps = {2, 4}
    KeepRecent = 2
    Window = 6
    MaxIterations = 2
    Models = 2
    Providers = 2
    MaxRetries = 1
    MaxCalls = 2
    MaxTurns = 2
INVARIANTS ExecutedWithConsent CallsAnswered OrphansAtTheCut ForgottenIsSummarised
PROPERTIES EveryTurnEnds
