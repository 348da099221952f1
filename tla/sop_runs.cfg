SPECIFICATION Spec
CONSTANTS
    Sop <- Procedures
    Steps <- StepCount
    Confirm <- Confirmed
    Mode <- ModeOf
    Urgent <- UrgentOnes
    MaxConcurrent <- Concurrency
    Cooldown <- CooldownOf
    MaxTotal = 2
    MaxFinished = 1
    Timeout = 1
    Caller = {c1, c2}
    Nobody = Nobody
    MaxRuns = 2
    MaxLost = 1
    Horizon = 1
INVARIANTS ConcurrencyLimits ResultsFollowSteps HandedOutApproved AuditTruthful
SYMMETRY CallerSymmetry
CHECK_DEADLOCK FALSE
