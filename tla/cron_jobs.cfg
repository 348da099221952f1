SPECIFICATION FairSpec
CONSTANTS
    Job = {j1, j2}
    Writer = {w1}
    NoCall = NoCall
    Periods <- OnePeriod
    MaxTasks = 1
    MaxConcurrent = 1
    KeepRuns = 1
    Horizon = 2
    MaxCalls = 1
    MaxCrashes = 1
INVARIANTS HistoryOfLiveJobs OneShotRunsOnce
PROPERTIES RemovedForGood RunKeepsPause DueJobRuns OneShotSettles
CHECK_DEADLOCK FALSE
