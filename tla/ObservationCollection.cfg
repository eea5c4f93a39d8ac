SPECIFICATION FairSpec
CONSTANTS
    Run = {a, b}
    GridCount = 2
    Revisions = 2
    MaxTries = 2
    MaxAttempts = 2
    Threshold = 2
    DailyLimit = 3
    Duration = 1
    RequestNeeds = 1
    Delay = {0, 1}
    DayLength = 1
    MaxTime = 1
    MaxFaults = 1
    None = None
INVARIANTS BudgetKept NoDuplicateRevision PublishedIsComplete
PROPERTY EveryRunEnds
CHECK_DEADLOCK FALSE
