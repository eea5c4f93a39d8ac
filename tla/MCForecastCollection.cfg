SPECIFICATION Spec
CONSTANTS
    Run = {collect, replay}
    Replays = {replay}
    Collector <- MCCollector
    GridCount = 2
    Pagination <- MCPagination
    Refetch = FALSE
    SkipUnchanged = FALSE
    ShortPages = TRUE
    MaxTries = 2
    BatchSize = 2
    MaxCommits = 2
    MaxFaults = 1
    None = None
INVARIANTS
    PublishableIsWhole
PROPERTIES
    ObservedIsEvidenced
    EveryRunEnds
CHECK_DEADLOCK FALSE
