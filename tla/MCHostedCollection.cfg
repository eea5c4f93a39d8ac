SPECIFICATION Spec
CONSTANTS
    Run <- MCIssues
    Issues = 5
    Collector = {job}
    GridCount = 2
    Pagination <- MCPagination
    Refetch = TRUE
    SkipUnchanged = TRUE
    ShortPages = FALSE
    Period = 2
    Window = 6
    Cooldown = 2
    MaxBad = 1
    MaxFaults = 3
    None = None
INVARIANTS
    ServedIssueIsCollected
CHECK_DEADLOCK FALSE
