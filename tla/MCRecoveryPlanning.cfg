SPECIFICATION ReceiptSpec
CONSTANTS
    LastIssue = 1
    GridCount = 2
    Run = {r1, r2, q}
    Replays = {q}
    IssueOf <- MCIssueOf
    Boundaries = {1, 2}
    Horizon = 4
    MaxFaults = 1
    MaxJobs = 2
    MaxApiJobs = 1
    MaxAge = 1
    None = None
INVARIANTS
    PlansAreSound
PROPERTIES
    DueSlotsSettle
CHECK_DEADLOCK FALSE
