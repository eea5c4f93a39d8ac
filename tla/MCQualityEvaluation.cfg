SPECIFICATION MCSpec
CONSTANTS
    LastDate = 3
    RepairDays = 2
    Lookback = 1
    Runs = {1, 2}
    Revisions = {x, y}
    InvalidRevisions = {y}
    MaxTries = 2
    FirstTick = 6
    LastTick = 8
    MaxLandings = 3
    None = None
    x = x
    y = y
INVARIANTS
    AnnouncedIsShown
    
CHECK_DEADLOCK FALSE
