SPECIFICATION MCSpec
CONSTANTS
  d1 = d1
  b1 = b1
  daily = daily
  backfill = backfill
  nobody = nobody
  Run <- MCRun
  DagOf <- MCDagOf
  Tasks <- MCTasks
  MaxTries = 2
  Retention = 1
  MaxCommands = 4
  MaxFaults = 1
  Grid = {g1, g2}
  TicksPerDay = 2
  IssueTicks = {0}
  FreshFor = 2
  MaxTick = 3
  MaxRaw = 2
  MaxManifests = 2
  MaxJobs = 2
  Weather = {"weather_vilage_fcst", "maintenance"}
  Traffic = {"traffic_flow", "maintenance"}
  Common = {"dong_master"}
  Maintenance = "maintenance"
  Guard = {t1, t2}
  MaxScheduled = 1
  MaxTriggerFaults = 2
  Sender = {p1, p2}
  DayLength = 4
  BudgetDays = 2
  Headroom = 2
  SendDelay = 1
  DailyLimit = 2
  RunLimit = 2
  Tries = 2
  Reporter = {p1}
  LoadRun = {p2}
  SlotOfDay = {s1, s2}
  MaxInstant = 2
  MaxReports = 2
INVARIANTS
  ArtifactsAreOwn
  PassIsEarned
  SuccessesExclude
  NeverOverBudget
  
CHECK_DEADLOCK FALSE
SYMMETRY Symmetry
