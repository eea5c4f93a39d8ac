SPECIFICATION ReadersSpec
CONSTANTS
  Model = {current, risk}
  ProductId = {p1, p2}
  None = None
  MaxEdits = 2
  MaxExports = 2
  Moments = {0, 20, 28, 35, 40, 50}
  Hours = 4
  MaxWatchFaults = 1
CHECK_DEADLOCK FALSE
INVARIANTS
  ValidatedTreeExports
  ExportedIsServed
  ConventionsAreLocked
  NormalIsQuiet
PROPERTY MissedCycleIsReported
