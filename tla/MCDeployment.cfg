SPECIFICATION MCSpec
CONSTANTS
  Sha = {s1, s2}
  Baseline = baseline
  Mixed = mixed
  Dag = {d1, d2}
  Writer = {d1}
  MaxFaults = 3
  none = none
  Table = {1, 2}
  Retention <- MCRetention
  MaxDay = 2
  MaxSnapshots = 3
  MaxReads = 2
  MaxUpkeepFaults = 2
INVARIANTS UnpausedRunsProven
PROPERTIES OutcomeIsTrue DeploymentEnds ReaderKeepsItsSnapshot
CHECK_DEADLOCK FALSE
