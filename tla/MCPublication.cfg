CONSTANTS
  None = None  Torn = Torn
  ZeroPolicy = "allow"
  PartialNum = 0  PartialDen = 1
  Suppress = FALSE
  External = TRUE
  MaxRows = 1
  MaxRuns = 3
  MaxFaults = 3
  ReplacePolicy = "fail"  ReplaceNum = 1  ReplaceDen = 2  ReplaceRows = 2
  Key = {k1, k2}  Lookback = 1  BatchRows = 2  MaxTime = 3  MaxChanges = 4  MaxWindowFaults = 2
  Product = {x, y}  MaxPubs = 3  MaxHandoffFaults = 1
SPECIFICATION MCSpec
INVARIANT OnePublicationVisible
INVARIANT LastGoodNeverLost
INVARIANT ReplaceNeverServesTornTable
INVARIANT RestoredTableIsExact
INVARIANT CompletedIsWhole
INVARIANT CompletedIsDeclared
PROPERTY ImplementsServedSnapshot
SYMMETRY Symmetry
CHECK_DEADLOCK FALSE
