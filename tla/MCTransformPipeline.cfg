SPECIFICATION Spec
CONSTANTS
  p1 = p1
  Run <- MCRun
  IssueOf <- MCIssueOf
  Product <- MCProduct
  LastHour = 1
  MaxFaults = 1
INVARIANTS
  NoRace
  AnnouncedGoldIsPinned
  
