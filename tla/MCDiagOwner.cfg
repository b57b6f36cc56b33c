CONSTANTS
  o1 = o1
  o2 = o2
  g1 = g1
  g2 = g2
  g3 = g3
  NoOwner = NoOwner
  Owners <- MCOwners
  Guards <- MCGuards
  MaxCount = 4
  MaxActive = 3
  Threshold = 2
  MaxCalls = 6
SPECIFICATION Spec
INVARIANTS TypeOK ActiveCovers ContentionSeen CountsHonest ReportedOnce
SYMMETRY Interchangeable
CHECK_DEADLOCK FALSE
