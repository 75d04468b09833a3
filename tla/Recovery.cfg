SPECIFICATION Spec
CONSTANTS
  p1 = p1
  p2 = p2
  w1 = w1
  w2 = w2
  Owners = {p1, p2}
  Workers = {w1, w2}
  Repairs = 2
  Installed = 1
  Since = 1
  MaxAge = 1
  MaxTime = 3
  BatchSize = 1
  MayLimit = FALSE
  Reports <- MCReports
  MaxReports = 2
  MaxLosses = 1
  MaxCalls = 3
  MaxFaults = 1
INVARIANTS CleanupSawEverything RecordsAreTrue ChangesAreRestorable
PROPERTIES FailureRestores
SYMMETRY MCSymmetry
CHECK_DEADLOCK FALSE
