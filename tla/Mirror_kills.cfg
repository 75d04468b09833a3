SPECIFICATION Spec
CONSTANTS
  Workers = {w1, w2}
  Jobs = {j1, j2}
  Files = {f1}
  Nobody = Nobody
  MaxVersion = 2
  MaxRequests = 1
  MaxDeliveries = 2
  MaxRevisions = 2
  MaxAttempts = 2
  MaxInodes = 4
  MaxKills = 1
  MaxLosses = 0
  MaxFaults = 1
SYMMETRY Symmetry
INVARIANTS PayloadsAreIntact OneJobRuns
PROPERTIES EndedNeverRuns
