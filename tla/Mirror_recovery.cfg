SPECIFICATION FairSpec
CONSTANTS
  Workers = {w1, w2}
  Jobs = {j1, j2}
  Files = {f1}
  Nobody = Nobody
  MaxVersion = 1
  MaxRequests = 0
  MaxDeliveries = 2
  MaxRevisions = 1
  MaxAttempts = 1
  MaxInodes = 3
  MaxKills = 1
  MaxLosses = 1
  MaxFaults = 1
PROPERTY OrphansRecovered
