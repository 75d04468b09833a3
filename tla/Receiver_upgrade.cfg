SPECIFICATION FairSpec
CONSTANTS
  TargetCount = 3
  Pinned = {1, 2, 3}
  Commits = {1, 2}
  MaxAttempts = 2
  MaxStops = 2
  MaxFaults = 1
INVARIANTS MixedAsksForRecovery
PROPERTIES FinalRecordsAreTrue InstallerEnds
CHECK_DEADLOCK FALSE
