CONSTANTS
  Workflows = {"source", "preview"}
  Source = "source"
  MaxEvents = 4
  MaxTroubles = 1
SPECIFICATION FairSpec
INVARIANTS RecordsAreCurrent StaleMergeNeverReleased
PROPERTIES LabelSettles
CHECK_DEADLOCK FALSE
