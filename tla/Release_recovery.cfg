SPECIFICATION Spec
CONSTANTS
  MaxRuns = 4
  MaxEvents = 1
INVARIANTS ReviewedIsDeployed ApprovalIsSpentOnce
PROPERTIES SupersededNeverPasses
CHECK_DEADLOCK FALSE
