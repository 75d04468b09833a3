SPECIFICATION Spec
CONSTANTS
  MaxVersions = 2
  MaxPreflights = 1
  MaxEvents = 2
INVARIANTS DeployedAsApproved NothingIsSentTwice
PROPERTIES AuthorizesTheNewest
CHECK_DEADLOCK FALSE
