SPECIFICATION PipelineSpec
CONSTANTS
  Apps <- MCApps
  Requires <- MCRequires
  PullRequests <- MCPullRequests
  Touches <- MCTouches
  Declares <- MCDeclares
  Repins <- MCRepins
  MaxReleases = 3
  MaxBuilds = 3
  MaxUpdates = 1
INVARIANTS ReleasesStand ChangesReleasedOnce OneReleaseAtATime
CHECK_DEADLOCK FALSE
