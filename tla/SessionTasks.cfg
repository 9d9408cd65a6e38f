CONSTANTS
  MaxRuns = 3
  Origins = {"upload", "batch", "import", "kernel"}
SPECIFICATION FairSpec
INVARIANTS
  IdleIsSettled
  ControlsAreOfLiveRuns
  LiveRunIsRegistered
  StopIsFinal
PROPERTIES
  RunsEndWhenTold
