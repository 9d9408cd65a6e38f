CONSTANTS
  Agents = {"a", "b", "meta"}
  Configurations = {"v1", "v2"}
  NoConfiguration = "none"
  Phases <- ReviewPhases
  Mode <- ReviewMode
  Roster <- ReviewRoster
  MaxRounds <- ReviewRounds
  MinSuccessful <- ReviewMinimum
  NeedsPrevious = {}
  Synthesis = TRUE
  MaxConcurrency = 2
  MaxAttempts = 1
  FinalizeSession = TRUE
SPECIFICATION Spec
INVARIANT SamePrePhaseState
