CONSTANTS
  Agents = {"a", "b", "c"}
  Configurations = {"v1"}
  NoConfiguration = "none"
  Phases <- PartialPhases
  Mode <- PartialMode
  Roster <- PartialRoster
  MaxRounds <- PartialRounds
  MinSuccessful <- PartialMinimum
  NeedsPrevious = {3}
  Synthesis = TRUE
  MaxConcurrency = 2
  MaxAttempts = 2
  FinalizeSession = FALSE
SPECIFICATION FairSpec
INVARIANTS
  CompletedPhasesFulfilled
  EachTurnOnce
  CallsAreBounded
PROPERTIES
  RunSettles
