CONSTANTS
  Versions = {1, 2}
  NoOntology = 0
  Sections = 2
  BatchSize = 1
  MaxTroubles = 2
SPECIFICATION FairSpec
INVARIANTS
  CheckpointsHaveGraphs
  OneOntology
  EditsAreUsed
PROPERTIES
  BuildCompletes
