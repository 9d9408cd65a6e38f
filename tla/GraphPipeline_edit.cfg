CONSTANTS
  Versions = {1, 2}
  NoOntology = 0
  Sections = 3
  BatchSize = 2
  MaxTroubles = 0
SPECIFICATION Spec
INVARIANT GraphFitsItsOntology
