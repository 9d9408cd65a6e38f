CONSTANTS
  MaxRuns = 2
  Origins = {"batch"}
SPECIFICATION Spec
INVARIANT PapersOneAtATime
