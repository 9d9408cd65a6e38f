CONSTANTS
  MaxRuns = 2
  Origins = {"upload"}
SPECIFICATION Spec
INVARIANT EveryRunIsReachable
