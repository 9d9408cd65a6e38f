CONSTANTS
  Main = "main"
  Panel = {"r1", "r2", "r3"}
  MaxConcurrency = 2
  StepsBefore = 2
  CallsEach = 2
  StepsAfter = 1
SPECIFICATION FairSpec
PROPERTIES
  OneStopPerAdvance
  PauseTakesHold
  NoWorkAfterCancel
  CancelledPipelineEnds
  AnsweredPipelineEnds
CHECK_DEADLOCK FALSE
