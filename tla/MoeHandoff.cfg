SPECIFICATION Spec
CONSTANTS
  NumWorkers = 2
  NumLayers = 2
  Mode = "option_c"
  Rewinds = FALSE
  MaxSeq = 3
  MaxSteps = 3
INVARIANTS HandoffInv
PROPERTIES ImplementsMoe FiresIntoFreeMailbox StagingIsStable StepEnds
