SPECIFICATION MCSpec
CONSTANTS
  r1 = r1
  r2 = r2
  c1 = c1
  c2 = c2
  None = None
  Runs <- TwoRuns
  Commits <- TwoCommits
  Dispatches <- SomeDispatches
  KeepLast = 1
  MaxPolls = 1
  MaxCommands = 3
  MaxPackages = 2
INVARIANTS
  PipelineInvariant
  PackageImageIsTheTrainedOne
  PackageIsMeasured
  ApprovedWasServed
  ProductionWasAskedFor
PROPERTIES
  TrainingWaitEnds
CHECK_DEADLOCK FALSE
