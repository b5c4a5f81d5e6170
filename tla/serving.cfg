SPECIFICATION Spec
CONSTANTS
  mixed = mixed
  single = single
  w = w
  Texts = {"0", "1", "true", "yes", "null", "none"}
  Files <- TwoFiles
  Cells <- TheCells
  Hypers <- SomeHypers
  MaxRuns = 2
  Workers <- OneWorker
  Packages <- SomePackages
  Requests <- SomeRequests
INVARIANTS
  ServingInvariant
  ServedModelMatchesItsMetadata
  SuccessIsLoadable
  FailureIsExplained
  RequestsAreAccounted
PROPERTIES
  ImplementsPublishedModels
  ServingSettles
CHECK_DEADLOCK FALSE
