SPECIFICATION FairSpec
CONSTANTS
  good = good
  better = better
  broken = broken
  job1 = job1
  None = None
  Packages <- ThreePackages
  Healthy <- TwoGood
  Runs <- OneRun
  RequireApproved = TRUE
  StageGuards <- Production
  MaxPolls = 1
INVARIANTS
  StageInvariant
  ApprovedReleases
  NoDanglingReference
  ReleaseTakesEffect
  RollbackRestores
  RollbackIsPossible
  TeardownRemovesAll
PROPERTY EveryCommandEnds
