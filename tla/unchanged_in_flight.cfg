SPECIFICATION Spec
CONSTANTS
  good = good
  better = better
  broken = broken
  job1 = job1
  None = None
  Packages <- TwoPackages
  Healthy <- GoodOnes
  Runs <- OneRun
  RequireApproved = TRUE
  StageGuards <- NoGuards
  MaxPolls = 0
INVARIANT ReportedReleaseStays
