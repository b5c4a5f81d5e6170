SPECIFICATION Spec
CONSTANTS
  r1 = r1
  r2 = r2
  c1 = c1
  c2 = c2
  None = None
  Runs <- TwoRuns
  Commits <- TwoCommits
  Dispatches <- SomeDispatches
  KeepLast = 1
  MaxPolls = 1
  MaxCommands = 2
  MaxPackages = 2
INVARIANT ApprovedAnsweredItsSmoke
CHECK_DEADLOCK FALSE
