SPECIFICATION Spec
CONSTANTS
  Grid = 4
  Bins = 2
  Deciles = 2
  Cutoffs <- TheCutoffs
  NaN = NaN
  None = None
  Policies <- SomePolicies
  Snapshots <- SomeSnapshots
  Splits = {1, 2}
  TestIds <- TheTestIds
  Models <- SomeModels
  Group <- TheGroup
  Runs = {r1, r2}
  MaxVersions = 2
SYMMETRY RunSymmetry
CHECK_DEADLOCK FALSE
INVARIANT UntouchedHoldout
PROPERTIES MovesAreMeasured 
