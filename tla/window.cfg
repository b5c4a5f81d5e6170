SPECIFICATION Spec
CONSTANTS
  Grid = 4
  Bins = 2
  Deciles = 2
  Cutoffs <- TheCutoffs
  NaN = NaN
  None = None
  amount = amount
  region = region
  channel = channel
  Features <- TheFeatures
  QuantileBins = 2
  Rules <- TheRules
  PScale = 20
  Files <- AllFiles
  BaselineFiles <- SomeBaselines
  Labels <- SomeLabels
  Windows <- TheWindows
  AsOf <- TheDates
  PValues <- SomePValues
  Threshold = 4
  MinLabels = 2
  MaxLabels = 3
CHECK_DEADLOCK FALSE
INVARIANTS MetricsMeetDefinitions UnusableFeatureIsReported UsableValuesAreCounted AdjustedIsStepUp LabelsAreCurrent
