SPECIFICATION Spec
CONSTANTS
  x = x
  job = job
  exporter = exporter
  Features <- OneFeature
  N = 2
  RequireTestAndPsi = TRUE
  InvestigateOn <- Alerts
  RetrainOnPerformance = TRUE
  RetrainOnSustained = TRUE
  CliJobs <- OneJob
  Exporters <- NoExporter
  Samples <- WarnSamples
  MaxWindows = 1
  MaxCounted = 2
INVARIANT SustainedBeforeRetrain
CHECK_DEADLOCK FALSE
