SPECIFICATION Spec
CONSTANTS
  x = x
  job = job
  exporter = exporter
  Features <- OneFeature
  N = 2
  RequireTestAndPsi = TRUE
  InvestigateOn <- Alerts
  RetrainOnPerformance = TRUE
  RetrainOnSustained = TRUE
  CliJobs <- OneJob
  Exporters <- OneExporter
  Samples <- AllSamples
  MaxWindows = 2
  MaxCounted = 3
INVARIANTS
  MonitorInvariant
  RetrainMatchesHistory
  ReportedIsCounted
CHECK_DEADLOCK FALSE
