SPECIFICATION Spec
CONSTANTS
  base = base
  strong = strong
  weak = weak
  job1 = job1
  job2 = job2
  None = None
  Versions <- ThreeVersions
  Holdouts <- TwoSplits
  Passes <- GateOutcomes
  Jobs <- OneJob
  RegisterAliases = {"challenger"}
INVARIANT AuditTrail
