SPECIFICATION MCSpec
CONSTANTS
  base = base
  strong = strong
  weak = weak
  job1 = job1
  job2 = job2
  None = None
  Versions <- ThreeVersions
  Holdouts <- TwoSplits
  Passes <- GateOutcomes
  Jobs <- TwoJobs
  RegisterAliases = {"challenger"}
SYMMETRY JobSymmetry
INVARIANTS
  AliasesAreEarned
  EarnedInvariant
  SerialInvariant
  CompletedPromotion
  ChampionIsTaggedPromote
PROPERTIES
  ChampionNeverLost
  ImplementsChampionRegistry
