SPECIFICATION FairSpec
CONSTANTS
  Cases <- MCCases
  Options <- MCOptions
  Threads = 2
  MaxRuns = 2
INVARIANTS
  RunnerTypeOK
  PassedMeansChecked
  LeftoversDoNoHarm
  StatusTellsOutcome
  GuardedManifestRestored
PROPERTY
  EveryRunEnds
