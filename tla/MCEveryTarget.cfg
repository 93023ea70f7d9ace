SPECIFICATION Spec
CONSTANTS
  Cases <- MCCases
  Options <- MCOptions
  Threads = 2
  MaxRuns = 2
INVARIANT EveryPassMeansChecked
