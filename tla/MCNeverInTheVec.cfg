\* The error of add().
CONSTANTS
  Layouts <- MCLayouts
  BlockSizes <- MCNoSize
  MaxClusterSize = FALSE
SPECIFICATION BlockSpec
INVARIANTS
  NeverInTheVec
