\* Blocks of a register and an array with gaps.
CONSTANTS
  Blocks <- MCGappedBlocks
  Elsewhere <- MCElsewhere
  MaxClusterSize = FALSE
SPECIFICATION ItemsSpec
INVARIANT ClusterSizeIsEnd
