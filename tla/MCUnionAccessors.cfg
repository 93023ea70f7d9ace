\* The accessors of the registers that a union stands for.
CONSTANTS
  Layouts <- MCLayouts
  BlockSizes <- MCNoSize
  MaxClusterSize = FALSE
SPECIFICATION BlockSpec
INVARIANTS
  UnionMembersAtTheirAddress
