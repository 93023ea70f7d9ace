\* Blocks of two to four registers and clusters.
CONSTANTS
  Blocks <- MCAllBlocks
  Elsewhere <- MCElsewhere
  Layouts <- MCLayouts
  BlockSizes <- MCBlockSizes
  MaxClusterSize = TRUE
SPECIFICATION PeripheralSpec
INVARIANTS
  BlockTypeOK
  OverlapsPartitioned
  MembersAtTheirAddress
  StructHasItsSize
  FailsOnlyOnBuriedProxies
  SizeIsChecked
  NamesUnique
  TypesThere
  TargetsThere
  SameContent
  FailsForAReason
  SizeIsEnd
