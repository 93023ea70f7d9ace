\* Crates of two or three peripherals, built with every set of features, and a
\* program of two contexts on one of them.
CONSTANTS
  Devices <- MCDevices
  Configs <- MCConfigs
  Programs <- MCPrograms
  Bits = {0, 1, 2}
  Contexts = {c1, c2}
  MaxCalls = 1
  OwnedRegisters <- MCOwned
  SharedRegisters <- MCShared
SPECIFICATION UseSpec
INVARIANTS
  VectorsInPlace
  HandlersHaveDefaults
  NumbersConvert
  TypesResolve
  EnabledIsMember
  EveryItemCanBeBuilt
  UnlockInReach
  ProtectionResolves
  PerTypeOK
  TakenOnce
  NoneWhenLate
  NoneOnlyIfGone
  RegTypeOK
  OneAtATime
  
PROPERTIES
  KeepsContract
  TakeReturns
