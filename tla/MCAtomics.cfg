\* The atomic operations on a register with a flag that is cleared by writing 1.
CONSTANTS
  Bits = {0, 1, 2}
  Contexts = {c1, c2}
  MaxCalls = 1
  OwnedRegisters = {}
  SharedRegisters <- MCShared
SPECIFICATION DeviceSpec
PROPERTIES
  AtomicsLeaveOthers
CHECK_DEADLOCK FALSE
