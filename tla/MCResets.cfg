\* reset() and write() on registers with flags.
CONSTANTS
  Bits = {0, 1, 2}
  Contexts = {c1}
  MaxCalls = 1
  OwnedRegisters <- MCOwned
  SharedRegisters = {}
SPECIFICATION DeviceSpec
PROPERTIES
  InitialStateRestored
CHECK_DEADLOCK FALSE
