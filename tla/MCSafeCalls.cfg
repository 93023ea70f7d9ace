\* set() and the methods of the variants, with every way to limit the values.
CONSTANTS
  Bits = {0, 1, 2, 3, 4, 5, 6, 7}
  Descriptions <- MCDescriptions
  MaxCalls = 1
  Window = 4
SPECIFICATION Spec
INVARIANT
  SafeCallsAllowed
