\* One write or modify, with two calls, of each register of the menu.
CONSTANTS
  Bits = {0, 1, 2, 3, 4, 5, 6, 7}
  Descriptions <- MCDescriptions
  MaxCalls = 2
  Window = 4
SPECIFICATION Spec
INVARIANTS
  ItemsResolve
  CallsTakeEffect
  VariantsFaithful
  SafeCallsInLimit
PROPERTY CallsStayInField
