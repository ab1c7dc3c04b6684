SPECIFICATION Spec
CONSTANTS
  Children = {k1, k2}
  NoChild = NoChild
  MtxFaults = {}
INVARIANTS
  CleanedUpOnExit
CHECK_DEADLOCK FALSE
