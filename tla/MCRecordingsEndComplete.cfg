SPECIFICATION Spec
CONSTANTS
  ctl = ctl
  Pushers = {video}
  Pipes = {p1, p2, p3}
  NoPipe = NoPipe
  NoThread = NoThread
  Faults = {}
  Children = {k1, k2}
  NoChild = NoChild
  MtxFaults = {}
PROPERTIES
  RecordingsEndComplete
CHECK_DEADLOCK FALSE
