SPECIFICATION SafeSpec
CONSTANTS
  ctl = ctl
  Pushers = {}
  Pipes = {p1, p2, p3}
  NoPipe = NoPipe
  NoThread = NoThread
  Faults = {"build"}
  Children = {k1, k2}
  NoChild = NoChild
  MtxFaults = {}
INVARIANTS
  StatusTellsRecording
CHECK_DEADLOCK FALSE
