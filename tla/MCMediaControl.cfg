SPECIFICATION Spec
CONSTANTS
  ctl = ctl
  Pushers = {video}
  Pipes = {p1, p2, p3}
  NoPipe = NoPipe
  NoThread = NoThread
  Faults <- MCFaults
  Children = {k1, k2}
  NoChild = NoChild
  MtxFaults <- MCMtxFaults
INVARIANTS
  OutputsFollowFlags
  CleanExit
PROPERTIES
  OutputsBegunAsAsked
  ServerOutlivesStream
  RepeatedStartHarmless
  CommandsAnswered
CHECK_DEADLOCK FALSE
