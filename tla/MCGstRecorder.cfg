SPECIFICATION Spec
CONSTANTS
  Controllers = {c1, c2}
  Pushers = {video}
  Pipes = {p1, p2}
  NoPipe = NoPipe
  NoThread = NoThread
  Faults <- MCFaults
INVARIANTS
  FieldsAgree
  OneLivePipeline
  RefsExact
  EosBeforeTeardown
PROPERTIES
  StopEndsItsOwn
  ImplementsSession
  CallsReturn
CHECK_DEADLOCK TRUE
