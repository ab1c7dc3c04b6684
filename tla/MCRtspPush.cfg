SPECIFICATION Spec
CONSTANTS
  NoPid = NoPid
  MaxSignals = 3
  PushFaults <- MCPushFaults
INVARIANTS
  ChildrenGone
  OnePublisher
  CleanupWaitsForKilled
PROPERTIES
  ScriptEnds
  FallbackStops
CHECK_DEADLOCK FALSE
