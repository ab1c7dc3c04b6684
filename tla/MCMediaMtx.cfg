SPECIFICATION Spec
CONSTANTS
  Children = {k1, k2, k3}
  NoChild = NoChild
  MtxFaults <- MCMtxFaults
INVARIANTS
  KillsOwnChild
  FailedStartLeavesNoChild
  OneServerAtMost
  OwnsTheRunningChild
  WaitsForKilled
PROPERTIES
  MtxCallsReturn
CHECK_DEADLOCK FALSE
