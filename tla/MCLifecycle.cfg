SPECIFICATION Spec
CONSTANTS
  NoThread = NoThread
  MaxSignals = 1
  MoreFrames = 1
  Limits <- MCLimits
  HttpModes <- MCBoth
  LifeFaults <- MCFaults
INVARIANTS
  ListenerServes
  NoEarlyEnd
  TeardownIsAlone
  NoLateShutdown
PROPERTIES
  EndsUnlessHeld
  LimitEnds
CHECK_DEADLOCK FALSE
