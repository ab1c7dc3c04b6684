SPECIFICATION Spec
CONSTANTS
  NoThread = NoThread
  MaxSignals = 1
  MoreFrames = 1
  Limits <- MCNoLimit
  HttpModes <- MCNoHttp
  LifeFaults <- MCNoFaults
PROPERTIES
  GracefulExit
CHECK_DEADLOCK FALSE
