SPECIFICATION Spec
CONSTANTS
  NO_FRAME_THRESHOLD = 3
  MaxFrames = 5
  MaxQuiet = 5
INVARIANTS
  EveryFrameCounted
  LostMeansStill
PROPERTIES
  ImplementsFrameWatch
  SilenceReported
