SPECIFICATION Spec
CONSTANTS
  BufferCount = 4
  Grants = {1, 2, 3, 4}
  NoBuffer = NoBuffer
  CapFaults <- MCCapFaults
INVARIANTS
  FrameStable
  NoBufferLost
  AllReleased
PROPERTIES
  FramesFlow
CHECK_DEADLOCK FALSE
