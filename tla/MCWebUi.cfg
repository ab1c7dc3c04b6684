SPECIFICATION Spec
CONSTANTS
  Slots = {s1, s2, s3}
  MaxClicks = 2
  MaxOthers = 1
INVARIANTS
  ShowsWhatWasReported
PROPERTIES
  CatchesUp
