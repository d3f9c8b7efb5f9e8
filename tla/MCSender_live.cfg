CONSTANTS
  w1 = w1
  w2 = w2
  Workers = {w1}
  Sizes <- TwoSizes
  Resolutions <- MCResolutions
  Regions <- MCRegions
  MaxCaptures = 2
  Faults = {"capture", "alloc", "peer", "spawn", "stall"}
  BatchMax = 3
  MessageSize <- MCMessageSize
SPECIFICATION FairSpec
INVARIANTS
  UpdatesInOrder
  FullFrameAhead
PROPERTIES
  EverythingSent
  ShutdownCompletes
