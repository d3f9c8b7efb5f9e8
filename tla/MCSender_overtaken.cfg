CONSTANTS
  w1 = w1
  w2 = w2
  Workers = {w1, w2}
  Sizes <- OneSize
  Resolutions <- MCResolutions
  Regions <- MCRegions
  MaxCaptures = 1
  Faults = {}
  BatchMax = 3
  MessageSize <- MCMessageSize
SYMMETRY WorkerSymmetry
SPECIFICATION Spec
INVARIANTS
  FullFrameAhead
