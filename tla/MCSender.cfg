CONSTANTS
  w1 = w1
  w2 = w2
  Workers = {w1, w2}
  Sizes <- TwoSizes
  Resolutions <- MCResolutions
  Regions <- MCRegions
  MaxCaptures = 2
  Faults = {"capture", "encode", "alloc", "peer"}
  BatchMax = 3
  MessageSize <- MCMessageSize
SYMMETRY WorkerSymmetry
SPECIFICATION Spec
INVARIANTS
  TypeOK
  BatchBounded
  NothingVanishes
  OneOwner
  QueuesOrdered
  NoUseAfterFree
PROPERTIES
  ImplementsUpdateStream
