CONSTANTS
  w1 = w1
  w2 = w2
  d1 = d1
  d2 = d2
  Workers = {w1}
  Decoders = {d1, d2}
  Sizes <- OneSize
  Resolutions <- MCResolutions
  Regions <- MCRegions
  MaxCaptures = 2
  Faults = {}
  Failures = {}
  BatchMax = 3
  MessageSize <- MCMessageSize
  ClientWidth = 2
  ClientHeight = 1
SYMMETRY ThreadSymmetry
SPECIFICATION MirrorSpec
INVARIANTS
  SettledDisplayMatches
