CONSTANTS
  Frames <- SmallFrames
  TileSizes = {1, 2, 3, 5, 7}
  Word = 8
SPECIFICATION ScanSpec
INVARIANTS
  RegionsAreDisjoint
  CoversChanges
  ComputesMergedRegions
