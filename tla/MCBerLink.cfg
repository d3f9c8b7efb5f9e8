CONSTANTS
  ChunkSize = 4
  SearchLimit = 2
  LinkTypes <- MCLinkTypes
  MaxChunks = 4
  MaxFaults = 2
  MaxBurst = 2
  SpawnMayFail = TRUE
SPECIFICATION FairBerSpec
INVARIANTS
  CountsAreDeserved
PROPERTIES
  IntactChunkRealigns
  BerEnds
CHECK_DEADLOCK FALSE
