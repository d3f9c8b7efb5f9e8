CONSTANTS
  t1 = t1
  t2 = t2
  ScreenSizes = {"small", "large"}
  MaxVersions = 2
  CaptureBackends = {"gdi", "dxgi"}
  CodecThreads = {t1, t2}
  CodecBackends = {"windows", "c"}
  Pictures <- MCPictures
  Chunks = {3, 8}
  MaxWritten = 16
  FirstCapacity = 4
  Word = 16
  MaxCalls = 3
SYMMETRY ThreadSymmetry
SPECIFICATION MediaSpec
INVARIANTS
  NothingLeaks
  CallsUseWhatTheyHold
  CapturedIsCurrent
  HandlesBalance
  GdiplusUsedWhileUp
  PictureFits
  PictureIsWhole
