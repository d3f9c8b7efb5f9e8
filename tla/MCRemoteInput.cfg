CONSTANTS
  Positions <- MCPositions
  ClientWidth = 2
  FrameWidth = 4
  ScreenWidth = 4
  Buttons = {"left"}
  Keys = {"alt"}
  MaxWaiting = 2
  MaxFaults = 1
SPECIFICATION FairInputSpec
INVARIANTS
  ReleasedEverywhere
  ClicksLand
PROPERTIES
  DamageIsBounded
  ReleasesArrive
CHECK_DEADLOCK FALSE
