CONSTANTS
  Capacity = 16
  STARTUP_FRAMES = 2
  Channels = 3
  Unit = 4
  Steps = {4, 6}
  MaxDrift = 2
  FrameNumbers = 9
SPECIFICATION RouteSpec
INVARIANTS WholeNeighbours
PROPERTIES SmoothOrCounted
CHECK_DEADLOCK FALSE
