CONSTANTS
  Capacity = 4
  Target = 2
  Unit = 4
  MaxDrift = 2
  MaxSlice = 2
  FrameNumbers = 8
SPECIFICATION Spec
INVARIANTS FillCoversRing NoFrameLost UnderrunsCounted InterpolatesBetween
PROPERTIES PrimedDelivers KeepsDelivering
CHECK_DEADLOCK FALSE
