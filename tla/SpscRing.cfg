CONSTANTS
  Samples = {s0, s1}
  Silence = s0
  Capacity = 4
  IndexModulus = 8
  MaxSlice = 2
SPECIFICATION Spec
INVARIANTS
  NoDataRace
PROPERTIES
  PushHonoursAvailable
  PopHonoursAvailable
  ImplementsFifo
