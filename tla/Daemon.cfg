CONSTANTS
  a = a
  b = b
  p = p
  Nodes <- ThreeDevices
  Physical <- OnePhysical
  ChannelsOf <- Channels
  Candidates <- AskedAndRefused
  MaxRoute = 2
  MaxFaults = 1
  MaxPlugs = 1
  MaxCrashes = 1
SPECIFICATION Spec
INVARIANTS RouterNoFeedback AckedDurable SuccessIsReal RolledBack FileIsMemory BootRestores
