CONSTANTS
  a = a
  b = b
  p = p
  Nodes <- ThreeDevices
  Physical <- OnePhysical
  ChannelsOf <- Channels
  Candidates <- Asked
  MaxRoute = 3
  MaxFaults = 0
  MaxPlugs = 1
  MaxCrashes = 0
SPECIFICATION Spec
INVARIANT SavedRoutesAcyclic
