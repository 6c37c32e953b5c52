CONSTANTS
  d1 = d1
  d2 = d2
  d3 = d3
  Devices = {d1, d2, d3}
  Lists <- MCLists
  Outgoing <- MCOutgoing
  Incoming <- MCIncoming
  Patterns <- MCPatterns
  Channels = 2
  MaxFrames = 2
SPECIFICATION IoSpec
INVARIANTS NoDanglingProc NoStrayAccess 
