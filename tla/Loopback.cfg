CONSTANTS
  RingFrames = 3
  Latency = 1
  inputChannels = 3
  outputChannels = 2
  MaxCall = 2
  MaxFrame = 4
  MaxClients = 2
  MaxSessions = 2
SPECIFICATION Spec
INVARIANTS HearsThatFrame PublishedHeard
