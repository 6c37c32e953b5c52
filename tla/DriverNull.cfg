CONSTANTS
  Threads = {t1, t2}
  Ids = {x}
  Shapes = {shape}
  MaxSlots = 1
  MaxDevices = 2
  MaxClients = 1
  MaxRestarts = 1
SPECIFICATION PropertySpec
INVARIANT NoNullDevice
