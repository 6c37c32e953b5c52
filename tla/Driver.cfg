CONSTANTS
  Threads = {t1, t2}
  Ids = {x, y}
  Shapes = {shape}
  MaxSlots = 2
  MaxDevices = 3
  MaxClients = 1
  MaxRestarts = 1
SPECIFICATION Spec
SYMMETRY Symmetry
INVARIANTS StorageIsInventory CreatedSurvive RunningIsActive AttachedKeepSlot ListedReachable NoSlotLeak DeletionHasOwner
