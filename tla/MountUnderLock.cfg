SPECIFICATION DriveSpec
CONSTANTS
  Caller <- OneServer
  Waiter = {w1, w2}
  Slots = 1
  IdLimit = 3
  Operation <- AllOperations
  Status = {"success", "error"}
  None = None
  C = C
  D = D
  Drive = {C}
  DeviceLists <- JustOne
  MaxChunks = 0
  MaxRequests = 0
SYMMETRY WaiterSymmetry
INVARIANTS MountNotBlocked
CHECK_DEADLOCK FALSE
