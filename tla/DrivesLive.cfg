SPECIFICATION DriveLiveSpec
CONSTANTS
  Caller <- OneServer
  Waiter = {w1, w2}
  Slots = 1
  IdLimit = 3
  Operation <- AllOperations
  Status = {"success", "error"}
  None = None
  C = C
  D = D
  Drive = {C}
  DeviceLists <- JustOne
  MaxChunks = 1
  MaxRequests = 3
PROPERTIES JobEnds ContextIsFreed
CHECK_DEADLOCK FALSE
