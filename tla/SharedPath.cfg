SPECIFICATION DriveSpec
CONSTANTS
  Caller <- TwoServers
  Waiter = {w1, w2}
  Slots = 2
  IdLimit = 4
  Operation <- AllOperations
  Status = {"success", "error"}
  None = None
  C = C
  D = D
  Drive = {C, D}
  DeviceLists <- BothOrEach
  MaxChunks = 0
  MaxRequests = 2
SYMMETRY WaiterSymmetry
PROPERTIES CreateCarriesOwnPath
CHECK_DEADLOCK FALSE
