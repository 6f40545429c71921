SPECIFICATION OneHandlerSpec
CONSTANTS
  Caller <- TwoServers
  Waiter = {w1, w2}
  Slots = 1
  IdLimit = 3
  Operation <- AllOperations
  Status = {"success", "error"}
  None = None
  C = C
  D = D
  Drive = {C, D}
  DeviceLists <- BothOrEach
  MaxChunks = 1
  MaxRequests = 2
PROPERTIES NoServerLost
SYMMETRY WaiterSymmetry
INVARIANTS FilesClosed ThreadsHaveServer DriveInv
CHECK_DEADLOCK FALSE
