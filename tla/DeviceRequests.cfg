SPECIFICATION Spec
CONSTANTS
  Caller = {c1, c2, c3}
  Waiter = {w1, w2, w3, w4}
  Slots = 2
  IdLimit = 4
  Operation = {read}
  Status = {success}
  None = None
SYMMETRY RequestSymmetry
INVARIANTS TypeOK WaiterLifetime RequestInv
PROPERTIES CallsKeepPromise
CONSTRAINTS UntilReuse PayloadThere
