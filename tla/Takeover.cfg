\* Three connections: a takeover chain with an active session, a waiting
\* successor and a third client that supersedes the successor.
CONSTANTS
  Session = {s1, s2, s3}
  None = None
SPECIFICATION Spec
SYMMETRY SessionSymmetry
INVARIANTS
  TypeOK
  AtMostOneDisplay
  OwnersInClaimOrder
  FlagCoversClaim
  OneWaiterPerSession
  NoWaitCycle
  ClaimOrderInv
PROPERTIES
  OnlySuccessorDisconnects
  KeepsPromise
\* Every connection may end and no further one arrive.
CHECK_DEADLOCK FALSE
