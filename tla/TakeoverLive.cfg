\* Three connections that arrive one by one (LiveSpec names the bounds).
CONSTANTS
  Session = {1, 2, 3}
  None = None
SPECIFICATION LiveSpec
PROPERTIES
  SupersededWaiterEnds
  DisconnectInLoopEnds
  ClaimIsDecided
  EndedSessionIsForgotten
  HalfOpenIsDropped
\* Every connection may end and no further one arrive.
CHECK_DEADLOCK FALSE
